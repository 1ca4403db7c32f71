---------------------------- MODULE DBImplProofs ----------------------------
(***************************************************************************)
(* Theorems about DBImpl.  The queue of writers is the first: the code    *)
(* keeps the log and the memtable to one thread not with a lock, which is *)
(* released for the time of the write, but by having every writer but the *)
(* head of the queue sleep.                                                *)
(***************************************************************************)
EXTENDS DBImpl, FiniteSetTheorems, WellFoundedInduction, TLAPS

\* Every set of naturals that is not empty has a least element: induction, for
\* what sequences of every length satisfy.
LEMMA LeastNatural == ASSUME NEW T \in SUBSET Nat, T # {} PROVE \E m \in T : \A k \in T : m <= k
<1> PICK n \in T : TRUE
    OBVIOUS
<1> DEFINE U == {0 .. k : k \in {x \in T : x <= n}}
<1>1. U \subseteq FiniteSubsetsOf(0 .. n)
  <2>1. \A k \in T : k <= n => 0 .. k \subseteq 0 .. n /\ IsFiniteSet(0 .. k)
      BY FS_Interval
  <2> QED BY <2>1 DEF FiniteSubsetsOf
<1>2. 0 .. n \in U
    OBVIOUS
<1>3. IsWellFoundedOn(StrictSubsetOrdering(0 .. n), FiniteSubsetsOf(0 .. n))
    BY FS_StrictSubsetOrderingWellFounded
<1>4. PICK S \in U : \A V \in U : ~ (<<V, S>> \in StrictSubsetOrdering(0 .. n))
    BY <1>1, <1>2, <1>3, WFMin
<1>5. PICK m \in T : m <= n /\ S = 0 .. m
    BY <1>4
<1>6. \A k \in T : m <= k
  <2> SUFFICES ASSUME NEW k \in T, k < m PROVE FALSE
      OBVIOUS
  <2>1. 0 .. k \in U /\ 0 .. k \subseteq 0 .. m /\ 0 .. k # 0 .. m /\ 0 .. k \subseteq 0 .. n /\ 0 .. m \subseteq 0 .. n
    <3>1. m \in 0 .. m /\ m \notin 0 .. k
        OBVIOUS
    <3> QED BY <1>5, <3>1
  <2> QED BY <1>4, <1>5, <2>1 DEF StrictSubsetOrdering
<1> QED BY <1>6

\* Max and Min of FiniteSetsExt are what they are named for on sets of naturals with
\* a bound.
LEMMA MaxOfNaturals ==
    ASSUME NEW n \in Nat, NEW T \in SUBSET (0 .. n), T # {}
    PROVE  Max(T) \in T /\ \A k \in T : k <= Max(T)
<1>1. PICK d \in {n - k : k \in T} : \A k \in {n - k : k \in T} : d <= k
  <2>1. {n - k : k \in T} \in SUBSET Nat /\ {n - k : k \in T} # {}
      OBVIOUS
  <2> QED BY <2>1, LeastNatural
<1>2. PICK m \in T : d = n - m
    BY <1>1
<1>3. \A k \in T : k <= m
  <2> SUFFICES ASSUME NEW k \in T PROVE k <= m
      OBVIOUS
  <2>1. d <= n - k
      BY <1>1
  <2> QED BY <1>2, <2>1
<1>4. \E x \in T : \A y \in T : x >= y
    BY <1>3
<1> QED BY <1>4 DEF Max

\* A queue is empty when nothing is in it.
LEMMA EmptySequence == ASSUME NEW T, NEW q \in Seq(T) PROVE (q # <<>> <=> Len(q) # 0) /\ Len(q) \in Nat
OBVIOUS

\* A sequence of at most one element that is not empty holds one.
LEMMA OnlyElement ==
    ASSUME NEW T, NEW q \in Seq(T), q # <<>>, Len(q) <= 1
    PROVE  Len(q) = 1 /\ DOMAIN q = {1} /\ q[1] \in T
<1>1. Len(q) # 0 /\ Len(q) \in Nat
    BY EmptySequence
<1>2. Len(q) = 1
  <2>1. \A l \in Nat : l # 0 /\ l <= 1 => l = 1
      OBVIOUS
  <2> QED BY <1>1, <2>1
<1>3. q \in [1 .. Len(q) -> T] /\ 1 \in 1 .. 1 /\ 1 .. 1 = {1}
    OBVIOUS
<1> QED BY <1>2, <1>3

-----------------------------------------------------------------------------
Pcs == {"idle", "queue", "front", "room", "log", "logged"}
WriterRecord == [pc : Pcs, kind : {"sync", "async", "null"}, op : Nat,
                 error : {"none", "append", "sync"}]
Writing == {"log", "logged"}

\* The queue holds the threads in Write, each once.  All of it but its head sleeps;
\* when the head writes, its group is a prefix of the queue, else there is no group.
QueueTypeOK ==
    /\ ops \in Nat
    /\ writer \in [Writers -> WriterRecord]
    /\ queue \in Seq(Writers) /\ group \in Seq(Writers)
QueuedOnce == \A i, j \in 1 .. Len(queue) : queue[i] = queue[j] => i = j
QueuedAreBusy == \A w \in Writers : writer[w].pc # "idle" => \E i \in 1 .. Len(queue) : w = queue[i]
OthersSleep == \A i \in 2 .. Len(queue) : writer[queue[i]].pc = "queue"
HeadIsAwake == queue # <<>> => writer[queue[1]].pc \in {"front", "room", "log", "logged"}
GroupOfHead ==
    IF queue # <<>> /\ writer[queue[1]].pc \in Writing
    THEN Len(group) \in 1 .. Len(queue) /\ \A i \in 1 .. Len(group) : group[i] = queue[i]
    ELSE group = <<>>
WritersInv ==
    QueueTypeOK /\ QueuedOnce /\ QueuedAreBusy /\ OthersSleep /\ HeadIsAwake /\ GroupOfHead

\* Whoever is awake is the head of the queue.
LEMMA AwakeIsHead ==
    ASSUME WritersInv, NEW w \in Writers, writer[w].pc \notin {"idle", "queue"}
    PROVE  queue # <<>> /\ w = queue[1] /\ Len(queue) \in Nat \ {0}
<1>1. PICK i \in 1 .. Len(queue) : w = queue[i]
    BY DEF WritersInv, QueuedAreBusy
<1>2. i = 1
    BY <1>1 DEF WritersInv, OthersSleep, QueueTypeOK
<1> QED BY <1>1, <1>2 DEF WritersInv, QueueTypeOK

\* What the queue is after the first k writers left it.
LEMMA RestOfQueue ==
    ASSUME WritersInv, NEW k \in 1 .. Len(queue), queue' = SubSeq(queue, k + 1, Len(queue))
    PROVE  /\ queue' \in Seq(Writers) /\ Len(queue') = Len(queue) - k /\ Len(queue) \in Nat
           /\ \A i \in 1 .. Len(queue') : queue'[i] = queue[i + k] /\ i + k \in 1 .. Len(queue)
           /\ (queue' # <<>> <=> Len(queue) > k)
<1>1. queue \in Seq(Writers) /\ Len(queue) \in Nat
    BY DEF WritersInv, QueueTypeOK
<1>2. Len(queue') = Len(queue) - k
    BY <1>1
<1>3. ASSUME NEW i \in 1 .. Len(queue') PROVE queue'[i] = queue[i + k] /\ i + k \in 1 .. Len(queue)
    BY <1>1, <1>2
<1>4. queue' \in Seq(Writers)
    BY <1>1
<1>5. \A q \in Seq(Writers) : q # <<>> <=> Len(q) # 0
    OBVIOUS
<1>6. queue' # <<>> <=> Len(queue) > k
  <2>1. queue' # <<>> <=> Len(queue') # 0
      BY <1>4, <1>5, Zenon
  <2>2. Len(queue') # 0 <=> Len(queue) > k
      BY <1>1, <1>2
  <2> QED BY <2>1, <2>2, Zenon
<1> QED BY <1>1, <1>2, <1>3, <1>4, <1>6

\* The group leaves the queue and the next writer wakes up (the end of DBImpl::Write).
LEMMA AnswerKeeps ==
    ASSUME WritersInv, NEW g \in Seq(Writers), NEW ok \in BOOLEAN, Answer(g, ok), ops' = ops,
           Len(g) \in 1 .. Len(queue), \A i \in 1 .. Len(g) : g[i] = queue[i]
    PROVE  WritersInv'
<1> DEFINE k == Len(g)
<1>1. /\ queue' = SubSeq(queue, k + 1, Len(queue)) /\ group' = <<>>
      /\ \A w \in Writers : writer'[w] = IF w \in ToSet(g) THEN NoWriter
                                         ELSE IF queue' # <<>> /\ w = Head(queue')
                                         THEN [writer[w] EXCEPT !.pc = "front"] ELSE writer[w]
      /\ writer' = [w \in Writers |-> writer'[w]]
    BY DEF Answer
<1>2. /\ queue' \in Seq(Writers) /\ Len(queue') = Len(queue) - k /\ Len(queue) \in Nat
      /\ \A i \in 1 .. Len(queue') : queue'[i] = queue[i + k] /\ i + k \in 1 .. Len(queue)
      /\ (queue' # <<>> <=> Len(queue) > k)
    BY <1>1, RestOfQueue
<1>3. \A w : w \in ToSet(g) <=> \E i \in 1 .. k : w = queue[i]
    BY DEF ToSet
<1> HIDE DEF k
<1>4. \A i \in 1 .. Len(queue') : queue'[i] \in Writers /\ queue'[i] \notin ToSet(g)
    BY <1>2, <1>3 DEF WritersInv, QueuedOnce, k
<1>5. QueueTypeOK'
  <2>1. \A w \in Writers : writer'[w] \in WriterRecord
    <3> SUFFICES ASSUME NEW w \in Writers PROVE writer'[w] \in WriterRecord
        OBVIOUS
    <3>0. writer[w] \in WriterRecord
        BY DEF WritersInv, QueueTypeOK
    <3>1. [writer[w] EXCEPT !.pc = "front"] \in WriterRecord
        BY <3>0 DEF WriterRecord, Pcs
    <3>2. NoWriter \in WriterRecord
        BY DEF NoWriter, WriterRecord, Pcs
    <3> QED BY <1>1, <3>0, <3>1, <3>2
  <2> QED BY <1>1, <1>2, <2>1 DEF WritersInv, QueueTypeOK
<1>6. QueuedOnce'
  <2> SUFFICES ASSUME NEW i \in 1 .. Len(queue'), NEW j \in 1 .. Len(queue'), queue'[i] = queue'[j]
               PROVE  i = j
      BY DEF QueuedOnce
  <2>1. queue[i + k] = queue[j + k] /\ i + k \in 1 .. Len(queue) /\ j + k \in 1 .. Len(queue)
      BY <1>2
  <2>2. i + k = j + k
      BY <2>1 DEF WritersInv, QueuedOnce
  <2> QED BY <2>2 DEF k
<1>7. ASSUME NEW i \in 1 .. Len(queue')
      PROVE  writer'[queue'[i]].pc = IF i = 1 THEN "front" ELSE "queue"
  <2>1. queue'[i] \in Writers /\ queue'[i] \notin ToSet(g) /\ queue' # <<>> /\ Head(queue') = queue'[1]
      BY <1>2, <1>4
  <2>2. writer[queue'[i]] \in WriterRecord
      BY <2>1 DEF WritersInv, QueueTypeOK
  <2>3. CASE i = 1
    <3>1. writer'[queue'[i]] = [writer[queue'[i]] EXCEPT !.pc = "front"]
        BY <1>1, <2>1, <2>3
    <3> QED BY <2>2, <2>3, <3>1 DEF WriterRecord
  <2>4. CASE i # 1
    <3>1. queue'[i] # queue'[1] /\ i + k \in 2 .. Len(queue) /\ queue'[i] = queue[i + k]
        BY <1>2, <1>6, <2>4 DEF QueuedOnce, k
    <3>2. writer'[queue'[i]] = writer[queue'[i]]
        BY <1>1, <2>1, <3>1
    <3> QED BY <2>4, <3>1, <3>2 DEF WritersInv, OthersSleep
  <2> QED BY <2>3, <2>4
<1>8. QueuedAreBusy'
  <2> SUFFICES ASSUME NEW w \in Writers, writer'[w].pc # "idle" PROVE \E i \in 1 .. Len(queue') : w = queue'[i]
      BY DEF QueuedAreBusy
  <2>1. w \notin ToSet(g)
      BY <1>1 DEF NoWriter
  <2>2. CASE queue' # <<>> /\ w = Head(queue')
      BY <1>2, <2>2
  <2>3. CASE ~(queue' # <<>> /\ w = Head(queue'))
    <3>1. PICK j \in 1 .. Len(queue) : w = queue[j]
        BY <1>1, <2>1, <2>3 DEF WritersInv, QueuedAreBusy
    <3>2. j > k
        BY <1>3, <2>1, <3>1 DEF k
    <3>3. j - k \in 1 .. Len(queue') /\ (j - k) + k = j
        BY <1>2, <3>2 DEF k
    <3> QED BY <1>2, <3>1, <3>3
  <2> QED BY <2>2, <2>3
<1>9. OthersSleep'
    BY <1>2, <1>7 DEF OthersSleep
<1>10. HeadIsAwake' /\ GroupOfHead'
  <2>1. queue' # <<>> => 1 \in 1 .. Len(queue') /\ writer'[queue'[1]].pc = "front"
      BY <1>2, <1>7
  <2> QED BY <1>1, <2>1 DEF HeadIsAwake, GroupOfHead, Writing
<1> QED BY <1>5, <1>6, <1>8, <1>9, <1>10 DEF WritersInv

\* The head of the queue goes from one state to another; group as the new one asks.
LEMMA HeadStepKeeps ==
    ASSUME WritersInv, NEW w \in Writers, writer[w].pc \notin {"idle", "queue"}, NEW r \in WriterRecord,
           writer' = [writer EXCEPT ![w] = r], queue' = queue, ops' = ops,
           r.pc \in {"front", "room", "log", "logged"}, group' \in Seq(Writers),
           IF r.pc \in Writing
           THEN Len(group') \in 1 .. Len(queue) /\ \A i \in 1 .. Len(group') : group'[i] = queue[i]
           ELSE group' = <<>>
    PROVE  WritersInv'
<1>1. queue # <<>> /\ w = queue[1] /\ Len(queue) \in Nat \ {0}
    BY AwakeIsHead
<1>2. writer'[w] = r /\ \A x \in Writers : x # w => writer'[x] = writer[x]
    BY DEF WritersInv, QueueTypeOK
<1>3. QueueTypeOK' /\ QueuedOnce'
    BY DEF WritersInv, QueueTypeOK, QueuedOnce
<1>4. QueuedAreBusy'
    BY <1>1, <1>2 DEF WritersInv, QueuedAreBusy
<1>5. \A i \in 2 .. Len(queue) : queue[i] \in Writers /\ queue[i] # w
    BY <1>1 DEF WritersInv, QueueTypeOK, QueuedOnce
<1>6. OthersSleep'
    BY <1>2, <1>5 DEF WritersInv, OthersSleep
<1>7. HeadIsAwake' /\ GroupOfHead'
    BY <1>1, <1>2 DEF HeadIsAwake, GroupOfHead
<1> QED BY <1>3, <1>4, <1>6, <1>7 DEF WritersInv

\* The writers of a group are the first of the queue, at least one (BuildBatchGroup).
LEMMA GroupIsPrefix ==
    ASSUME WritersInv, queue # <<>>
    PROVE  /\ BuildBatchGroup \in Seq(Writers) /\ Len(BuildBatchGroup) \in 1 .. Len(queue)
           /\ \A i \in 1 .. Len(BuildBatchGroup) : BuildBatchGroup[i] = queue[i]
<1>0. queue \in Seq(Writers) /\ Len(queue) \in Nat \ {0}
    BY DEF WritersInv, QueueTypeOK
<1> DEFINE Batches(n) == Cardinality({i \in 1 .. n : writer[queue[i]].kind # "null"})
           Joins(i) == /\ writer[queue[i]].kind = "sync" => writer[queue[1]].kind = "sync"
                       /\ Batches(i) <= MaxGroup
           T == {m \in 1 .. Len(queue) : \A i \in 2 .. m : Joins(i)}
<1>1. BuildBatchGroup = SubSeq(queue, 1, Max(T))
    BY DEF BuildBatchGroup
<1>2. Max(T) \in 1 .. Len(queue)
  <2> HIDE DEF Joins
  <2>1. 1 \in T /\ T \in SUBSET (0 .. Len(queue))
      BY <1>0
  <2>2. T # {} /\ T \subseteq 1 .. Len(queue)
      BY <2>1
  <2> HIDE DEF T
  <2> QED BY <1>0, <2>1, <2>2, MaxOfNaturals
<1> HIDE DEF T
<1> QED BY <1>0, <1>1, <1>2

\* A thread enters Write at the end of the queue.
LEMMA EnterKeeps ==
    ASSUME WritersInv, NEW w \in Writers, NEW kind \in Kinds, EnterWrite(w, kind)
    PROVE  WritersInv'
<1> DEFINE r == [pc |-> IF queue = <<>> THEN "front" ELSE "queue", kind |-> kind, op |-> ops + 1,
                 error |-> "none"]
           l == Len(queue)
<1>1. /\ ops' = ops + 1 /\ queue' = Append(queue, w) /\ writer' = [writer EXCEPT ![w] = r]
      /\ group' = group /\ writer[w].pc = "idle"
    BY DEF EnterWrite
<1>2. r \in WriterRecord /\ r.pc = IF queue = <<>> THEN "front" ELSE "queue"
    BY DBAssumption DEF WriterRecord, Pcs, WritersInv, QueueTypeOK
<1> HIDE DEF r
<1>3. /\ queue \in Seq(Writers) /\ l \in Nat /\ (queue = <<>> <=> l = 0)
      /\ \A i \in 1 .. l : queue[i] \in Writers
    BY DEF WritersInv, QueueTypeOK
<1>4. /\ queue' \in Seq(Writers) /\ Len(queue') = l + 1 /\ queue'[l + 1] = w
      /\ \A i \in 1 .. l : queue'[i] = queue[i]
    BY <1>1, <1>3
<1>5. writer'[w] = r /\ \A x \in Writers : x # w => writer'[x] = writer[x]
    BY <1>1 DEF WritersInv, QueueTypeOK
<1>6. \A i \in 1 .. l : writer[queue[i]].pc # "idle"
    BY <1>3 DEF WritersInv, OthersSleep, HeadIsAwake
<1>7. \A i \in 1 .. l : queue[i] # w /\ writer'[queue'[i]] = writer[queue[i]]
    BY <1>1, <1>3, <1>4, <1>5, <1>6
<1> HIDE DEF l
<1>8. QueueTypeOK'
    BY <1>1, <1>2, <1>4 DEF WritersInv, QueueTypeOK
<1>9. QueuedOnce'
    BY <1>3, <1>4, <1>7 DEF WritersInv, QueuedOnce, l
<1>10. QueuedAreBusy'
  <2> SUFFICES ASSUME NEW x \in Writers, writer'[x].pc # "idle" PROVE \E i \in 1 .. Len(queue') : x = queue'[i]
      BY DEF QueuedAreBusy
  <2>1. CASE x = w
      BY <1>3, <1>4, <2>1
  <2>2. CASE x # w
    <3>1. PICK i \in 1 .. l : x = queue[i]
        BY <1>5, <2>2 DEF WritersInv, QueuedAreBusy, l
    <3> QED BY <1>3, <1>4, <3>1
  <2> QED BY <2>1, <2>2
<1>11. OthersSleep'
  <2> SUFFICES ASSUME NEW i \in 2 .. Len(queue') PROVE writer'[queue'[i]].pc = "queue"
      BY DEF OthersSleep
  <2>1. CASE i = l + 1
      BY <1>2, <1>3, <1>4, <1>5, <2>1
  <2>2. CASE i # l + 1
      BY <1>3, <1>4, <1>7, <2>2 DEF WritersInv, OthersSleep, l
  <2> QED BY <2>1, <2>2
<1>12. HeadIsAwake' /\ GroupOfHead'
  <2>1. CASE queue = <<>>
      BY <1>1, <1>2, <1>3, <1>4, <1>5, <2>1 DEF WritersInv, HeadIsAwake, GroupOfHead, Writing
  <2>2. CASE queue # <<>>
    <3>1. queue'[1] = queue[1] /\ writer'[queue'[1]] = writer[queue[1]] /\ queue' # <<>>
        BY <1>3, <1>4, <1>7, <2>2
    <3>2. Len(group) \in 1 .. Len(queue) => Len(group) \in 1 .. Len(queue') /\ \A i \in 1 .. Len(group) : i \in 1 .. l
        BY <1>3, <1>4 DEF l
    <3>3. HeadIsAwake'
        BY <2>2, <3>1 DEF WritersInv, HeadIsAwake
    <3>4. GroupOfHead'
        BY <1>1, <1>4, <2>2, <3>1, <3>2 DEF WritersInv, GroupOfHead
    <3> QED BY <3>3, <3>4
  <2> QED BY <2>1, <2>2
<1> QED BY <1>8, <1>9, <1>10, <1>11, <1>12 DEF WritersInv

\* bg_cv_.SignalAll() sends those who wait for room back to look (SignalAll).
LEMMA SignalKeeps ==
    ASSUME WritersInv, writer' = SignalAll(writer), UNCHANGED <<queue, group, ops>>
    PROVE  WritersInv'
<1>1. ASSUME NEW w \in Writers
      PROVE  /\ writer'[w] \in WriterRecord
             /\ writer'[w].pc = IF writer[w].pc = "room" THEN "front" ELSE writer[w].pc
  <2>1. writer[w] \in WriterRecord
      BY DEF WritersInv, QueueTypeOK
  <2>2. writer'[w] = IF writer[w].pc = "room" THEN [writer[w] EXCEPT !.pc = "front"] ELSE writer[w]
      BY DEF SignalAll
  <2> QED BY <2>1, <2>2 DEF WriterRecord, Pcs
<1>2. queue \in Seq(Writers) /\ \A i \in 1 .. Len(queue) : queue[i] \in Writers
    BY DEF WritersInv, QueueTypeOK
<1>3. writer' = [w \in Writers |-> writer'[w]]
    BY DEF SignalAll
<1>4. QueueTypeOK' /\ QueuedOnce'
    BY <1>1, <1>3 DEF WritersInv, QueueTypeOK, QueuedOnce
<1>5. QueuedAreBusy'
    BY <1>1 DEF WritersInv, QueuedAreBusy
<1>6. OthersSleep'
    BY <1>1, <1>2 DEF WritersInv, OthersSleep
<1>7. queue # <<>> => queue[1] \in Writers
    BY <1>2
<1>8. HeadIsAwake' /\ GroupOfHead'
    BY <1>1, <1>7 DEF WritersInv, HeadIsAwake, GroupOfHead, Writing
<1> QED BY <1>4, <1>5, <1>6, <1>8 DEF WritersInv

\* What each step of a writer does to the queue.
LEMMA WriterStepKeeps == ASSUME WritersInv, NEW w \in Writers, WriterStep(w) PROVE WritersInv'
<1>0. /\ writer[w].pc \notin {"idle", "queue"} /\ writer[w] \in WriterRecord
      /\ queue \in Seq(Writers) /\ ops' = ops
    BY DEF WriterStep, WriteFails, HasRoom, WaitForRoom, SwitchMemTable, SwitchFails, AddRecord, FinishWrite,
           WritersInv, QueueTypeOK, history
<1>1. queue # <<>> /\ w = queue[1] /\ Len(queue) \in Nat \ {0}
    BY <1>0, AwakeIsHead
<1>2. ASSUME NEW ok \in BOOLEAN, Answer(<<w>>, ok) PROVE WritersInv'
  <2>1. <<w>> \in Seq(Writers) /\ Len(<<w>>) \in 1 .. Len(queue) /\ \A i \in 1 .. Len(<<w>>) : <<w>>[i] = queue[i]
      BY <1>1
  <2> QED BY <1>0, <1>2, <2>1, AnswerKeeps
<1>3. ASSUME StartGroup(w) PROVE WritersInv'
  <2>1. writer' = [writer EXCEPT ![w] = [writer[w] EXCEPT !.pc = "log"]] /\ queue' = queue
      BY <1>3 DEF StartGroup
  <2>2. [writer[w] EXCEPT !.pc = "log"] \in WriterRecord /\ [writer[w] EXCEPT !.pc = "log"].pc = "log"
      BY <1>0 DEF WriterRecord, Pcs
  <2>3. /\ group' \in Seq(Writers) /\ Len(group') \in 1 .. Len(queue)
        /\ \A i \in 1 .. Len(group') : group'[i] = queue[i]
      BY <1>1, <1>3, GroupIsPrefix DEF StartGroup
  <2> QED BY <1>0, <2>1, <2>2, <2>3, HeadStepKeeps DEF Writing
<1>4. CASE WriteFails(w)
    BY <1>2, <1>4 DEF WriteFails
<1>5. CASE HasRoom(w)
    BY <1>3, <1>5 DEF HasRoom
<1>6. CASE WaitForRoom(w)
  <2>1. /\ writer' = [writer EXCEPT ![w] = [writer[w] EXCEPT !.pc = "room"]] /\ queue' = queue
        /\ group' = group /\ writer[w].pc = "front"
      BY <1>6 DEF WaitForRoom
  <2>2. [writer[w] EXCEPT !.pc = "room"] \in WriterRecord /\ [writer[w] EXCEPT !.pc = "room"].pc = "room"
      BY <1>0 DEF WriterRecord, Pcs
  <2>3. group' = <<>> /\ group' \in Seq(Writers)
      BY <1>1, <2>1 DEF WritersInv, GroupOfHead, Writing
  <2> QED BY <1>0, <2>1, <2>2, <2>3, HeadStepKeeps DEF Writing
<1>7. CASE SwitchMemTable(w)
  <2>1. CASE writer[w].kind = "null"
      BY <1>2, <1>7, <2>1 DEF SwitchMemTable
  <2>2. CASE writer[w].kind # "null"
      BY <1>3, <1>7, <2>2 DEF SwitchMemTable
  <2> QED BY <2>1, <2>2
<1>8. CASE SwitchFails(w)
    BY <1>2, <1>8 DEF SwitchFails
<1>9. CASE AddRecord(w)
  <2>1. PICK e \in {"none", "append", "sync"} :
            writer' = [writer EXCEPT ![w].pc = "logged", ![w].error = e]
      BY <1>9 DEF AddRecord
  <2> DEFINE r == [writer[w] EXCEPT !.pc = "logged", !.error = e]
  <2>2. writer' = [writer EXCEPT ![w] = r]
      BY <2>1
  <2>3. r \in WriterRecord /\ r.pc = "logged"
      BY <1>0 DEF WriterRecord, Pcs
  <2>4. queue' = queue /\ group' = group /\ writer[w].pc = "log"
      BY <1>9 DEF AddRecord
  <2>5. /\ group' \in Seq(Writers) /\ Len(group') \in 1 .. Len(queue)
        /\ \A i \in 1 .. Len(group') : group'[i] = queue[i]
      BY <1>1, <2>4 DEF WritersInv, QueueTypeOK, GroupOfHead, Writing
  <2> HIDE DEF r
  <2> QED BY <1>0, <2>2, <2>3, <2>4, <2>5, HeadStepKeeps DEF Writing
<1>10. CASE FinishWrite(w)
  <2>1. Answer(group, writer[w].error = "none") /\ writer[w].pc = "logged"
      BY <1>10 DEF FinishWrite
  <2>2. /\ group \in Seq(Writers) /\ Len(group) \in 1 .. Len(queue)
        /\ \A i \in 1 .. Len(group) : group[i] = queue[i]
      BY <1>1, <2>1 DEF WritersInv, QueueTypeOK, GroupOfHead, Writing
  <2>3. (writer[w].error = "none") \in BOOLEAN
      OBVIOUS
  <2> QED BY <1>0, <2>1, <2>2, <2>3, AnswerKeeps
<1> QED BY <1>4, <1>5, <1>6, <1>7, <1>8, <1>9, <1>10 DEF WriterStep

\* Every other step leaves the queue alone, signals those who wait, or drops it.
LEMMA OtherStepKeeps ==
    ASSUME WritersInv,
           \/ BackgroundStep \/ OpenStep \/ NewIterator \/ \E v \in iters : CleanupIterator(v)
           \/ Close \/ CloseDone \/ ProcessCrash \/ MachineCrash \/ UNCHANGED dbVars
    PROVE  WritersInv'
<1>1. CASE UNCHANGED <<queue, group, writer, ops>>
    BY <1>1 DEF WritersInv, QueueTypeOK, QueuedOnce, QueuedAreBusy, OthersSleep, HeadIsAwake, GroupOfHead
<1>2. CASE UNCHANGED <<queue, group, ops>> /\ writer' = SignalAll(writer)
    BY <1>2, SignalKeeps
<1>3. CASE DropMemory /\ ops' = ops
  <2>1. /\ queue' = <<>> /\ group' = <<>> /\ \A w \in Writers : writer'[w] = NoWriter
        /\ writer' = [w \in Writers |-> NoWriter]
      BY <1>3 DEF DropMemory
  <2>2. NoWriter \in WriterRecord /\ NoWriter.pc = "idle"
      BY DEF NoWriter, WriterRecord, Pcs
  <2> QED BY <1>3, <2>1, <2>2
          DEF WritersInv, QueueTypeOK, QueuedOnce, QueuedAreBusy, OthersSleep, HeadIsAwake, GroupOfHead
<1>4. CASE BackgroundStep
  <2>1. CASE NothingToDo \/ BuildTableFails \/ InstallFlush \/ MergeFails \/ InstallMerge
    <3>1. UNCHANGED <<queue, group, ops>> /\ writer' = SignalAll(writer)
        BY <2>1 DEF NothingToDo, BuildTableFails, InstallFlush, MergeFails, InstallMerge, history, FlushDone,
                    BackgroundDone
    <3> QED BY <1>2, <3>1
  <2>2. CASE StartFlush \/ AddManifestRecord \/ FinishMerge
    <3>1. UNCHANGED <<queue, group, writer, ops>>
        BY <2>2 DEF StartFlush, AddManifestRecord, FinishMerge, history, writeVars
    <3> QED BY <1>1, <3>1
  <2>3. CASE BuildTable
    <3>1. UNCHANGED <<queue, group, ops>> /\ (writer' = SignalAll(writer) \/ UNCHANGED writer)
        BY <2>3 DEF BuildTable, history, FlushDone, BackgroundDone
    <3> QED BY <1>1, <1>2, <3>1
  <2>4. CASE StartMerge
    <3>1. UNCHANGED <<queue, group, ops>> /\ (writer' = SignalAll(writer) \/ UNCHANGED writer)
        BY <2>4 DEF StartMerge, history, BackgroundDone
    <3> QED BY <1>1, <1>2, <3>1
  <2> QED BY <1>4, <2>1, <2>2, <2>3, <2>4 DEF BackgroundStep
<1>5. CASE OpenStep
    BY <1>1, <1>3, <1>5 DEF OpenStep, NewDB, RecoverVersions, RecoverLogFile, OpenFails, WriteNewManifest,
                           SetCurrentFile, ManifestFails, writeVars, history
<1>6. CASE NewIterator \/ (\E v \in iters : CleanupIterator(v)) \/ Close \/ UNCHANGED dbVars
    BY <1>1, <1>6 DEF NewIterator, CleanupIterator, Close, dbVars, writeVars, history
<1>7. CASE CloseDone \/ ProcessCrash \/ MachineCrash
    BY <1>3, <1>7 DEF CloseDone, ProcessCrash, MachineCrash, history
<1> QED BY <1>4, <1>5, <1>6, <1>7

\* Nobody writes at first.
LEMMA WritersInitially == ASSUME DBInit PROVE WritersInv
<1>1. NoWriter \in WriterRecord /\ NoWriter.pc = "idle"
    BY DEF NoWriter, WriterRecord, Pcs
<1> QED BY <1>1 DEF DBInit, WritersInv, QueueTypeOK, QueuedOnce, QueuedAreBusy, OthersSleep, HeadIsAwake,
                    GroupOfHead

\* The invariant of the queue of writers (DBImpl::Write).
LEMMA WritersInvariant == DBSpec => []WritersInv
<1>1. DBInit => WritersInv
    BY WritersInitially
<1>2. WritersInv /\ [DBNext]_dbVars => WritersInv'
    BY EnterKeeps, WriterStepKeeps, OtherStepKeeps DEF DBNext
<1> QED BY <1>1, <1>2, PTL DEF DBSpec

\* While the mutex is released the log and the memtable belong to one thread: the
\* head of the queue, whose group is the beginning of the queue (DBImpl::Write).
THEOREM OneLoggerAtATime == DBSpec => []OneLogger
<1>1. WritersInv => OneLogger
  <2> SUFFICES ASSUME WritersInv, NEW w \in Writers, writer[w].pc \in {"log", "logged"}
               PROVE  group # <<>> /\ IsPrefix(group, queue) /\ w = Head(queue)
      BY DEF OneLogger
  <2>1. queue # <<>> /\ w = queue[1] /\ queue \in Seq(Writers) /\ group \in Seq(Writers)
      BY AwakeIsHead DEF WritersInv, QueueTypeOK
  <2>2. Len(group) \in 1 .. Len(queue) /\ \A i \in 1 .. Len(group) : group[i] = queue[i]
      BY <2>1 DEF WritersInv, GroupOfHead, Writing
  <2>3. IsPrefix(group, queue)
      BY <2>1, <2>2 DEF IsPrefix
  <2> QED BY <2>1, <2>2, <2>3
<1> QED BY <1>1, WritersInvariant, PTL

-----------------------------------------------------------------------------
Results(n, S, base, step) ==
    \E f \in [0 .. n -> S] : f[0] = base /\ \A i \in 1 .. n : f[i] = step[i][f[i - 1]]

\* A sequence of steps from a base has intermediate results: what a recursive function
\* on 0 .. n needs to be one.
LEMMA StepsHaveResults ==
    ASSUME NEW n \in Nat, NEW S, NEW base \in S, NEW step \in [1 .. n -> [S -> S]]
    PROVE  Results(n, S, base, step)
<1> DEFINE P(k) == \E f \in [0 .. k -> S] : f[0] = base /\ \A i \in 1 .. k : f[i] = step[i][f[i - 1]]
           T == {k \in 0 .. n : ~P(k)}
<1> SUFFICES T = {}
    BY DEF Results
<1> SUFFICES ASSUME T # {} PROVE FALSE
    OBVIOUS
<1>1. PICK m \in T : \A k \in T : m <= k
  <2>1. T \in SUBSET Nat
      OBVIOUS
  <2> HIDE DEF T
  <2> QED BY <2>1, LeastNatural
<1>2. P(0)
  <2>1. [i \in 0 .. 0 |-> base] \in [0 .. 0 -> S] /\ [i \in 0 .. 0 |-> base][0] = base
      OBVIOUS
  <2>2. 1 .. 0 = {}
      OBVIOUS
  <2> QED BY <2>1, <2>2
<1>3. m # 0 /\ m - 1 \in 0 .. n /\ m \in 0 .. n /\ ~P(m)
  <2> HIDE DEF P
  <2> QED BY <1>1, <1>2
<1>4. P(m - 1)
  <2> HIDE DEF P
  <2>1. m - 1 \notin T
      BY <1>1, <1>3
  <2> QED BY <1>3, <2>1
<1>5. PICK g \in [0 .. m - 1 -> S] : g[0] = base /\ \A i \in 1 .. m - 1 : g[i] = step[i][g[i - 1]]
    BY <1>4
<1> DEFINE f == [i \in 0 .. m |-> IF i = m THEN step[m][g[m - 1]] ELSE g[i]]
<1>6. m \in 1 .. n /\ step[m][g[m - 1]] \in S
    BY <1>1, <1>3, <1>5
<1>7. f \in [0 .. m -> S] /\ f[0] = base
    BY <1>3, <1>5, <1>6
<1>8. ASSUME NEW i \in 1 .. m PROVE f[i] = step[i][f[i - 1]]
  <2>1. CASE i = m
      BY <1>6, <2>1
  <2>2. CASE i # m
      BY <1>5, <1>6, <2>2
  <2> QED BY <2>1, <2>2
<1>9. P(m)
  <2> HIDE DEF f
  <2> QED BY <1>7, <1>8
<1> QED BY <1>3, <1>9

\* The operations of a group are those of its writers with a batch (BuildBatchGroup).
LEMMA GroupOpsAreSome ==
    ASSUME QueueTypeOK
    PROVE  /\ GroupOps \in Seq(Nat)
           /\ \A j \in 1 .. Len(group) :
                 writer[group[j]].kind # "null" => \E k \in DOMAIN GroupOps : GroupOps[k] = writer[group[j]].op
           /\ \A k \in DOMAIN GroupOps : \E j \in 1 .. Len(group) : GroupOps[k] = writer[group[j]].op
<1> DEFINE S == Seq(Nat)
           n == Len(group)
           Next1(i, t) == IF writer[group[i]].kind = "null" THEN t ELSE Append(t, writer[group[i]].op)
           batches[i \in 0 .. n] ==
               IF i = 0 THEN <<>>
               ELSE IF writer[group[i]].kind = "null" THEN batches[i - 1]
               ELSE Append(batches[i - 1], writer[group[i]].op)
<1>1. n \in Nat /\ \A i \in 1 .. n : group[i] \in Writers /\ writer[group[i]].op \in Nat
    BY DEF QueueTypeOK, WriterRecord
<1>2. \A i \in 1 .. n, t \in S : Next1(i, t) \in S
    BY <1>1
<1>3. PICK f \in [0 .. n -> S] : f[0] = <<>> /\ \A i \in 1 .. n : f[i] = Next1(i, f[i - 1])
  <2> DEFINE step == [i \in 1 .. n |-> [t \in S |-> Next1(i, t)]]
  <2> HIDE DEF Next1
  <2>1. step \in [1 .. n -> [S -> S]]
      BY <1>2
  <2>2. <<>> \in S
      OBVIOUS
  <2>3. \E f \in [0 .. n -> S] : f[0] = <<>> /\ \A i \in 1 .. n : f[i] = step[i][f[i - 1]]
    <3>1. n \in Nat
        BY <1>1
    <3>2. Results(n, S, <<>>, step)
      <4> HIDE DEF step, S, n
      <4> QED BY <2>1, <2>2, <3>1, StepsHaveResults
    <3> HIDE DEF step, S, n
    <3> QED BY <3>2 DEF Results
  <2>4. PICK f \in [0 .. n -> S] : f[0] = <<>> /\ \A i \in 1 .. n : f[i] = step[i][f[i - 1]]
      BY <2>3
  <2>5. \A i \in 1 .. n : f[i] = Next1(i, f[i - 1])
    <3> HIDE DEF S, n
    <3>1. \A i \in 1 .. n : f[i - 1] \in S
        BY <1>1, <2>4
    <3> QED BY <2>4, <3>1
  <2> HIDE DEF S, n, step
  <2> QED BY <2>4, <2>5
<1>4. f = [i \in 0 .. n |-> IF i = 0 THEN <<>>
                           ELSE IF writer[group[i]].kind = "null" THEN f[i - 1]
                           ELSE Append(f[i - 1], writer[group[i]].op)]
  <2> HIDE DEF S, n
  <2>1. \A i \in 0 .. n : f[i] = IF i = 0 THEN <<>>
                                  ELSE IF writer[group[i]].kind = "null" THEN f[i - 1]
                                  ELSE Append(f[i - 1], writer[group[i]].op)
    <3> SUFFICES ASSUME NEW i \in 0 .. n
                 PROVE  f[i] = IF i = 0 THEN <<>>
                               ELSE IF writer[group[i]].kind = "null" THEN f[i - 1]
                               ELSE Append(f[i - 1], writer[group[i]].op)
        OBVIOUS
    <3>1. CASE i = 0
        BY <1>3, <3>1
    <3>2. CASE i # 0
      <4>1. i \in 1 .. n
          BY <1>1, <3>2
      <4> QED BY <1>3, <3>2, <4>1
    <3> QED BY <3>1, <3>2
  <2> QED BY <2>1
<1>5. batches = [i \in 0 .. n |-> IF i = 0 THEN <<>>
                           ELSE IF writer[group[i]].kind = "null" THEN batches[i - 1]
                           ELSE Append(batches[i - 1], writer[group[i]].op)]
  <2> HIDE DEF n
  <2> QED BY <1>4, Zenon
<1> DEFINE Has(t, j) == \E k \in 1 .. Len(t) : t[k] = writer[group[j]].op
           P(i) == /\ batches[i] \in S
                   /\ \A j \in 1 .. i : writer[group[j]].kind # "null" => Has(batches[i], j)
                   /\ \A k \in 1 .. Len(batches[i]) : \E j \in 1 .. i : batches[i][k] = writer[group[j]].op
           T == {i \in 0 .. n : ~P(i)}
<1>6. batches[0] = <<>> /\ \A i \in 1 .. n : batches[i] = Next1(i, batches[i - 1])
  <2> HIDE DEF batches, n
  <2>1. \A i \in 0 .. n : batches[i] = IF i = 0 THEN <<>>
                                        ELSE IF writer[group[i]].kind = "null" THEN batches[i - 1]
                                        ELSE Append(batches[i - 1], writer[group[i]].op)
      BY <1>5
  <2>2. 0 \in 0 .. n /\ \A i \in 1 .. n : i \in 0 .. n /\ i # 0
      BY <1>1
  <2> QED BY <2>1, <2>2
<1> HIDE DEF batches, n
<1>7. P(0)
    BY <1>6
<1>8. ASSUME NEW i \in 1 .. n, P(i - 1) PROVE P(i)
  <2>1. CASE writer[group[i]].kind = "null"
    <3>1. batches[i] = batches[i - 1]
        BY <1>6, <2>1
    <3>2. \A j \in 1 .. i : j \in 1 .. i - 1 \/ j = i
        BY <1>1
    <3>3. \A j \in 1 .. i - 1 : j \in 1 .. i
        BY <1>1
    <3> HIDE DEF Has
    <3> QED BY <1>8, <2>1, <3>1, <3>2, <3>3
  <2>2. CASE writer[group[i]].kind # "null"
    <3> DEFINE t == batches[i - 1]
               o == writer[group[i]].op
    <3>1. t \in S /\ batches[i] = Append(t, o) /\ o \in Nat
        BY <1>1, <1>6, <1>8, <2>2
    <3>2. /\ Append(t, o) \in S /\ Len(Append(t, o)) = Len(t) + 1 /\ Append(t, o)[Len(t) + 1] = o
          /\ Len(t) \in Nat /\ \A k \in 1 .. Len(t) : Append(t, o)[k] = t[k]
      <4> HIDE DEF t, o
      <4> QED BY <3>1
    <3>3. \A j \in 1 .. i : writer[group[j]].kind # "null" => Has(batches[i], j)
      <4> SUFFICES ASSUME NEW j \in 1 .. i, writer[group[j]].kind # "null" PROVE Has(batches[i], j)
          OBVIOUS
      <4>1. CASE j = i
        <5>1. Len(t) + 1 \in 1 .. Len(batches[i]) /\ batches[i][Len(t) + 1] = o
            BY <3>1, <3>2
        <5> QED BY <4>1, <5>1
      <4>2. CASE j # i
        <5>1. j \in 1 .. i - 1
            BY <4>2
        <5>2. PICK k \in 1 .. Len(t) : t[k] = writer[group[j]].op
            BY <1>8, <5>1
        <5>3. k \in 1 .. Len(batches[i]) /\ batches[i][k] = writer[group[j]].op
            BY <3>1, <3>2, <5>2
        <5> QED BY <5>3
      <4> QED BY <4>1, <4>2
    <3>4. \A k \in 1 .. Len(batches[i]) : \E j \in 1 .. i : batches[i][k] = writer[group[j]].op
      <4> SUFFICES ASSUME NEW k \in 1 .. Len(batches[i])
                   PROVE  \E j \in 1 .. i : batches[i][k] = writer[group[j]].op
          OBVIOUS
      <4>1. CASE k = Len(t) + 1
        <5>1. batches[i][k] = writer[group[i]].op /\ i \in 1 .. i
            BY <3>1, <3>2, <4>1
        <5> QED BY <5>1
      <4>2. CASE k # Len(t) + 1
        <5>1. k \in 1 .. Len(t) /\ batches[i][k] = t[k]
            BY <3>1, <3>2, <4>2
        <5>2. PICK j \in 1 .. i - 1 : t[k] = writer[group[j]].op
            BY <1>8, <5>1
        <5> QED BY <5>1, <5>2
      <4> QED BY <4>1, <4>2
    <3> QED BY <3>1, <3>2, <3>3, <3>4
  <2> QED BY <2>1, <2>2
<1>9. P(n)
  <2> HIDE DEF P
  <2>1. ASSUME T # {} PROVE FALSE
    <3>1. T \in SUBSET Nat
        BY <1>1
    <3>2. PICK m \in T : \A k \in T : m <= k
        BY <2>1, <3>1, LeastNatural
    <3>3. m \in 1 .. n /\ m - 1 \in 0 .. n /\ ~P(m)
        BY <1>1, <1>7, <3>2
    <3>4. m - 1 \notin T
        BY <3>1, <3>2, <3>3
    <3> QED BY <1>8, <3>3, <3>4
  <2>2. n \in 0 .. n
      BY <1>1
  <2>3. n \notin T
      BY <2>1
  <2> QED BY <2>2, <2>3
<1>10. GroupOps = batches[n]
    BY DEF GroupOps, batches, n
<1>11. \A t \in S : DOMAIN t = 1 .. Len(t)
    OBVIOUS
<1> QED BY <1>9, <1>10, <1>11 DEF n

-----------------------------------------------------------------------------
\* The files.  No record is torn: a torn one in the middle of a manifest makes the
\* database unreadable, so what follows is about environments without that fault.
EntryRecord == [seq : Nat, op : Nat]
LogRecord == [seq : Nat \ {0}, ops : Seq(Nat)]
EditRecord == [log : Nat, next : Nat, last : Nat, add : SUBSET Nat, del : SUBSET Nat]
LogFile == {f \in [recs : Seq(LogRecord), synced : Nat] : f.synced <= Len(f.recs)}
ManifestFile == {f \in [recs : Seq(EditRecord), synced : Nat] : f.synced <= Len(f.recs)}
TableFile == [entries : SUBSET EntryRecord, synced : BOOLEAN]

FilesTypeOK ==
    /\ DOMAIN logs \subseteq Nat /\ logs \in [DOMAIN logs -> LogFile]
    /\ DOMAIN tables \subseteq Nat /\ tables \in [DOMAIN tables -> TableFile]
    /\ DOMAIN manifests \subseteq Nat /\ manifests \in [DOMAIN manifests -> ManifestFile]
    /\ current \in Nat /\ created \in BOOLEAN

VersionTypeOK ==
    /\ phase \in {"closed", "corrupt", "recovering", "current", "open", "closing"}
    /\ version \subseteq Nat /\ pending \subseteq Nat /\ iters \subseteq SUBSET Nat
    /\ logfileNumber \in Nat /\ nextFile \in Nat /\ lastSequence \in Nat
    /\ logNumber \in Nat /\ manifestNumber \in Nat
    /\ opening \in [todo : SUBSET Nat, maxSequence : Nat, add : SUBSET Nat, failed : BOOLEAN]

MemoryTypeOK ==
    /\ mem \subseteq EntryRecord
    /\ imm \in Seq(SUBSET EntryRecord) /\ Len(imm) <= 1
    /\ bgError \in BOOLEAN

Merge == [out : Nat, inputs : SUBSET Nat, base : SUBSET Nat]
BgRecord == [pc : {"none", "scheduled", "build", "edit", "applied", "merge"}, file : Nat,
             merge : Seq(Merge), edit : EditRecord \cup {<<>>}, failed : BOOLEAN]
BgTypeOK ==
    /\ bg \in BgRecord /\ Len(bg.merge) <= 1
    /\ bg.pc \in {"edit", "applied"} => bg.edit \in EditRecord
    /\ bg.pc = "build" => Len(imm) = 1
    /\ bg.pc = "merge" => Len(bg.merge) = 1

IsOpen == phase \in {"open", "closing"}
OnlyWhenOpen ==
    /\ ~IsOpen => bg = NoBg /\ iters = {} /\ imm = <<>> /\ bgError = FALSE /\ pending = {}
    /\ queue # <<>> => phase = "open"

\* Tables whose contents are on disk; what the edits of a manifest ever added.
Good == {n \in DOMAIN tables : tables[n].synced}
Adds(recs) == UNION {recs[i].add : i \in DOMAIN recs}
Below(ns, n) == \A m \in ns : m < n

\* The manifest in use: any prefix a crash can leave names whole tables only, and
\* every number its edits use is below their next file number.
ManifestIsSafe(m, whole) ==
    \A k \in 1 .. Len(m.recs) : k >= m.synced => Replay(SubSeq(m.recs, 1, k)) \subseteq whole
NumbersRise(c, recs) ==
    \A i \in 1 .. Len(recs) : c < recs[i].next /\ \A j \in 1 .. i : Below(recs[j].add, recs[i].next)
DiskInv ==
    /\ current # 0 => /\ current \in DOMAIN manifests
                      /\ ManifestIsSafe(manifests[current], Good)
                      /\ NumbersRise(current, manifests[current].recs)
    /\ created => current # 0 /\ manifests[current].synced >= 1 /\ phase # "corrupt"

\* While DB::Open runs: the manifest in use stays, the new one gets another number.
RecoverInv ==
    phase \in {"recovering", "current"} =>
        /\ current # 0 /\ current < manifestNumber /\ manifestNumber < nextFile
        /\ version \cup opening.add \subseteq Good /\ opening.todo \subseteq DOMAIN logs
        /\ Below(version \cup opening.add, nextFile)
NewManifestInv ==
    phase = "current" =>
        /\ manifestNumber \in DOMAIN manifests /\ manifestNumber # 0
        /\ logfileNumber \in DOMAIN logs /\ logfileNumber < nextFile
        /\ LET m == manifests[manifestNumber]
               e == m.recs[1]
           IN  /\ Len(m.recs) = 1 /\ m.synced = 1
               /\ e.add = version \cup opening.add /\ e.del = {}
               /\ manifestNumber < e.next /\ e.next <= nextFile /\ Below(e.add, e.next)

\* An open database.
Recs == manifests[current].recs
OpenInv ==
    IsOpen =>
        /\ manifestNumber = current /\ current # 0 /\ current < nextFile
        /\ version \cup UNION iters \subseteq Good \cap Adds(Recs)
        /\ Below(Adds(Recs), nextFile)
        /\ logfileNumber \in DOMAIN logs /\ logNumber <= logfileNumber /\ logfileNumber < nextFile

\* The version in memory is the one of the manifest, once its last edit is installed,
\* unless an error stopped the database: then no file is deleted any more.
VersionIsLogged ==
    IsOpen /\ ~bgError /\ ~(bg.pc = "applied" /\ bg.failed) =>
        /\ manifests[current].synced = Len(Recs)
        /\ Replay(Recs) = IF bg.pc = "applied" THEN (version \ bg.edit.del) \cup bg.edit.add ELSE version

\* The background thread: the tables of its edit are whole, the one it builds is new.
BgInv ==
    IsOpen =>
        /\ bg.pc = "build" => bg.file \notin Adds(Recs) /\ bg.file < nextFile
        /\ \A i \in DOMAIN bg.merge :
              /\ bg.merge[i].out < nextFile /\ bg.merge[i].inputs # {}
              /\ bg.merge[i].inputs \subseteq bg.merge[i].base /\ bg.merge[i].base \subseteq Good \cap Adds(Recs)
        /\ bg.pc \in {"edit", "applied"} =>
               /\ bg.edit.add \subseteq Good /\ bg.edit.log <= logfileNumber /\ bg.edit.next <= nextFile
               /\ bg.edit.del # {} => bg.merge # <<>>
        /\ bg.pc = "edit" => current < bg.edit.next /\ Below(Adds(Recs) \cup bg.edit.add, bg.edit.next)
        /\ bg.pc = "applied" /\ ~bg.failed => bg.edit.add \subseteq Adds(Recs)

FilesInv ==
    /\ WritersInv /\ FilesTypeOK /\ VersionTypeOK /\ MemoryTypeOK /\ BgTypeOK /\ OnlyWhenOpen
    /\ DiskInv /\ RecoverInv /\ NewManifestInv /\ OpenInv /\ VersionIsLogged /\ BgInv

-----------------------------------------------------------------------------
\* What an edit at the end of a manifest does to the version it describes.
LEMMA ReplayOfAppend ==
    ASSUME NEW R \in Seq(EditRecord), NEW e \in EditRecord
    PROVE  Replay(Append(R, e)) = (Replay(R) \ e.del) \cup e.add /\ Adds(Append(R, e)) = Adds(R) \cup e.add
<1> DEFINE S == Append(R, e)
           l == Len(R)
           After(Q, i) == UNION {Q[j].del : j \in i + 1 .. Len(Q)}
<1>1. /\ l \in Nat /\ S \in Seq(EditRecord) /\ Len(S) = l + 1 /\ DOMAIN S = 1 .. l + 1 /\ DOMAIN R = 1 .. l
      /\ S[l + 1] = e /\ \A i \in 1 .. l : S[i] = R[i]
    OBVIOUS
<1> HIDE DEF S, l
<1>2. ASSUME NEW i \in 1 .. l PROVE After(S, i) = After(R, i) \cup e.del
  <2>1. \A j \in i + 1 .. Len(S) : j = l + 1 \/ j \in i + 1 .. l
      BY <1>1
  <2>2. l + 1 \in i + 1 .. Len(S) /\ \A j \in i + 1 .. l : j \in i + 1 .. Len(S) /\ j \in 1 .. l
      BY <1>1
  <2> QED BY <1>1, <2>1, <2>2 DEF l
<1>3. After(S, l + 1) = {}
    BY <1>1
<1>4. Replay(S) = UNION {S[i].add \ After(S, i) : i \in 1 .. l + 1}
    BY <1>1 DEF Replay
<1>5. Replay(R) = UNION {R[i].add \ After(R, i) : i \in 1 .. l}
    BY <1>1 DEF Replay, l
<1> HIDE DEF After
<1>6. \A i \in 1 .. l + 1 : i = l + 1 \/ i \in 1 .. l
    BY <1>1
<1>7. l + 1 \in 1 .. l + 1 /\ \A i \in 1 .. l : i \in 1 .. l + 1
    BY <1>1
<1>8. Replay(S) = (Replay(R) \ e.del) \cup e.add
  <2>1. ASSUME NEW n \in Replay(S) PROVE n \in (Replay(R) \ e.del) \cup e.add
    <3>1. PICK i \in 1 .. l + 1 : n \in S[i].add \ After(S, i)
        BY <1>4, <2>1
    <3> QED BY <1>1, <1>2, <1>5, <1>6, <3>1
  <2>2. ASSUME NEW n \in Replay(R) \ e.del PROVE n \in Replay(S)
    <3>1. PICK i \in 1 .. l : n \in R[i].add \ After(R, i)
        BY <1>5, <2>2
    <3> QED BY <1>1, <1>2, <1>4, <1>7, <2>2, <3>1
  <2>3. e.add \subseteq Replay(S)
      BY <1>1, <1>3, <1>4, <1>7
  <2> QED BY <2>1, <2>2, <2>3
<1>9. Adds(S) = Adds(R) \cup e.add
    BY <1>1, <1>6, <1>7 DEF Adds
<1> QED BY <1>8, <1>9 DEF S

\* A manifest of one edit describes what it adds.
LEMMA ReplayOfOne ==
    ASSUME NEW R \in Seq(EditRecord), Len(R) = 1
    PROVE  Replay(R) = R[1].add /\ Adds(R) = R[1].add
<1>1. DOMAIN R = {1} /\ 1 + 1 .. Len(R) = {}
    OBVIOUS
<1> QED BY <1>1 DEF Replay, Adds

\* A version is among what was ever added.
LEMMA ReplayIsAdded ==
    ASSUME NEW R \in Seq(EditRecord) PROVE Replay(R) \subseteq Adds(R) /\ SubSeq(R, 1, Len(R)) = R
BY DEF Replay, Adds

\* The prefixes of a manifest with one more edit.
LEMMA PrefixOfAppend ==
    ASSUME NEW T, NEW R \in Seq(T), NEW e \in T, NEW k \in 1 .. Len(R)
    PROVE  SubSeq(Append(R, e), 1, k) = SubSeq(R, 1, k)
OBVIOUS

\* A prefix of a prefix is a prefix.
LEMMA PrefixOfPrefix ==
    ASSUME NEW T, NEW R \in Seq(T), NEW n \in 0 .. Len(R), NEW k \in 1 .. n
    PROVE  SubSeq(SubSeq(R, 1, n), 1, k) = SubSeq(R, 1, k)
OBVIOUS

\* An edit whose tables are whole leaves the manifest safe: what VersionSet::LogAndApply
\* appends, synced or not.
LEMMA SafeAfterAppend ==
    ASSUME NEW m \in ManifestFile, NEW e \in EditRecord, NEW whole, NEW n \in m.synced .. Len(m.recs) + 1,
           ManifestIsSafe(m, whole), Replay(m.recs) \subseteq whole, e.add \subseteq whole
    PROVE  ManifestIsSafe([recs |-> Append(m.recs, e), synced |-> n], whole)
<1> DEFINE R == m.recs
           l == Len(R)
<1>1. R \in Seq(EditRecord) /\ l \in Nat /\ m.synced \in Nat /\ Len(Append(R, e)) = l + 1
    BY DEF ManifestFile
<1>2. SUFFICES ASSUME NEW k \in 1 .. l + 1, k >= n PROVE Replay(SubSeq(Append(R, e), 1, k)) \subseteq whole
    BY <1>1 DEF ManifestIsSafe
<1>3. CASE k \in 1 .. l
  <2>1. Replay(SubSeq(R, 1, k)) \subseteq whole
      BY <1>1, <1>2, <1>3 DEF ManifestIsSafe
  <2> HIDE DEF R
  <2> QED BY <1>1, <1>3, <2>1, PrefixOfAppend
<1>4. CASE k = l + 1
  <2>1. Append(R, e) \in Seq(EditRecord)
      BY <1>1
  <2>2. SubSeq(Append(R, e), 1, l + 1) = Append(R, e)
      BY <1>1, <2>1, ReplayIsAdded
  <2>3. Replay(Append(R, e)) \subseteq whole
      BY <1>1, ReplayOfAppend
  <2> QED BY <1>4, <2>2, <2>3
<1> QED BY <1>1, <1>2, <1>3, <1>4

\* What a file put on disk leaves there (the environment's NewWritableFile, Append).
LEMMA PutFacts ==
    ASSUME NEW f, NEW n, NEW x, NEW T, f \in [DOMAIN f -> T], x \in T, DOMAIN f \subseteq Nat, n \in Nat
    PROVE  /\ DOMAIN Put(f, n, x) = DOMAIN f \cup {n} /\ DOMAIN Put(f, n, x) \subseteq Nat
           /\ Put(f, n, x) \in [DOMAIN Put(f, n, x) -> T]
           /\ Put(f, n, x)[n] = x /\ \A m \in DOMAIN f : m # n => Put(f, n, x)[m] = f[m]
BY DEF Put

\* What DeleteObsoleteFiles leaves: all of the files in use, and those unchanged.
LEMMA DeleteFacts ==
    ASSUME NEW error \in BOOLEAN, NEW live, NEW log \in Nat, NEW manifest \in Nat, FilesTypeOK,
           DeleteObsoleteFiles(error, live, log, manifest, logs, tables, manifests),
           UNCHANGED <<current, created>>
    PROVE  /\ FilesTypeOK'
           /\ \A n \in DOMAIN tables : error \/ n \in live => n \in DOMAIN tables'
           /\ \A n \in DOMAIN logs : n >= log => n \in DOMAIN logs'
           /\ \A n \in DOMAIN manifests : n >= manifest => n \in DOMAIN manifests'
           /\ \A n \in DOMAIN tables' : n \in DOMAIN tables /\ tables'[n] = tables[n]
           /\ \A n \in DOMAIN logs' : n \in DOMAIN logs /\ logs'[n] = logs[n]
           /\ \A n \in DOMAIN manifests' : n \in DOMAIN manifests /\ manifests'[n] = manifests[n]
<1>1. CASE error
    BY <1>1 DEF DeleteObsoleteFiles, FilesTypeOK
<1>2. CASE ~error
  <2>1. /\ logs' = [m \in {n \in DOMAIN logs : n >= log} |-> logs[m]]
        /\ tables' = [m \in {n \in DOMAIN tables : n \in live} |-> tables[m]]
        /\ manifests' = [m \in {n \in DOMAIN manifests : n >= manifest} |-> manifests[m]]
      BY <1>2 DEF DeleteObsoleteFiles, Keep
  <2>2. \A f, g, S, T : /\ f \in [DOMAIN f -> T] /\ DOMAIN f \subseteq Nat
                        /\ g = [m \in {n \in DOMAIN f : n \in S} |-> f[m]]
                        => /\ DOMAIN g \subseteq Nat /\ g \in [DOMAIN g -> T]
                           /\ \A n \in DOMAIN g : n \in DOMAIN f /\ g[n] = f[n]
                           /\ \A n \in DOMAIN f : n \in S => n \in DOMAIN g
      OBVIOUS
  <2>3. /\ DOMAIN tables' \subseteq Nat /\ tables' \in [DOMAIN tables' -> TableFile]
        /\ \A n \in DOMAIN tables' : n \in DOMAIN tables /\ tables'[n] = tables[n]
        /\ \A n \in DOMAIN tables : n \in live => n \in DOMAIN tables'
      BY <2>1, <2>2 DEF FilesTypeOK
  <2>4. /\ DOMAIN logs' \subseteq Nat /\ logs' \in [DOMAIN logs' -> LogFile]
        /\ \A n \in DOMAIN logs' : n \in DOMAIN logs /\ logs'[n] = logs[n]
        /\ \A n \in DOMAIN logs : n >= log => n \in DOMAIN logs'
      BY <2>1 DEF FilesTypeOK
  <2>5. /\ DOMAIN manifests' \subseteq Nat /\ manifests' \in [DOMAIN manifests' -> ManifestFile]
        /\ \A n \in DOMAIN manifests' : n \in DOMAIN manifests /\ manifests'[n] = manifests[n]
        /\ \A n \in DOMAIN manifests : n >= manifest => n \in DOMAIN manifests'
      BY <2>1 DEF FilesTypeOK
  <2> QED BY <1>2, <2>3, <2>4, <2>5 DEF FilesTypeOK
<1> QED BY <1>1, <1>2

\* The tables in use stay whole through DeleteObsoleteFiles.
LEMMA WholeAfterDelete ==
    ASSUME NEW S, NEW error, NEW live, S \subseteq Good, ~error => S \subseteq live,
           \A n \in DOMAIN tables : error \/ n \in live => n \in DOMAIN tables',
           \A n \in DOMAIN tables' : n \in DOMAIN tables /\ tables'[n] = tables[n]
    PROVE  S \subseteq Good'
BY DEF Good

\* A table put on disk in one go, or under a new number, breaks no other one.
LEMMA WholeAfterPut ==
    ASSUME FilesTypeOK, NEW n \in Nat, NEW x \in TableFile, tables' = Put(tables, n, x)
    PROVE  /\ x.synced => Good \cup {n} \subseteq Good'
           /\ Good \ {n} \subseteq Good'
<1>1. /\ DOMAIN tables' = DOMAIN tables \cup {n} /\ tables'[n] = x
      /\ \A m \in DOMAIN tables : m # n => tables'[m] = tables[m]
    BY DEF Put
<1> QED BY <1>1 DEF Good

\* The manifest in use is left alone.
LEMMA DiskStays ==
    ASSUME FilesTypeOK, DiskInv, UNCHANGED <<current, created>>, created => phase' # "corrupt",
           Good \subseteq Good' \/ (current # 0 => ManifestIsSafe(manifests[current], Good')),
           current # 0 => current \in DOMAIN manifests' /\ manifests'[current] = manifests[current]
    PROVE  DiskInv'
<1>1. CASE current = 0
    BY <1>1 DEF DiskInv
<1>2. CASE current # 0
  <2>1. ManifestIsSafe(manifests[current], Good)
      BY <1>2 DEF DiskInv
  <2>2. ManifestIsSafe(manifests[current], Good')
      BY <1>2, <2>1 DEF ManifestIsSafe
  <2> QED BY <1>2, <2>2 DEF DiskInv
<1> QED BY <1>1, <1>2

\* The memory is gone (a crash, the end of the destructor, a failed DB::Open).
LEMMA DropKeeps ==
    ASSUME DropMemory, FilesTypeOK', DiskInv', WritersInv'
    PROVE  FilesInv'
<1>1. /\ phase' = "closed" /\ opening' = NotOpening /\ version' = {} /\ iters' = {} /\ pending' = {}
      /\ logfileNumber' = 0 /\ nextFile' = 2 /\ lastSequence' = 0 /\ logNumber' = 0 /\ manifestNumber' = 0
      /\ mem' = {} /\ imm' = <<>> /\ bgError' = FALSE /\ bg' = NoBg /\ queue' = <<>>
    BY DEF DropMemory
<1>2. VersionTypeOK'
    BY <1>1 DEF VersionTypeOK, NotOpening
<1>3. MemoryTypeOK' /\ BgTypeOK'
  <2>1. imm' \in Seq(SUBSET EntryRecord) /\ Len(imm') = 0
      BY <1>1
  <2>2. MemoryTypeOK'
    <3>1. mem' \subseteq EntryRecord /\ bgError' \in BOOLEAN
        BY <1>1
    <3> QED BY <2>1, <3>1 DEF MemoryTypeOK
  <2>3. <<>> \in Seq(Merge) /\ Len(<<>>) = 0
      OBVIOUS
  <2>4. BgTypeOK'
      BY <1>1, <2>3 DEF BgTypeOK, BgRecord, NoBg
  <2> QED BY <2>2, <2>4
<1>4. OnlyWhenOpen' /\ RecoverInv' /\ NewManifestInv' /\ OpenInv' /\ VersionIsLogged' /\ BgInv'
    BY <1>1 DEF OnlyWhenOpen, RecoverInv, NewManifestInv, OpenInv, VersionIsLogged, BgInv, IsOpen
<1> QED BY <1>2, <1>3, <1>4 DEF FilesInv

\* Appends may fail, but leave no part of a record.
NoTornWrites == "torn" \notin Faults

\* What an append leaves then: the record, or nothing (log::Writer::AddRecord).
LEMMA AppendCases ==
    ASSUME NoTornWrites, NEW R, NEW r, NEW a \in Append1(R, r)
    PROVE  (~a.failed /\ a.recs = Append(R, r)) \/ (a.failed /\ a.recs = R)
BY DEF NoTornWrites, Append1

\* A step that is about neither the files nor the version keeps the invariant.
LEMMA QuietKeeps ==
    ASSUME FilesInv, WritersInv', queue' # <<>> => phase = "open", created' = created,
           UNCHANGED <<files, phase, opening, memVars, versionVars, pending, bgError, bg, iters>>
    PROVE  FilesInv'
<1> USE DEF FilesInv, files, memVars, versionVars
<1>0. FilesTypeOK' /\ VersionTypeOK'
    BY DEF FilesTypeOK, VersionTypeOK
<1>1. MemoryTypeOK' /\ BgTypeOK'
    BY DEF MemoryTypeOK, BgTypeOK
<1>2. OnlyWhenOpen' /\ DiskInv'
    BY DEF OnlyWhenOpen, IsOpen, DiskInv, ManifestIsSafe, NumbersRise, Good, Below
<1>3. RecoverInv' /\ NewManifestInv'
    BY DEF RecoverInv, NewManifestInv, Good, Below
<1>4. OpenInv' /\ VersionIsLogged' /\ BgInv'
    BY DEF OpenInv, VersionIsLogged, BgInv, IsOpen, Good, Below, Recs, Adds
<1> QED BY <1>0, <1>1, <1>2, <1>3, <1>4

\* The writes of a group to the log leave the other files alone (DBImpl::Write).
LEMMA AddRecordKeeps ==
    ASSUME NoTornWrites, FilesInv, WritersInv', NEW w \in Writers, AddRecord(w), phase = "open"
    PROVE  FilesInv'
<1> DEFINE log == logs[logfileNumber]
           record == [seq |-> lastSequence + 1, ops |-> GroupOps]
           entries == {Entry(lastSequence + i, GroupOps[i]) : i \in DOMAIN GroupOps}
<1>1. /\ UNCHANGED <<tables, manifests, current, phase, opening, imm, logfileNumber, versionVars, pending,
                     bgError, bg, iters, queue, created>>
      /\ mem' \subseteq mem \cup entries
    BY DEF AddRecord, history
<1>2. logfileNumber \in DOMAIN logs /\ log \in LogFile /\ lastSequence \in Nat /\ logfileNumber \in Nat
    BY DEF FilesInv, OpenInv, IsOpen, FilesTypeOK, VersionTypeOK
<1>3. GroupOps \in Seq(Nat)
    BY GroupOpsAreSome DEF FilesInv, WritersInv
<1>4. record \in LogRecord /\ entries \subseteq EntryRecord
    BY <1>2, <1>3 DEF LogRecord, EntryRecord, Entry
<1>5. PICK a \in Append1(log.recs, record), synced \in BOOLEAN :
          logs' = Put(logs, logfileNumber, [recs |-> a.recs, synced |-> IF synced THEN Len(a.recs) ELSE log.synced])
  <2> DEFINE New(a, synced) == [recs |-> a.recs, synced |-> IF synced THEN Len(a.recs) ELSE log.synced]
  <2> HIDE DEF record, log, New
  <2>1. \E a \in Append1(log.recs, record) : \E synced \in BOOLEAN : logs' = Put(logs, logfileNumber, New(a, synced))
      BY DEF AddRecord, New, record, log
  <2> QED BY <2>1 DEF New
<1> DEFINE new == [recs |-> a.recs, synced |-> IF synced THEN Len(a.recs) ELSE log.synced]
<1>6. new \in LogFile
  <2>1. log.recs \in Seq(LogRecord) /\ log.synced \in Nat /\ log.synced <= Len(log.recs) /\ Len(log.recs) \in Nat
      BY <1>2 DEF LogFile
  <2>2. a.recs = Append(log.recs, record) \/ a.recs = log.recs
      BY AppendCases
  <2> HIDE DEF record, log
  <2>3. a.recs \in Seq(LogRecord) /\ log.synced <= Len(a.recs) /\ Len(a.recs) \in Nat
    <3>1. CASE a.recs = log.recs
        BY <2>1, <3>1
    <3>2. CASE a.recs = Append(log.recs, record)
      <4>1. Append(log.recs, record) \in Seq(LogRecord) /\ Len(Append(log.recs, record)) = Len(log.recs) + 1
          BY <1>4, <2>1
      <4> QED BY <2>1, <3>2, <4>1
    <3> QED BY <2>2, <3>1, <3>2
  <2> QED BY <2>1, <2>3 DEF LogFile
<1> HIDE DEF new, record, log, entries
<1>7. FilesTypeOK' /\ DOMAIN logs' = DOMAIN logs
  <2>1. logs' = Put(logs, logfileNumber, new)
      BY <1>5 DEF new
  <2>2. DOMAIN logs' = DOMAIN logs \cup {logfileNumber} /\ logs' \in [DOMAIN logs' -> LogFile]
      BY <1>2, <1>6, <2>1 DEF FilesInv, FilesTypeOK, Put
  <2> QED BY <1>1, <1>2, <2>2 DEF FilesInv, FilesTypeOK
<1>8. MemoryTypeOK' /\ VersionTypeOK' /\ BgTypeOK'
    BY <1>1, <1>4 DEF FilesInv, MemoryTypeOK, VersionTypeOK, BgTypeOK, versionVars
<1> USE <1>1 DEF FilesInv, versionVars
<1>9. OnlyWhenOpen' /\ DiskInv'
    BY DEF OnlyWhenOpen, IsOpen, DiskInv, ManifestIsSafe, NumbersRise, Good, Below
<1>10. RecoverInv' /\ NewManifestInv'
    BY <1>7 DEF RecoverInv, NewManifestInv, Good, Below
<1>11. OpenInv' /\ VersionIsLogged' /\ BgInv'
    BY <1>7 DEF OpenInv, VersionIsLogged, BgInv, IsOpen, Good, Below, Recs, Adds
<1> QED BY <1>7, <1>8, <1>9, <1>10, <1>11

\* A failed sync of the log stops the database, no more (DBImpl::Write).
LEMMA FinishWriteKeeps ==
    ASSUME FilesInv, WritersInv', NEW w \in Writers, FinishWrite(w), phase = "open"
    PROVE  FilesInv'
<1>1. /\ UNCHANGED <<files, phase, opening, memVars, version, nextFile, logNumber, manifestNumber, pending, bg,
                     iters, created>>
      /\ bgError' = (bgError \/ writer[w].error = "sync") /\ lastSequence' = lastSequence + Len(GroupOps)
    BY DEF FinishWrite
<1>2. bgError' \in BOOLEAN /\ (bgError => bgError')
    BY <1>1
<1>3. lastSequence' \in Nat
    BY <1>1, GroupOpsAreSome DEF FilesInv, WritersInv, VersionTypeOK
<1> USE <1>1, <1>2, <1>3 DEF FilesInv, files, memVars
<1>4. FilesTypeOK' /\ VersionTypeOK' /\ MemoryTypeOK' /\ BgTypeOK'
  <2>1. FilesTypeOK' /\ VersionTypeOK'
      BY DEF FilesTypeOK, VersionTypeOK
  <2>2. MemoryTypeOK' /\ BgTypeOK'
      BY DEF MemoryTypeOK, BgTypeOK
  <2> QED BY <2>1, <2>2
<1>5. OnlyWhenOpen' /\ DiskInv' /\ RecoverInv' /\ NewManifestInv'
    BY DEF OnlyWhenOpen, IsOpen, DiskInv, ManifestIsSafe, NumbersRise, RecoverInv, NewManifestInv, Good, Below
<1>6. OpenInv' /\ VersionIsLogged' /\ BgInv'
    BY DEF OpenInv, VersionIsLogged, BgInv, IsOpen, Good, Below, Recs, Adds
<1> QED BY <1>4, <1>5, <1>6

\* The background thread has work or not; nothing else is set (MaybeScheduleCompaction).
LEMMA ScheduleFacts ==
    ASSUME NEW b, NEW ph, NEW error, NEW im, NEW v
    PROVE  /\ \/ MaybeScheduleCompaction(b, ph, error, im, v) = b
              \/ /\ MaybeScheduleCompaction(b, ph, error, im, v) = [NoBg EXCEPT !.pc = "scheduled"]
                 /\ b.pc = "none" /\ ph = "open"
           /\ [NoBg EXCEPT !.pc = "scheduled"].pc = "scheduled"
           /\ [NoBg EXCEPT !.pc = "scheduled"].merge = <<>> /\ NoBg.merge = <<>> /\ NoBg.pc = "none"
           /\ NoBg \in BgRecord /\ [NoBg EXCEPT !.pc = "scheduled"] \in BgRecord
           /\ Len(<<>>) = 0 /\ DOMAIN <<>> = {}
<1>1. <<>> \in Seq(Merge) /\ Len(<<>>) = 0 /\ DOMAIN <<>> = {}
    OBVIOUS
<1>2. MaybeScheduleCompaction(b, ph, error, im, v) =
          IF b.pc = "none" /\ ph = "open" /\ ~error /\ (im # <<>> \/ Cardinality(v) >= CompactAt)
          THEN [NoBg EXCEPT !.pc = "scheduled"] ELSE b
    BY DEF MaybeScheduleCompaction
<1>3. NoBg \in BgRecord
    BY <1>1 DEF NoBg, BgRecord
<1>4. NoBg.merge = <<>> /\ NoBg.pc = "none"
    BY DEF NoBg
<1> HIDE DEF NoBg
<1>5. /\ [NoBg EXCEPT !.pc = "scheduled"].pc = "scheduled" /\ [NoBg EXCEPT !.pc = "scheduled"].merge = <<>>
      /\ [NoBg EXCEPT !.pc = "scheduled"] \in BgRecord
    BY <1>3, <1>4 DEF BgRecord
<1> QED BY <1>1, <1>2, <1>3, <1>4, <1>5

\* The numbers in the manifest in use.
LEMMA NumbersOfRecs ==
    ASSUME FilesTypeOK, current \in DOMAIN manifests
    PROVE  /\ Recs \in Seq(EditRecord) /\ Adds(Recs) \subseteq Nat /\ Replay(Recs) \subseteq Nat
           /\ Len(Recs) \in Nat /\ manifests[current].synced \in Nat
           /\ manifests[current].synced <= Len(Recs) /\ manifests[current] \in ManifestFile
<1>1. manifests[current] \in ManifestFile
    BY DEF FilesTypeOK
<1>2. Recs \in Seq(EditRecord)
    BY <1>1 DEF ManifestFile, Recs
<1>3. \A i \in DOMAIN Recs : Recs[i] \in EditRecord
    BY <1>2
<1>4. Adds(Recs) \subseteq Nat
    BY <1>3 DEF Adds, EditRecord
<1> QED BY <1>1, <1>2, <1>4, ReplayIsAdded DEF ManifestFile, Recs

\* A new log and an empty memtable (MakeRoomForWrite).
LEMMA SwitchKeeps ==
    ASSUME FilesInv, WritersInv', NEW w \in Writers, SwitchMemTable(w), phase = "open"
    PROVE  FilesInv'
<1> DEFINE new == [recs |-> <<>>, synced |-> 0]
<1>1. /\ logs' = Put(logs, nextFile, new) /\ logfileNumber' = nextFile /\ nextFile' = nextFile + 1
      /\ imm = <<>> /\ imm' = <<mem>> /\ mem' = {}
      /\ bg' = MaybeScheduleCompaction(bg, phase, bgError, imm', version)
      /\ UNCHANGED <<tables, manifests, current, phase, opening, version, lastSequence, logNumber, manifestNumber,
                     pending, bgError, iters, created>>
    BY DEF SwitchMemTable
<1>2. new \in LogFile
  <2>1. <<>> \in Seq(LogRecord) /\ Len(<<>>) = 0
      OBVIOUS
  <2> QED BY <2>1 DEF LogFile
<1> HIDE DEF new
<1>3. FilesTypeOK' /\ DOMAIN logs' = DOMAIN logs \cup {nextFile} /\ nextFile \in Nat
  <2>1. nextFile \in Nat
      BY DEF FilesInv, VersionTypeOK
  <2>2. DOMAIN logs' = DOMAIN logs \cup {nextFile} /\ logs' \in [DOMAIN logs' -> LogFile]
      BY <1>1, <1>2 DEF FilesInv, FilesTypeOK, Put
  <2> QED BY <1>1, <2>1, <2>2 DEF FilesInv, FilesTypeOK
<1>4. bg' = bg \/ (bg' = [NoBg EXCEPT !.pc = "scheduled"] /\ bg.pc = "none")
    BY <1>1, ScheduleFacts
<1>5. bg.pc # "build"
    BY <1>1 DEF FilesInv, BgTypeOK
<1>6. VersionTypeOK' /\ MemoryTypeOK'
  <2>1. VersionTypeOK'
      BY <1>1, <1>3 DEF FilesInv, VersionTypeOK
  <2>2. mem \in SUBSET EntryRecord
      BY DEF FilesInv, MemoryTypeOK
  <2>3. imm' \in Seq(SUBSET EntryRecord) /\ Len(imm') <= 1
      BY <1>1, <2>2
  <2> QED BY <1>1, <2>1, <2>3 DEF FilesInv, MemoryTypeOK
<1>7. BgTypeOK'
  <2>1. CASE bg' = bg
      BY <1>1, <1>5, <2>1 DEF FilesInv, BgTypeOK
  <2>2. CASE bg' = [NoBg EXCEPT !.pc = "scheduled"]
    <3>1. bg' \in BgRecord /\ bg'.pc = "scheduled" /\ Len(bg'.merge) = 0
        BY <2>2, ScheduleFacts
    <3> QED BY <3>1 DEF BgTypeOK
  <2> QED BY <1>4, <2>1, <2>2
<1> USE <1>1 DEF FilesInv
<1>8. OnlyWhenOpen'
    BY DEF OnlyWhenOpen, IsOpen
<1>9. DiskInv' /\ RecoverInv' /\ NewManifestInv'
    BY DEF DiskInv, ManifestIsSafe, NumbersRise, RecoverInv, NewManifestInv, Good, Below
<1>10. OpenInv'
  <2>0. Adds(Recs) \subseteq Nat
      BY NumbersOfRecs DEF OpenInv, IsOpen, DiskInv
  <2>1. Below(Adds(Recs), nextFile')
      BY <1>3, <2>0 DEF OpenInv, IsOpen, Below
  <2>2. logfileNumber \in Nat /\ logNumber \in Nat /\ current \in Nat
      BY DEF VersionTypeOK, FilesTypeOK
  <2>3. Good' = Good /\ Recs' = Recs
      BY DEF Good, Recs
  <2>4. logNumber <= nextFile /\ nextFile < nextFile + 1 /\ current < nextFile + 1
      BY <1>3, <2>2 DEF OpenInv, IsOpen
  <2> QED BY <1>3, <2>1, <2>3, <2>4 DEF OpenInv, IsOpen
<1>11. VersionIsLogged'
    BY <1>4, ScheduleFacts DEF VersionIsLogged, IsOpen, Recs
<1>12. BgInv'
  <2>1. Good' = Good /\ Recs' = Recs
      BY DEF Good, Recs
  <2>2. CASE bg' = [NoBg EXCEPT !.pc = "scheduled"]
    <3>1. bg'.pc = "scheduled" /\ DOMAIN bg'.merge = {}
        BY <2>2, ScheduleFacts
    <3> QED BY <3>1 DEF BgInv
  <2>3. CASE bg' = bg
    <3>0. bg.file \in Nat /\ bg.merge \in Seq(Merge)
        BY DEF BgTypeOK, BgRecord
    <3>1. \A i \in DOMAIN bg.merge : bg.merge[i].out \in Nat
      <4>1. \A i \in DOMAIN bg.merge : bg.merge[i] \in Merge
          BY <3>0
      <4> QED BY <4>1 DEF Merge
    <3>2. bg.pc \in {"edit", "applied"} => bg.edit.log \in Nat /\ bg.edit.next \in Nat
        BY DEF BgTypeOK, EditRecord
    <3>3. logfileNumber \in Nat /\ logfileNumber < nextFile
        BY DEF VersionTypeOK, OpenInv, IsOpen
    <3>4. bg.pc = "build" => bg.file \notin Adds(Recs) /\ bg.file < nextFile'
        BY <1>3, <3>0 DEF BgInv, IsOpen
    <3>5. \A i \in DOMAIN bg.merge : bg.merge[i].out < nextFile'
        BY <1>3, <3>1 DEF BgInv, IsOpen
    <3>6. bg.pc \in {"edit", "applied"} => bg.edit.log <= logfileNumber' /\ bg.edit.next <= nextFile'
        BY <1>3, <3>2, <3>3 DEF BgInv, IsOpen
    <3> QED BY <2>1, <2>3, <3>4, <3>5, <3>6 DEF BgInv, IsOpen
  <2> QED BY <1>4, <2>2, <2>3
<1> QED BY <1>3, <1>6, <1>7, <1>8, <1>9, <1>10, <1>11, <1>12

\* The steps of the writers and the files (DBImpl::Write).
LEMMA WritersKeepFiles ==
    ASSUME NoTornWrites, FilesInv, WritersInv',
           \/ \E w \in Writers, kind \in Kinds : EnterWrite(w, kind)
           \/ \E w \in Writers : WriterStep(w)
    PROVE  FilesInv'
<1>1. phase = "open"
  <2>1. CASE \E w \in Writers, kind \in Kinds : EnterWrite(w, kind)
      BY <2>1 DEF EnterWrite
  <2>2. CASE \E w \in Writers : WriterStep(w)
    <3>1. PICK w \in Writers : writer[w].pc \notin {"idle", "queue"}
        BY <2>2 DEF WriterStep, WriteFails, HasRoom, WaitForRoom, SwitchMemTable, SwitchFails, AddRecord,
                    FinishWrite
    <3>2. queue # <<>>
        BY <3>1, AwakeIsHead DEF FilesInv
    <3> QED BY <3>2 DEF FilesInv, OnlyWhenOpen
  <2> QED BY <2>1, <2>2
<1>2. CASE \E w \in Writers, kind \in Kinds : EnterWrite(w, kind)
    BY <1>1, <1>2, QuietKeeps DEF EnterWrite
<1>3. ASSUME NEW w \in Writers, WriterStep(w) PROVE FilesInv'
  <2>1. CASE WriteFails(w) \/ HasRoom(w) \/ WaitForRoom(w) \/ SwitchFails(w)
    <3>1. /\ UNCHANGED <<files, phase, opening, memVars, versionVars, pending, bgError, bg, iters>>
          /\ created' = created
        BY <2>1 DEF WriteFails, HasRoom, WaitForRoom, SwitchFails, history
    <3> QED BY <1>1, <3>1, QuietKeeps
  <2> QED BY <1>1, <1>3, <2>1, AddRecordKeeps, FinishWriteKeeps, SwitchKeeps DEF WriterStep
<1> QED BY <1>2, <1>3

\* What a step of an open database has to keep of the files and the version.
LEMMA OpenStepKeeps ==
    ASSUME FilesInv, WritersInv', IsOpen,
           UNCHANGED <<current, created, phase, opening, mem, logfileNumber, lastSequence, manifestNumber, iters,
                       queue>>,
           nextFile' \in Nat, nextFile <= nextFile', version' \subseteq Nat, pending' \subseteq Nat,
           logNumber' \in Nat, logNumber' <= logfileNumber, imm' = imm \/ imm' = <<>>, bgError' \in BOOLEAN,
           FilesTypeOK', BgTypeOK', logfileNumber \in DOMAIN logs', DiskInv',
           version' \cup UNION iters \subseteq Good' \cap Adds(Recs'), Below(Adds(Recs'), nextFile'),
           VersionIsLogged', BgInv'
    PROVE  FilesInv'
<1>1. VersionTypeOK'
    BY DEF FilesInv, VersionTypeOK
<1>2. MemoryTypeOK'
  <2>1. <<>> \in Seq(SUBSET EntryRecord) /\ Len(<<>>) = 0
      OBVIOUS
  <2>2. imm' \in Seq(SUBSET EntryRecord) /\ Len(imm') <= 1
    <3>1. CASE imm' = imm
        BY <3>1 DEF FilesInv, MemoryTypeOK
    <3>2. CASE imm' = <<>>
        BY <2>1, <3>2
    <3> QED BY <3>1, <3>2
  <2> QED BY <2>2 DEF FilesInv, MemoryTypeOK
<1>3. OnlyWhenOpen' /\ RecoverInv' /\ NewManifestInv'
    BY DEF FilesInv, IsOpen, OnlyWhenOpen, RecoverInv, NewManifestInv
<1>4. OpenInv'
  <2>1. current \in Nat /\ nextFile \in Nat /\ logfileNumber \in Nat
      BY DEF FilesInv, FilesTypeOK, VersionTypeOK
  <2>2. current < nextFile' /\ logfileNumber < nextFile' /\ manifestNumber = current /\ current # 0
      BY <2>1 DEF FilesInv, OpenInv
  <2> QED BY <2>2 DEF OpenInv
<1> QED BY <1>1, <1>2, <1>3, <1>4 DEF FilesInv

\* The background thread has finished something (CompactMemTable, BackgroundCall).
LEMMA RestFacts ==
    ASSUME BgTypeOK, NEW error, NEW im, NEW v, FlushDone(error, im, v) \/ BackgroundDone(error, im, v)
    PROVE  /\ bgError' = error /\ bg' \in BgRecord /\ bg'.pc \in {"none", "scheduled", "merge"}
           /\ (bg'.pc = "merge" => Len(bg'.merge) = 1)
           /\ (bg'.merge = <<>> \/ bg'.merge = bg.merge)
           /\ (BackgroundDone(error, im, v) => bg'.merge = <<>>)
<1>1. ASSUME BackgroundDone(error, im, v)
      PROVE  /\ bgError' = error /\ bg' \in BgRecord /\ bg'.pc \in {"none", "scheduled"} /\ bg'.merge = <<>>
  <2> DEFINE b == MaybeScheduleCompaction(NoBg, phase, error, im, v)
  <2>1. b = NoBg \/ b = [NoBg EXCEPT !.pc = "scheduled"]
      BY ScheduleFacts
  <2>2. bg' = b /\ bgError' = error
      BY <1>1 DEF BackgroundDone
  <2> HIDE DEF b
  <2> QED BY <2>1, <2>2, ScheduleFacts
<1>2. ASSUME FlushDone(error, im, v), bg.merge # <<>>
      PROVE  /\ bgError' = error /\ bg' \in BgRecord /\ bg'.pc = "merge" /\ bg'.merge = bg.merge
             /\ Len(bg'.merge) = 1
  <2>1. bg' = [NoBg EXCEPT !.pc = "merge", !.merge = bg.merge] /\ bgError' = error
      BY <1>2 DEF FlushDone
  <2>2. NoBg \in BgRecord /\ bg.merge \in Seq(Merge)
      BY ScheduleFacts DEF BgTypeOK, BgRecord
  <2>3. Len(bg.merge) = 1
    <3>1. Len(bg.merge) <= 1
        BY DEF BgTypeOK
    <3> QED BY <1>2, <2>2, <3>1, OnlyElement
  <2> HIDE DEF NoBg
  <2> QED BY <2>1, <2>2, <2>3 DEF BgRecord
<1>3. FlushDone(error, im, v) /\ bg.merge = <<>> => BackgroundDone(error, im, v)
    BY DEF FlushDone
<1> QED BY <1>1, <1>2, <1>3

\* A thread at rest holds no edit; its compaction, if it has one, keeps its inputs.
LEMMA RestKeeps ==
    ASSUME FilesInv, IsOpen, UNCHANGED <<phase, current>>, bg' \in BgRecord,
           bg'.pc \in {"none", "scheduled", "merge"}, bg'.pc = "merge" => Len(bg'.merge) = 1,
           \/ bg'.merge = <<>>
           \/ /\ bg'.merge = bg.merge
              /\ \A i \in DOMAIN bg.merge : bg.merge[i].base \subseteq Good' \cap Adds(Recs'),
           nextFile' \in Nat, nextFile <= nextFile'
    PROVE  BgTypeOK' /\ BgInv'
<1>1. BgTypeOK'
  <2>1. Len(bg'.merge) <= 1
    <3>1. CASE bg'.merge = <<>>
        BY <3>1, ScheduleFacts
    <3>2. CASE bg'.merge = bg.merge
        BY <3>2 DEF FilesInv, BgTypeOK
    <3> QED BY <3>1, <3>2
  <2> QED BY <2>1 DEF BgTypeOK
<1>2. bg'.pc \notin {"build", "edit", "applied"}
    OBVIOUS
<1>3. CASE bg'.merge = <<>>
  <2>1. DOMAIN bg'.merge = {}
      BY <1>3
  <2> QED BY <1>1, <1>2, <2>1 DEF BgInv
<1>4. CASE bg'.merge # <<>>
  <2>1. bg.merge \in Seq(Merge)
      BY DEF FilesInv, BgTypeOK, BgRecord
  <2>2. \A i \in DOMAIN bg.merge : bg.merge[i] \in Merge
      BY <2>1
  <2>3. ASSUME NEW i \in DOMAIN bg.merge PROVE bg.merge[i].out < nextFile'
    <3>1. bg.merge[i].out \in Nat /\ nextFile \in Nat /\ bg.merge[i].out < nextFile
        BY <2>2 DEF FilesInv, BgInv, Merge, VersionTypeOK
    <3> QED BY <3>1
  <2>4. /\ \A i \in DOMAIN bg'.merge : bg'.merge[i].out < nextFile'
        /\ \A i \in DOMAIN bg'.merge : bg'.merge[i].inputs # {} /\ bg'.merge[i].inputs \subseteq bg'.merge[i].base
        /\ \A i \in DOMAIN bg'.merge : bg'.merge[i].base \subseteq Good' \cap Adds(Recs')
    <3>1. bg'.merge = bg.merge /\ \A i \in DOMAIN bg.merge : bg.merge[i].base \subseteq Good' \cap Adds(Recs')
        BY <1>4
    <3>2. \A i \in DOMAIN bg.merge : bg.merge[i].inputs # {} /\ bg.merge[i].inputs \subseteq bg.merge[i].base
        BY DEF FilesInv, BgInv
    <3> QED BY <2>3, <3>1, <3>2, Zenon
  <2> QED BY <1>1, <1>2, <2>4 DEF BgInv
<1> QED BY <1>1, <1>3, <1>4

\* Whatever prefix of a manifest is left, it names only tables that were once added.
LEMMA PrefixIsAdded ==
    ASSUME NEW R \in Seq(EditRecord), NEW k \in 1 .. Len(R)
    PROVE  Replay(SubSeq(R, 1, k)) \subseteq Adds(R)
<1> DEFINE Q == SubSeq(R, 1, k)
<1>1. Q \in Seq(EditRecord) /\ \A i \in DOMAIN Q : i \in DOMAIN R /\ Q[i] = R[i]
    OBVIOUS
<1> HIDE DEF Q
<1>2. Adds(Q) \subseteq Adds(R)
    BY <1>1 DEF Adds
<1> QED BY <1>1, <1>2, ReplayIsAdded DEF Q

\* A manifest stays safe as long as the tables it ever named stay whole.
LEMMA SafeWhileWhole ==
    ASSUME NEW m \in ManifestFile, NEW whole, NEW now, ManifestIsSafe(m, whole),
           whole \cap Adds(m.recs) \subseteq now
    PROVE  ManifestIsSafe(m, now)
<1>1. m.recs \in Seq(EditRecord)
    BY DEF ManifestFile
<1> QED BY <1>1, PrefixIsAdded DEF ManifestIsSafe

\* A background step that leaves the version, the logs and the manifest alone and
\* breaks no table in use.
LEMMA TablesStepKeeps ==
    ASSUME FilesInv, WritersInv', IsOpen,
           UNCHANGED <<logs, manifests, current, created, phase, opening, mem, imm, logfileNumber, version,
                       lastSequence, logNumber, manifestNumber, iters, queue>>,
           nextFile' \in Nat, nextFile <= nextFile', pending' \subseteq Nat, bgError' \in BOOLEAN,
           FilesTypeOK', Good \cap Adds(Recs) \subseteq Good', BgTypeOK', BgInv',
           bg'.pc # "applied", ~bgError' => ~bgError /\ bg.pc # "applied"
    PROVE  FilesInv'
<1>1. Recs' = Recs /\ current # 0 /\ current \in DOMAIN manifests
    BY DEF Recs, FilesInv, OpenInv, DiskInv
<1>2. DiskInv'
  <2>1. ManifestIsSafe(manifests[current], Good)
      BY <1>1 DEF FilesInv, DiskInv
  <2>2. manifests[current] \in ManifestFile /\ manifests[current].recs = Recs
      BY <1>1, NumbersOfRecs DEF FilesInv, Recs
  <2>3. ManifestIsSafe(manifests[current], Good')
      BY <2>1, <2>2, SafeWhileWhole
  <2>4. created => phase' # "corrupt"
      BY DEF IsOpen
  <2> QED BY <1>1, <2>3, <2>4, DiskStays DEF FilesInv
<1>3. version' \cup UNION iters \subseteq Good' \cap Adds(Recs')
    BY <1>1 DEF FilesInv, OpenInv
<1>4. Below(Adds(Recs'), nextFile')
  <2>1. Adds(Recs) \subseteq Nat /\ nextFile \in Nat /\ Below(Adds(Recs), nextFile)
      BY <1>1, NumbersOfRecs DEF FilesInv, OpenInv, VersionTypeOK
  <2> QED BY <1>1, <2>1 DEF Below
<1>5. VersionIsLogged'
    BY <1>1 DEF FilesInv, VersionIsLogged, IsOpen
<1>6. logfileNumber \in DOMAIN logs' /\ logNumber' <= logfileNumber /\ logNumber' \in Nat /\ version' \subseteq Nat
    BY DEF FilesInv, OpenInv, VersionTypeOK
<1> QED BY <1>2, <1>3, <1>4, <1>5, <1>6, OpenStepKeeps

\* The background thread is at work only while the database is open.
LEMMA AtWorkIsOpen ==
    ASSUME OnlyWhenOpen, bg.pc # "none" PROVE IsOpen
BY ScheduleFacts DEF OnlyWhenOpen

\* The thread stops after a step that breaks no table in use and installs nothing.
LEMMA StopKeeps ==
    ASSUME FilesInv, WritersInv', IsOpen, NEW error \in BOOLEAN, NEW im, NEW v,
           FlushDone(error, im, v) \/ BackgroundDone(error, im, v), ~error => ~bgError /\ bg.pc # "applied",
           UNCHANGED <<logs, manifests, current, created, phase, opening, mem, imm, logfileNumber, version,
                       lastSequence, logNumber, manifestNumber, iters, queue>>,
           nextFile' \in Nat, nextFile <= nextFile', pending' \subseteq Nat,
           FilesTypeOK', Good \cap Adds(Recs) \subseteq Good'
    PROVE  FilesInv'
<1>1. /\ bgError' = error /\ bg' \in BgRecord /\ bg'.pc \in {"none", "scheduled", "merge"}
      /\ (bg'.pc = "merge" => Len(bg'.merge) = 1)
      /\ (bg'.merge = <<>> \/ bg'.merge = bg.merge)
    BY RestFacts DEF FilesInv
<1>2. Recs' = Recs
    BY DEF Recs
<1>3. \A i \in DOMAIN bg.merge : bg.merge[i].base \subseteq Good' \cap Adds(Recs')
    BY <1>2 DEF FilesInv, BgInv
<1>4. BgTypeOK' /\ BgInv'
    BY <1>1, <1>3, RestKeeps
<1>5. bg'.pc # "applied" /\ bgError' \in BOOLEAN /\ (~bgError' => ~bgError /\ bg.pc # "applied")
    BY <1>1
<1> QED BY <1>4, <1>5, TablesStepKeeps

\* BackgroundCall finds nothing to do.
LEMMA NothingToDoKeeps == ASSUME FilesInv, WritersInv', NothingToDo PROVE FilesInv'
<1>1. /\ BackgroundDone(bgError, imm, version) /\ bg.pc = "scheduled"
      /\ UNCHANGED <<logs, manifests, current, created, phase, opening, mem, imm, logfileNumber, version,
                     lastSequence, logNumber, manifestNumber, iters, queue, tables, nextFile, pending>>
    BY DEF NothingToDo, files, memVars, versionVars, history
<1>2. IsOpen /\ bgError \in BOOLEAN
    BY <1>1, AtWorkIsOpen DEF FilesInv, MemoryTypeOK
<1>3. FilesTypeOK' /\ Good' = Good /\ nextFile' \in Nat /\ nextFile <= nextFile' /\ pending' \subseteq Nat
    BY <1>1 DEF FilesInv, FilesTypeOK, VersionTypeOK, Good
<1>4. ~bgError => ~bgError /\ bg.pc # "applied"
    BY <1>1
<1>5. Good \cap Adds(Recs) \subseteq Good'
    BY <1>3
<1> QED BY <1>1, <1>2, <1>3, <1>4, <1>5, StopKeeps

\* The merge ends early.
LEMMA MergeFailsKeeps == ASSUME FilesInv, WritersInv', MergeFails PROVE FilesInv'
<1>1. /\ BackgroundDone(TRUE, imm, version) /\ bg.pc = "merge" /\ pending' = pending \ {bg.merge[1].out}
      /\ UNCHANGED <<logs, manifests, current, created, phase, opening, mem, imm, logfileNumber, version,
                     lastSequence, logNumber, manifestNumber, iters, queue, tables, nextFile>>
    BY DEF MergeFails, files, memVars, versionVars, history
<1>2. IsOpen
    BY <1>1, AtWorkIsOpen DEF FilesInv
<1>3. FilesTypeOK' /\ Good' = Good /\ nextFile' \in Nat /\ nextFile <= nextFile' /\ pending' \subseteq Nat
    BY <1>1 DEF FilesInv, FilesTypeOK, VersionTypeOK, Good
<1>5. Good \cap Adds(Recs) \subseteq Good'
    BY <1>3
<1> QED BY <1>1, <1>2, <1>3, <1>5, StopKeeps

\* A table that is being written under a number that no edit ever named.
LEMMA NewTableFacts ==
    ASSUME FilesTypeOK, NEW n \in Nat, NEW x \in TableFile, tables' = Put(tables, n, x), n \notin Adds(Recs) \/ x.synced,
           UNCHANGED <<logs, manifests, current, created>>
    PROVE  FilesTypeOK' /\ Good \cap Adds(Recs) \subseteq Good' /\ (x.synced => Good \cup {n} \subseteq Good')
<1>1. DOMAIN tables' = DOMAIN tables \cup {n} /\ tables' \in [DOMAIN tables' -> TableFile] /\ DOMAIN tables' \subseteq Nat
    BY DEF FilesTypeOK, Put
<1>2. FilesTypeOK'
    BY <1>1 DEF FilesTypeOK
<1>3. (x.synced => Good \cup {n} \subseteq Good') /\ Good \ {n} \subseteq Good'
    BY WholeAfterPut
<1> QED BY <1>2, <1>3

\* The compaction under way keeps its inputs while other things happen.
LEMMA MergeStays ==
    ASSUME FilesInv, IsOpen, Good \cap Adds(Recs) \subseteq Good', Adds(Recs) \subseteq Adds(Recs'),
           nextFile' \in Nat, nextFile <= nextFile'
    PROVE  \A i \in DOMAIN bg.merge :
              /\ bg.merge[i].out < nextFile' /\ bg.merge[i].inputs # {}
              /\ bg.merge[i].inputs \subseteq bg.merge[i].base
              /\ bg.merge[i].base \subseteq Good' \cap Adds(Recs')
<1>1. \A i \in DOMAIN bg.merge : bg.merge[i] \in Merge
  <2>1. bg.merge \in Seq(Merge)
      BY DEF FilesInv, BgTypeOK, BgRecord
  <2> QED BY <2>1
<1>2. SUFFICES ASSUME NEW i \in DOMAIN bg.merge
      PROVE  /\ bg.merge[i].out < nextFile' /\ bg.merge[i].inputs # {}
             /\ bg.merge[i].inputs \subseteq bg.merge[i].base
             /\ bg.merge[i].base \subseteq Good' \cap Adds(Recs')
    OBVIOUS
<1>3. /\ bg.merge[i].out < nextFile /\ bg.merge[i].inputs # {}
      /\ bg.merge[i].inputs \subseteq bg.merge[i].base /\ bg.merge[i].base \subseteq Good \cap Adds(Recs)
    BY DEF FilesInv, BgInv
<1>4. bg.merge[i].out \in Nat /\ nextFile \in Nat
    BY <1>1 DEF Merge, FilesInv, VersionTypeOK
<1> QED BY <1>3, <1>4

\* WriteLevel0Table takes a number and starts the table.
LEMMA StartFlushKeeps == ASSUME FilesInv, WritersInv', StartFlush PROVE FilesInv'
<1> DEFINE x == [entries |-> {}, synced |-> FALSE]
<1>1. /\ imm # <<>> /\ bg.pc \in {"merge", "scheduled"} /\ (bgError => bg.pc = "merge")
      /\ bg' = [bg EXCEPT !.pc = "build", !.file = nextFile] /\ nextFile' = nextFile + 1
      /\ pending' = pending \cup {nextFile} /\ (tables' = tables \/ tables' = Put(tables, nextFile, x))
      /\ UNCHANGED <<logs, manifests, current, created, phase, opening, mem, imm, logfileNumber, version,
                     lastSequence, logNumber, manifestNumber, iters, queue, bgError>>
    BY DEF StartFlush, memVars, writeVars, history
<1>2. IsOpen /\ nextFile \in Nat /\ pending' \subseteq Nat /\ bgError \in BOOLEAN
    BY <1>1, AtWorkIsOpen DEF FilesInv, VersionTypeOK, MemoryTypeOK
<1>3. Recs' = Recs /\ Adds(Recs) \subseteq Nat
    BY <1>1, <1>2, NumbersOfRecs DEF Recs, FilesInv, OpenInv, DiskInv
<1>4. nextFile \notin Adds(Recs)
    BY <1>2, <1>3 DEF FilesInv, OpenInv, Below
<1>5. FilesTypeOK' /\ Good \cap Adds(Recs) \subseteq Good'
  <2>1. CASE tables' = tables
      BY <1>1, <2>1 DEF FilesInv, FilesTypeOK, Good
  <2>2. CASE tables' = Put(tables, nextFile, x)
    <3>1. x \in TableFile
        BY DEF TableFile
    <3> HIDE DEF x
    <3> QED BY <1>1, <1>2, <1>4, <2>2, <3>1, NewTableFacts DEF FilesInv
  <2> QED BY <1>1, <2>1, <2>2
<1>6. nextFile' \in Nat /\ nextFile <= nextFile' /\ nextFile < nextFile'
    BY <1>1, <1>2
<1>7. bg'.pc = "build" /\ bg'.file = nextFile /\ bg'.merge = bg.merge /\ bg' \in BgRecord
    BY <1>1, <1>2 DEF FilesInv, BgTypeOK, BgRecord
<1>8. BgTypeOK'
  <2>1. imm' \in Seq(SUBSET EntryRecord) /\ imm' # <<>> /\ Len(imm') <= 1
      BY <1>1 DEF FilesInv, MemoryTypeOK
  <2>2. Len(imm') = 1
      BY <2>1, OnlyElement
  <2> QED BY <1>7, <2>2 DEF FilesInv, BgTypeOK
<1>9. BgInv'
    BY <1>2, <1>3, <1>4, <1>5, <1>6, <1>7, MergeStays DEF BgInv
<1> QED BY <1>1, <1>2, <1>5, <1>6, <1>7, <1>8, <1>9, TablesStepKeeps

\* BuildTable has written and synced the table.
LEMMA BuildTableKeeps == ASSUME FilesInv, WritersInv', BuildTable PROVE FilesInv'
<1> DEFINE x == [entries |-> imm[1], synced |-> TRUE]
           edit == Edit(logfileNumber, IF imm[1] = {} THEN {} ELSE {bg.file}, {})
<1>1. /\ bg.pc = "build" /\ pending' = pending \ {bg.file}
      /\ tables' = IF imm[1] = {} THEN tables ELSE Put(tables, bg.file, x)
      /\ UNCHANGED <<logs, manifests, current, created, phase, opening, mem, imm, logfileNumber, version,
                     lastSequence, logNumber, manifestNumber, iters, queue, nextFile>>
      /\ \/ FlushDone(TRUE, imm, version)
         \/ bg' = [bg EXCEPT !.pc = "edit", !.edit = edit] /\ UNCHANGED bgError
    BY DEF BuildTable, memVars, versionVars, history
<1>2. IsOpen /\ nextFile \in Nat /\ bg.file \in Nat /\ bg.file < nextFile /\ bg.file \notin Adds(Recs)
    BY <1>1, AtWorkIsOpen DEF FilesInv, VersionTypeOK, BgInv, BgTypeOK, BgRecord
<1>3. Recs' = Recs /\ Adds(Recs) \subseteq Nat
    BY <1>1, <1>2, NumbersOfRecs DEF Recs, FilesInv, OpenInv, DiskInv
<1>4. imm[1] \in SUBSET EntryRecord
  <2>1. Len(imm) = 1 /\ imm \in Seq(SUBSET EntryRecord)
      BY <1>1 DEF FilesInv, BgTypeOK, MemoryTypeOK
  <2>2. imm # <<>> /\ Len(imm) <= 1
      BY <2>1, EmptySequence
  <2> QED BY <2>1, <2>2, OnlyElement
<1>5. /\ FilesTypeOK' /\ Good \cap Adds(Recs) \subseteq Good'
      /\ (imm[1] # {} => bg.file \in Good')
  <2>1. CASE imm[1] = {}
      BY <1>1, <2>1 DEF FilesInv, FilesTypeOK, Good
  <2>2. CASE imm[1] # {}
    <3>1. x \in TableFile /\ x.synced
        BY <1>4 DEF TableFile
    <3> HIDE DEF x
    <3> QED BY <1>1, <1>2, <2>2, <3>1, NewTableFacts DEF FilesInv
  <2> QED BY <2>1, <2>2
<1>6. nextFile' \in Nat /\ nextFile <= nextFile' /\ pending' \subseteq Nat
    BY <1>1, <1>2 DEF FilesInv, VersionTypeOK
<1>7. CASE FlushDone(TRUE, imm, version)
    BY <1>1, <1>2, <1>5, <1>6, <1>7, StopKeeps
<1>8. CASE bg' = [bg EXCEPT !.pc = "edit", !.edit = edit] /\ UNCHANGED bgError
  <2>1. /\ edit \in EditRecord /\ edit.log = logfileNumber /\ edit.next = nextFile /\ edit.del = {}
        /\ edit.add = IF imm[1] = {} THEN {} ELSE {bg.file}
    <3>1. logfileNumber \in Nat /\ lastSequence \in Nat
        BY DEF FilesInv, VersionTypeOK
    <3> QED BY <1>2, <3>1 DEF EditRecord, Edit
  <2> HIDE DEF edit
  <2>2. bg'.pc = "edit" /\ bg'.edit = edit /\ bg'.merge = bg.merge /\ bg' \in BgRecord
      BY <1>8, <2>1 DEF FilesInv, BgTypeOK, BgRecord
  <2>3. BgTypeOK'
      BY <2>1, <2>2 DEF FilesInv, BgTypeOK
  <2>4. edit.add \subseteq Good'
      BY <1>5, <2>1
  <2>5. current < nextFile /\ Below(Adds(Recs) \cup edit.add, nextFile) /\ logfileNumber \in Nat
      BY <1>2, <2>1 DEF FilesInv, OpenInv, Below, VersionTypeOK
  <2>6. BgInv'
    <3>1. /\ \A i \in DOMAIN bg'.merge : bg'.merge[i].out < nextFile'
          /\ \A i \in DOMAIN bg'.merge : bg'.merge[i].inputs # {} /\ bg'.merge[i].inputs \subseteq bg'.merge[i].base
          /\ \A i \in DOMAIN bg'.merge : bg'.merge[i].base \subseteq Good' \cap Adds(Recs')
        BY <1>2, <1>3, <1>5, <1>6, <2>2, MergeStays
    <3>2. /\ edit.log <= logfileNumber' /\ edit.next <= nextFile' /\ edit.del = {} /\ current' < edit.next
          /\ Below(Adds(Recs') \cup edit.add, edit.next)
        BY <1>1, <1>2, <1>3, <2>1, <2>5
    <3> QED BY <2>2, <2>4, <3>1, <3>2 DEF BgInv
  <2> QED BY <1>1, <1>2, <1>5, <1>6, <1>8, <2>2, <2>3, <2>6, TablesStepKeeps DEF FilesInv, MemoryTypeOK
<1> QED BY <1>1, <1>7, <1>8

\* BuildTable fails: the file goes.
LEMMA BuildTableFailsKeeps == ASSUME FilesInv, WritersInv', BuildTableFails PROVE FilesInv'
<1>1. /\ bg.pc = "build" /\ pending' = pending \ {bg.file}
      /\ tables' = Keep(tables, LAMBDA n : n # bg.file)
      /\ UNCHANGED <<logs, manifests, current, created, phase, opening, mem, imm, logfileNumber, version,
                     lastSequence, logNumber, manifestNumber, iters, queue, nextFile>>
      /\ FlushDone(TRUE, imm, version)
    BY DEF BuildTableFails, memVars, versionVars, history
<1>2. IsOpen /\ bg.file \notin Adds(Recs)
    BY <1>1, AtWorkIsOpen DEF FilesInv, BgInv
<1>3. /\ DOMAIN tables' = {n \in DOMAIN tables : n # bg.file}
      /\ \A n \in DOMAIN tables' : tables'[n] = tables[n]
    BY <1>1 DEF Keep
<1>4. FilesTypeOK' /\ Good \cap Adds(Recs) \subseteq Good'
  <2>1. DOMAIN tables' \subseteq Nat /\ tables' \in [DOMAIN tables' -> TableFile]
    <3>1. tables' = [m \in {n \in DOMAIN tables : n # bg.file} |-> tables[m]]
        BY <1>1 DEF Keep
    <3> QED BY <3>1 DEF FilesInv, FilesTypeOK
  <2>2. FilesTypeOK'
      BY <1>1, <2>1 DEF FilesInv, FilesTypeOK
  <2> QED BY <1>2, <1>3, <2>2 DEF Good
<1>5. nextFile' \in Nat /\ nextFile <= nextFile' /\ pending' \subseteq Nat
    BY <1>1 DEF FilesInv, VersionTypeOK
<1> QED BY <1>1, <1>2, <1>4, <1>5, StopKeeps

\* A compaction takes some tables of the current version and a number for its output.
LEMMA StartMergeKeeps == ASSUME FilesInv, WritersInv', StartMerge PROVE FilesInv'
<1> DEFINE x == [entries |-> {}, synced |-> FALSE]
           Started(inputs) ==
               /\ bg' = [NoBg EXCEPT !.pc = "merge",
                            !.merge = <<[out |-> nextFile, inputs |-> inputs, base |-> version]>>]
               /\ pending' = pending \cup {nextFile} /\ tables' = Put(tables, nextFile, x) /\ bgError' = bgError
<1>1. /\ bg.pc = "scheduled" /\ ~bgError /\ nextFile' = nextFile + 1
      /\ UNCHANGED <<logs, manifests, current, created, phase, opening, mem, imm, logfileNumber, version,
                     lastSequence, logNumber, manifestNumber, iters, queue>>
      /\ \/ \E inputs \in SUBSET version : Cardinality(inputs) >= 2 /\ Started(inputs)
         \/ BackgroundDone(TRUE, imm, version) /\ tables' = tables /\ pending' = pending
    BY DEF StartMerge, memVars, history
<1>2. IsOpen /\ nextFile \in Nat /\ bgError \in BOOLEAN
    BY <1>1, AtWorkIsOpen DEF FilesInv, VersionTypeOK, MemoryTypeOK
<1>3. Recs' = Recs /\ Adds(Recs) \subseteq Nat
    BY <1>1, <1>2, NumbersOfRecs DEF Recs, FilesInv, OpenInv, DiskInv
<1>4. nextFile \notin Adds(Recs) /\ nextFile' \in Nat /\ nextFile <= nextFile' /\ nextFile < nextFile'
  <2>1. nextFile \notin Adds(Recs)
      BY <1>2, <1>3 DEF FilesInv, OpenInv, Below
  <2>2. nextFile' = nextFile + 1
      BY <1>1, Zenon
  <2> QED BY <1>2, <2>1, <2>2
<1>5. CASE BackgroundDone(TRUE, imm, version) /\ tables' = tables /\ pending' = pending
  <2>1. FilesTypeOK' /\ Good \cap Adds(Recs) \subseteq Good' /\ pending' \subseteq Nat
      BY <1>1, <1>5 DEF FilesInv, FilesTypeOK, Good, VersionTypeOK
  <2> QED BY <1>1, <1>2, <1>4, <1>5, <2>1, StopKeeps
<1>6. ASSUME NEW inputs \in SUBSET version, Cardinality(inputs) >= 2, Started(inputs) PROVE FilesInv'
  <2> DEFINE m == [out |-> nextFile, inputs |-> inputs, base |-> version]
  <2>1. inputs # {}
      BY <1>6, FS_EmptySet
  <2>2. m \in Merge /\ m.out = nextFile /\ m.inputs = inputs /\ m.base = version
      BY <1>2 DEF Merge, FilesInv, VersionTypeOK
  <2>3. FilesTypeOK' /\ Good \cap Adds(Recs) \subseteq Good' /\ pending' \subseteq Nat
    <3>1. x \in TableFile
        BY DEF TableFile
    <3>2. pending' \subseteq Nat /\ tables' = Put(tables, nextFile, x)
        BY <1>2, <1>6 DEF FilesInv, VersionTypeOK
    <3> HIDE DEF x
    <3> QED BY <1>1, <1>2, <1>4, <3>1, <3>2, NewTableFacts DEF FilesInv
  <2>4. bg' = [NoBg EXCEPT !.pc = "merge", !.merge = <<m>>]
      BY <1>6
  <2> HIDE DEF m
  <2>5. <<m>> \in Seq(Merge) /\ Len(<<m>>) = 1 /\ DOMAIN <<m>> = {1} /\ <<m>>[1] = m
      BY <2>2
  <2>6. bg'.pc = "merge" /\ bg'.merge = <<m>> /\ bg' \in BgRecord
    <3>1. NoBg \in BgRecord
        BY ScheduleFacts
    <3> HIDE DEF NoBg
    <3> QED BY <2>4, <2>5, <3>1 DEF BgRecord
  <2>7. BgTypeOK'
      BY <2>5, <2>6 DEF BgTypeOK
  <2>8. version \subseteq Good' \cap Adds(Recs')
      BY <1>2, <1>3, <2>3 DEF FilesInv, OpenInv
  <2>9. BgInv'
      BY <1>4, <2>1, <2>2, <2>5, <2>6, <2>8 DEF BgInv
  <2> QED BY <1>1, <1>2, <1>4, <1>6, <2>3, <2>6, <2>7, <2>9, TablesStepKeeps
<1> QED BY <1>1, <1>5, <1>6

\* The compaction has written its output.
LEMMA FinishMergeKeeps == ASSUME FilesInv, WritersInv', FinishMerge PROVE FilesInv'
<1> DEFINE m == bg.merge[1]
           x == [entries |-> UNION {tables[n].entries : n \in m.inputs}, synced |-> TRUE]
           edit == Edit(logNumber, {m.out}, m.inputs)
<1>1. /\ bg.pc = "merge" /\ tables' = Put(tables, m.out, x) /\ bg' = [bg EXCEPT !.pc = "edit", !.edit = edit]
      /\ UNCHANGED <<logs, manifests, current, created, phase, opening, mem, imm, logfileNumber, version,
                     lastSequence, logNumber, manifestNumber, iters, queue, nextFile, pending, bgError>>
    BY DEF FinishMerge, memVars, versionVars, writeVars, history
<1>2. IsOpen /\ nextFile \in Nat /\ bgError \in BOOLEAN /\ pending \subseteq Nat /\ nextFile <= nextFile
    BY <1>1, AtWorkIsOpen DEF FilesInv, VersionTypeOK, MemoryTypeOK
<1>3. Recs' = Recs /\ Adds(Recs) \subseteq Nat
    BY <1>1, <1>2, NumbersOfRecs DEF Recs, FilesInv, OpenInv, DiskInv
<1>4. m \in Merge /\ bg.merge # <<>> /\ 1 \in DOMAIN bg.merge
  <2>1. Len(bg.merge) = 1 /\ bg.merge \in Seq(Merge)
      BY <1>1 DEF FilesInv, BgTypeOK, BgRecord
  <2>2. bg.merge # <<>> /\ Len(bg.merge) <= 1
    <3>1. bg.merge # <<>> <=> Len(bg.merge) # 0
        BY <2>1, EmptySequence
    <3> QED BY <2>1, <3>1
  <2> QED BY <2>1, <2>2, OnlyElement
<1>5. m.out < nextFile /\ m.out \in Nat /\ m.inputs \subseteq Good /\ m.inputs \subseteq Nat
    BY <1>2, <1>4 DEF FilesInv, BgInv, Merge
<1>6. x \in TableFile /\ x.synced
  <2>1. \A n \in m.inputs : tables[n].entries \subseteq EntryRecord
      BY <1>5 DEF FilesInv, FilesTypeOK, TableFile, Good
  <2>2. UNION {tables[n].entries : n \in m.inputs} \subseteq EntryRecord
      BY <2>1
  <2> QED BY <2>2 DEF TableFile
<1>7. /\ edit \in EditRecord /\ edit.log = logNumber /\ edit.next = nextFile /\ edit.del = m.inputs
      /\ edit.add = {m.out}
  <2>1. logNumber \in Nat /\ lastSequence \in Nat
      BY DEF FilesInv, VersionTypeOK
  <2> QED BY <1>2, <1>5, <2>1 DEF EditRecord, Edit
<1> HIDE DEF x, edit
<1>8. FilesTypeOK' /\ Good \cap Adds(Recs) \subseteq Good' /\ m.out \in Good'
    BY <1>1, <1>5, <1>6, NewTableFacts DEF FilesInv
<1>9. bg'.pc = "edit" /\ bg'.edit = edit /\ bg'.merge = bg.merge /\ bg' \in BgRecord
    BY <1>1, <1>7 DEF FilesInv, BgTypeOK, BgRecord
<1>10. BgTypeOK'
    BY <1>7, <1>9 DEF FilesInv, BgTypeOK
<1>11. BgInv'
  <2>1. /\ \A i \in DOMAIN bg'.merge : bg'.merge[i].out < nextFile'
        /\ \A i \in DOMAIN bg'.merge : bg'.merge[i].inputs # {} /\ bg'.merge[i].inputs \subseteq bg'.merge[i].base
        /\ \A i \in DOMAIN bg'.merge : bg'.merge[i].base \subseteq Good' \cap Adds(Recs')
      BY <1>1, <1>2, <1>3, <1>8, <1>9, MergeStays
  <2>2. /\ edit.log <= logfileNumber' /\ edit.next <= nextFile' /\ current' < edit.next
        /\ Below(Adds(Recs') \cup edit.add, edit.next) /\ edit.add \subseteq Good' /\ bg'.merge # <<>>
      BY <1>1, <1>2, <1>3, <1>4, <1>5, <1>7, <1>8, <1>9 DEF FilesInv, OpenInv, Below
  <2> QED BY <1>9, <2>1, <2>2 DEF BgInv
<1> QED BY <1>1, <1>2, <1>8, <1>9, <1>10, <1>11, TablesStepKeeps

\* LogAndApply appends the edit to the manifest and syncs it; the edit is installed next.
LEMMA AddManifestRecordKeeps ==
    ASSUME NoTornWrites, FilesInv, WritersInv', AddManifestRecord PROVE FilesInv'
<1> DEFINE m == manifests[current]
           e == bg.edit
           New(recs, synced) == [recs |-> recs, synced |-> synced]
<1>1. /\ bg.pc = "edit"
      /\ UNCHANGED <<logs, tables, current, created, phase, opening, mem, imm, logfileNumber, version, nextFile,
                     lastSequence, logNumber, manifestNumber, pending, bgError, iters, queue>>
    BY DEF AddManifestRecord, memVars, versionVars, writeVars, history
<1>2. IsOpen /\ manifestNumber = current /\ current # 0 /\ current \in DOMAIN manifests /\ nextFile \in Nat
    BY <1>1, AtWorkIsOpen DEF FilesInv, OpenInv, DiskInv, VersionTypeOK
<1>3. /\ m \in ManifestFile /\ m.recs = Recs /\ Recs \in Seq(EditRecord) /\ Len(Recs) \in Nat /\ m.synced \in Nat
      /\ m.synced <= Len(Recs) /\ Adds(Recs) \subseteq Nat
    BY <1>2, NumbersOfRecs DEF FilesInv, Recs
<1>4. e \in EditRecord /\ e.add \subseteq Good /\ e.add \subseteq Nat /\ e.next \in Nat /\ e.next <= nextFile
    BY <1>1, <1>2 DEF FilesInv, BgTypeOK, BgInv, EditRecord
<1>5. PICK a \in Append1(m.recs, e), synced \in BOOLEAN :
         /\ manifests' = Put(manifests, current, New(a.recs, IF synced THEN Len(a.recs) ELSE m.synced))
         /\ bg' = [bg EXCEPT !.pc = "applied", !.failed = ~synced] /\ (synced => ~a.failed)
  <2> HIDE DEF m, New
  <2>1. \E a \in Append1(m.recs, e) : \E synced \in BOOLEAN :
           /\ manifests' = Put(manifests, current, New(a.recs, IF synced THEN Len(a.recs) ELSE m.synced))
           /\ bg' = [bg EXCEPT !.pc = "applied", !.failed = ~synced] /\ (synced => ~a.failed)
      BY <1>2 DEF AddManifestRecord, New, m
  <2> QED BY <2>1
<1> DEFINE n == IF synced THEN Len(a.recs) ELSE m.synced
           new == New(a.recs, n)
<1>6. (~a.failed /\ a.recs = Append(Recs, e)) \/ (a.failed /\ a.recs = Recs)
    BY <1>3, AppendCases
<1>7. bg'.pc = "applied" /\ bg'.failed = ~synced /\ bg'.edit = e /\ bg'.merge = bg.merge /\ bg' \in BgRecord
  <2>1. bg \in BgRecord
      BY DEF FilesInv, BgTypeOK
  <2> QED BY <1>5, <2>1 DEF BgRecord
<1>8. DOMAIN manifests' = DOMAIN manifests /\ manifests'[current] = new
    BY <1>2, <1>5 DEF Put
<1>9. Recs' = a.recs
    BY <1>1, <1>8 DEF Recs
<1>10. /\ new \in ManifestFile /\ ManifestIsSafe(new, Good) /\ NumbersRise(current, a.recs)
       /\ Adds(Recs) \subseteq Adds(a.recs) /\ Below(Adds(a.recs), nextFile)
       /\ (m.synced >= 1 => n >= 1)
       /\ (synced => /\ e.add \subseteq Adds(a.recs) /\ n = Len(a.recs)
                     /\ Replay(a.recs) = (Replay(Recs) \ e.del) \cup e.add)
  <2>1. ManifestIsSafe(m, Good) /\ NumbersRise(current, Recs) /\ Below(Adds(Recs), nextFile)
      BY <1>2, <1>3 DEF FilesInv, DiskInv, OpenInv
  <2>2. CASE a.recs = Recs /\ ~synced
    <3>1. new = m
        BY <1>3, <2>2 DEF ManifestFile
    <3> HIDE DEF new, m
    <3> QED BY <1>3, <2>1, <2>2, <3>1 DEF n
  <2>3. CASE a.recs = Append(Recs, e)
    <3>1. /\ a.recs \in Seq(EditRecord) /\ Len(a.recs) = Len(Recs) + 1 /\ a.recs[Len(Recs) + 1] = e
          /\ \A i \in 1 .. Len(Recs) : a.recs[i] = Recs[i]
        BY <1>3, <1>4, <2>3
    <3>2. n \in m.synced .. Len(m.recs) + 1
        BY <1>3, <3>1
    <3>3. Replay(Recs) \subseteq Good
      <4>1. CASE Len(Recs) = 0
        <5>1. DOMAIN Recs = {}
            BY <1>3, <4>1
        <5> QED BY <5>1 DEF Replay
      <4>2. CASE Len(Recs) # 0
        <5>1. Len(Recs) \in 1 .. Len(Recs) /\ Len(Recs) >= m.synced
            BY <1>3, <4>2
        <5>2. Replay(SubSeq(m.recs, 1, Len(Recs))) \subseteq Good
            BY <1>3, <2>1, <5>1 DEF ManifestIsSafe
        <5> QED BY <1>3, <5>2, ReplayIsAdded
      <4> QED BY <4>1, <4>2
    <3>4. ManifestIsSafe(new, Good)
      <4>1. new = [recs |-> Append(m.recs, e), synced |-> n]
          BY <1>3, <2>3
      <4>2. Replay(m.recs) \subseteq Good
          BY <1>3, <3>3
      <4> HIDE DEF new, m, n
      <4> QED BY <1>3, <1>4, <2>1, <3>2, <4>1, <4>2, SafeAfterAppend
    <3>5. new \in ManifestFile
      <4>1. n \in Nat /\ n <= Len(a.recs)
          BY <1>3, <3>1
      <4> HIDE DEF n
      <4> QED BY <3>1, <4>1 DEF ManifestFile
    <3>6. Replay(a.recs) = (Replay(Recs) \ e.del) \cup e.add /\ Adds(a.recs) = Adds(Recs) \cup e.add
        BY <1>3, <1>4, <2>3, ReplayOfAppend
    <3>7. current < e.next /\ Below(Adds(Recs) \cup e.add, e.next)
        BY <1>1, <1>2 DEF FilesInv, BgInv
    <3>8. NumbersRise(current, a.recs)
      <4> SUFFICES ASSUME NEW i \in 1 .. Len(a.recs)
                   PROVE  current < a.recs[i].next /\ \A j \in 1 .. i : Below(a.recs[j].add, a.recs[i].next)
          BY DEF NumbersRise
      <4>1. CASE i \in 1 .. Len(Recs)
        <5>1. \A j \in 1 .. i : j \in 1 .. Len(Recs)
            BY <1>3, <4>1
        <5> QED BY <2>1, <3>1, <4>1, <5>1 DEF NumbersRise
      <4>2. CASE i = Len(Recs) + 1
        <5>1. \A j \in 1 .. i : a.recs[j].add \subseteq Adds(a.recs)
          <6>1. \A j \in 1 .. i : j \in DOMAIN a.recs
              BY <3>1
          <6> QED BY <6>1 DEF Adds
        <5>2. a.recs[i] = e
            BY <3>1, <4>2
        <5> QED BY <3>6, <3>7, <5>1, <5>2 DEF Below
      <4> QED BY <1>3, <3>1, <4>1, <4>2
    <3>9. Below(Adds(a.recs), nextFile)
      <4>1. ASSUME NEW x \in Adds(a.recs) PROVE x < nextFile
        <5>1. x < e.next /\ x \in Nat
            BY <1>3, <1>4, <3>6, <3>7 DEF Below
        <5> QED BY <1>2, <1>4, <5>1
      <4> QED BY <4>1 DEF Below
    <3>10. m.synced >= 1 => n >= 1
        BY <1>3, <3>1
    <3>11. synced => n = Len(a.recs)
        OBVIOUS
    <3> HIDE DEF new, n, m
    <3> QED BY <3>4, <3>5, <3>6, <3>8, <3>9, <3>10, <3>11
  <2> QED BY <1>5, <1>6, <2>2, <2>3
<1> HIDE DEF new, n, m, e
<1>11. FilesTypeOK' /\ Good' = Good
  <2>1. manifests' = Put(manifests, current, new)
      BY <1>5 DEF new, n
  <2>2. manifests' \in [DOMAIN manifests' -> ManifestFile]
      BY <1>2, <1>10, <2>1 DEF FilesInv, FilesTypeOK, Put
  <2> QED BY <1>1, <1>8, <2>2 DEF FilesInv, FilesTypeOK, Good
<1>12. new.synced = n /\ new.recs = a.recs
    BY DEF new
<1>13. DiskInv'
  <2>1. created => n >= 1 /\ phase # "corrupt"
      BY <1>10 DEF FilesInv, DiskInv, m
  <2> QED BY <1>1, <1>2, <1>8, <1>10, <1>11, <1>12, <2>1 DEF DiskInv
<1>14. BgTypeOK'
    BY <1>1, <1>4, <1>7 DEF FilesInv, BgTypeOK, e
<1>15. VersionIsLogged'
  <2>1. SUFFICES ASSUME synced, ~bgError PROVE n = Len(a.recs) /\ Replay(a.recs) = (version \ e.del) \cup e.add
      BY <1>1, <1>7, <1>8, <1>9, <1>12 DEF VersionIsLogged
  <2>2. Replay(Recs) = version
      BY <1>1, <1>2, <2>1 DEF FilesInv, VersionIsLogged
  <2> QED BY <1>10, <2>1, <2>2
<1>16. BgInv'
  <2>1. /\ \A i \in DOMAIN bg'.merge : bg'.merge[i].out < nextFile'
        /\ \A i \in DOMAIN bg'.merge : bg'.merge[i].inputs # {} /\ bg'.merge[i].inputs \subseteq bg'.merge[i].base
        /\ \A i \in DOMAIN bg'.merge : bg'.merge[i].base \subseteq Good' \cap Adds(Recs')
      BY <1>1, <1>2, <1>7, <1>9, <1>10, <1>11, MergeStays
  <2>2. /\ e.add \subseteq Good' /\ e.log <= logfileNumber' /\ e.next <= nextFile' /\ (e.del # {} => bg'.merge # <<>>)
      BY <1>1, <1>2, <1>4, <1>7, <1>11 DEF FilesInv, BgInv, e
  <2>3. ~bg'.failed => e.add \subseteq Adds(Recs')
      BY <1>7, <1>9, <1>10
  <2> QED BY <1>7, <2>1, <2>2, <2>3 DEF BgInv
<1>17. version' \cup UNION iters \subseteq Good' \cap Adds(Recs') /\ Below(Adds(Recs'), nextFile')
    BY <1>1, <1>2, <1>9, <1>10, <1>11 DEF FilesInv, OpenInv
<1>18. /\ nextFile' \in Nat /\ nextFile <= nextFile' /\ version' \subseteq Nat /\ pending' \subseteq Nat
       /\ logNumber' \in Nat /\ logNumber' <= logfileNumber /\ bgError' \in BOOLEAN /\ logfileNumber \in DOMAIN logs'
    BY <1>1, <1>2 DEF FilesInv, VersionTypeOK, OpenInv, MemoryTypeOK
<1> QED BY <1>1, <1>2, <1>11, <1>13, <1>14, <1>15, <1>16, <1>17, <1>18, OpenStepKeeps

\* DeleteObsoleteFiles at the end of an installation: the manifest and all tables in use
\* stay, and the log that is written.
LEMMA InstallKeeps ==
    ASSUME FilesInv, WritersInv', IsOpen, bg.pc = "applied", ~bg.failed, NEW live \in SUBSET Nat,
           UNCHANGED <<current, created, phase, opening, mem, logfileNumber, lastSequence, nextFile, manifestNumber,
                       iters, queue>>,
           imm' = imm \/ imm' = <<>>, pending' \subseteq Nat,
           version' = (version \ bg.edit.del) \cup bg.edit.add, logNumber' = bg.edit.log,
           DeleteObsoleteFiles(bgError, live, logNumber', manifestNumber, logs, tables, manifests),
           version' \cup UNION iters \subseteq live,
           NEW im, NEW v, FlushDone(bgError, im, v) \/ BackgroundDone(bgError, im, v),
           \/ BackgroundDone(bgError, im, v)
           \/ \A i \in DOMAIN bg.merge : bg.merge[i].base \subseteq live
    PROVE  FilesInv'
<1>1. /\ manifestNumber = current /\ current # 0 /\ current \in DOMAIN manifests /\ logfileNumber \in DOMAIN logs
      /\ current \in Nat /\ bgError \in BOOLEAN /\ logfileNumber \in Nat /\ nextFile \in Nat
    BY DEF FilesInv, OpenInv, DiskInv, FilesTypeOK, MemoryTypeOK, VersionTypeOK
<1>2. /\ bg.edit \in EditRecord /\ logNumber' \in Nat /\ logNumber' <= logfileNumber /\ bg.edit.add \subseteq Good
      /\ bg.edit.add \subseteq Adds(Recs)
    BY DEF FilesInv, BgTypeOK, BgInv, EditRecord
<1>3. /\ FilesTypeOK' /\ logfileNumber \in DOMAIN logs'
      /\ current \in DOMAIN manifests' /\ manifests'[current] = manifests[current]
      /\ \A n \in DOMAIN tables : bgError \/ n \in live => n \in DOMAIN tables'
      /\ \A n \in DOMAIN tables' : n \in DOMAIN tables /\ tables'[n] = tables[n]
  <2> DEFINE log == logNumber'
  <2>1. DeleteObsoleteFiles(bgError, live, log, manifestNumber, logs, tables, manifests) /\ log \in Nat
      BY <1>2
  <2> HIDE DEF log
  <2>2. /\ FilesTypeOK'
        /\ \A n \in DOMAIN tables : bgError \/ n \in live => n \in DOMAIN tables'
        /\ \A n \in DOMAIN logs : n >= log => n \in DOMAIN logs'
        /\ \A n \in DOMAIN manifests : n >= manifestNumber => n \in DOMAIN manifests'
        /\ \A n \in DOMAIN tables' : n \in DOMAIN tables /\ tables'[n] = tables[n]
        /\ \A n \in DOMAIN manifests' : n \in DOMAIN manifests /\ manifests'[n] = manifests[n]
      BY <1>1, <2>1, DeleteFacts DEF FilesInv
  <2>3. logfileNumber >= log /\ current >= manifestNumber
      BY <1>1, <1>2, <2>1 DEF log
  <2> QED BY <1>1, <2>2, <2>3
<1>4. \A S : S \subseteq Good /\ (~bgError => S \subseteq live) => S \subseteq Good'
    BY <1>3, WholeAfterDelete
<1>5. Recs' = Recs
    BY <1>3 DEF Recs
<1>6. version' \cup UNION iters \subseteq Good /\ version' \cup UNION iters \subseteq Adds(Recs)
    BY <1>2 DEF FilesInv, OpenInv
<1>7. version' \cup UNION iters \subseteq Good' \cap Adds(Recs')
    BY <1>4, <1>5, <1>6
<1>8. manifests[current] \in ManifestFile /\ manifests[current].recs = Recs
    BY <1>1, NumbersOfRecs DEF FilesInv, Recs
<1>9. DiskInv'
  <2>1. ManifestIsSafe(manifests[current], Good')
    <3>1. ManifestIsSafe(manifests[current], Good)
        BY <1>1 DEF FilesInv, DiskInv
    <3>2. CASE bgError
        BY <1>4, <1>8, <3>1, <3>2, SafeWhileWhole
    <3>3. CASE ~bgError
      <4>1. manifests[current].synced = Len(Recs) /\ Replay(Recs) = version' /\ Len(Recs) \in Nat
          BY <1>1, <3>3, NumbersOfRecs DEF FilesInv, VersionIsLogged
      <4>2. SUFFICES ASSUME NEW k \in 1 .. Len(Recs), k >= Len(Recs)
                     PROVE  Replay(SubSeq(Recs, 1, k)) \subseteq Good'
          BY <1>8, <4>1 DEF ManifestIsSafe
      <4>3. k = Len(Recs)
          BY <4>1, <4>2
      <4>4. SubSeq(Recs, 1, Len(Recs)) = Recs
          BY <1>1, NumbersOfRecs, ReplayIsAdded DEF FilesInv
      <4> QED BY <1>7, <4>1, <4>3, <4>4
    <3> QED BY <3>2, <3>3
  <2>2. created => phase' # "corrupt"
      BY DEF IsOpen
  <2> QED BY <1>1, <1>3, <2>1, <2>2, DiskStays DEF FilesInv
<1>10. /\ bgError' = bgError /\ bg' \in BgRecord /\ bg'.pc \in {"none", "scheduled", "merge"}
       /\ (bg'.pc = "merge" => Len(bg'.merge) = 1)
       /\ (bg'.merge = <<>> \/ (bg'.merge = bg.merge /\ ~BackgroundDone(bgError, im, v)))
  <2>1. /\ bgError' = bgError /\ bg' \in BgRecord /\ bg'.pc \in {"none", "scheduled", "merge"}
        /\ (bg'.pc = "merge" => Len(bg'.merge) = 1)
        /\ (bg'.merge = <<>> \/ bg'.merge = bg.merge)
        /\ (BackgroundDone(bgError, im, v) => bg'.merge = <<>>)
      BY RestFacts DEF FilesInv
  <2> QED BY <2>1
<1>11. VersionIsLogged'
    BY <1>3, <1>5, <1>10 DEF FilesInv, VersionIsLogged, IsOpen
<1>12. BgTypeOK' /\ BgInv'
  <2>1. \/ bg'.merge = <<>>
        \/ /\ bg'.merge = bg.merge
           /\ \A i \in DOMAIN bg.merge : bg.merge[i].base \subseteq Good' \cap Adds(Recs')
    <3>1. \A i \in DOMAIN bg.merge : bg.merge[i].base \subseteq Good \cap Adds(Recs)
        BY DEF FilesInv, BgInv
    <3> QED BY <1>4, <1>5, <1>10, <3>1
  <2>2. nextFile' \in Nat /\ nextFile <= nextFile'
      BY <1>1
  <2> QED BY <1>10, <2>1, <2>2, RestKeeps
<1>13. Below(Adds(Recs'), nextFile')
    BY <1>5 DEF FilesInv, OpenInv
<1>14. version' \subseteq Nat /\ nextFile' \in Nat /\ nextFile <= nextFile' /\ bgError' \in BOOLEAN
  <2>1. version \subseteq Nat /\ bg.edit.add \subseteq Nat
      BY <1>2 DEF FilesInv, VersionTypeOK, EditRecord
  <2>2. version' \subseteq Nat
      BY <2>1
  <2> QED BY <1>1, <1>10, <2>2
<1> QED BY <1>2, <1>3, <1>7, <1>9, <1>11, <1>12, <1>13, <1>14, OpenStepKeeps

\* The flush is installed, or its edit could not be logged (CompactMemTable).
LEMMA InstallFlushKeeps == ASSUME FilesInv, WritersInv', InstallFlush PROVE FilesInv'
<1>1. /\ bg.pc = "applied" /\ bg.edit.del = {}
      /\ UNCHANGED <<current, created, phase, opening, mem, logfileNumber, lastSequence, nextFile, manifestNumber,
                     pending, iters, queue>>
    BY DEF InstallFlush, history
<1>2. IsOpen /\ nextFile \in Nat /\ pending \subseteq Nat
    BY <1>1, AtWorkIsOpen DEF FilesInv, VersionTypeOK
<1>3. CASE bg.failed
  <2>1. FlushDone(TRUE, imm, version) /\ UNCHANGED <<version, logNumber, imm, logs, tables, manifests>>
      BY <1>3 DEF InstallFlush
  <2>2. FilesTypeOK' /\ Good' = Good
      BY <1>1, <2>1 DEF FilesInv, FilesTypeOK, Good
  <2>3. Good \cap Adds(Recs) \subseteq Good' /\ nextFile' \in Nat /\ nextFile <= nextFile' /\ pending' \subseteq Nat
      BY <1>1, <1>2, <2>2
  <2> QED BY <1>1, <1>2, <2>1, <2>2, <2>3, StopKeeps
<1>4. CASE ~bg.failed
  <2> DEFINE live == LiveFiles(version', pending, bg.merge)
  <2>1. /\ version' = version \cup bg.edit.add /\ logNumber' = bg.edit.log /\ imm' = <<>>
        /\ DeleteObsoleteFiles(bgError, live, logNumber', manifestNumber, logs, tables, manifests)
        /\ FlushDone(bgError, <<>>, version')
      BY <1>4 DEF InstallFlush
  <2>2. bg.merge \in Seq(Merge)
      BY DEF FilesInv, BgTypeOK, BgRecord
  <2>3. \A m \in ToSet(bg.merge) : m \in Merge
      BY <2>2 DEF ToSet
  <2>4. version' = (version \ bg.edit.del) \cup bg.edit.add
      BY <1>1, <2>1
  <2> DEFINE bases == UNION {m.base : m \in ToSet(bg.merge)}
  <2>5. live = version' \cup pending \cup (UNION iters) \cup bases
      BY DEF LiveFiles
  <2>6. version' \subseteq Nat
    <3>1. bg.edit \in EditRecord /\ version \subseteq Nat
        BY <1>1 DEF FilesInv, BgTypeOK, VersionTypeOK
    <3> QED BY <2>1, <3>1 DEF EditRecord
  <2>7. UNION iters \subseteq Nat /\ bases \subseteq Nat
      BY <2>3 DEF FilesInv, VersionTypeOK, Merge
  <2>10. \A i \in DOMAIN bg.merge : bg.merge[i].base \subseteq bases
      BY DEF ToSet
  <2> HIDE DEF live, bases
  <2>8. live \in SUBSET Nat /\ version' \cup UNION iters \subseteq live
      BY <1>2, <2>5, <2>6, <2>7
  <2>9. \A i \in DOMAIN bg.merge : bg.merge[i].base \subseteq live
      BY <2>5, <2>10
  <2> QED BY <1>1, <1>2, <1>4, <2>1, <2>4, <2>8, <2>9, InstallKeeps
<1> QED BY <1>3, <1>4

\* The output of the compaction replaces its inputs (InstallCompactionResults).
LEMMA InstallMergeKeeps == ASSUME FilesInv, WritersInv', InstallMerge PROVE FilesInv'
<1>1. /\ bg.pc = "applied" /\ pending' = pending \ {bg.merge[1].out}
      /\ UNCHANGED <<current, created, phase, opening, mem, imm, logfileNumber, lastSequence, nextFile,
                     manifestNumber, iters, queue>>
    BY DEF InstallMerge, history, memVars
<1>2. IsOpen /\ nextFile \in Nat /\ pending' \subseteq Nat
    BY <1>1, AtWorkIsOpen DEF FilesInv, VersionTypeOK
<1>3. CASE bg.failed
  <2>1. BackgroundDone(TRUE, imm, version) /\ UNCHANGED <<version, logNumber, logs, tables, manifests>>
      BY <1>3 DEF InstallMerge
  <2>2. FilesTypeOK' /\ Good' = Good
      BY <1>1, <2>1 DEF FilesInv, FilesTypeOK, Good
  <2>3. Good \cap Adds(Recs) \subseteq Good' /\ nextFile' \in Nat /\ nextFile <= nextFile' /\ pending' \subseteq Nat
      BY <1>1, <1>2, <2>2
  <2> QED BY <1>1, <1>2, <2>1, <2>2, <2>3, StopKeeps
<1>4. CASE ~bg.failed
  <2> DEFINE live == LiveFiles(version', pending', <<>>)
  <2>1. /\ version' = (version \ bg.edit.del) \cup bg.edit.add /\ logNumber' = bg.edit.log
        /\ DeleteObsoleteFiles(bgError, live, logNumber', manifestNumber, logs, tables, manifests)
        /\ BackgroundDone(bgError, imm, version')
      BY <1>4 DEF InstallMerge
  <2>2. version' \subseteq Nat
    <3>1. bg.edit \in EditRecord /\ version \subseteq Nat
        BY <1>1 DEF FilesInv, BgTypeOK, VersionTypeOK
    <3> QED BY <2>1, <3>1 DEF EditRecord
  <2>3. ToSet(<<>>) = {}
      BY DEF ToSet
  <2>4. live = version' \cup pending' \cup UNION iters
      BY <2>3 DEF LiveFiles
  <2>5. UNION iters \subseteq Nat
      BY DEF FilesInv, VersionTypeOK
  <2>6. live \in SUBSET Nat /\ version' \cup UNION iters \subseteq live
      BY <1>2, <2>2, <2>4, <2>5
  <2> HIDE DEF live
  <2> QED BY <1>1, <1>2, <1>4, <2>1, <2>6, InstallKeeps
<1> QED BY <1>3, <1>4

\* Versions taken and given back by iterators, and the destructor, which begins when
\* nobody uses the database.
LEMMA UsersKeep ==
    ASSUME FilesInv, WritersInv', NewIterator \/ (\E v \in iters : CleanupIterator(v)) \/ Close PROVE FilesInv'
<1>1. /\ phase' = phase \/ (phase = "open" /\ phase' = "closing" /\ queue = <<>>)
      /\ iters' \subseteq iters \cup {version} /\ (iters' # iters /\ ~(iters' \subseteq iters) => IsOpen)
      /\ UNCHANGED <<logs, tables, manifests, current, created, opening, mem, imm, logfileNumber, version, nextFile,
                     lastSequence, logNumber, manifestNumber, pending, bgError, bg, queue>>
  <2>1. CASE NewIterator
      BY <2>1 DEF NewIterator, IsOpen, files, memVars, versionVars, writeVars, history
  <2>2. CASE \E v \in iters : CleanupIterator(v)
      BY <2>2 DEF CleanupIterator, files, memVars, versionVars, writeVars, history
  <2>3. CASE Close
      BY <2>3 DEF Close, files, memVars, versionVars, writeVars
  <2> QED BY <2>1, <2>2, <2>3
<1>2. IsOpen' <=> IsOpen
    BY <1>1 DEF IsOpen
<1>3. FilesTypeOK' /\ MemoryTypeOK' /\ BgTypeOK' /\ VersionTypeOK'
  <2>1. FilesTypeOK' /\ MemoryTypeOK' /\ BgTypeOK'
      BY <1>1 DEF FilesInv, FilesTypeOK, MemoryTypeOK, BgTypeOK
  <2>2. VersionTypeOK'
      BY <1>1 DEF FilesInv, VersionTypeOK
  <2> QED BY <2>1, <2>2
<1>4. Good' = Good /\ Recs' = Recs
    BY <1>1 DEF Good, Recs
<1>5. OnlyWhenOpen'
    BY <1>1, <1>2 DEF FilesInv, OnlyWhenOpen, IsOpen
<1>6. DiskInv'
    BY <1>1, <1>4 DEF FilesInv, DiskInv
<1>7. RecoverInv' /\ NewManifestInv'
    BY <1>1, <1>4 DEF FilesInv, RecoverInv, NewManifestInv
<1>8. OpenInv' /\ VersionIsLogged' /\ BgInv'
  <2>1. IsOpen => version \cup UNION iters' \subseteq Good \cap Adds(Recs)
      BY <1>1 DEF FilesInv, OpenInv
  <2>2. OpenInv'
      BY <1>1, <1>2, <1>4, <2>1 DEF FilesInv, OpenInv
  <2>3. VersionIsLogged'
      BY <1>1, <1>2, <1>4 DEF FilesInv, VersionIsLogged
  <2>4. BgInv'
      BY <1>1, <1>2, <1>4 DEF FilesInv, BgInv
  <2> QED BY <2>2, <2>3, <2>4
<1> QED BY <1>3, <1>5, <1>6, <1>7, <1>8 DEF FilesInv

\* The memory goes, the files stay (the end of the destructor, a crash of the process).
LEMMA ProcessEndKeeps ==
    ASSUME FilesInv, WritersInv', DropMemory, UNCHANGED <<files, created>> PROVE FilesInv'
<1>1. FilesTypeOK' /\ Good' = Good /\ phase' = "closed"
    BY DEF FilesInv, FilesTypeOK, Good, files, DropMemory
<1>2. DiskInv'
    BY <1>1 DEF FilesInv, DiskInv, files
<1> QED BY <1>1, <1>2, DropKeeps

\* What a crash of the machine leaves are files again.
LEMMA CutFacts ==
    ASSUME NEW R, NEW F, F = {f \in [recs : Seq(R), synced : Nat] : f.synced <= Len(f.recs)},
           NEW fs, fs \in [DOMAIN fs -> F], NEW gs \in Cuts(fs)
    PROVE  DOMAIN gs = DOMAIN fs /\ gs \in [DOMAIN gs -> F]
<1>1. DOMAIN gs = DOMAIN fs /\ \A n \in DOMAIN fs : gs[n] \in Truncations(fs[n])
    BY DEF Cuts
<1>2. \A n \in DOMAIN fs : \E k \in fs[n].synced .. Len(fs[n].recs) :
         gs[n] = [recs |-> SubSeq(fs[n].recs, 1, k), synced |-> k]
    BY <1>1 DEF Truncations
<1>3. ASSUME NEW n \in DOMAIN fs PROVE gs[n] \in F
  <2>1. PICK k \in fs[n].synced .. Len(fs[n].recs) : gs[n] = [recs |-> SubSeq(fs[n].recs, 1, k), synced |-> k]
      BY <1>2
  <2>2. fs[n].recs \in Seq(R) /\ fs[n].synced \in Nat /\ fs[n].synced <= Len(fs[n].recs)
      BY <1>3
  <2>3. k \in Nat /\ SubSeq(fs[n].recs, 1, k) \in Seq(R) /\ Len(SubSeq(fs[n].recs, 1, k)) = k
    <3> DEFINE q == fs[n].recs
    <3>1. q \in Seq(R) /\ k \in 0 .. Len(q)
        BY <2>2
    <3> HIDE DEF q
    <3>2. k \in Nat /\ SubSeq(q, 1, k) \in Seq(R) /\ Len(SubSeq(q, 1, k)) = k
        BY <3>1
    <3> QED BY <3>2 DEF q
  <2> QED BY <2>1, <2>3
<1>4. gs \in [DOMAIN gs -> F]
  <2>1. gs = [n \in DOMAIN fs |-> gs[n]]
      BY DEF Cuts
  <2> QED BY <1>1, <1>3, <2>1
<1> QED BY <1>1, <1>2, <1>4

\* A crash of the machine leaves a manifest that can be read, as NewDB syncs nothing but
\* LogAndApply everything.
LEMMA MachineCrashKeeps == ASSUME FilesInv, WritersInv', MachineCrash PROVE FilesInv'
<1>1. /\ DropMemory /\ phase' = "closed" /\ UNCHANGED <<current, created>>
      /\ logs' \in Cuts(logs) /\ manifests' \in Cuts(manifests)
      /\ tables' = [n \in DOMAIN tables |-> IF tables[n].synced THEN tables[n]
                                            ELSE [entries |-> {}, synced |-> FALSE]]
    BY DEF MachineCrash, DropMemory
<1>2. /\ DOMAIN logs' = DOMAIN logs /\ logs' \in [DOMAIN logs' -> LogFile]
  <2>1. LogFile = {f \in [recs : Seq(LogRecord), synced : Nat] : f.synced <= Len(f.recs)}
      BY DEF LogFile
  <2>2. logs \in [DOMAIN logs -> LogFile] /\ logs' \in Cuts(logs)
      BY <1>1 DEF FilesInv, FilesTypeOK
  <2> QED BY <2>1, <2>2, CutFacts
<1>3. /\ DOMAIN manifests' = DOMAIN manifests /\ manifests' \in [DOMAIN manifests' -> ManifestFile]
      /\ \A n \in DOMAIN manifests : \E k \in manifests[n].synced .. Len(manifests[n].recs) :
            manifests'[n] = [recs |-> SubSeq(manifests[n].recs, 1, k), synced |-> k]
  <2>1. ManifestFile = {f \in [recs : Seq(EditRecord), synced : Nat] : f.synced <= Len(f.recs)}
      BY DEF ManifestFile
  <2>2. manifests \in [DOMAIN manifests -> ManifestFile] /\ manifests' \in Cuts(manifests)
      BY <1>1 DEF FilesInv, FilesTypeOK
  <2>3. DOMAIN manifests' = DOMAIN manifests /\ manifests' \in [DOMAIN manifests' -> ManifestFile]
      BY <2>1, <2>2, CutFacts
  <2>4. \A n \in DOMAIN manifests : manifests'[n] \in Truncations(manifests[n])
      BY <2>2 DEF Cuts
  <2> QED BY <2>3, <2>4 DEF Truncations
<1>4. DOMAIN tables' = DOMAIN tables /\ tables' \in [DOMAIN tables' -> TableFile] /\ Good' = Good
  <2>1. [entries |-> {}, synced |-> FALSE] \in TableFile
      BY DEF TableFile
  <2>2. DOMAIN tables' = DOMAIN tables /\ tables' \in [DOMAIN tables' -> TableFile]
      BY <1>1, <2>1 DEF FilesInv, FilesTypeOK
  <2>3. \A n \in DOMAIN tables : tables'[n].synced <=> tables[n].synced
      BY <1>1
  <2> QED BY <2>2, <2>3 DEF Good
<1>5. FilesTypeOK'
    BY <1>1, <1>2, <1>3, <1>4 DEF FilesInv, FilesTypeOK
<1>6. DiskInv'
  <2>1. CASE current = 0
      BY <1>1, <2>1 DEF FilesInv, DiskInv
  <2>2. CASE current # 0
    <3> DEFINE m == manifests[current]
    <3>1. /\ current \in DOMAIN manifests /\ ManifestIsSafe(m, Good) /\ NumbersRise(current, m.recs)
          /\ (created => m.synced >= 1)
        BY <2>2 DEF FilesInv, DiskInv
    <3>2. /\ m.recs \in Seq(EditRecord) /\ m.synced \in Nat /\ Len(m.recs) \in Nat /\ m.synced <= Len(m.recs)
        BY <3>1, NumbersOfRecs DEF FilesInv, Recs
    <3>3. PICK k \in m.synced .. Len(m.recs) : manifests'[current] = [recs |-> SubSeq(m.recs, 1, k), synced |-> k]
        BY <1>3, <3>1
    <3> DEFINE p == SubSeq(m.recs, 1, k)
    <3> HIDE DEF m
    <3>4. Len(p) = k /\ k \in 0 .. Len(m.recs) /\ \A i \in 1 .. k : p[i] = m.recs[i] /\ i \in 1 .. Len(m.recs)
        BY <3>2, <3>3
    <3>5. NumbersRise(current, p)
      <4> SUFFICES ASSUME NEW i \in 1 .. k
                   PROVE  current < p[i].next /\ \A j \in 1 .. i : Below(p[j].add, p[i].next)
          BY <3>4 DEF NumbersRise
      <4>1. \A j \in 1 .. i : j \in 1 .. k
          BY <3>4
      <4>2. p[i] = m.recs[i] /\ i \in 1 .. Len(m.recs) /\ \A j \in 1 .. i : p[j] = m.recs[j]
          BY <3>4, <4>1
      <4> HIDE DEF p
      <4> QED BY <3>1, <4>2 DEF NumbersRise
    <3>6. ManifestIsSafe([recs |-> p, synced |-> k], Good')
      <4> SUFFICES ASSUME NEW l \in 1 .. k, l >= k PROVE Replay(SubSeq(p, 1, l)) \subseteq Good'
          BY <3>4 DEF ManifestIsSafe
      <4>1. SubSeq(p, 1, l) = SubSeq(m.recs, 1, l)
          BY <3>2, <3>4, PrefixOfPrefix
      <4>2. l \in 1 .. Len(m.recs) /\ l >= m.synced
          BY <3>2, <3>3, <3>4
      <4> HIDE DEF p
      <4> QED BY <1>4, <3>1, <4>1, <4>2 DEF ManifestIsSafe
    <3>7. created => k >= 1
        BY <3>1, <3>2, <3>3
    <3> HIDE DEF p
    <3>8. manifests'[current].recs = p /\ manifests'[current].synced = k /\ current \in DOMAIN manifests'
        BY <1>3, <3>1, <3>3 DEF p
    <3>9. manifests'[current] = [recs |-> p, synced |-> k]
        BY <3>3 DEF p
    <3> QED BY <1>1, <2>2, <3>5, <3>6, <3>7, <3>8, <3>9 DEF DiskInv
  <2> QED BY <2>1, <2>2
<1> QED BY <1>1, <1>5, <1>6, DropKeeps

-----------------------------------------------------------------------------
\* Opening.  NewDB writes the first manifest, which CURRENT names before it is on disk.
LEMMA NewDBKeeps == ASSUME FilesInv, WritersInv', NewDB PROVE FilesInv'
<1> DEFINE e == [log |-> 0, next |-> 2, last |-> 0, add |-> {}, del |-> {}]
           m == [recs |-> <<e>>, synced |-> 0]
<1>1. /\ phase = "closed" /\ current = 0 /\ current' = 1 /\ manifests' = Put(manifests, 1, m)
      /\ UNCHANGED <<logs, tables, created, phase, opening, mem, imm, logfileNumber, version, nextFile,
                     lastSequence, logNumber, manifestNumber, pending, bgError, bg, iters, queue>>
    BY DEF NewDB, memVars, versionVars, writeVars, history
<1>2. e \in EditRecord /\ e.add = {} /\ e.next = 2
    BY DEF EditRecord
<1> HIDE DEF e
<1>3. <<e>> \in Seq(EditRecord) /\ Len(<<e>>) = 1 /\ <<e>>[1] = e
    BY <1>2
<1>4. m \in ManifestFile /\ m.recs = <<e>> /\ m.synced = 0
    BY <1>3 DEF ManifestFile
<1> HIDE DEF m
<1>5. manifests'[1] = m /\ 1 \in DOMAIN manifests' /\ FilesTypeOK'
  <2>1. /\ DOMAIN manifests' = DOMAIN manifests \cup {1} /\ manifests'[1] = m
        /\ manifests' \in [DOMAIN manifests' -> ManifestFile]
      BY <1>1, <1>4 DEF FilesInv, FilesTypeOK, Put
  <2> QED BY <1>1, <2>1 DEF FilesInv, FilesTypeOK
<1>6. DiskInv'
  <2>1. ~created
      BY <1>1 DEF FilesInv, DiskInv
  <2>2. ManifestIsSafe(m, Good')
    <3>1. ASSUME NEW k \in 1 .. 1 PROVE Replay(SubSeq(<<e>>, 1, k)) \subseteq Good'
      <4>1. k = 1
          OBVIOUS
      <4>2. SubSeq(<<e>>, 1, 1) = <<e>>
          BY <1>3, ReplayIsAdded
      <4>3. Replay(<<e>>) = {}
          BY <1>2, <1>3, ReplayOfOne
      <4> QED BY <4>1, <4>2, <4>3
    <3> QED BY <1>3, <1>4, <3>1 DEF ManifestIsSafe
  <2>3. NumbersRise(1, <<e>>)
    <3>1. ASSUME NEW i \in 1 .. 1 PROVE 1 < <<e>>[i].next /\ \A j \in 1 .. i : Below(<<e>>[j].add, <<e>>[i].next)
      <4>1. i = 1 /\ \A j \in 1 .. i : j = 1
          OBVIOUS
      <4> QED BY <1>2, <1>3, <4>1 DEF Below
    <3> QED BY <1>3, <3>1 DEF NumbersRise
  <2> QED BY <1>1, <1>4, <1>5, <2>1, <2>2, <2>3 DEF DiskInv
<1>7. VersionTypeOK' /\ MemoryTypeOK' /\ BgTypeOK'
    BY <1>1 DEF FilesInv, VersionTypeOK, MemoryTypeOK, BgTypeOK
<1>8. OnlyWhenOpen' /\ RecoverInv' /\ NewManifestInv' /\ OpenInv' /\ VersionIsLogged' /\ BgInv'
    BY <1>1 DEF FilesInv, OnlyWhenOpen, RecoverInv, NewManifestInv, OpenInv, VersionIsLogged, BgInv, IsOpen
<1> QED BY <1>5, <1>6, <1>7, <1>8 DEF FilesInv

\* No record of an edit is a torn one, and all of it is read.
LEMMA AllIsReadable ==
    ASSUME NEW R, NEW recs \in Seq(R), Torn \notin R
    PROVE  Readable(recs) = recs /\ ~Corrupt(recs)
<1>1. \A i \in DOMAIN recs : recs[i] # Torn
    OBVIOUS
<1>2. {i \in DOMAIN recs : recs[i] = Torn} = {}
    BY <1>1
<1>3. 1 .. Len(recs) - 1 \subseteq DOMAIN recs
    OBVIOUS
<1> QED BY <1>1, <1>2, <1>3 DEF Readable, Corrupt

\* What log::Writer leaves when an append breaks off is neither an edit nor a batch.
LEMMA NoneIsTorn == Torn \notin EditRecord /\ Torn \notin LogRecord
<1>1. DOMAIN Torn = {"torn"}
    BY DEF Torn
<1>2. \A r \in EditRecord : "log" \in DOMAIN r
    BY DEF EditRecord
<1>3. \A r \in LogRecord : "seq" \in DOMAIN r
    BY DEF LogRecord
<1> QED BY <1>1, <1>2, <1>3

\* VersionSet::Recover reads the manifest that CURRENT names; if the database was opened
\* before, it finds all of its tables.
LEMMA RecoverVersionsKeeps == ASSUME FilesInv, WritersInv', RecoverVersions PROVE FilesInv'
<1> DEFINE last == Last(Recs)
           v == Replay(Recs)
           todo == {n \in DOMAIN logs : n >= last.log}
           missing == ~(v \subseteq DOMAIN tables \cup DOMAIN logs \cup DOMAIN manifests)
<1>1. /\ phase = "closed" /\ current # 0
      /\ UNCHANGED <<logs, tables, manifests, current, created, mem, imm, logfileNumber, pending, bgError, bg, iters,
                     queue>>
    BY DEF RecoverVersions, files, memVars, writeVars, history
<1>2. /\ current \in DOMAIN manifests /\ ManifestIsSafe(manifests[current], Good) /\ NumbersRise(current, Recs)
      /\ (created => manifests[current].synced >= 1)
    BY <1>1 DEF FilesInv, DiskInv, Recs
<1>3. /\ Recs \in Seq(EditRecord) /\ Len(Recs) \in Nat /\ manifests[current].synced \in Nat
      /\ manifests[current].synced <= Len(Recs) /\ manifests[current].recs = Recs
    BY <1>2, NumbersOfRecs DEF FilesInv, Recs
<1>4. Readable(Recs) = Recs /\ ~Corrupt(Recs)
    BY <1>3, AllIsReadable, NoneIsTorn
<1>5. \/ /\ Recs = <<>> \/ missing
         /\ phase' = "corrupt" /\ UNCHANGED <<opening, version, nextFile, lastSequence, logNumber, manifestNumber>>
      \/ /\ Recs # <<>> /\ phase' = "recovering" /\ version' = v /\ manifestNumber' = last.next
         /\ nextFile' = last.next + 1 /\ lastSequence' = last.last /\ logNumber' = last.log
         /\ opening' = [NotOpening EXCEPT !.todo = todo]
    BY <1>4 DEF RecoverVersions, Recs, versionVars
<1>6. FilesTypeOK' /\ MemoryTypeOK' /\ BgTypeOK' /\ Good' = Good /\ Recs' = Recs
    BY <1>1 DEF FilesInv, FilesTypeOK, MemoryTypeOK, BgTypeOK, Good, Recs
<1>7. phase' \in {"corrupt", "recovering"}
    BY <1>5
<1>8. OnlyWhenOpen' /\ NewManifestInv' /\ OpenInv' /\ VersionIsLogged' /\ BgInv'
    BY <1>1, <1>7 DEF FilesInv, OnlyWhenOpen, NewManifestInv, OpenInv, VersionIsLogged, BgInv, IsOpen
<1>9. ASSUME Recs # <<>>
      PROVE  /\ v \subseteq Good /\ last \in EditRecord /\ current < last.next /\ Below(v, last.next)
  <2>1. Len(Recs) \in 1 .. Len(Recs) /\ Len(Recs) >= manifests[current].synced
    <3>1. Len(Recs) # 0
        BY <1>3, <1>9, EmptySequence
    <3> QED BY <1>3, <3>1
  <2>2. Replay(SubSeq(Recs, 1, Len(Recs))) \subseteq Good
      BY <1>2, <1>3, <2>1 DEF ManifestIsSafe
  <2>3. last = Recs[Len(Recs)] /\ Recs[Len(Recs)] \in EditRecord
      BY <1>3, <2>1 DEF Last
  <2>4. current < last.next /\ \A j \in 1 .. Len(Recs) : Below(Recs[j].add, last.next)
      BY <1>2, <2>1, <2>3 DEF NumbersRise
  <2>5. DOMAIN Recs = 1 .. Len(Recs)
      BY <1>3
  <2>6. Below(Adds(Recs), last.next)
      BY <2>4, <2>5 DEF Below, Adds
  <2>7. v \subseteq Adds(Recs) /\ v \subseteq Good
      BY <1>3, <2>2, ReplayIsAdded
  <2> QED BY <2>3, <2>4, <2>6, <2>7 DEF Below
<1> HIDE DEF v, last, todo, missing
<1>10. CASE phase' = "corrupt"
  <2>1. /\ Recs = <<>> \/ missing
        /\ UNCHANGED <<opening, version, nextFile, lastSequence, logNumber, manifestNumber>>
      BY <1>5, <1>10
  <2>2. ~created
    <3>1. Recs # <<>> => ~missing
        BY <1>9 DEF missing, Good
    <3>2. Recs = <<>> => Len(Recs) = 0
        BY <1>3, EmptySequence
    <3> QED BY <1>2, <1>3, <2>1, <3>1, <3>2
  <2>3. VersionTypeOK' /\ RecoverInv'
      BY <1>1, <1>10, <2>1 DEF FilesInv, VersionTypeOK, RecoverInv
  <2>4. DiskInv'
      BY <1>1, <1>6, <2>2 DEF FilesInv, DiskInv
  <2> QED BY <1>6, <1>8, <2>3, <2>4 DEF FilesInv
<1>11. CASE phase' = "recovering"
  <2>1. /\ Recs # <<>> /\ version' = v /\ manifestNumber' = last.next
        /\ nextFile' = last.next + 1 /\ lastSequence' = last.last /\ logNumber' = last.log
        /\ opening' = [NotOpening EXCEPT !.todo = todo]
      BY <1>5, <1>11
  <2>2. /\ v \subseteq Good /\ current < last.next /\ Below(v, last.next)
        /\ last.next \in Nat /\ last.last \in Nat /\ last.log \in Nat
      BY <1>9, <2>1 DEF EditRecord
  <2>3. Good \subseteq Nat /\ todo \subseteq Nat /\ current \in Nat
      BY DEF FilesInv, FilesTypeOK, Good, todo
  <2>4. /\ opening' \in [todo : SUBSET Nat, maxSequence : Nat, add : SUBSET Nat, failed : BOOLEAN]
        /\ opening'.add = {} /\ opening'.todo = todo
      BY <2>1, <2>3 DEF NotOpening
  <2>5. VersionTypeOK'
    <3>1. /\ version' \subseteq Nat /\ nextFile' \in Nat /\ lastSequence' \in Nat /\ logNumber' \in Nat
          /\ manifestNumber' \in Nat
        BY <2>1, <2>2, <2>3
    <3>2. pending' \subseteq Nat /\ iters' \subseteq SUBSET Nat /\ logfileNumber' \in Nat
        BY <1>1 DEF FilesInv, VersionTypeOK
    <3> QED BY <1>11, <2>4, <3>1, <3>2 DEF VersionTypeOK
  <2>6. RecoverInv'
    <3>1. Below(v, last.next + 1) /\ last.next < last.next + 1
        BY <2>2, <2>3 DEF Below
    <3>2. opening'.todo \subseteq DOMAIN logs'
        BY <1>1, <2>4 DEF todo
    <3> QED BY <1>1, <1>6, <2>1, <2>2, <2>4, <3>1, <3>2 DEF RecoverInv
  <2>7. DiskInv'
      BY <1>1, <1>6, <1>11 DEF FilesInv, DiskInv
  <2> QED BY <1>6, <1>8, <2>5, <2>6, <2>7 DEF FilesInv
<1> QED BY <1>7, <1>10, <1>11

\* The larger of two numbers, for what MarkFileNumberUsed and SetLastSequence keep.
LEMMA MaxOfTwo ==
    ASSUME NEW a \in Nat, NEW b \in Nat
    PROVE  Max({a, b}) \in Nat /\ a <= Max({a, b}) /\ b <= Max({a, b})
<1>1. PICK n \in Nat : a <= n /\ b <= n
  <2>1. a <= a + b /\ b <= a + b /\ a + b \in Nat
      OBVIOUS
  <2> QED BY <2>1
<1>2. {a, b} \in SUBSET (0 .. n) /\ {a, b} # {}
    BY <1>1
<1>3. Max({a, b}) \in {a, b} /\ \A k \in {a, b} : k <= Max({a, b})
    BY <1>2, MaxOfNaturals
<1> QED BY <1>3

\* The oldest log of those to recover is one of them (the sorted list of Recover).
LEMMA MinIsMember == ASSUME NEW T \in SUBSET Nat, T # {} PROVE Min(T) \in T
<1>1. \E x \in T : \A y \in T : x <= y
    BY LeastNatural
<1> QED BY <1>1 DEF Min

\* Numbers from a sequence, one for each element, have a bound.
LEMMA BoundOfSome ==
    ASSUME NEW n \in Nat, NEW f \in [1 .. n -> Nat]
    PROVE  \E b \in Nat : \A i \in 1 .. n : f[i] <= b
<1> DEFINE P(k) == \E b \in Nat : \A i \in 1 .. k : f[i] <= b
           T == {k \in 0 .. n : ~P(k)}
<1>1. SUFFICES ASSUME T # {} PROVE FALSE
  <2> HIDE DEF P
  <2>1. n \in T \/ P(n)
      OBVIOUS
  <2> QED BY <2>1 DEF P
<1>2. PICK m \in T : \A k \in T : m <= k
  <2>1. T \in SUBSET Nat
      OBVIOUS
  <2> HIDE DEF T
  <2> QED BY <1>1, <2>1, LeastNatural
<1>3. P(0)
  <2>1. 1 .. 0 = {}
      OBVIOUS
  <2> QED BY <2>1
<1>4. m \in 1 .. n /\ P(m - 1) /\ ~P(m)
  <2> HIDE DEF P
  <2>1. m \in 0 .. n /\ ~P(m) /\ m # 0
      BY <1>2, <1>3
  <2>2. m - 1 \in 0 .. n /\ ~(m <= m - 1)
      BY <2>1
  <2>3. P(m - 1)
      BY <1>2, <2>2
  <2> QED BY <2>1, <2>3
<1>5. PICK b \in Nat : \A i \in 1 .. m - 1 : f[i] <= b
    BY <1>4
<1>6. f[m] \in Nat
    BY <1>4
<1>7. ASSUME NEW i \in 1 .. m PROVE f[i] <= b + f[m]
  <2>1. i = m \/ i \in 1 .. m - 1
      BY <1>4
  <2>2. f[i] \in Nat
      BY <1>4
  <2> QED BY <1>5, <1>6, <2>1, <2>2
<1>8. b + f[m] \in Nat
    BY <1>6
<1> QED BY <1>4, <1>7, <1>8

\* The states of RecoverLogFile after each record of a log: the memtable and the tables that
\* are full.
ReplayState == [mem : SUBSET EntryRecord, full : Seq(SUBSET EntryRecord)]
ReplayRecord(r, t) ==
    LET m == t.mem \cup EntriesOfRecord(r)
    IN  IF Cardinality(m) > WriteBuffer THEN [mem |-> {}, full |-> Append(t.full, m)] ELSE [t EXCEPT !.mem = m]
MadeBy(recs, f) ==
    /\ \A i \in 0 .. Len(recs) : f[i] \in ReplayState
    /\ f[0] = [mem |-> {}, full |-> <<>>] /\ \A i \in 1 .. Len(recs) : f[i] = ReplayRecord(recs[i], f[i - 1])
    /\ MemTables(recs) = LET end == f[Len(recs)] IN IF end.mem = {} THEN end.full ELSE Append(end.full, end.mem)

\* RecoverLogFile goes through such states.
LEMMA MemTablesAreMade ==
    ASSUME NEW recs \in Seq(LogRecord) PROVE \E f : MadeBy(recs, f)
<1> DEFINE n == Len(recs)
           S == ReplayState
           Next1(i, t) ==
               LET m == t.mem \cup EntriesOfRecord(recs[i])
               IN  IF Cardinality(m) > WriteBuffer THEN [mem |-> {}, full |-> Append(t.full, m)]
                   ELSE [t EXCEPT !.mem = m]
           base == [mem |-> {}, full |-> <<>>]
           replayed[i \in 0 .. n] ==
               IF i = 0 THEN [mem |-> {}, full |-> <<>>]
               ELSE LET st == replayed[i - 1]
                        m == st.mem \cup EntriesOfRecord(recs[i])
                    IN  IF Cardinality(m) > WriteBuffer THEN [mem |-> {}, full |-> Append(st.full, m)]
                        ELSE [st EXCEPT !.mem = m]
<1>1. n \in Nat /\ \A i \in 1 .. n : recs[i] \in LogRecord
    OBVIOUS
<1>2. \A i \in 1 .. n : EntriesOfRecord(recs[i]) \subseteq EntryRecord
  <2> SUFFICES ASSUME NEW i \in 1 .. n, NEW j \in DOMAIN recs[i].ops
               PROVE  Entry(recs[i].seq + j - 1, recs[i].ops[j]) \in EntryRecord
      BY DEF EntriesOfRecord
  <2> DEFINE r == recs[i]
  <2>1. r.seq \in Nat \ {0} /\ r.ops \in Seq(Nat)
      BY <1>1 DEF LogRecord
  <2> HIDE DEF r
  <2>2. \A k \in DOMAIN r.ops : k \in Nat \ {0} /\ r.ops[k] \in Nat
      BY <2>1
  <2>3. j \in Nat \ {0} /\ r.ops[j] \in Nat
      BY <2>2 DEF r
  <2>4. r.seq + j - 1 \in Nat
      BY <2>1, <2>3
  <2> QED BY <2>3, <2>4 DEF r, Entry, EntryRecord
<1>3. \A i \in 1 .. n, t \in S : Next1(i, t) \in S
  <2> SUFFICES ASSUME NEW i \in 1 .. n, NEW t \in S PROVE Next1(i, t) \in S
      OBVIOUS
  <2> USE DEF ReplayState
  <2> DEFINE m == t.mem \cup EntriesOfRecord(recs[i])
  <2>1. m \in SUBSET EntryRecord /\ t.full \in Seq(SUBSET EntryRecord)
      BY <1>2
  <2> HIDE DEF m
  <2>2. Append(t.full, m) \in Seq(SUBSET EntryRecord)
      BY <2>1
  <2> QED BY <2>1, <2>2 DEF m
<1>4. base \in S
    BY DEF ReplayState
<1>5. PICK f \in [0 .. n -> S] : f[0] = base /\ \A i \in 1 .. n : f[i] = Next1(i, f[i - 1])
  <2> DEFINE step == [i \in 1 .. n |-> [t \in S |-> Next1(i, t)]]
  <2> HIDE DEF Next1
  <2>1. step \in [1 .. n -> [S -> S]]
      BY <1>3
  <2>2. Results(n, S, base, step)
    <3> HIDE DEF step, S, n, base
    <3> QED BY <1>1, <1>4, <2>1, StepsHaveResults
  <2>3. PICK f \in [0 .. n -> S] : f[0] = base /\ \A i \in 1 .. n : f[i] = step[i][f[i - 1]]
    <3> HIDE DEF step, S, n, base
    <3> QED BY <2>2 DEF Results
  <2>4. \A i \in 1 .. n : f[i] = Next1(i, f[i - 1])
    <3> HIDE DEF S, n, base
    <3>1. \A i \in 1 .. n : f[i - 1] \in S
        BY <1>1, <2>3
    <3> QED BY <2>3, <3>1
  <2> HIDE DEF S, n, step, base
  <2> QED BY <2>3, <2>4
<1>6. f = [i \in 0 .. n |->
              IF i = 0 THEN [mem |-> {}, full |-> <<>>]
              ELSE LET st == f[i - 1]
                       m == st.mem \cup EntriesOfRecord(recs[i])
                   IN  IF Cardinality(m) > WriteBuffer THEN [mem |-> {}, full |-> Append(st.full, m)]
                       ELSE [st EXCEPT !.mem = m]]
  <2> HIDE DEF S, n
  <2>1. \A i \in 0 .. n : f[i] = IF i = 0 THEN base ELSE Next1(i, f[i - 1])
    <3> SUFFICES ASSUME NEW i \in 0 .. n PROVE f[i] = IF i = 0 THEN base ELSE Next1(i, f[i - 1])
        OBVIOUS
    <3> HIDE DEF Next1, base
    <3>1. CASE i = 0
        BY <1>5, <3>1
    <3>2. CASE i # 0
      <4>1. i \in 1 .. n
          BY <1>1, <3>2
      <4> QED BY <1>5, <3>2, <4>1
    <3> QED BY <3>1, <3>2
  <2> QED BY <2>1
<1>7. replayed = [i \in 0 .. n |->
              IF i = 0 THEN [mem |-> {}, full |-> <<>>]
              ELSE LET st == replayed[i - 1]
                       m == st.mem \cup EntriesOfRecord(recs[i])
                   IN  IF Cardinality(m) > WriteBuffer THEN [mem |-> {}, full |-> Append(st.full, m)]
                       ELSE [st EXCEPT !.mem = m]]
  <2> HIDE DEF n
  <2> QED BY <1>6, Zenon
<1>8. replayed[0] = base /\ \A i \in 1 .. n : replayed[i] = Next1(i, replayed[i - 1])
  <2> HIDE DEF n
  <2>1. \A i \in 1 .. n : i \in 0 .. n /\ i # 0
      BY <1>1
  <2>2. 0 \in 0 .. n
      BY <1>1
  <2> HIDE DEF replayed
  <2> QED BY <1>7, <2>1, <2>2
<1> DEFINE T == {i \in 0 .. n : replayed[i] \notin S}
<1> HIDE DEF replayed, n, base
<1>9. \A i \in 0 .. n : replayed[i] \in S
  <2> HIDE DEF S, Next1
  <2>1. ASSUME T # {} PROVE FALSE
    <3>1. T \in SUBSET Nat
        BY <1>1
    <3>2. PICK m \in T : \A k \in T : m <= k
      <4> HIDE DEF T
      <4> QED BY <2>1, <3>1, LeastNatural
    <3>3. m \in 1 .. n /\ m - 1 \in 0 .. n /\ replayed[m] \notin S /\ ~(m <= m - 1)
        BY <1>1, <1>4, <1>8, <3>2
    <3>4. replayed[m - 1] \in S
        BY <3>2, <3>3
    <3> QED BY <1>3, <1>8, <3>3, <3>4
  <2> QED BY <2>1
<1>10. MemTables(recs) = LET end == replayed[n]
                         IN  IF end.mem = {} THEN end.full ELSE Append(end.full, end.mem)
    BY DEF MemTables, replayed, n
<1>11. \A i \in 1 .. n : replayed[i] = ReplayRecord(recs[i], replayed[i - 1])
    BY <1>8 DEF ReplayRecord
<1>12. MadeBy(recs, replayed)
    BY <1>8, <1>9, <1>10, <1>11 DEF MadeBy, n, base
<1> QED BY <1>12

\* The tables that RecoverLogFile makes of a log hold entries.
LEMMA MemTablesAreEntries ==
    ASSUME NEW recs \in Seq(LogRecord) PROVE MemTables(recs) \in Seq(SUBSET EntryRecord)
<1>1. PICK f : MadeBy(recs, f)
    BY MemTablesAreMade
<1>2. f[Len(recs)] \in ReplayState
  <2>1. Len(recs) \in 0 .. Len(recs)
      OBVIOUS
  <2> QED BY <1>1, <2>1 DEF MadeBy
<1>3. \A t \in ReplayState : t.full \in Seq(SUBSET EntryRecord) /\ Append(t.full, t.mem) \in Seq(SUBSET EntryRecord)
  <2> SUFFICES ASSUME NEW t \in ReplayState
               PROVE  t.full \in Seq(SUBSET EntryRecord) /\ Append(t.full, t.mem) \in Seq(SUBSET EntryRecord)
      OBVIOUS
  <2>1. t.full \in Seq(SUBSET EntryRecord) /\ t.mem \in SUBSET EntryRecord
      BY DEF ReplayState
  <2> QED BY <2>1
<1> QED BY <1>1, <1>2, <1>3 DEF MadeBy

\* RecoverLogFile adds whole tables under new numbers and leaves the manifest alone.
LEMMA RecoverLogFileKeeps == ASSUME FilesInv, WritersInv', RecoverLogFile PROVE FilesInv'
<1> DEFINE log == Min(opening.todo)
           recs == Readable(logs[log].recs)
           mems == MemTables(recs)
           ends == {opening.maxSequence} \cup {r.seq + Len(r.ops) - 1 : r \in ToSet(recs)}
           new(n) == nextFile .. nextFile + n - 1
           Put1(n) == [m \in DOMAIN tables \cup new(n) |->
                          IF m \in new(n) THEN [entries |-> mems[m - nextFile + 1], synced |-> TRUE]
                          ELSE tables[m]]
<1>1. /\ phase = "recovering" /\ opening.todo # {}
      /\ UNCHANGED <<logs, manifests, current, created, phase, mem, imm, logfileNumber, version, lastSequence,
                     logNumber, manifestNumber, pending, bgError, bg, iters, queue>>
    BY DEF RecoverLogFile, memVars, writeVars, history
<1>2. /\ opening.todo \subseteq Nat /\ opening.maxSequence \in Nat /\ opening.add \subseteq Nat /\ nextFile \in Nat
      /\ log \in opening.todo /\ log \in Nat
  <2>1. opening.todo \subseteq Nat /\ opening.maxSequence \in Nat /\ opening.add \subseteq Nat /\ nextFile \in Nat
      BY DEF FilesInv, VersionTypeOK
  <2>2. log \in opening.todo
      BY <1>1, <2>1, MinIsMember
  <2> QED BY <2>1, <2>2
<1>3. recs \in Seq(LogRecord)
  <2>1. logs[log] \in LogFile
      BY <1>1, <1>2 DEF FilesInv, RecoverInv, FilesTypeOK
  <2>2. logs[log].recs \in Seq(LogRecord)
      BY <2>1 DEF LogFile
  <2> QED BY <2>2, AllIsReadable, NoneIsTorn
<1>4. mems \in Seq(SUBSET EntryRecord) /\ Len(mems) \in Nat
  <2>1. mems \in Seq(SUBSET EntryRecord)
      BY <1>3, MemTablesAreEntries
  <2> HIDE DEF mems
  <2> QED BY <2>1
<1>5. PICK k \in 0 .. Len(mems), failed \in BOOLEAN :
         /\ tables' = Put1(k)
         /\ opening' = [todo |-> opening.todo \ {log}, maxSequence |-> Max(ends),
                        add |-> opening.add \cup new(k), failed |-> failed]
         /\ nextFile' = Max({nextFile + k, log + 1})
  <2> DEFINE Written(k, failed) ==
               /\ tables' = Put1(k)
               /\ opening' = [todo |-> opening.todo \ {log}, maxSequence |-> Max(ends),
                              add |-> opening.add \cup new(k), failed |-> failed]
               /\ nextFile' = Max({nextFile + k, log + 1})
  <2>1. Written(Len(mems), FALSE) \/ Written(0, TRUE) \/ \E n \in 0 .. Len(mems) - 1 : Written(n, TRUE)
      BY DEF RecoverLogFile
  <2> HIDE DEF Written
  <2>2. Len(mems) \in 0 .. Len(mems) /\ 0 \in 0 .. Len(mems)
      BY <1>4
  <2>3. \A n \in 0 .. Len(mems) - 1 : n \in 0 .. Len(mems)
      BY <1>4
  <2>4. \E k \in 0 .. Len(mems) : \E failed \in BOOLEAN : Written(k, failed)
      BY <2>1, <2>2, <2>3
  <2> QED BY <2>4 DEF Written
<1>6. ends \in SUBSET Nat /\ Max(ends) \in Nat
  <2> DEFINE f == [i \in 1 .. Len(recs) |-> recs[i].seq + Len(recs[i].ops) - 1]
  <2> HIDE DEF recs
  <2>1. \A i \in 1 .. Len(recs) : recs[i].seq \in Nat \ {0} /\ Len(recs[i].ops) \in Nat
    <3>1. \A i \in 1 .. Len(recs) : recs[i] \in LogRecord
        BY <1>3
    <3>2. \A r \in LogRecord : r.seq \in Nat \ {0} /\ r.ops \in Seq(Nat)
        BY DEF LogRecord
    <3>3. \A q \in Seq(Nat) : Len(q) \in Nat
        OBVIOUS
    <3> QED BY <3>1, <3>2, <3>3
  <2>2. f \in [1 .. Len(recs) -> Nat] /\ Len(recs) \in Nat
    <3>1. \A i \in 1 .. Len(recs) : recs[i].seq + Len(recs[i].ops) - 1 \in Nat
        BY <2>1
    <3> QED BY <1>3, <3>1
  <2>3. PICK b \in Nat : \A i \in 1 .. Len(recs) : f[i] <= b
    <3> HIDE DEF f
    <3> QED BY <2>2, BoundOfSome
  <2> DEFINE n == b + opening.maxSequence
  <2>4. \A x \in ends : x \in 0 .. n
    <3> SUFFICES ASSUME NEW x \in ends PROVE x \in 0 .. n
        OBVIOUS
    <3>1. CASE x = opening.maxSequence
        BY <1>2, <3>1
    <3>2. CASE x # opening.maxSequence
      <4>1. PICK r \in ToSet(recs) : x = r.seq + Len(r.ops) - 1
          BY <3>2
      <4>2. PICK i \in 1 .. Len(recs) : r = recs[i]
          BY <1>3 DEF ToSet
      <4>3. x = f[i]
          BY <4>1, <4>2
      <4>4. f[i] \in Nat /\ f[i] <= b
          BY <2>2, <2>3
      <4> HIDE DEF f
      <4> QED BY <1>2, <4>3, <4>4
    <3> QED BY <3>1, <3>2
  <2>5. ends # {} /\ n \in Nat
      BY <1>2
  <2> HIDE DEF ends, n
  <2>6. ends \in SUBSET (0 .. n)
      BY <2>4
  <2>7. Max(ends) \in ends
      BY <2>5, <2>6, MaxOfNaturals
  <2>8. 0 .. n \subseteq Nat
      BY <2>5
  <2> QED BY <2>6, <2>7, <2>8
<1>7. nextFile' \in Nat /\ nextFile + k <= nextFile' /\ nextFile <= nextFile' /\ k \in Nat
  <2>1. k \in Nat /\ nextFile + k \in Nat /\ log + 1 \in Nat
      BY <1>2, <1>4
  <2>2. nextFile' \in Nat /\ nextFile + k <= nextFile'
    <3> HIDE DEF log
    <3> QED BY <1>5, <2>1, MaxOfTwo
  <2> QED BY <1>2, <2>1, <2>2
<1> HIDE DEF mems, log, ends
<1>8. \A m \in new(k) : m \in Nat /\ m < nextFile' /\ m - nextFile + 1 \in 1 .. Len(mems)
    BY <1>2, <1>4, <1>7
<1>9. \A m \in new(k) : mems[m - nextFile + 1] \in SUBSET EntryRecord
  <2>1. mems \in [1 .. Len(mems) -> SUBSET EntryRecord]
      BY <1>4
  <2> QED BY <1>8, <2>1
<1>10. /\ DOMAIN tables' = DOMAIN tables \cup new(k)
       /\ \A m \in new(k) : tables'[m] \in TableFile /\ tables'[m].synced
       /\ \A m \in DOMAIN tables : m \notin new(k) => tables'[m] = tables[m]
       /\ tables' = [m \in DOMAIN tables' |-> tables'[m]]
  <2> HIDE DEF new
  <2> QED BY <1>5, <1>9 DEF TableFile
<1> HIDE DEF new
<1>11. FilesTypeOK' /\ Good \cup new(k) \subseteq Good'
  <2>1. DOMAIN tables' \subseteq Nat
      BY <1>8, <1>10 DEF FilesInv, FilesTypeOK
  <2>2. \A m \in DOMAIN tables' : tables'[m] \in TableFile
      BY <1>10 DEF FilesInv, FilesTypeOK
  <2>3. tables' \in [DOMAIN tables' -> TableFile]
      BY <1>10, <2>2
  <2>4. FilesTypeOK'
      BY <1>1, <2>1, <2>3 DEF FilesInv, FilesTypeOK
  <2>5. \A m \in Good : tables'[m].synced /\ m \in DOMAIN tables'
      BY <1>10 DEF Good
  <2>6. \A m \in new(k) : m \in Good'
      BY <1>10 DEF Good
  <2> QED BY <2>4, <2>5, <2>6 DEF Good
<1>12. /\ opening' \in [todo : SUBSET Nat, maxSequence : Nat, add : SUBSET Nat, failed : BOOLEAN]
       /\ opening'.todo \subseteq opening.todo /\ opening'.add = opening.add \cup new(k)
  <2>1. opening.add \cup new(k) \in SUBSET Nat /\ opening.todo \ {log} \in SUBSET Nat
      BY <1>2, <1>8
  <2> QED BY <1>5, <1>6, <2>1
<1>13. VersionTypeOK' /\ MemoryTypeOK' /\ BgTypeOK'
  <2>1. MemoryTypeOK' /\ BgTypeOK'
      BY <1>1 DEF FilesInv, MemoryTypeOK, BgTypeOK
  <2>2. VersionTypeOK'
      BY <1>1, <1>7, <1>12 DEF FilesInv, VersionTypeOK
  <2> QED BY <2>1, <2>2
<1>14. DiskInv'
  <2>1. created => phase' # "corrupt"
      BY <1>1
  <2>2. Good \subseteq Good'
      BY <1>11
  <2>3. current # 0 => current \in DOMAIN manifests' /\ manifests'[current] = manifests[current]
      BY <1>1 DEF FilesInv, DiskInv
  <2> QED BY <1>1, <2>1, <2>2, <2>3, DiskStays DEF FilesInv
<1>15. RecoverInv'
  <2>1. /\ current # 0 /\ current < manifestNumber /\ manifestNumber < nextFile /\ version \cup opening.add \subseteq Good
        /\ opening.todo \subseteq DOMAIN logs /\ Below(version \cup opening.add, nextFile)
        /\ manifestNumber \in Nat /\ version \subseteq Nat
      BY <1>1 DEF FilesInv, RecoverInv, VersionTypeOK
  <2>2. Below(version \cup opening'.add, nextFile')
    <3> SUFFICES ASSUME NEW m \in version \cup opening'.add PROVE m < nextFile'
        BY DEF Below
    <3>1. CASE m \in new(k)
        BY <1>8, <3>1
    <3>2. CASE m \in version \cup opening.add
      <4>1. m < nextFile /\ m \in Nat
          BY <1>2, <2>1, <3>2 DEF Below
      <4> QED BY <1>2, <1>7, <4>1
    <3> QED BY <1>12, <3>1, <3>2
  <2>3. manifestNumber < nextFile'
      BY <1>2, <1>7, <2>1
  <2>4. version \cup opening'.add \subseteq Good' /\ opening'.todo \subseteq DOMAIN logs'
      BY <1>1, <1>11, <1>12, <2>1
  <2> QED BY <1>1, <2>1, <2>2, <2>3, <2>4 DEF RecoverInv
<1>16. OnlyWhenOpen' /\ NewManifestInv' /\ OpenInv' /\ VersionIsLogged' /\ BgInv'
    BY <1>1 DEF FilesInv, OnlyWhenOpen, NewManifestInv, OpenInv, VersionIsLogged, BgInv, IsOpen
<1> QED BY <1>11, <1>13, <1>14, <1>15, <1>16 DEF FilesInv

\* The rest of DB::Open before CURRENT is set: a log, and a manifest of one edit.
LEMMA WriteNewManifestKeeps == ASSUME FilesInv, WritersInv', WriteNewManifest PROVE FilesInv'
<1> DEFINE e == [log |-> nextFile, next |-> nextFile', last |-> lastSequence', add |-> version \cup opening.add,
                 del |-> {}]
           m == [recs |-> <<e>>, synced |-> 1]
           l == [recs |-> <<>>, synced |-> 0]
<1>1. /\ phase = "recovering" /\ phase' = "current" /\ opening.todo = {}
      /\ lastSequence' = Max({lastSequence, opening.maxSequence})
      /\ logs' = Put(logs, nextFile, l) /\ logfileNumber' = nextFile /\ nextFile' = nextFile + 1
      /\ manifests' = Put(manifests, manifestNumber, m)
      /\ UNCHANGED <<tables, current, created, opening, mem, imm, version, logNumber, manifestNumber, pending,
                     bgError, bg, iters, queue>>
    BY DEF WriteNewManifest, writeVars, history
<1>2. /\ nextFile \in Nat /\ nextFile' \in Nat /\ nextFile < nextFile' /\ manifestNumber \in Nat /\ version \subseteq Nat
      /\ opening.add \subseteq Nat /\ lastSequence' \in Nat
  <2>1. /\ nextFile \in Nat /\ manifestNumber \in Nat /\ version \subseteq Nat /\ opening.add \subseteq Nat
        /\ lastSequence \in Nat /\ opening.maxSequence \in Nat
      BY DEF FilesInv, VersionTypeOK
  <2>2. lastSequence' \in Nat
      BY <1>1, <2>1, MaxOfTwo
  <2> QED BY <1>1, <2>1, <2>2
<1>3. /\ current # 0 /\ current < manifestNumber /\ manifestNumber < nextFile /\ version \cup opening.add \subseteq Good
      /\ Below(version \cup opening.add, nextFile) /\ current \in Nat
    BY <1>1 DEF FilesInv, RecoverInv, FilesTypeOK
<1>4. e \in EditRecord /\ e.add = version \cup opening.add /\ e.del = {} /\ e.next = nextFile'
    BY <1>2 DEF EditRecord
<1> HIDE DEF e
<1>5. <<e>> \in Seq(EditRecord) /\ Len(<<e>>) = 1 /\ <<e>>[1] = e /\ <<>> \in Seq(LogRecord) /\ Len(<<>>) = 0
    BY <1>4
<1>6. m \in ManifestFile /\ m.recs = <<e>> /\ m.synced = 1 /\ l \in LogFile
    BY <1>5 DEF ManifestFile, LogFile
<1> HIDE DEF m, l
<1>7. /\ DOMAIN manifests' = DOMAIN manifests \cup {manifestNumber} /\ manifests' \in [DOMAIN manifests' -> ManifestFile]
      /\ manifests'[manifestNumber] = m
      /\ \A n \in DOMAIN manifests : n # manifestNumber => manifests'[n] = manifests[n]
    BY <1>1, <1>6 DEF FilesInv, FilesTypeOK, Put
<1>8. DOMAIN logs' = DOMAIN logs \cup {nextFile} /\ logs' \in [DOMAIN logs' -> LogFile]
    BY <1>1, <1>6 DEF FilesInv, FilesTypeOK, Put
<1>9. FilesTypeOK' /\ Good' = Good
    BY <1>1, <1>2, <1>7, <1>8 DEF FilesInv, FilesTypeOK, Good
<1>10. VersionTypeOK' /\ MemoryTypeOK' /\ BgTypeOK'
  <2>1. MemoryTypeOK' /\ BgTypeOK'
      BY <1>1 DEF FilesInv, MemoryTypeOK, BgTypeOK
  <2>2. VersionTypeOK'
      BY <1>1, <1>2 DEF FilesInv, VersionTypeOK
  <2> QED BY <2>1, <2>2
<1>11. DiskInv'
  <2>1. created => phase' # "corrupt"
      BY <1>1
  <2>2. current # 0 => current \in DOMAIN manifests' /\ manifests'[current] = manifests[current]
    <3>1. manifestNumber # current
        BY <1>2, <1>3
    <3> QED BY <1>7, <3>1 DEF FilesInv, DiskInv
  <2>3. Good \subseteq Good'
      BY <1>9
  <2> QED BY <1>1, <2>1, <2>2, <2>3, DiskStays DEF FilesInv
<1>12. Below(version \cup opening.add, nextFile')
    BY <1>2, <1>3 DEF Below
<1>13. RecoverInv'
  <2>1. manifestNumber < nextFile'
      BY <1>2, <1>3
  <2> QED BY <1>1, <1>3, <1>8, <1>9, <1>12, <2>1 DEF RecoverInv
<1>14. manifestNumber # 0 /\ manifestNumber < nextFile' /\ nextFile' <= nextFile'
    BY <1>2, <1>3
<1>15. NewManifestInv'
  <2>1. /\ manifestNumber' \in DOMAIN manifests' /\ logfileNumber' \in DOMAIN logs' /\ logfileNumber' < nextFile'
        /\ manifests'[manifestNumber'] = m
      BY <1>1, <1>2, <1>7, <1>8
  <2>2. version' = version /\ opening' = opening /\ manifestNumber' = manifestNumber
      BY <1>1
  <2> QED BY <1>4, <1>5, <1>6, <1>12, <1>14, <2>1, <2>2 DEF NewManifestInv
<1>16. OnlyWhenOpen' /\ OpenInv' /\ VersionIsLogged' /\ BgInv'
    BY <1>1 DEF FilesInv, OnlyWhenOpen, OpenInv, VersionIsLogged, BgInv, IsOpen
<1> QED BY <1>9, <1>10, <1>11, <1>13, <1>15, <1>16 DEF FilesInv

\* CURRENT names the new manifest and the database is open.
LEMMA SetCurrentFileKeeps == ASSUME FilesInv, WritersInv', SetCurrentFile PROVE FilesInv'
<1> DEFINE m == manifests[manifestNumber]
           log == logfileNumber
           v == version \cup opening.add
<1>1. /\ phase = "current" /\ phase' = "open" /\ current' = manifestNumber /\ version' = v /\ logNumber' = log
      /\ opening' = NotOpening /\ created' = TRUE
      /\ DeleteObsoleteFiles(FALSE, version', logNumber', manifestNumber, logs, tables, manifests)
      /\ bg' = MaybeScheduleCompaction(bg, "open", FALSE, imm, version')
      /\ UNCHANGED <<mem, imm, logfileNumber, nextFile, lastSequence, manifestNumber, pending, bgError, iters, queue>>
    BY DEF SetCurrentFile, memVars, writeVars
<1>2. /\ bg = NoBg /\ iters = {} /\ imm = <<>> /\ bgError = FALSE /\ pending = {} /\ queue = <<>>
    BY <1>1 DEF FilesInv, OnlyWhenOpen, IsOpen
<1>3. /\ manifestNumber \in DOMAIN manifests /\ manifestNumber # 0 /\ log \in DOMAIN logs /\ log < nextFile
      /\ Len(m.recs) = 1 /\ m.synced = 1 /\ m.recs[1].add = v
      /\ manifestNumber < m.recs[1].next /\ m.recs[1].next <= nextFile /\ Below(v, m.recs[1].next)
    BY <1>1 DEF FilesInv, NewManifestInv
<1>4. /\ nextFile \in Nat /\ manifestNumber \in Nat /\ log \in Nat /\ v \subseteq Nat /\ lastSequence \in Nat
    BY DEF FilesInv, VersionTypeOK
<1>5. v \subseteq Good /\ Below(v, nextFile) /\ manifestNumber < nextFile
    BY <1>1 DEF FilesInv, RecoverInv
<1>6. /\ m \in ManifestFile /\ m.recs \in Seq(EditRecord)
    BY <1>3 DEF FilesInv, FilesTypeOK, ManifestFile
<1>7. Replay(m.recs) = v /\ Adds(m.recs) = v /\ SubSeq(m.recs, 1, 1) = m.recs
  <2>1. Replay(m.recs) = m.recs[1].add /\ Adds(m.recs) = m.recs[1].add
      BY <1>3, <1>6, ReplayOfOne
  <2>2. SubSeq(m.recs, 1, Len(m.recs)) = m.recs
      BY <1>6, ReplayIsAdded
  <2> QED BY <1>3, <2>1, <2>2
<1> HIDE DEF m, v
<1>8. /\ DOMAIN logs' \subseteq Nat /\ logs' \in [DOMAIN logs' -> LogFile]
      /\ DOMAIN tables' \subseteq Nat /\ tables' \in [DOMAIN tables' -> TableFile]
      /\ DOMAIN manifests' \subseteq Nat /\ manifests' \in [DOMAIN manifests' -> ManifestFile]
      /\ log \in DOMAIN logs' /\ manifestNumber \in DOMAIN manifests' /\ manifests'[manifestNumber] = m
      /\ v \subseteq Good'
  <2>1. /\ logs' = [k \in {n \in DOMAIN logs : n >= log} |-> logs[k]]
        /\ tables' = [k \in {n \in DOMAIN tables : n \in v} |-> tables[k]]
        /\ manifests' = [k \in {n \in DOMAIN manifests : n >= manifestNumber} |-> manifests[k]]
      BY <1>1 DEF DeleteObsoleteFiles, Keep
  <2>2. log >= log /\ manifestNumber >= manifestNumber
      BY <1>4
  <2>3. /\ DOMAIN logs' \subseteq Nat /\ logs' \in [DOMAIN logs' -> LogFile] /\ log \in DOMAIN logs'
      BY <1>3, <2>1, <2>2 DEF FilesInv, FilesTypeOK
  <2>4. /\ DOMAIN manifests' \subseteq Nat /\ manifests' \in [DOMAIN manifests' -> ManifestFile]
        /\ manifestNumber \in DOMAIN manifests' /\ manifests'[manifestNumber] = m
      BY <1>3, <2>1, <2>2 DEF FilesInv, FilesTypeOK, m
  <2>5. DOMAIN tables' \subseteq Nat /\ tables' \in [DOMAIN tables' -> TableFile]
      BY <2>1 DEF FilesInv, FilesTypeOK
  <2>6. v \subseteq Good'
      BY <1>5, <2>1 DEF Good
  <2> QED BY <2>3, <2>4, <2>5, <2>6
<1>9. FilesTypeOK'
    BY <1>1, <1>4, <1>8 DEF FilesTypeOK
<1>10. bg' = NoBg \/ bg' = [NoBg EXCEPT !.pc = "scheduled"]
  <2> HIDE DEF NoBg
  <2> QED BY <1>1, <1>2 DEF MaybeScheduleCompaction
<1>11. bg' \in BgRecord /\ bg'.pc \in {"none", "scheduled"} /\ bg'.merge = <<>> /\ Len(bg'.merge) = 0 /\ DOMAIN bg'.merge = {}
  <2>1. NoBg \in BgRecord /\ NoBg.pc = "none" /\ NoBg.merge = <<>> /\ Len(<<>>) = 0 /\ DOMAIN <<>> = {}
      BY ScheduleFacts
  <2>2. /\ [NoBg EXCEPT !.pc = "scheduled"] \in BgRecord /\ [NoBg EXCEPT !.pc = "scheduled"].pc = "scheduled"
        /\ [NoBg EXCEPT !.pc = "scheduled"].merge = <<>>
      BY ScheduleFacts
  <2> DEFINE b == [NoBg EXCEPT !.pc = "scheduled"]
  <2> HIDE DEF b, NoBg
  <2>3. CASE bg' = NoBg
      BY <2>1, <2>3
  <2>4. CASE bg' = b
      BY <2>1, <2>2, <2>4 DEF b
  <2> QED BY <1>10, <2>3, <2>4 DEF b
<1>12. BgTypeOK' /\ MemoryTypeOK'
  <2>1. MemoryTypeOK'
      BY <1>1 DEF FilesInv, MemoryTypeOK
  <2>2. BgTypeOK'
      BY <1>11 DEF BgTypeOK
  <2> QED BY <2>1, <2>2
<1>13. VersionTypeOK'
  <2>1. NotOpening \in [todo : SUBSET Nat, maxSequence : Nat, add : SUBSET Nat, failed : BOOLEAN]
      BY DEF NotOpening
  <2> QED BY <1>1, <1>4, <2>1 DEF FilesInv, VersionTypeOK
<1>14. OnlyWhenOpen' /\ RecoverInv' /\ NewManifestInv'
    BY <1>1, <1>2 DEF OnlyWhenOpen, RecoverInv, NewManifestInv, IsOpen
<1>15. Recs' = m.recs /\ manifests'[current'] = m
    BY <1>1, <1>8 DEF Recs
<1>16. DiskInv'
  <2>1. ManifestIsSafe(m, Good')
    <3>1. \A k \in 1 .. 1 : k = 1
        OBVIOUS
    <3> QED BY <1>3, <1>7, <1>8, <3>1 DEF ManifestIsSafe
  <2>2. NumbersRise(manifestNumber, m.recs)
    <3>1. \A i \in 1 .. 1 : i = 1 /\ \A j \in 1 .. i : j = 1
        OBVIOUS
    <3> QED BY <1>3, <3>1 DEF NumbersRise
  <2>3. m.synced >= 1
      BY <1>3
  <2> QED BY <1>1, <1>3, <1>8, <1>15, <2>1, <2>2, <2>3 DEF DiskInv
<1>17. OpenInv'
  <2>1. v \cup UNION iters \subseteq Good' \cap Adds(m.recs)
      BY <1>2, <1>7, <1>8
  <2>2. log <= log
      BY <1>4
  <2> QED BY <1>1, <1>3, <1>5, <1>7, <1>8, <1>15, <2>1, <2>2 DEF OpenInv
<1>18. VersionIsLogged'
    BY <1>1, <1>3, <1>7, <1>11, <1>15 DEF VersionIsLogged
<1>19. BgInv'
    BY <1>11 DEF BgInv
<1> QED BY <1>9, <1>12, <1>13, <1>14, <1>16, <1>17, <1>18, <1>19 DEF FilesInv

\* DB::Open fails: the new manifest is deleted, never the one that CURRENT names.
LEMMA ManifestFailsKeeps == ASSUME FilesInv, WritersInv', ManifestFails PROVE FilesInv'
<1>1. /\ phase = "current" /\ DropMemory /\ manifests' = Keep(manifests, LAMBDA n : n # manifestNumber)
      /\ UNCHANGED <<logs, tables, current, created>>
    BY DEF ManifestFails, history
<1>2. /\ DOMAIN manifests' = {n \in DOMAIN manifests : n # manifestNumber}
      /\ \A n \in DOMAIN manifests' : manifests'[n] = manifests[n]
      /\ manifests' = [n \in DOMAIN manifests' |-> manifests'[n]]
    BY <1>1 DEF Keep
<1>3. FilesTypeOK' /\ Good' = Good
  <2>1. manifests' \in [DOMAIN manifests' -> ManifestFile] /\ DOMAIN manifests' \subseteq Nat
      BY <1>2 DEF FilesInv, FilesTypeOK
  <2> QED BY <1>1, <2>1 DEF FilesInv, FilesTypeOK, Good
<1>4. DiskInv'
  <2>1. current # manifestNumber
    <3>1. current \in Nat /\ manifestNumber \in Nat /\ current < manifestNumber
        BY <1>1 DEF FilesInv, FilesTypeOK, VersionTypeOK, RecoverInv
    <3> QED BY <3>1
  <2>2. current # 0 => current \in DOMAIN manifests' /\ manifests'[current] = manifests[current]
      BY <1>2, <2>1 DEF FilesInv, DiskInv
  <2>3. created => phase' # "corrupt"
      BY <1>1 DEF DropMemory
  <2>4. Good \subseteq Good'
      BY <1>3
  <2> QED BY <1>1, <2>2, <2>3, <2>4, DiskStays DEF FilesInv
<1> QED BY <1>1, <1>3, <1>4, DropKeeps

-----------------------------------------------------------------------------
\* Initially there are no files.
LEMMA FilesInitially == ASSUME DBInit PROVE FilesInv
<1>1. WritersInv
    BY WritersInitially
<1> USE DEF DBInit
<1>2. FilesTypeOK
  <2>1. \A T : DOMAIN <<>> \subseteq Nat /\ <<>> \in [DOMAIN <<>> -> T]
    <3> TAKE T
    <3>1. <<>> \in Seq(T) /\ Len(<<>>) = 0 /\ DOMAIN <<>> = {}
        OBVIOUS
    <3>2. <<>> \in [1 .. Len(<<>>) -> T] /\ 1 .. 0 = {}
        BY <3>1
    <3> QED BY <3>1, <3>2
  <2>2. current \in Nat /\ created \in BOOLEAN
      OBVIOUS
  <2> QED BY <2>1, <2>2 DEF FilesTypeOK
<1>3. VersionTypeOK
    BY DEF VersionTypeOK, NotOpening
<1>4. MemoryTypeOK /\ BgTypeOK
  <2>1. <<>> \in Seq(SUBSET EntryRecord) /\ Len(<<>>) = 0
      OBVIOUS
  <2>2. NoBg \in BgRecord /\ NoBg.pc = "none" /\ NoBg.merge = <<>>
      BY ScheduleFacts
  <2>3. MemoryTypeOK
    <3>1. mem \subseteq EntryRecord /\ bgError \in BOOLEAN /\ imm = <<>>
        OBVIOUS
    <3> QED BY <2>1, <3>1 DEF MemoryTypeOK
  <2>4. BgTypeOK
      BY <2>1, <2>2 DEF BgTypeOK
  <2> QED BY <2>3, <2>4
<1>5. OnlyWhenOpen /\ DiskInv /\ RecoverInv /\ NewManifestInv /\ OpenInv /\ VersionIsLogged /\ BgInv
    BY DEF OnlyWhenOpen, DiskInv, RecoverInv, NewManifestInv, OpenInv, VersionIsLogged, BgInv, IsOpen
<1> QED BY <1>1, <1>2, <1>3, <1>4, <1>5 DEF FilesInv

\* Every step of the database, its users and its environment keeps the files in order.
LEMMA FilesStep == ASSUME NoTornWrites, FilesInv, [DBNext]_dbVars PROVE FilesInv'
<1>1. WritersInv'
    BY EnterKeeps, WriterStepKeeps, OtherStepKeeps DEF DBNext, FilesInv
<1>2. CASE UNCHANGED dbVars
    BY <1>1, <1>2, QuietKeeps DEF dbVars, FilesInv, OnlyWhenOpen, writeVars, history
<1>3. CASE (\E w \in Writers, kind \in Kinds : EnterWrite(w, kind)) \/ (\E w \in Writers : WriterStep(w))
    BY <1>1, <1>3, WritersKeepFiles
<1>4. CASE BackgroundStep
    BY <1>1, <1>4, NothingToDoKeeps, StartFlushKeeps, BuildTableKeeps, BuildTableFailsKeeps, AddManifestRecordKeeps,
       InstallFlushKeeps, StartMergeKeeps, MergeFailsKeeps, FinishMergeKeeps, InstallMergeKeeps DEF BackgroundStep
<1>5. CASE OpenStep
  <2>1. CASE OpenFails
      BY <1>1, <2>1, ProcessEndKeeps DEF OpenFails, history
  <2> QED BY <1>1, <1>5, <2>1, NewDBKeeps, RecoverVersionsKeeps, RecoverLogFileKeeps, WriteNewManifestKeeps,
             SetCurrentFileKeeps, ManifestFailsKeeps DEF OpenStep
<1>6. CASE NewIterator \/ (\E v \in iters : CleanupIterator(v)) \/ Close
    BY <1>1, <1>6, UsersKeep
<1>7. CASE CloseDone \/ ProcessCrash
    BY <1>1, <1>7, ProcessEndKeeps DEF CloseDone, ProcessCrash, history
<1>8. CASE MachineCrash
    BY <1>1, <1>8, MachineCrashKeeps
<1> QED BY <1>2, <1>3, <1>4, <1>5, <1>6, <1>7, <1>8 DEF DBNext

\* The files are in order in every state, if no append is torn.
LEMMA FilesInvariant == ASSUME NoTornWrites PROVE DBSpec => []FilesInv
<1>1. DBInit => FilesInv
    BY FilesInitially
<1>2. FilesInv /\ [DBNext]_dbVars => FilesInv'
    BY FilesStep
<1> QED BY <1>1, <1>2, PTL DEF DBSpec

\* Whoever runs the database, with whatever threads, options, crashes and I/O errors (but
\* no torn append): the tables of the current version and of every iterator are on disk
\* and whole.  DeleteObsoleteFiles never removes a file in use.
THEOREM TablesInUseAreWhole == ASSUME NoTornWrites PROVE DBSpec => []LiveTablesAreWhole
<1>1. FilesInv => LiveTablesAreWhole
    BY DEF FilesInv, OpenInv, LiveTablesAreWhole, IsOpen, Good
<1> QED BY <1>1, FilesInvariant, PTL

\* Then a database that was open once can be opened after every crash: VersionSet::Recover
\* finds a manifest it can read, and Recover all the tables that it names.
THEOREM OpeningAgainSucceeds == ASSUME NoTornWrites PROVE DBSpec => []ReopenSucceeds
<1>1. FilesInv => ReopenSucceeds
    BY DEF FilesInv, DiskInv, ReopenSucceeds
<1> QED BY <1>1, FilesInvariant, PTL

\* The types, and who may be where.
THEOREM DBTypes == ASSUME NoTornWrites PROVE DBSpec => []DBTypeOK
<1>1. FilesInv => DBTypeOK
  <2> SUFFICES ASSUME FilesInv PROVE DBTypeOK
      OBVIOUS
  <2>1. phase \in {"closed", "corrupt", "recovering", "current", "open", "closing"}
      BY DEF FilesInv, VersionTypeOK
  <2>2. bg.pc \in {"none", "scheduled", "build", "edit", "applied", "merge"}
      BY DEF FilesInv, BgTypeOK, BgRecord
  <2>3. Len(imm) <= 1
      BY DEF FilesInv, MemoryTypeOK
  <2>4. \A n \in DOMAIN logs : logs[n].synced \in 0 .. Len(logs[n].recs)
    <3> SUFFICES ASSUME NEW n \in DOMAIN logs PROVE logs[n].synced \in 0 .. Len(logs[n].recs)
        OBVIOUS
    <3>1. logs[n] \in LogFile
        BY DEF FilesInv, FilesTypeOK
    <3>2. logs[n].recs \in Seq(LogRecord) /\ logs[n].synced \in Nat /\ logs[n].synced <= Len(logs[n].recs)
        BY <3>1 DEF LogFile
    <3> QED BY <3>2
  <2>5. \A w \in Writers : writer[w].pc \in {"idle", "queue", "front", "room", "log", "logged"}
      BY DEF FilesInv, WritersInv, QueueTypeOK, WriterRecord, Pcs
  <2>6. current = 0 \/ current \in DOMAIN manifests
      BY DEF FilesInv, DiskInv
  <2> QED BY <2>1, <2>2, <2>3, <2>4, <2>5, <2>6 DEF DBTypeOK
<1> QED BY <1>1, FilesInvariant, PTL
=============================================================================
