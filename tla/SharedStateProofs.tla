-------------------------- MODULE SharedStateProofs --------------------------
(***************************************************************************)
(* A reader of the skip list misses nothing, the arena hands out memory    *)
(* that is apart, the table cache keeps what is used and returns the rest, *)
(* the background thread runs its items in turn and the LOCK file          *)
(* excludes, for any number of entries, heights, keys, requests, tables,   *)
(* items, processes and threads; and what is proved of each component      *)
(* holds in SharedState, where they stand side by side.                    *)
(***************************************************************************)
EXTENDS SharedState, FiniteSetTheorems, WellFoundedInduction, TLAPS

-----------------------------------------------------------------------------
(* The memtable.  The heart of its invariant is that the lowest list has no *)
(* gap, a fact about single links and single nodes, so that nothing has to  *)
(* be said of paths through the list.                                       *)

\* A node's key is a key.
LEMMA KeysAreKeys ==
    ASSUME MemTypeOK, NEW n \in Nodes
    PROVE  KeyOf(n) \in [user : Int, seq : Nat] /\ KeyOf(n).seq = n
    BY MemTableAssumption DEF MemTypeOK, ListTypeOK, KeyOf, Key, Nodes

\* An empty list, nobody at work.
LEMMA InitInv == MemInit => MemInv
<1> SUFFICES ASSUME MemInit PROVE MemInv
    OBVIOUS
<1> USE MemTableAssumption
<1>1. MemTypeOK
  <2>1. ListTypeOK
      BY DEF MemInit, ListTypeOK, Nodes, Levels, HeadNode, Null, Garbage
  <2>2. WriterTypeOK
      BY DEF MemInit, WriterTypeOK, Levels, HeadNode
  <2>3. ReaderTypeOK
      BY DEF MemInit, ReaderTypeOK, Nodes, Levels, HeadNode, Null, NoKey, Key, NoAnswer
  <2> QED BY <2>1, <2>2, <2>3 DEF MemTypeOK
<1>2. ListsAreSorted
    BY DEF MemInit, ListsAreSorted, In, Nodes, Levels, HeadNode, Null
<1>3. NoGap
    BY DEF MemInit, NoGap
<1>4. Heights
    BY DEF MemInit, Heights, Nodes, Levels, HeadNode
<1>5. Writing
    BY DEF MemInit, Writing
<1>6. Reading
    BY DEF MemInit, Reading, Complete, NoAnswer, Null
<1>7. AnswersMissNothing
    BY DEF MemInit, AnswersMissNothing, NoAnswer, Null
<1> QED BY <1>1, <1>2, <1>3, <1>4, <1>5, <1>6, <1>7 DEF MemInv

-----------------------------------------------------------------------------
\* The writer's actions.

\* A new entry has no place in any list yet (MemTable::Add).
LEMMA AddInv == ASSUME MemInv, NEW user \in Users, Add(user) PROVE MemInv'
<1> USE MemTableAssumption DEF KeyOf, Key, HeadNode, Null
<1>t. MemTypeOK
    BY DEF MemInv
<1>0. count \in Nat /\ count + 1 \in Nodes /\ count + 1 <= MaxEntries /\ user \in Int
    BY <1>t DEF MemTypeOK, ListTypeOK, Add, Nodes
<1>u. /\ count' = count + 1 /\ link' = link /\ tall' = tall /\ maxHeight' = maxHeight
      /\ rpc' = rpc /\ rx' = rx /\ rlevel' = rlevel /\ goal' = goal /\ pos' = pos /\ answer' = answer
      /\ published' = published /\ wx' = 0 /\ wlevel' = maxHeight - 1
      /\ wpc = "idle" /\ wpc' = "find" /\ prev' = prev /\ height' = height
      /\ userOf' = [userOf EXCEPT ![count + 1] = user]
    BY DEF Add, readerVars
<1>k. \A n \in Nodes : n # count + 1 => userOf'[n] = userOf[n]
    BY <1>0, <1>t, <1>u DEF MemTypeOK, ListTypeOK
<1>h. tall[count + 1] = 0
    BY <1>0 DEF MemInv, Heights
<1>j. \A n \in Int, l \in Levels : In(n, l)' <=> In(n, l)
    BY <1>0, <1>h, <1>u DEF In, Levels
<1>1. MemTypeOK'
  <2>1. userOf' \in [Nodes -> Int]
      BY <1>0, <1>t, <1>u DEF MemTypeOK, ListTypeOK
  <2>2. wlevel' \in Levels /\ wx' \in 0 .. MaxEntries
      BY <1>t, <1>u DEF MemTypeOK, ListTypeOK, WriterTypeOK, Levels
  <2>4. count' \in 0 .. MaxEntries /\ published' \in 0 .. count'
      BY <1>0, <1>t, <1>u DEF MemTypeOK, ListTypeOK
  <2>5. ListTypeOK'
      BY <1>t, <1>u, <2>1, <2>4 DEF MemTypeOK, ListTypeOK
  <2>6. WriterTypeOK'
      BY <1>t, <1>u, <2>2 DEF MemTypeOK, WriterTypeOK
  <2>7. ReaderTypeOK'
      BY <1>t, <1>u DEF MemTypeOK, ReaderTypeOK
  <2> QED BY <2>5, <2>6, <2>7 DEF MemTypeOK
<1>s. ListsAreSorted /\ NoGap
    BY DEF MemInv
<1>2. ListsAreSorted'
  <2> SUFFICES ASSUME NEW x \in 0 .. count + 1, NEW l \in Levels, In(x, l)'
               PROVE  \/ link[x][l] = Null
                      \/ /\ link[x][l] # HeadNode /\ In(link[x][l], l)'
                         /\ (x = HeadNode \/ Less([user |-> userOf'[x], seq |-> x],
                                                  [user |-> userOf'[link[x][l]], seq |-> link[x][l]]))
      BY <1>u DEF ListsAreSorted, Precedes
  <2> DEFINE n == link[x][l]
  <2>1. In(x, l) /\ x \in 0 .. count
      BY <1>0, <1>j DEF In
  <2>2. n = Null \/ (n # HeadNode /\ In(n, l) /\ (x = 0 \/ Less(KeyOf(x), KeyOf(n))))
      BY <1>s, <2>1 DEF ListsAreSorted, Precedes
  <2>3. n # Null => n \in Nodes /\ n # count + 1 /\ In(n, l)'
      BY <1>0, <1>h, <1>u, <2>2 DEF In, Nodes, Levels
  <2>4. x # 0 => x \in Nodes /\ x # count + 1
      BY <1>0, <2>1 DEF In, Nodes
  <2>5. (n # Null => userOf'[n] = userOf[n]) /\ (x # 0 => userOf'[x] = userOf[x])
      BY <1>k, <2>3, <2>4
  <2> HIDE DEF n
  <2>6. n = Null \/ (n # HeadNode /\ In(n, l)' /\ (x = 0 \/ Less([user |-> userOf'[x], seq |-> x], [user |-> userOf'[n], seq |-> n])))
      BY <2>2, <2>3, <2>5
  <2> QED BY <2>6 DEF n
<1>3. NoGap'
  <2> SUFFICES ASSUME NEW x \in 0 .. count + 1, NEW n \in 1 .. count + 1,
                      In(x, 0)', In(n, 0)', Precedes(x, KeyOf(n))'
               PROVE  link[x][0] # Null /\ ~Less(KeyOf(n), KeyOf(link[x][0]))'
      BY <1>u DEF NoGap
  <2> DEFINE m == link[x][0]
  <2>0. 0 \in Levels
      BY DEF Levels
  <2>1. In(x, 0) /\ In(n, 0) /\ x \in 0 .. count /\ n \in 1 .. count
      BY <1>0, <1>j, <2>0 DEF In
  <2>2. userOf'[n] = userOf[n] /\ (x # 0 => userOf'[x] = userOf[x])
      BY <1>0, <1>k, <2>1 DEF Nodes
  <2>3. Precedes(x, KeyOf(n))
      BY <2>2 DEF Precedes, Less
  <2>4. m # Null /\ ~Less(KeyOf(n), KeyOf(m))
      BY <1>s, <2>1, <2>3 DEF NoGap
  <2>5. m \in 1 .. count
      BY <1>0, <1>s, <2>0, <2>1, <2>4 DEF ListsAreSorted, In
  <2>6. userOf'[m] = userOf[m]
      BY <1>0, <1>k, <2>5 DEF Nodes
  <2> QED BY <1>u, <2>2, <2>4, <2>6 DEF Less
<1>g. Heights
    BY DEF MemInv
<1>4. Heights'
  <2>1. \A n \in 1 .. count + 1 : tall[n] <= maxHeight /\ (n < count + 1 => tall[n] > 0)
    <3>1. \A n \in 1 .. count : tall[n] <= maxHeight /\ tall[n] > 0
        BY <1>g, <1>u DEF Heights
    <3>2. 0 <= maxHeight
        BY <1>t DEF MemTypeOK, ListTypeOK
    <3> QED BY <1>0, <1>h, <3>1, <3>2
  <2>2. \A n \in Nodes : n > count + 1 => tall[n] = 0
      BY <1>0, <1>g DEF Heights, Nodes
  <2>3. tall[0] = MaxHeight /\ \A l \in Levels : l >= maxHeight => link[0][l] = -1
      BY <1>g DEF Heights
  <2> QED BY <1>u, <2>1, <2>2, <2>3 DEF Heights
<1>5. Writing'
  <2>1. maxHeight \in Int /\ maxHeight <= MaxHeight
      BY <1>t DEF MemTypeOK, ListTypeOK
  <2>2. In(wx, wlevel)'
      BY <1>0, <1>g, <1>u, <2>1 DEF Heights, In
  <2>3. \A l \in Levels : ~(maxHeight - 1 < l /\ l < maxHeight)
      BY <2>1 DEF Levels
  <2> QED BY <1>0, <1>h, <1>u, <2>1, <2>2, <2>3 DEF Writing, Precedes
<1>r. Reading
    BY DEF MemInv
<1>6. Reading'
  <2>1. Complete' = Complete /\ Complete = count
      BY <1>0, <1>u DEF Complete
  <2>2. rpc # "idle" /\ rx # 0 => userOf'[rx] = userOf[rx]
      BY <1>0, <1>k, <1>r DEF Reading, In, Nodes
  <2>3. rpc # "idle" => In(rx, rlevel)'
      BY <1>0, <1>r, <1>u DEF Reading, In
  <2>4. pos # Null => In(pos, 0)'
      BY <1>0, <1>r, <1>u DEF Reading, In
  <2> QED BY <1>r, <1>u, <2>1, <2>2, <2>3, <2>4 DEF Reading, Precedes, Less
<1>7. AnswersMissNothing'
  <2>a. AnswersMissNothing
      BY DEF MemInv
  <2>0. answer.had <= count /\ answer.had \in Nat
      BY <1>r, <1>t, <1>u DEF Reading, Complete, MemTypeOK, ListTypeOK, ReaderTypeOK
  <2>n. answer.node \in Nodes \cup {-1}
      BY <1>t DEF MemTypeOK, ReaderTypeOK
  <2>m. answer.node # Null => answer.node # count + 1
      BY <1>0, <2>a DEF AnswersMissNothing, In
  <2>1. answer.node # Null => userOf'[answer.node] = userOf[answer.node]
      BY <1>k, <2>m, <2>n
  <2>2. \A n \in 1 .. answer.had : userOf'[n] = userOf[n]
      BY <1>0, <1>k, <2>0 DEF Nodes
  <2>3. ASSUME NEW n \in 1 .. answer'.had PROVE ~LeftOut(answer, n)'
    <3>1. ~LeftOut(answer, n) /\ userOf'[n] = userOf[n]
        BY <1>u, <2>2, <2>a DEF AnswersMissNothing
    <3> QED BY <1>u, <2>1, <3>1 DEF LeftOut, Less
  <2>4. (answer.node # Null => In(answer.node, 0))'
      BY <1>0, <1>u, <2>a DEF AnswersMissNothing, In
  <2>5. (answer.node # Null => /\ answer.kind = "ge" => ~Less(KeyOf(answer.node), answer.key)
                               /\ answer.kind = "lt" => Less(KeyOf(answer.node), answer.key)
                               /\ answer.kind = "next" => Less(answer.key, KeyOf(answer.node)))'
      BY <1>u, <2>1, <2>a DEF AnswersMissNothing, Less
  <2> QED BY <2>3, <2>4, <2>5 DEF AnswersMissNothing
<1> QED BY <1>1, <1>2, <1>3, <1>4, <1>5, <1>6, <1>7 DEF MemInv

\* What does not touch the list leaves what is said of it alone.
LEMMA ListStays ==
    ASSUME MemInv, UNCHANGED <<userOf, link, tall, count>>
    PROVE  ListsAreSorted' /\ NoGap'
    BY DEF MemInv, ListsAreSorted, NoGap, In, Precedes, KeyOf, Key

\* So does what touches neither the list's nodes nor the answer.
LEMMA AnswerStays ==
    ASSUME MemInv, UNCHANGED <<userOf, tall, count, answer>>
    PROVE  AnswersMissNothing'
    BY DEF MemInv, AnswersMissNothing, LeftOut, In, KeyOf, Key

\* A step of the writer that completes no fewer entries leaves the reader's place alone.
LEMMA ReadingStays ==
    ASSUME MemInv, UNCHANGED <<userOf, tall, count>>, UNCHANGED readerVars,
           published' = published, Complete' >= Complete, Complete' \in Int
    PROVE  Reading'
<1> USE DEF KeyOf, Key, readerVars
<1>1. Reading /\ answer.had \in Int /\ published \in Int /\ Complete \in Int
    BY MemTableAssumption DEF MemInv, MemTypeOK, ListTypeOK, ReaderTypeOK, Complete
<1> QED BY <1>1 DEF Reading, In, Precedes, Less

\* A search of the writer goes on, or records its predecessor at a level.
LEMMA FindPrevInv == ASSUME MemInv, FindPrev PROVE MemInv'
<1> USE MemTableAssumption DEF KeyOf, Key, HeadNode, Null
<1> DEFINE n == link[wx][wlevel]
<1>t. MemTypeOK /\ ListsAreSorted /\ Heights /\ Writing
    BY DEF MemInv
<1>u. /\ UNCHANGED <<userOf, link, tall, count, published, height, maxHeight>> /\ UNCHANGED readerVars
      /\ wpc = "find" /\ Complete' = Complete
    BY DEF FindPrev, listVars, Complete
<1>0. count \in Nodes /\ wlevel \in Levels /\ wlevel \in Nat /\ tall[count] = 0
    BY <1>t, <1>u DEF MemTypeOK, ListTypeOK, WriterTypeOK, Writing, Nodes, Levels
<1>1. /\ wx \in 0 .. count /\ In(wx, wlevel) /\ Precedes(wx, KeyOf(count)) /\ wlevel < maxHeight
      /\ \A l \in Levels : wlevel < l /\ l < maxHeight => PrevOK(l)
    BY <1>t, <1>u DEF Writing, In
<1>a. /\ \A m \in Nodes : userOf[m] \in Int /\ m \in Int
      /\ \A x \in 0 .. MaxEntries, l \in Levels : link[x][l] \in Nodes \cup {Null, Garbage}
    BY <1>t DEF MemTypeOK, ListTypeOK, Nodes
<1>2. n = Null \/ (n \in Nodes /\ n # count /\ In(n, wlevel))
  <2>1. wx \in 0 .. MaxEntries
      BY <1>0, <1>1 DEF Nodes
  <2>2. n \in Nodes \cup {Null, Garbage}
      BY <1>0, <1>a, <2>1
  <2>3. n = Null \/ (n # 0 /\ In(n, wlevel))
      BY <1>0, <1>1, <1>t DEF ListsAreSorted
  <2> QED BY <1>0, <2>2, <2>3 DEF In, Nodes
<1>3. Complete \in Int
    BY <1>0, <1>t DEF Complete, MemTypeOK, ListTypeOK
<1>4. CASE KeyIsAfterNode(KeyOf(count), n)
  <2>1. wx' = n /\ UNCHANGED <<wpc, prev, wlevel>> /\ n \in Nodes /\ In(n, wlevel) /\ Less(KeyOf(n), KeyOf(count))
      BY <1>2, <1>4 DEF FindPrev, KeyIsAfterNode
  <2>a. ListTypeOK'
      BY <1>t, <1>u DEF MemTypeOK, ListTypeOK
  <2>b. ReaderTypeOK'
      BY <1>t, <1>u DEF MemTypeOK, ReaderTypeOK, readerVars
  <2>c. WriterTypeOK'
      BY <1>t, <1>u, <2>1 DEF MemTypeOK, WriterTypeOK, Nodes
  <2>2. MemTypeOK'
      BY <2>a, <2>b, <2>c DEF MemTypeOK
  <2>3. Writing'
      BY <1>0, <1>1, <1>t, <1>u, <2>1 DEF Writing, In, Precedes, PrevOK
  <2>4. Heights'
      BY <1>t, <1>u, <2>1 DEF Heights
  <2> QED BY <1>u, <1>3, <2>2, <2>3, <2>4, ListStays, AnswerStays, ReadingStays DEF MemInv, readerVars
<1>5. CASE ~KeyIsAfterNode(KeyOf(count), n)
  <2>1. /\ wx' = wx /\ prev' = [prev EXCEPT ![wlevel] = wx]
        /\ IF wlevel = 0 THEN wpc' = "height" /\ wlevel' = wlevel ELSE wpc' = wpc /\ wlevel' = wlevel - 1
      BY <1>5 DEF FindPrev
  <2>2. n # Null => Less(KeyOf(count), KeyOf(n))
    <3>1. userOf[count] \in Int /\ count \in Int
        BY <1>0, <1>t DEF MemTypeOK, ListTypeOK, Nodes
    <3>2. n # Null => userOf[n] \in Int /\ n \in Int
        BY <1>2, <1>a
    <3> QED BY <1>2, <1>5, <3>1, <3>2 DEF KeyIsAfterNode, Less
  <2>3. prev'[wlevel] = wx /\ \A l \in Levels : l # wlevel => prev'[l] = prev[l]
      BY <1>0, <1>t, <2>1 DEF MemTypeOK, WriterTypeOK
  <2>4. ASSUME NEW l \in Levels, l = wlevel PROVE PrevOK(l)'
    <3>1. prev'[l] = wx /\ In(wx, l) /\ Precedes(wx, KeyOf(count))
          /\ (link[wx][l] # Null => Less(KeyOf(count), KeyOf(link[wx][l])))
        BY <1>1, <2>2, <2>3, <2>4
    <3> QED BY <1>u, <3>1 DEF PrevOK, In, Precedes
  <2>5. wlevel' \in Levels /\ wlevel' \in Nat /\ wlevel' <= wlevel
      BY <1>0, <2>1 DEF Levels
  <2>a. ListTypeOK'
      BY <1>t, <1>u DEF MemTypeOK, ListTypeOK
  <2>b. ReaderTypeOK'
      BY <1>t, <1>u DEF MemTypeOK, ReaderTypeOK, readerVars
  <2>c. WriterTypeOK'
      BY <1>t, <1>u, <1>1, <2>1, <2>5 DEF MemTypeOK, WriterTypeOK
  <2>6. MemTypeOK'
      BY <2>a, <2>b, <2>c DEF MemTypeOK
  <2>7. \A l \in Levels : wlevel < l /\ l < maxHeight => PrevOK(l)'
    <3> SUFFICES ASSUME NEW l \in Levels, wlevel < l, l < maxHeight PROVE PrevOK(l)'
        OBVIOUS
    <3>1. PrevOK(l) /\ prev'[l] = prev[l]
        BY <1>0, <1>1, <2>3
    <3> QED BY <1>u, <3>1 DEF PrevOK, In, Precedes
  <2>8. \A l \in Levels : wlevel <= l /\ l < maxHeight => PrevOK(l)'
      BY <1>0, <2>4, <2>7 DEF Levels
  <2>9. CASE wlevel = 0
    <3>1. \A l \in Levels : l < maxHeight => PrevOK(l)'
        BY <2>8, <2>9 DEF Levels
    <3>2. wpc' = "height"
        BY <2>1, <2>9
    <3>3. Writing'
      <4>1. count' > 0 /\ tall'[count'] = 0
          BY <1>0, <1>u DEF Nodes
      <4>2. \A l \in Levels : l < maxHeight' => PrevOK(l)'
          BY <1>u, <3>1
      <4> QED BY <3>2, <4>1, <4>2 DEF Writing
    <3>4. Heights'
        BY <1>t, <1>u, <3>2 DEF Heights
    <3> QED BY <1>u, <1>3, <2>6, <3>3, <3>4, ListStays, AnswerStays, ReadingStays DEF MemInv, readerVars
  <2>10. CASE wlevel # 0
    <3>1. wpc' = "find" /\ wlevel' = wlevel - 1
        BY <1>u, <2>1, <2>10
    <3>2. \A l \in Levels : wlevel' < l /\ l < maxHeight => PrevOK(l)'
        BY <1>0, <2>8, <3>1 DEF Levels
    <3>t. wx \in 0 .. MaxEntries /\ tall[wx] \in Int
        BY <1>0, <1>1, <1>t DEF MemTypeOK, ListTypeOK, Nodes
    <3>3. In(wx, wlevel)' /\ Precedes(wx, KeyOf(count))'
        BY <1>0, <1>1, <1>u, <2>1, <3>1, <3>t DEF In, Precedes
    <3>4. maxHeight \in Int
        BY <1>t DEF MemTypeOK, ListTypeOK
    <3>5. Writing'
        BY <1>0, <1>1, <1>u, <2>1, <3>1, <3>2, <3>3, <3>4 DEF Writing, Nodes
    <3>6. Heights'
        BY <1>t, <1>u, <3>1 DEF Heights
    <3> QED BY <1>u, <1>3, <2>6, <3>5, <3>6, ListStays, AnswerStays, ReadingStays DEF MemInv, readerVars
  <2> QED BY <2>9, <2>10
<1> QED BY <1>4, <1>5

\* The new node's height is known: the predecessors above the list's are the head.
LEMMA NewNodeInv == ASSUME MemInv, NEW h \in 1 .. MaxHeight, NewNode(h) PROVE MemInv'
<1> USE MemTableAssumption DEF KeyOf, Key, HeadNode, Null
<1>t. MemTypeOK /\ Heights /\ Writing
    BY DEF MemInv
<1>u. /\ UNCHANGED <<userOf, link, tall, count, published>> /\ UNCHANGED readerVars
      /\ wpc = "height" /\ wpc' = "point" /\ height' = h /\ wlevel' = 0 /\ wx' = wx
      /\ prev' = [l \in Levels |-> IF maxHeight <= l /\ l < h THEN 0 ELSE prev[l]]
      /\ maxHeight' = IF h > maxHeight THEN h ELSE maxHeight
      /\ Complete' = Complete
    BY DEF NewNode, Complete
<1>0. /\ count \in Nodes /\ tall[count] = 0 /\ Complete \in Int
      /\ maxHeight \in Nat /\ maxHeight <= maxHeight' /\ h <= maxHeight' /\ maxHeight' \in 1 .. MaxHeight
    BY <1>t, <1>u DEF MemTypeOK, ListTypeOK, Writing, Nodes, Complete
<1>1. MemTypeOK'
  <2>1. ListTypeOK'
      BY <1>t, <1>u, <1>0 DEF MemTypeOK, ListTypeOK
  <2>2. WriterTypeOK'
      BY <1>t, <1>u, <1>0 DEF MemTypeOK, WriterTypeOK, Levels
  <2>3. ReaderTypeOK'
      BY <1>t, <1>u DEF MemTypeOK, ReaderTypeOK, readerVars
  <2> QED BY <2>1, <2>2, <2>3 DEF MemTypeOK
<1>2. Heights'
  <2>1. \A n \in 1 .. count : tall[n] <= maxHeight' /\ (n < count => tall[n] > 0)
    <3>1. \A n \in 1 .. count : tall[n] \in Int /\ tall[n] <= maxHeight /\ (n < count => tall[n] > 0)
        BY <1>t DEF Heights, MemTypeOK, ListTypeOK
    <3> QED BY <1>0, <3>1
  <2>2. \A l \in Levels : l >= maxHeight' => link[0][l] = -1
      BY <1>t, <1>0 DEF Heights, Levels
  <2> QED BY <1>t, <1>u, <2>1, <2>2 DEF Heights
<1>3. ASSUME NEW l \in Levels, l < h PROVE PrevOK(l)'
  <2>1. CASE l < maxHeight
    <3>1. PrevOK(l) /\ prev'[l] = prev[l]
        BY <1>t, <1>u, <1>0, <2>1 DEF Writing, Levels
    <3> QED BY <1>u, <3>1 DEF PrevOK, In, Precedes
  <2>2. CASE ~(l < maxHeight)
    <3>1. prev'[l] = 0 /\ link[0][l] = -1 /\ tall[0] = MaxHeight
        BY <1>t, <1>u, <1>0, <1>3, <2>2 DEF Heights, Levels
    <3> QED BY <1>u, <1>0, <3>1 DEF PrevOK, In, Precedes, Levels, Nodes
  <2> QED BY <2>1, <2>2
<1>4. Writing'
    BY <1>u, <1>0, <1>3 DEF Writing, Nodes
<1> QED BY <1>u, <1>0, <1>1, <1>2, <1>4, ListStays, AnswerStays, ReadingStays DEF MemInv, readerVars

\* The new node's own link is written: it is not in that list yet.
LEMMA PointNodeInv == ASSUME MemInv, PointNode PROVE MemInv'
<1> USE MemTableAssumption DEF KeyOf, Key, HeadNode, Null
<1>t. MemTypeOK /\ ListsAreSorted /\ NoGap /\ Heights /\ Writing
    BY DEF MemInv
<1>u. /\ UNCHANGED <<userOf, tall, count, published, maxHeight, height, wlevel, prev, wx>> /\ UNCHANGED readerVars
      /\ wpc = "point" /\ wpc' = "publish" /\ Complete' = Complete
      /\ link' = [link EXCEPT ![count][wlevel] = link[prev[wlevel]][wlevel]]
    BY DEF PointNode, Complete
<1>0. /\ count \in Nodes /\ wlevel \in Levels /\ wlevel \in Nat /\ tall[count] = wlevel /\ Complete \in Int
      /\ wlevel < height /\ height <= maxHeight
      /\ \A l \in Levels : wlevel <= l /\ l < height => PrevOK(l)
    BY <1>t, <1>u DEF MemTypeOK, ListTypeOK, WriterTypeOK, Writing, Nodes, Complete, Levels
<1>p. PrevOK(wlevel)
    BY <1>0
<1>1. \A x \in 0 .. MaxEntries, l \in Levels : ~(x = count /\ l = wlevel) => link'[x][l] = link[x][l]
    BY <1>t, <1>u, <1>0 DEF MemTypeOK, ListTypeOK
<1>2. \A x \in 0 .. count, l \in Levels : In(x, l) => link'[x][l] = link[x][l]
  <2> SUFFICES ASSUME NEW x \in 0 .. count, NEW l \in Levels, In(x, l)
               PROVE  link'[x][l] = link[x][l]
      OBVIOUS
  <2>1. x \in 0 .. MaxEntries
      BY <1>0 DEF Nodes
  <2>2. ~(x = count /\ l = wlevel)
      BY <1>0 DEF In
  <2> QED BY <1>1, <2>1, <2>2
<1>3. ListsAreSorted'
    BY <1>t, <1>u, <1>2 DEF ListsAreSorted, In, Precedes
<1>4. NoGap'
  <2>1. 0 \in Levels
      BY DEF Levels
  <2> QED BY <1>t, <1>u, <1>2, <2>1 DEF NoGap, In, Precedes
<1>5. MemTypeOK'
  <2>1. link[prev[wlevel]][wlevel] \in Nodes \cup {Null, Garbage}
    <3>1. prev[wlevel] \in 0 .. MaxEntries
        BY <1>t, <1>0 DEF MemTypeOK, WriterTypeOK
    <3> QED BY <1>t, <1>0, <3>1 DEF MemTypeOK, ListTypeOK
  <2>2. link' \in [0 .. MaxEntries -> [Levels -> Nodes \cup {Null, Garbage}]]
      BY <1>t, <1>u, <1>0, <2>1 DEF MemTypeOK, ListTypeOK, Nodes
  <2>3. ListTypeOK'
      BY <1>t, <1>u, <2>2 DEF MemTypeOK, ListTypeOK
  <2>4. WriterTypeOK'
      BY <1>t, <1>u DEF MemTypeOK, WriterTypeOK
  <2>5. ReaderTypeOK'
      BY <1>t, <1>u DEF MemTypeOK, ReaderTypeOK, readerVars
  <2> QED BY <2>3, <2>4, <2>5 DEF MemTypeOK
<1>6. Heights'
  <2>1. \A l \in Levels : link'[0][l] = link[0][l]
      BY <1>0, <1>1 DEF Nodes
  <2> QED BY <1>t, <1>u, <2>1 DEF Heights
<1>7. Writing'
  <2>1. ASSUME NEW l \in Levels, wlevel <= l, l < height PROVE PrevOK(l)' /\ link'[prev[l]][l] = link[prev[l]][l]
    <3>1. PrevOK(l) /\ prev[l] \in 0 .. count
        BY <1>0, <2>1 DEF PrevOK, In
    <3>2. link'[prev[l]][l] = link[prev[l]][l]
        BY <1>2, <3>1 DEF PrevOK
    <3> QED BY <1>u, <3>1, <3>2 DEF PrevOK, In, Precedes
  <2>2. link'[count][wlevel] = link[prev[wlevel]][wlevel]
      BY <1>t, <1>u, <1>0 DEF MemTypeOK, ListTypeOK, Nodes
  <2>3. link'[prev[wlevel]][wlevel] = link[prev[wlevel]][wlevel]
      BY <1>0, <2>1
  <2> QED BY <1>u, <1>0, <2>1, <2>2, <2>3 DEF Writing, Nodes
<1> QED BY <1>u, <1>0, <1>3, <1>4, <1>5, <1>6, <1>7, AnswerStays, ReadingStays DEF MemInv, readerVars

\* The node enters a list: its predecessor leads to it, and it to where the
\* predecessor led.
LEMMA PublishNodeInv == ASSUME MemInv, PublishNode PROVE MemInv'
<1> USE MemTableAssumption DEF KeyOf, Key, HeadNode, Null
<1> DEFINE p == prev[wlevel]
           n == link[p][wlevel]
<1>t. MemTypeOK /\ ListsAreSorted /\ NoGap /\ Heights /\ Writing
    BY DEF MemInv
<1>u. /\ UNCHANGED <<userOf, maxHeight, count, published, prev, height, wx>> /\ UNCHANGED readerVars
      /\ wpc = "publish"
      /\ link' = [link EXCEPT ![p][wlevel] = count]
      /\ tall' = [tall EXCEPT ![count] = wlevel + 1]
      /\ IF wlevel + 1 < height THEN wpc' = "point" /\ wlevel' = wlevel + 1
                                ELSE wpc' = "idle" /\ wlevel' = wlevel
    BY DEF PublishNode
<1>0. /\ count \in Nodes /\ wlevel \in Levels /\ wlevel \in Nat /\ tall[count] = wlevel
      /\ wlevel < height /\ height <= maxHeight /\ height \in Int /\ maxHeight \in 1 .. MaxHeight
      /\ link[count][wlevel] = n
      /\ \A l \in Levels : wlevel <= l /\ l < height => PrevOK(l)
    BY <1>t, <1>u DEF MemTypeOK, ListTypeOK, WriterTypeOK, Writing, Nodes, Levels
<1>p. p \in 0 .. MaxEntries /\ p # count /\ In(p, wlevel) /\ Precedes(p, KeyOf(count))
      /\ (n # Null => Less(KeyOf(count), KeyOf(n)))
    BY <1>0 DEF PrevOK, In, Nodes
<1>n. n = Null \/ (n \in Nodes /\ n # count /\ n # p /\ In(n, wlevel))
  <2>1. n \in Nodes \cup {Null, Garbage}
      BY <1>0, <1>p, <1>t DEF MemTypeOK, ListTypeOK
  <2>2. n = Null \/ (n # 0 /\ In(n, wlevel) /\ (p = 0 \/ Less(KeyOf(p), KeyOf(n))))
      BY <1>0, <1>p, <1>t DEF ListsAreSorted, Precedes, In
  <2>3. n = Null \/ n \in Nodes
      BY <1>0, <2>1, <2>2 DEF In, Nodes
  <2>4. n # Null => userOf[n] \in Int /\ n \in Int
      BY <1>t, <2>3 DEF MemTypeOK, ListTypeOK, Nodes
  <2> QED BY <1>0, <2>2, <2>3, <2>4 DEF In, Less
<1>k. \A m \in Nodes : userOf[m] \in Int /\ m \in Int
    BY <1>t DEF MemTypeOK, ListTypeOK, Nodes
<1>1. \A x \in 0 .. MaxEntries, l \in Levels :
          link'[x][l] = IF x = p /\ l = wlevel THEN count ELSE link[x][l]
    BY <1>t, <1>u, <1>0, <1>p DEF MemTypeOK, ListTypeOK
<1>h. \A x \in 0 .. MaxEntries : tall'[x] = IF x = count THEN wlevel + 1 ELSE tall[x]
    BY <1>t, <1>u, <1>0 DEF MemTypeOK, ListTypeOK
<1> DEFINE InNow(x, l) == x \in 0 .. count /\ l < tall'[x]
<1>2. \A x \in Int, l \in Levels : InNow(x, l) <=> In(x, l) \/ (x = count /\ l = wlevel)
    BY <1>0, <1>h DEF In, Nodes, Levels
<1>c. Complete \in Int /\ Complete' \in Int /\ Complete' >= Complete
    BY <1>t, <1>u, <1>0 DEF Complete, Nodes
<1> HIDE DEF p, n, InNow
<1>3. ListsAreSorted'
  <2> SUFFICES ASSUME NEW x \in 0 .. count, NEW l \in Levels, InNow(x, l)
               PROVE  \/ link'[x][l] = Null
                      \/ /\ link'[x][l] # HeadNode /\ InNow(link'[x][l], l)
                         /\ (x = HeadNode \/ Less(KeyOf(x), KeyOf(link'[x][l])))
      BY <1>u DEF ListsAreSorted, Precedes, In, InNow
  <2>0. x \in 0 .. MaxEntries /\ (x # 0 => x \in Nodes)
      BY <1>0 DEF Nodes
  <2>1. CASE x = count /\ l = wlevel
    <3>1. link'[x][l] = n
        BY <1>0, <1>1, <1>p, <2>0, <2>1
    <3>2. n # Null => InNow(n, l)
        BY <1>2, <1>n, <2>1 DEF Nodes
    <3> QED BY <1>n, <1>p, <2>1, <3>1, <3>2 DEF Nodes
  <2>2. CASE x = p /\ l = wlevel
    <3>1. link'[x][l] = count
        BY <1>1, <2>0, <2>2
    <3>2. InNow(count, l)
        BY <1>0, <1>2, <2>2 DEF Nodes
    <3> QED BY <1>0, <1>p, <2>2, <3>1, <3>2 DEF Precedes, Nodes
  <2>3. CASE ~(l = wlevel /\ (x = count \/ x = p))
    <3>1. link'[x][l] = link[x][l] /\ In(x, l)
        BY <1>1, <1>2, <2>0, <2>3
    <3>2. link[x][l] = Null \/ (link[x][l] # 0 /\ In(link[x][l], l) /\ (x = 0 \/ Less(KeyOf(x), KeyOf(link[x][l]))))
        BY <1>t, <3>1 DEF ListsAreSorted, Precedes
    <3>3. In(link[x][l], l) => link[x][l] \in Int
        BY DEF In
    <3> QED BY <1>2, <3>1, <3>2, <3>3
  <2> QED BY <2>1, <2>2, <2>3
<1>4. NoGap'
  <2> SUFFICES ASSUME NEW x \in 0 .. count, NEW m \in 1 .. count,
                      InNow(x, 0), InNow(m, 0), x = HeadNode \/ Less(KeyOf(x), KeyOf(m))
               PROVE  link'[x][0] # Null /\ ~Less(KeyOf(m), KeyOf(link'[x][0]))
      BY <1>u DEF NoGap, Precedes, In, InNow
  <2>0. 0 \in Levels /\ x \in 0 .. MaxEntries /\ m \in Nodes /\ (x # 0 => x \in Nodes)
      BY <1>0 DEF Levels, Nodes
  <2>g. ASSUME NEW y \in 0 .. count, NEW o \in 1 .. count, In(y, 0), In(o, 0),
               y = 0 \/ Less(KeyOf(y), KeyOf(o))
        PROVE  /\ link[y][0] # Null /\ ~Less(KeyOf(o), KeyOf(link[y][0]))
               /\ link[y][0] \in Nodes /\ userOf[link[y][0]] \in Int /\ link[y][0] \in Int
    <3>1. link[y][0] # Null /\ ~Less(KeyOf(o), KeyOf(link[y][0]))
        BY <1>t, <2>g DEF NoGap, Precedes
    <3>2. link[y][0] # 0 /\ In(link[y][0], 0)
        BY <1>t, <2>0, <2>g, <3>1 DEF ListsAreSorted
    <3>3. link[y][0] \in Nodes
        BY <1>0, <3>2 DEF In, Nodes
    <3> QED BY <1>k, <3>1, <3>3
  <2>1. CASE wlevel # 0
    <3>1. link'[x][0] = link[x][0] /\ In(x, 0) /\ In(m, 0)
        BY <1>1, <1>2, <2>0, <2>1
    <3> QED BY <2>g, <3>1
  <2>2. CASE wlevel = 0
    <3>0. In(p, 0) /\ p \in 0 .. count /\ (p # 0 => p \in Nodes)
        BY <1>0, <1>p, <2>2 DEF In, Nodes
    <3>k. /\ userOf[count] \in Int /\ count \in Int /\ userOf[m] \in Int /\ m \in Int
          /\ (x # 0 => userOf[x] \in Int /\ x \in Int) /\ (p # 0 => userOf[p] \in Int /\ p \in Int)
          /\ (n # Null => userOf[n] \in Int /\ n \in Int)
        BY <1>0, <1>k, <1>n, <2>0, <3>0
    <3>1. CASE x = count
      <4>1. link'[x][0] = n
          BY <1>0, <1>1, <1>p, <2>0, <2>2, <3>1
      <4>2. m # count /\ In(m, 0) /\ Less(KeyOf(count), KeyOf(m))
          BY <1>0, <1>2, <2>0, <3>1, <3>k DEF Nodes, Less
      <4>3. p = 0 \/ Less(KeyOf(p), KeyOf(m))
          BY <1>p, <3>k, <4>2 DEF Precedes, Less
      <4> QED BY <2>2, <2>g, <3>0, <4>1, <4>2, <4>3 DEF n
    <3>2. CASE x # count /\ x = p
      <4>1. link'[x][0] = count
          BY <1>1, <2>0, <2>2, <3>2
      <4>2. m # count => n # Null /\ ~Less(KeyOf(m), KeyOf(n))
          BY <1>2, <2>0, <2>2, <2>g, <3>0, <3>2 DEF n
      <4>3. ~Less(KeyOf(m), KeyOf(count))
          BY <1>p, <3>k, <4>2 DEF Less
      <4> QED BY <1>0, <4>1, <4>3 DEF Nodes
    <3>3. CASE x # count /\ x # p
      <4>1. link'[x][0] = link[x][0] /\ In(x, 0)
          BY <1>1, <1>2, <2>0, <3>3
      <4>2. CASE m # count
        <5>1. In(m, 0)
            BY <1>2, <2>0, <4>2
        <5> QED BY <2>g, <4>1, <5>1
      <4>3. CASE m = count
        <5>1. CASE p # 0 /\ (x = 0 \/ Less(KeyOf(x), KeyOf(p)))
          <6>1. /\ link[x][0] # Null /\ ~Less(KeyOf(p), KeyOf(link[x][0]))
                /\ userOf[link[x][0]] \in Int /\ link[x][0] \in Int
              BY <2>g, <3>0, <4>1, <5>1
          <6> QED BY <1>p, <3>k, <4>1, <4>3, <5>1, <6>1 DEF Precedes, Less
        <5>2. CASE p = 0 \/ (x # 0 /\ ~Less(KeyOf(x), KeyOf(p)))
          <6>1. x # 0 /\ x \in 1 .. count /\ (p = 0 \/ Less(KeyOf(p), KeyOf(x)))
              BY <3>3, <3>k, <5>2 DEF Less
          <6>2. n # Null /\ ~Less(KeyOf(x), KeyOf(n))
              BY <2>2, <2>g, <3>0, <4>1, <6>1 DEF n
          <6>3. Less(KeyOf(x), KeyOf(count)) /\ Less(KeyOf(count), KeyOf(n))
              BY <1>p, <4>3, <6>1, <6>2
          <6> QED BY <3>k, <6>1, <6>2, <6>3 DEF Less
        <5> QED BY <5>1, <5>2
      <4> QED BY <4>2, <4>3
    <3> QED BY <3>1, <3>2, <3>3
  <2> QED BY <2>1, <2>2
<1>5. MemTypeOK'
  <2>1. ListTypeOK'
    <3>1. link' \in [0 .. MaxEntries -> [Levels -> Nodes \cup {Null, Garbage}]]
        BY <1>t, <1>u, <1>0, <1>p DEF MemTypeOK, ListTypeOK
    <3>2. tall' \in [0 .. MaxEntries -> 0 .. MaxHeight]
        BY <1>t, <1>u, <1>0 DEF MemTypeOK, ListTypeOK
    <3> QED BY <1>t, <1>u, <3>1, <3>2 DEF MemTypeOK, ListTypeOK
  <2>2. WriterTypeOK'
      BY <1>t, <1>u, <1>0 DEF MemTypeOK, WriterTypeOK, Levels
  <2>3. ReaderTypeOK'
      BY <1>t, <1>u DEF MemTypeOK, ReaderTypeOK, readerVars
  <2> QED BY <2>1, <2>2, <2>3 DEF MemTypeOK
<1>6. Heights'
  <2>1. tall'[0] = MaxHeight
      BY <1>t, <1>0, <1>h DEF Heights, Nodes
  <2>2. ASSUME NEW x \in 1 .. count PROVE tall'[x] <= maxHeight /\ (x < count \/ wpc' = "idle" => tall'[x] > 0)
      BY <1>t, <1>0, <1>h DEF Heights, Nodes
  <2>3. \A x \in Nodes : x > count => tall'[x] = 0
      BY <1>t, <1>0, <1>h DEF Heights, Nodes
  <2>4. \A l \in Levels : l >= maxHeight => link'[0][l] = -1
      BY <1>t, <1>0, <1>1 DEF Heights, Levels
  <2> QED BY <1>u, <2>1, <2>2, <2>3, <2>4 DEF Heights
<1>7. Writing'
  <2>1. CASE wlevel + 1 < height
    <3>0. wpc' = "point" /\ wlevel' = wlevel + 1 /\ tall'[count] = wlevel + 1
        BY <1>u, <1>0, <1>h, <2>1 DEF Nodes
    <3>1. ASSUME NEW l \in Levels, wlevel + 1 <= l, l < height PROVE PrevOK(l)'
      <4>1. PrevOK(l) /\ l # wlevel
          BY <1>0, <3>1 DEF Levels
      <4>2. prev[l] \in 0 .. MaxEntries /\ prev[l] \in Int
          BY <1>0, <4>1 DEF PrevOK, In, Nodes
      <4>3. link'[prev[l]][l] = link[prev[l]][l] /\ InNow(prev[l], l)
          BY <1>1, <1>2, <4>1, <4>2 DEF PrevOK
      <4> QED BY <1>u, <4>1, <4>3 DEF PrevOK, In, InNow, Precedes, Less
    <3> QED BY <1>u, <1>0, <2>1, <3>0, <3>1 DEF Writing, Nodes
  <2>2. CASE ~(wlevel + 1 < height)
      BY <1>u, <1>0, <2>2 DEF Writing
  <2> QED BY <2>1, <2>2
<1>m. \A x \in Int, l \in Levels : In(x, l) => InNow(x, l)
    BY <1>2
<1>8. Reading'
  <2>1. Reading /\ rlevel \in Levels /\ answer.had \in Int /\ published \in Int
      BY <1>t DEF MemInv, MemTypeOK, ReaderTypeOK, ListTypeOK
  <2>2. (rpc # "idle" => InNow(rx, rlevel)) /\ (pos # Null => InNow(pos, 0))
      BY <1>m, <2>1 DEF Reading, In, Levels
  <2> QED BY <1>c, <1>u, <2>1, <2>2 DEF Reading, In, InNow, Precedes, Less, readerVars
<1>9. AnswersMissNothing'
  <2>1. AnswersMissNothing
      BY DEF MemInv
  <2>2. answer.node # Null => InNow(answer.node, 0)
      BY <1>m, <2>1 DEF AnswersMissNothing, In, Levels
  <2> QED BY <1>u, <2>1, <2>2 DEF AnswersMissNothing, LeftOut, In, InNow, Less, readerVars
<1> QED BY <1>3, <1>4, <1>5, <1>6, <1>7, <1>8, <1>9 DEF MemInv

\* Readers may ask for what is complete.
LEMMA SetLastSequenceInv == ASSUME MemInv, SetLastSequence PROVE MemInv'
<1>u. /\ UNCHANGED listVars /\ UNCHANGED readerVars /\ published' = count /\ wpc = "idle"
      /\ UNCHANGED <<count, wpc, prev, height, wx, wlevel>> /\ Complete' = Complete
    BY DEF SetLastSequence, Complete
<1>1. MemTypeOK'
  <2>1. count \in 0 .. MaxEntries
      BY DEF MemInv, MemTypeOK, ListTypeOK
  <2>2. ListTypeOK'
      BY <1>u, <2>1, MemTableAssumption DEF MemInv, MemTypeOK, ListTypeOK, listVars
  <2>3. WriterTypeOK'
      BY <1>u DEF MemInv, MemTypeOK, WriterTypeOK
  <2>4. ReaderTypeOK'
      BY <1>u DEF MemInv, MemTypeOK, ReaderTypeOK, readerVars
  <2> QED BY <2>2, <2>3, <2>4 DEF MemTypeOK
<1>2. Heights' /\ Writing'
    BY <1>u DEF MemInv, Heights, Writing, PrevOK, In, Precedes, KeyOf, Key, listVars
<1>3. Reading'
  <2>1. count \in Int /\ Complete = count
      BY <1>u, MemTableAssumption DEF MemInv, MemTypeOK, ListTypeOK, Complete
  <2> QED BY <1>u, <2>1 DEF MemInv, Reading, In, Precedes, KeyOf, Key, Less, listVars, readerVars
<1> QED BY <1>u, <1>1, <1>2, <1>3, ListStays, AnswerStays DEF MemInv, listVars, readerVars

-----------------------------------------------------------------------------
\* The reader's actions.

\* They leave the list and the writer alone.
LEMMA ReaderSteps ==
    ASSUME MemInv, Unwritten, ReaderTypeOK', Reading', AnswersMissNothing'
    PROVE  MemInv'
<1>1. MemTypeOK'
    BY DEF MemInv, MemTypeOK, ListTypeOK, WriterTypeOK, Unwritten, listVars, writerVars
<1>2. Heights' /\ Writing'
    BY DEF MemInv, Heights, Writing, PrevOK, In, Precedes, KeyOf, Key, Unwritten, listVars, writerVars
<1> QED BY <1>1, <1>2, ListStays DEF MemInv, Unwritten, listVars, writerVars

\* Where a reader knows that node x comes before the node m, the node behind x is
\* not behind m: nothing is passed over.
LEMMA NothingBetween ==
    ASSUME MemInv, NEW x \in 0 .. count, NEW m \in 1 .. Complete,
           In(x, 0), x = HeadNode \/ Less(KeyOf(x), KeyOf(m))
    PROVE  link[x][0] # Null /\ ~Less(KeyOf(m), KeyOf(link[x][0]))
<1>0. count \in Nat /\ tall \in [0 .. MaxEntries -> 0 .. MaxHeight]
    BY MemTableAssumption DEF MemInv, MemTypeOK, ListTypeOK
<1>1. m \in 1 .. count /\ (m < count \/ wpc = "idle")
    BY <1>0 DEF Complete
<1>2. In(m, 0)
    BY <1>0, <1>1 DEF MemInv, Heights, In
<1> QED BY <1>1, <1>2 DEF MemInv, NoGap, Precedes

\* A link of the lowest list leads to one of its nodes.
LEMMA LinksLeadForward ==
    ASSUME MemInv, NEW l \in Levels, NEW x \in 0 .. count, In(x, l)
    PROVE  LET n == link[x][l]
           IN  n = Null \/ (n \in Nodes /\ In(n, l) /\ (x = HeadNode \/ Less(KeyOf(x), KeyOf(n))))
<1>1. count \in 0 .. MaxEntries
    BY DEF MemInv, MemTypeOK, ListTypeOK
<1> QED BY <1>1, MemTableAssumption DEF MemInv, ListsAreSorted, Precedes, In, Nodes, HeadNode, Null

\* A search begins at the head.
LEMMA BeginInv ==
    ASSUME MemInv, NEW kind \in {"ge", "lt", "last"}, NEW h \in 1 .. maxHeight,
           NEW key \in [user : Int, seq : Nat], Begin(kind, h, key),
           kind = "ge" => key.seq <= Complete
    PROVE  MemInv'
<1> USE MemTableAssumption
<1>0. /\ Unwritten /\ pos' = pos /\ rpc' = kind /\ rx' = HeadNode /\ rlevel' = h - 1 /\ goal' = key
      /\ answer' = [NoAnswer EXCEPT !.had = Complete] /\ Complete' = Complete
      /\ UNCHANGED <<count, published, tall, userOf>>
    BY DEF Begin, Unwritten, writerVars, listVars, Complete
<1>1. /\ maxHeight \in 1 .. MaxHeight /\ count \in Nat /\ count <= MaxEntries
      /\ Complete \in 0 .. MaxEntries /\ Complete <= count
    BY DEF MemInv, MemTypeOK, ListTypeOK, Complete, Writing
<1>2. ReaderTypeOK'
  <2>1. answer' \in [kind : {"none", "ge", "lt", "last", "next", "first"}, key : [user : Int, seq : Nat],
                     node : Nodes \cup {Null}, had : 0 .. MaxEntries]
      BY <1>0, <1>1 DEF NoAnswer, NoKey, Key
  <2> QED BY <1>0, <1>1, <2>1 DEF MemInv, MemTypeOK, ReaderTypeOK, Levels, HeadNode
<1>3. Reading'
  <2>1. In(rx, rlevel)' /\ Precedes(rx, goal)'
      BY <1>0, <1>1 DEF MemInv, Heights, In, Precedes, HeadNode
  <2>2. answer'.kind = "none" /\ answer'.node = Null /\ answer'.had = Complete
      BY <1>0 DEF NoAnswer
  <2>3. published <= Complete /\ (pos # Null => In(pos, 0)')
      BY <1>0 DEF MemInv, Reading, In
  <2> QED BY <1>0, <1>1, <2>1, <2>2, <2>3 DEF Reading
<1>4. AnswersMissNothing'
    BY <1>0 DEF AnswersMissNothing, LeftOut, NoAnswer
<1> QED BY <1>0, <1>2, <1>3, <1>4, ReaderSteps

\* A search goes on, goes down a level, or ends with its answer.
LEMMA FindStepInv == ASSUME MemInv, FindStep PROVE MemInv'
<1> USE MemTableAssumption DEF KeyOf, Key, HeadNode, Null
<1> DEFINE n == link[rx][rlevel]
           ends == IF rpc = "ge" THEN n ELSE IF rx = 0 THEN Null ELSE rx
<1>0. /\ Unwritten /\ goal' = goal /\ rpc # "idle" /\ Complete' = Complete
      /\ UNCHANGED <<count, published, tall, userOf>>
    BY DEF FindStep, Unwritten, writerVars, listVars, Complete
<1>t. ReaderTypeOK /\ Reading /\ AnswersMissNothing /\ count \in Nat /\ count <= MaxEntries
      /\ tall \in [0 .. MaxEntries -> 0 .. MaxHeight] /\ Complete \in Int /\ Complete <= count
    BY DEF MemInv, MemTypeOK, ListTypeOK, Complete
<1>1. /\ rx \in 0 .. count /\ rlevel \in Levels /\ rlevel \in Nat /\ In(rx, rlevel)
      /\ (rpc # "last" => rx = 0 \/ Less(KeyOf(rx), goal))
      /\ answer.kind = "none" /\ answer.node = Null /\ rpc \in {"ge", "lt", "last"}
      /\ (rpc = "ge" => goal.seq <= answer.had) /\ answer.had <= Complete /\ answer.had \in Nat
      /\ goal \in [user : Int, seq : Nat]
    BY <1>0, <1>t DEF Reading, ReaderTypeOK, In, Levels, Precedes
<1>2. n = Null \/ (n \in Nodes /\ In(n, rlevel) /\ (rx = 0 \/ Less(KeyOf(rx), KeyOf(n))))
    BY <1>1, LinksLeadForward
<1>k. \A m \in Nodes : userOf[m] \in Int /\ m \in Int
    BY DEF MemInv, MemTypeOK, ListTypeOK, Nodes
<1>3. CASE GoesOn(rpc, goal, n)
  <2>1. rx' = n /\ UNCHANGED <<rlevel, rpc, pos, answer>> /\ n \in Nodes /\ In(n, rlevel)
        /\ (rpc # "last" => Less(KeyOf(n), goal))
      BY <1>2, <1>3 DEF FindStep, GoesOn, KeyIsAfterNode
  <2>2. ReaderTypeOK'
    <3>1. rx' \in 0 .. MaxEntries
        BY <2>1 DEF Nodes
    <3> QED BY <1>0, <1>t, <2>1, <3>1 DEF ReaderTypeOK
  <2>3. Reading'
      BY <1>0, <1>1, <1>t, <2>1 DEF Reading, In, Precedes
  <2>4. AnswersMissNothing'
      BY <1>0, <2>1, AnswerStays
  <2> QED BY <1>0, <2>2, <2>3, <2>4, ReaderSteps
<1>4. CASE ~GoesOn(rpc, goal, n) /\ rlevel > 0
  <2>1. rlevel' = rlevel - 1 /\ UNCHANGED <<rx, rpc, pos, answer>>
      BY <1>4 DEF FindStep
  <2>2. ReaderTypeOK'
      BY <1>0, <1>1, <1>4, <1>t, <2>1 DEF ReaderTypeOK, Levels
  <2>3. In(rx, rlevel)'
      BY <1>0, <1>1, <1>t, <2>1 DEF In
  <2>4. Reading'
      BY <1>0, <1>1, <1>t, <2>1, <2>3 DEF Reading, In, Precedes
  <2>5. AnswersMissNothing'
      BY <1>0, <2>1, AnswerStays
  <2> QED BY <1>0, <2>2, <2>4, <2>5, ReaderSteps
<1>5. CASE ~GoesOn(rpc, goal, n) /\ rlevel = 0
  <2>1. /\ rpc' = "idle" /\ pos' = ends /\ UNCHANGED <<rx, rlevel>>
        /\ answer' = [kind |-> rpc, key |-> goal, node |-> ends, had |-> answer.had]
      BY <1>5 DEF FindStep, Found
  <2>2. ends = Null \/ (ends \in Nodes /\ In(ends, 0))
      BY <1>1, <1>2, <1>5, <1>t DEF In, Nodes
  <2>3. ReaderTypeOK'
    <3>1. answer' \in [kind : {"none", "ge", "lt", "last", "next", "first"}, key : [user : Int, seq : Nat],
                       node : Nodes \cup {Null}, had : 0 .. MaxEntries]
        BY <1>1, <1>t, <2>1, <2>2
    <3> QED BY <1>0, <1>t, <2>1, <2>2, <3>1 DEF ReaderTypeOK
  <2>4. Reading'
    <3>1. pos' # Null => pos' \in 0 .. count /\ 0 < tall[pos']
        BY <2>1, <2>2 DEF In
    <3>2. answer'.had = answer.had /\ answer'.kind = rpc /\ answer'.key = goal
        BY <2>1
    <3> QED BY <1>0, <1>1, <1>t, <2>1, <3>1, <3>2 DEF Reading, In
  <2>5. ASSUME NEW m \in 1 .. answer.had
        PROVE  LET k == KeyOf(m)
               IN  /\ ~(rpc = "ge" /\ ~Less(k, goal) /\ (ends = Null \/ Less(k, KeyOf(ends))))
                   /\ ~(rpc = "lt" /\ Less(k, goal) /\ (ends = Null \/ Less(KeyOf(ends), k)))
                   /\ ~(rpc = "last" /\ (ends = Null \/ Less(KeyOf(ends), k)))
    <3>1. m \in 1 .. Complete /\ m \in Nodes
        BY <1>1, <1>t DEF Nodes
    <3>2. (rx = 0 \/ Less(KeyOf(rx), KeyOf(m))) => n # Null /\ ~Less(KeyOf(m), KeyOf(n))
        BY <1>1, <1>5, <3>1, NothingBetween
    <3>3. rx # 0 => rx \in Nodes
        BY <1>1, <1>t DEF Nodes
    <3>4. /\ userOf[m] \in Int /\ m \in Int /\ (rx # 0 => userOf[rx] \in Int /\ rx \in Int)
          /\ (n # Null => userOf[n] \in Int /\ n \in Int) /\ goal.user \in Int /\ goal.seq \in Int
      <4>1. goal.user \in Int /\ goal.seq \in Int
          BY <1>1
      <4>2. n # Null => n \in Nodes
          BY <1>2
      <4> HIDE DEF n
      <4> QED BY <1>k, <3>1, <3>3, <4>1, <4>2
    <3>5. n # Null => (rpc # "last" /\ ~Less(KeyOf(n), goal))
        BY <1>5 DEF GoesOn, KeyIsAfterNode
    <3>6. CASE rpc = "ge"
        BY <1>1, <3>2, <3>4, <3>6 DEF Less
    <3>7. CASE rpc = "lt"
        BY <1>1, <3>2, <3>3, <3>4, <3>5, <3>7 DEF Less, Nodes
    <3>8. CASE rpc = "last"
        BY <1>1, <3>2, <3>3, <3>4, <3>5, <3>8 DEF Less, Nodes
    <3> QED BY <1>1, <3>6, <3>7, <3>8
  <2>6. AnswersMissNothing'
    <3>1. /\ ends # Null => ends \in 0 .. count /\ 0 < tall[ends]
          /\ ends # Null /\ rpc = "ge" => ~Less(KeyOf(ends), goal)
          /\ ends # Null /\ rpc = "lt" => Less(KeyOf(ends), goal)
        BY <1>1, <1>5, <2>2 DEF In, GoesOn, KeyIsAfterNode
    <3>2. answer'.had = answer.had /\ answer'.kind = rpc /\ answer'.key = goal /\ answer'.node = ends
        BY <2>1
    <3>3. ASSUME NEW m \in 1 .. answer.had PROVE ~LeftOut(answer, m)'
        BY <1>0, <1>1, <2>5, <3>2 DEF LeftOut, Less
    <3> HIDE DEF ends
    <3> QED BY <1>0, <1>1, <3>1, <3>2, <3>3 DEF AnswersMissNothing, In, Less
  <2> QED BY <1>0, <2>3, <2>4, <2>6, ReaderSteps
<1> QED BY <1>1, <1>3, <1>4, <1>5 DEF Levels

\* Next and SeekToFirst answer with the node behind x.
LEMMA Next0Inv ==
    ASSUME MemInv, NEW kind, NEW x \in 0 .. count, NEW key \in [user : Int, seq : Nat],
           Next0(kind, x, key), In(x, 0),
           (kind = "next" /\ x # HeadNode /\ key = KeyOf(x)) \/ (kind = "first" /\ x = HeadNode)
    PROVE  MemInv'
<1> USE MemTableAssumption DEF KeyOf, Key, HeadNode, Null
<1> DEFINE n == link[x][0]
<1>0. /\ Unwritten /\ pos' = n /\ UNCHANGED <<rpc, rx, rlevel, goal>> /\ rpc = "idle"
      /\ answer' = [kind |-> kind, key |-> key, node |-> n, had |-> Complete]
      /\ UNCHANGED <<count, published, tall, userOf>> /\ Complete' = Complete
    BY DEF Next0, Unwritten, listVars, writerVars, Complete
<1>t. /\ ReaderTypeOK /\ Reading /\ count \in Nat /\ count <= MaxEntries
      /\ Complete \in 0 .. MaxEntries /\ Complete <= count /\ published <= Complete
    BY DEF MemInv, MemTypeOK, ListTypeOK, Complete, Writing, Reading
<1>1. n = Null \/ (n \in Nodes /\ In(n, 0) /\ (x = 0 \/ Less(KeyOf(x), KeyOf(n))))
    BY LinksLeadForward DEF Levels
<1>k. \A m \in Nodes : userOf[m] \in Int /\ m \in Int
    BY DEF MemInv, MemTypeOK, ListTypeOK, Nodes
<1>2. ReaderTypeOK'
  <2>1. answer' \in [kind : {"none", "ge", "lt", "last", "next", "first"}, key : [user : Int, seq : Nat],
                     node : Nodes \cup {Null}, had : 0 .. MaxEntries]
      BY <1>0, <1>1, <1>t
  <2> QED BY <1>0, <1>1, <1>t, <2>1 DEF ReaderTypeOK
<1>a. answer'.kind = kind /\ answer'.key = key /\ answer'.node = n /\ answer'.had = Complete
    BY <1>0
<1>n. n # Null => n \in 0 .. count /\ 0 < tall[n]
    BY <1>1 DEF In
<1>3. Reading'
    BY <1>0, <1>a, <1>n, <1>t DEF Reading, In
<1>4. AnswersMissNothing'
  <2>1. ASSUME NEW m \in 1 .. Complete PROVE ~LeftOut(answer, m)'
    <3>1. (x = 0 \/ Less(KeyOf(x), KeyOf(m))) => n # Null /\ ~Less(KeyOf(m), KeyOf(n))
        BY NothingBetween
    <3> HIDE DEF n
    <3> QED BY <1>0, <1>a, <3>1 DEF LeftOut, Less
  <2> HIDE DEF n
  <2> QED BY <1>0, <1>1, <1>a, <1>n, <2>1 DEF AnswersMissNothing, In, Less
<1> QED BY <1>0, <1>2, <1>3, <1>4, ReaderSteps

-----------------------------------------------------------------------------
\* Every step of the writer and of the reader keeps the invariant.
LEMMA NextInv == ASSUME MemInv, [MemNext]_memVars PROVE MemInv'
<1> USE MemTableAssumption
<1>t. /\ MemTypeOK /\ Reading /\ count \in Nat /\ count <= MaxEntries /\ published \in Nat
      /\ tall[HeadNode] = MaxHeight /\ published <= Complete /\ Complete \in Int
      /\ (pos # Null => In(pos, 0) /\ pos \in Nodes)
    BY DEF MemInv, MemTypeOK, ListTypeOK, ReaderTypeOK, Reading, Heights, Complete
<1>1. ASSUME NEW user \in Users, Add(user) PROVE MemInv'
    BY <1>1, AddInv
<1>2. CASE FindPrev
    BY <1>2, FindPrevInv
<1>3. ASSUME NEW h \in 1 .. MaxHeight, NewNode(h) PROVE MemInv'
    BY <1>3, NewNodeInv
<1>4. CASE PointNode
    BY <1>4, PointNodeInv
<1>5. CASE PublishNode
    BY <1>5, PublishNodeInv
<1>6. CASE SetLastSequence
    BY <1>6, SetLastSequenceInv
<1>7. ASSUME NEW h \in 1 .. maxHeight, NEW user \in Users, NEW snapshot \in 0 .. published, Seek(h, user, snapshot)
      PROVE  MemInv'
  <2>1. Key(user, snapshot) \in [user : Int, seq : Nat] /\ Key(user, snapshot).seq <= Complete
      BY <1>t DEF Key
  <2> QED BY <1>7, <2>1, BeginInv DEF Seek
<1>8. ASSUME NEW h \in 1 .. maxHeight, Prev(h) PROVE MemInv'
  <2>1. KeyOf(pos) \in [user : Int, seq : Nat]
      BY <1>8, <1>t, KeysAreKeys DEF Prev
  <2> QED BY <1>8, <2>1, BeginInv DEF Prev
<1>9. ASSUME NEW h \in 1 .. maxHeight, SeekToLast(h) PROVE MemInv'
  <2>1. NoKey \in [user : Int, seq : Nat]
      BY DEF NoKey, Key
  <2> QED BY <1>9, <2>1, BeginInv DEF SeekToLast
<1>10. CASE FindStep
    BY <1>10, FindStepInv
<1>11. CASE IterNext0
  <2>1. KeyOf(pos) \in [user : Int, seq : Nat] /\ pos \in 0 .. count /\ pos # HeadNode /\ In(pos, 0)
      BY <1>11, <1>t, KeysAreKeys DEF IterNext0, In, Nodes, HeadNode
  <2> QED BY <1>11, <2>1, Next0Inv DEF IterNext0
<1>12. CASE SeekToFirst0
  <2>1. NoKey \in [user : Int, seq : Nat] /\ HeadNode \in 0 .. count /\ In(HeadNode, 0)
      BY <1>t DEF NoKey, Key, In, HeadNode
  <2> QED BY <1>12, <2>1, Next0Inv DEF SeekToFirst0
<1>13. CASE UNCHANGED memVars
  <2>1. ReaderTypeOK' /\ Reading' /\ AnswersMissNothing'
      BY <1>13 DEF MemInv, MemTypeOK, ReaderTypeOK, Reading, AnswersMissNothing, LeftOut, In, Precedes,
                   Complete, KeyOf, Key, Less, memVars
  <2> QED BY <1>13, <2>1, ReaderSteps DEF Unwritten, listVars, writerVars, memVars
<1> QED BY <1>1, <1>2, <1>3, <1>4, <1>5, <1>6, <1>7, <1>8, <1>9, <1>10, <1>11, <1>12, <1>13 DEF MemNext

\* A search that misses nothing finds the entry that Get is to return.
LEMMA GetFollows == ASSUME MemInv PROVE GetIsExact
<1> USE MemTableAssumption DEF KeyOf, Key, Null
<1> SUFFICES ASSUME answer.kind = "ge"
             PROVE  LET mine == {n \in 1 .. answer.key.seq : userOf[n] = answer.key.user}
                        got == Get(answer.node, answer.key)
                    IN  IF mine = {} THEN got = Null ELSE got \in mine /\ \A n \in mine : n <= got
    BY DEF GetIsExact
<1> DEFINE mine == {n \in 1 .. answer.key.seq : userOf[n] = answer.key.user}
           node == answer.node
           key == answer.key
<1>0. /\ key \in [user : Int, seq : Nat] /\ node \in Nodes \cup {-1} /\ answer.had \in 0 .. MaxEntries
      /\ key.seq <= answer.had
      /\ \A m \in Nodes : userOf[m] \in Int /\ m \in Int /\ m > 0
    BY DEF MemInv, MemTypeOK, ListTypeOK, ReaderTypeOK, Reading, Nodes
<1>1. /\ node # -1 => ~Less(KeyOf(node), key)
      /\ \A n \in 1 .. answer.had : Less(KeyOf(n), key) \/ (node # -1 /\ ~Less(KeyOf(n), KeyOf(node)))
    BY DEF MemInv, AnswersMissNothing, LeftOut
<1>2. ASSUME node # -1, userOf[node] = key.user PROVE node \in mine
    BY <1>0, <1>1, <1>2 DEF Less
<1>3. ASSUME NEW n \in mine PROVE node # -1 /\ userOf[node] = key.user /\ n <= node
  <2>1. n \in 1 .. answer.had /\ n \in Nodes /\ userOf[n] = key.user /\ n <= key.seq
      BY <1>0 DEF Nodes
  <2>2. node # -1 /\ ~Less(KeyOf(n), KeyOf(node))
      BY <1>0, <1>1, <2>1 DEF Less
  <2>3. userOf[node] \in Int /\ node \in Int /\ userOf[n] \in Int /\ n \in Int /\ key.user \in Int /\ key.seq \in Int
    <3>1. key.user \in Int /\ key.seq \in Int /\ node \in Nodes
        BY <1>0, <2>2
    <3> HIDE DEF node, key
    <3> QED BY <1>0, <2>1, <3>1
  <2>4. ~Less(KeyOf(node), key)
      BY <1>1, <2>2
  <2> HIDE DEF node, key
  <2> QED BY <2>1, <2>2, <2>3, <2>4 DEF Less
<1>4. CASE mine = {}
    BY <1>2, <1>4 DEF Get
<1>5. CASE mine # {}
  <2>1. node # -1 /\ userOf[node] = key.user
      BY <1>3, <1>5
  <2>2. Get(node, key) = node
      BY <2>1 DEF Get
  <2> QED BY <1>2, <1>3, <1>5, <2>1, <2>2
<1> QED BY <1>4, <1>5

\* Whatever the number of entries and levels: readers without a lock miss nothing, and
\* Get returns the newest entry its snapshot allows (SkipList, MemTable::Get).
THEOREM MemTableReads == MemSpec => []ReadsAreExact
<1>1. MemInit => MemInv
    BY InitInv
<1>2. MemInv /\ [MemNext]_memVars => MemInv'
    BY NextInv
<1>3. MemInv => ReadsAreExact
    BY GetFollows DEF MemInv, ReadsAreExact
<1> QED BY <1>1, <1>2, <1>3, PTL DEF MemSpec

-----------------------------------------------------------------------------
(* The arena. *)

\* The padding of AllocateAligned leads to a multiple of the alignment.
LEMMA PaddedIsAligned ==
    ASSUME NEW x \in Nat, NEW a \in Nat \ {0}, x % a # 0
    PROVE  (x + (a - (x % a))) % a = 0 /\ a - (x % a) \in Nat
<1>1. x = a * (x \div a) + (x % a) /\ x % a \in 0 .. a - 1 /\ x \div a \in Nat
    BY Z3
<1>2. x + (a - (x % a)) = a * ((x \div a) + 1)
    BY <1>1, Z3
<1>3. ASSUME NEW k \in Nat PROVE (a * k) % a = 0
    BY Z3
<1> QED BY <1>1, <1>2, <1>3

\* What a sequence with one more entry is.
LEMMA Appended ==
    ASSUME NEW S, NEW s \in Seq(S), NEW e \in S
    PROVE  /\ Append(s, e) \in Seq(S) /\ Len(Append(s, e)) = Len(s) + 1 /\ Len(s) \in Nat
           /\ DOMAIN s = 1 .. Len(s) /\ DOMAIN Append(s, e) = 1 .. Len(s) + 1
           /\ Append(s, e)[Len(s) + 1] = e /\ \A i \in DOMAIN s : Append(s, e)[i] = s[i] /\ s[i] \in S
    OBVIOUS

-----------------------------------------------------------------------------
Allocation == [block : Nat, offset : Nat, bytes : Nat, aligned : BOOLEAN]

\* Everything handed out of the current block lies before alloc_ptr_, and what remains
\* of the block lies behind it.
ArenaTypeOK ==
    /\ blocks \in Seq(Nat) /\ given \in Seq(Allocation)
    /\ allocBlock \in 0 .. Len(blocks) /\ allocOffset \in Nat /\ remaining \in Nat
BlockIsCounted == IF allocBlock = 0 THEN remaining = 0 ELSE allocOffset + remaining = blocks[allocBlock]
GivenIsBehind ==
    \A i \in DOMAIN given :
        given[i].block = allocBlock => given[i].offset + given[i].bytes <= allocOffset
ArenaInv == ArenaTypeOK /\ BlockIsCounted /\ GivenIsBehind /\ AllocationsAreApart

\* What is appended to the list of allocations and is apart from what was there.
LEMMA GiveApart ==
    ASSUME ArenaInv, NEW r \in Allocation,
           given' = Append(given, r), blocks' \in Seq(Nat), Len(blocks) <= Len(blocks'),
           \A b \in DOMAIN blocks : blocks'[b] = blocks[b],
           r.block \in DOMAIN blocks', r.offset + r.bytes <= blocks'[r.block],
           r.aligned => r.offset % Align = 0,
           \A j \in DOMAIN given : given[j].block = r.block => given[j].offset + given[j].bytes <= r.offset
    PROVE  /\ AllocationsAreApart'
           /\ given' \in Seq(Allocation)
<1>1. /\ given' \in Seq(Allocation)
      /\ Len(given') = Len(given) + 1 /\ given'[Len(given) + 1] = r
      /\ \A i \in DOMAIN given : given'[i] = given[i]
      /\ DOMAIN given' = 1 .. Len(given) + 1 /\ DOMAIN given = 1 .. Len(given) /\ Len(given) \in Nat
  <2> given \in Seq(Allocation)
      BY DEF ArenaInv, ArenaTypeOK
  <2> QED BY Appended
<1>2. ASSUME NEW i \in DOMAIN given'
      PROVE  LET a == given'[i]
             IN  /\ a.block \in DOMAIN blocks' /\ a.offset + a.bytes <= blocks'[a.block]
                 /\ a.aligned => a.offset % Align = 0
                 /\ \A j \in 1 .. i - 1 :
                       given'[j].block = a.block => \/ given'[j].offset + given'[j].bytes <= a.offset
                                                    \/ a.offset + a.bytes <= given'[j].offset
  <2>1. CASE i = Len(given) + 1
    <3>1. given'[i] = r /\ \A j \in 1 .. i - 1 : j \in DOMAIN given /\ given'[j] = given[j]
        BY <1>1, <2>1
    <3> QED BY <3>1
  <2>2. CASE i # Len(given) + 1
    <3>0. i \in 1 .. Len(given) /\ \A j \in 1 .. i - 1 : j \in 1 .. Len(given)
        BY <1>1, <2>2
    <3>1. i \in DOMAIN given /\ given'[i] = given[i] /\ \A j \in 1 .. i - 1 : given'[j] = given[j]
        BY <1>1, <3>0
    <3>2. DOMAIN blocks \subseteq DOMAIN blocks'
        BY DEF ArenaInv, ArenaTypeOK
    <3> QED BY <3>1, <3>2 DEF ArenaInv, AllocationsAreApart
  <2> QED BY <2>1, <2>2
<1> QED BY <1>1, <1>2 DEF AllocationsAreApart

\* Cutting from the current block (Arena::Allocate, Arena::AllocateAligned).
LEMMA TakeKeeps ==
    ASSUME ArenaInv, NEW bytes \in Requests, NEW slop \in Nat, NEW aligned \in BOOLEAN,
           TakeFromBlock(bytes, slop, aligned), slop + bytes <= remaining,
           aligned => (allocOffset + slop) % Align = 0
    PROVE  ArenaInv'
<1> USE ArenaAssumption
<1> DEFINE r == [block |-> allocBlock, offset |-> allocOffset + slop, bytes |-> bytes, aligned |-> aligned]
<1>1. /\ given' = Append(given, r) /\ allocOffset' = allocOffset + slop + bytes
      /\ remaining' = remaining - (slop + bytes) /\ blocks' = blocks /\ allocBlock' = allocBlock
      /\ bytes \in Nat \ {0}
    BY DEF TakeFromBlock, Give
<1>2. /\ allocBlock \in DOMAIN blocks /\ allocOffset + remaining = blocks[allocBlock]
      /\ allocOffset \in Nat /\ remaining \in Nat /\ blocks \in Seq(Nat)
      /\ given \in Seq(Allocation) /\ DOMAIN given = 1 .. Len(given)
  <2>1. allocBlock # 0
      BY <1>1 DEF ArenaInv, ArenaTypeOK, BlockIsCounted
  <2> QED BY <2>1 DEF ArenaInv, ArenaTypeOK, BlockIsCounted
<1>3. r \in Allocation
    BY <1>1, <1>2 DEF Allocation
<1>4. AllocationsAreApart' /\ given' \in Seq(Allocation)
  <2>1. \A j \in DOMAIN given : given[j].block = r.block => given[j].offset + given[j].bytes <= r.offset
    <3> SUFFICES ASSUME NEW j \in DOMAIN given, given[j].block = allocBlock
                 PROVE  given[j].offset + given[j].bytes <= allocOffset + slop
        OBVIOUS
    <3>0. given[j] \in Allocation /\ given[j].offset + given[j].bytes <= allocOffset
        BY <1>2, Appended DEF ArenaInv, GivenIsBehind
    <3>1. given[j].offset + given[j].bytes \in Nat /\ given[j].offset + given[j].bytes <= allocOffset
        BY <3>0 DEF Allocation
    <3> QED BY <1>2, <3>1
  <2>2. r.block \in DOMAIN blocks' /\ r.offset + r.bytes <= blocks'[r.block] /\ (r.aligned => r.offset % Align = 0)
      BY <1>1, <1>2
  <2>3. blocks' \in Seq(Nat) /\ Len(blocks) <= Len(blocks')
      BY <1>1, <1>2
  <2> HIDE DEF r
  <2> QED BY <1>1, <1>3, <2>1, <2>2, <2>3, GiveApart
<1>5. ASSUME NEW i \in DOMAIN given', given'[i].block = allocBlock'
      PROVE  given'[i].offset + given'[i].bytes <= allocOffset'
  <2> HIDE DEF r
  <2>0. /\ DOMAIN given' = 1 .. Len(given) + 1 /\ given'[Len(given) + 1] = r
        /\ \A j \in DOMAIN given : given'[j] = given[j]
      BY <1>1, <1>2, <1>3, Appended
  <2>1. CASE i \in DOMAIN given
    <3>1. given'[i] = given[i]
        BY <2>0, <2>1
    <3>2. given[i].block = allocBlock /\ given[i] \in Allocation
        BY <1>1, <1>2, <1>5, <2>1, <3>1
    <3>3. given[i].offset + given[i].bytes <= allocOffset
        BY <2>1, <3>2 DEF ArenaInv, GivenIsBehind
    <3>4. given[i].offset + given[i].bytes \in Nat
        BY <3>2 DEF Allocation
    <3> QED BY <1>1, <1>2, <3>1, <3>3, <3>4
  <2>2. CASE i \notin DOMAIN given
    <3>1. i = Len(given) + 1
        BY <1>2, <2>0, <2>2
    <3>2. given'[i] = r
        BY <2>0, <3>1
    <3> QED BY <1>1, <1>2, <3>2 DEF r
  <2> QED BY <2>1, <2>2
<1>6. /\ allocOffset' \in Nat /\ remaining' \in Nat /\ allocOffset' + remaining' = blocks'[allocBlock']
      /\ allocBlock' # 0 /\ allocBlock' \in 0 .. Len(blocks') /\ blocks' \in Seq(Nat)
    BY <1>1, <1>2
<1> QED BY <1>4, <1>5, <1>6 DEF ArenaInv, ArenaTypeOK, BlockIsCounted, GivenIsBehind

\* A new block for what does not fit (Arena::AllocateFallback).
LEMMA FallbackKeeps ==
    ASSUME ArenaInv, NEW bytes \in Requests, NEW aligned \in BOOLEAN, AllocateFallback(bytes, aligned)
    PROVE  ArenaInv'
<1> USE ArenaAssumption
<1> DEFINE new == Len(blocks) + 1
           size == IF bytes > BlockSize \div 4 THEN bytes ELSE BlockSize
           r == [block |-> new, offset |-> 0, bytes |-> bytes, aligned |-> aligned]
<1>1. /\ given' = Append(given, r) /\ blocks' = Append(blocks, size) /\ bytes \in Nat \ {0}
      /\ IF bytes > BlockSize \div 4 THEN UNCHANGED <<allocBlock, allocOffset, remaining>>
         ELSE allocBlock' = new /\ allocOffset' = bytes /\ remaining' = BlockSize - bytes
    BY DEF AllocateFallback, Give
<1>2. /\ size \in Nat /\ bytes <= size /\ Len(blocks) \in Nat /\ blocks \in Seq(Nat)
      /\ given \in Seq(Allocation) /\ DOMAIN given = 1 .. Len(given)
      /\ allocBlock \in 0 .. Len(blocks) /\ allocOffset \in Nat /\ remaining \in Nat
  <2>1. BlockSize \div 4 \in Nat /\ BlockSize \div 4 <= BlockSize
      BY Z3
  <2> QED BY <1>1, <2>1 DEF ArenaInv, ArenaTypeOK
<1>3. /\ blocks' \in Seq(Nat) /\ Len(blocks') = new /\ blocks'[new] = size
      /\ DOMAIN blocks = 1 .. Len(blocks) /\ \A b \in DOMAIN blocks : blocks'[b] = blocks[b]
    BY <1>1, <1>2, Appended
<1>4. r \in Allocation
    BY <1>1, <1>2 DEF Allocation
<1>o. \A j \in DOMAIN given : given[j].block \in DOMAIN blocks /\ given[j].block # new
    BY <1>2 DEF ArenaInv, AllocationsAreApart
<1>5. AllocationsAreApart' /\ given' \in Seq(Allocation)
  <2>1. r.block \in DOMAIN blocks' /\ r.offset + r.bytes <= blocks'[r.block]
      BY <1>1, <1>2, <1>3
  <2>2. r.offset % Align = 0
    <3>1. 0 % Align = 0
        BY Z3
    <3> QED BY <3>1
  <2>3. \A j \in DOMAIN given : given[j].block = r.block => given[j].offset + given[j].bytes <= r.offset
      BY <1>o
  <2> HIDE DEF r, size, new
  <2>4. given' = Append(given, r)
      BY <1>1
  <2>5. Len(blocks) <= Len(blocks')
      BY <1>2, <1>3 DEF new
  <2> QED BY <1>3, <1>4, <2>1, <2>2, <2>3, <2>4, <2>5, GiveApart
<1>6. ASSUME NEW i \in DOMAIN given', given'[i].block = allocBlock'
      PROVE  given'[i].offset + given'[i].bytes <= allocOffset'
  <2>1. CASE i \in DOMAIN given
    <3>1. given'[i] = given[i] /\ given[i].block # new
        BY <1>1, <1>2, <1>4, <1>o, <2>1, Appended
    <3>2. allocBlock' = allocBlock /\ allocOffset' = allocOffset
        BY <1>1, <1>6, <3>1
    <3> QED BY <1>6, <2>1, <3>1, <3>2 DEF ArenaInv, GivenIsBehind
  <2>2. CASE i \notin DOMAIN given
    <3>1. given'[i] = r
        BY <1>1, <1>2, <1>4, <2>2, Appended
    <3>2. allocBlock' = new
        BY <1>6, <3>1
    <3>3. allocOffset' = bytes
        BY <1>1, <1>2, <3>2
    <3> QED BY <1>1, <3>1, <3>3
  <2> QED BY <2>1, <2>2
<1>7. /\ allocOffset' \in Nat /\ remaining' \in Nat /\ allocBlock' \in 0 .. Len(blocks')
      /\ IF allocBlock' = 0 THEN remaining' = 0 ELSE allocOffset' + remaining' = blocks'[allocBlock']
  <2>1. CASE bytes > BlockSize \div 4
    <3>1. UNCHANGED <<allocBlock, allocOffset, remaining>>
        BY <1>1, <2>1
    <3>2. ASSUME allocBlock # 0 PROVE blocks'[allocBlock] = blocks[allocBlock]
      <4> HIDE DEF new, size, r
      <4>1. allocBlock \in DOMAIN blocks
          BY <1>2, <1>3, <3>2
      <4> QED BY <1>3, <4>1
    <3>3. allocBlock \in 0 .. new
        BY <1>2
    <3> QED BY <1>2, <1>3, <3>1, <3>2, <3>3 DEF ArenaInv, BlockIsCounted
  <2>2. CASE ~(bytes > BlockSize \div 4)
      BY <1>1, <1>2, <1>3, <2>2
  <2> QED BY <2>1, <2>2
<1> QED BY <1>3, <1>5, <1>6, <1>7 DEF ArenaInv, ArenaTypeOK, BlockIsCounted, GivenIsBehind

\* Nothing the arena hands out overlaps (Arena::Allocate, Arena::AllocateAligned).
THEOREM ArenaCorrect == ArenaSpec => []AllocationsAreApart
<1> USE ArenaAssumption
<1>1. ArenaInit => ArenaInv
    BY DEF ArenaInit, ArenaInv, ArenaTypeOK, BlockIsCounted, GivenIsBehind, AllocationsAreApart
<1>2. ArenaInv /\ [ArenaNext]_arenaVars => ArenaInv'
  <2> SUFFICES ASSUME ArenaInv, [ArenaNext]_arenaVars PROVE ArenaInv'
      OBVIOUS
  <2>1. ASSUME NEW bytes \in Requests, Allocate(bytes) PROVE ArenaInv'
    <3>1. CASE bytes <= remaining
      <4>1. TakeFromBlock(bytes, 0, FALSE)
          BY <2>1, <3>1, Zenon DEF Allocate
      <4>2. 0 + bytes <= remaining
          BY <3>1
      <4> QED BY <4>1, <4>2, TakeKeeps
    <3>2. CASE ~(bytes <= remaining)
        BY <2>1, <3>2, FallbackKeeps DEF Allocate
    <3> QED BY <3>1, <3>2
  <2>2. ASSUME NEW bytes \in Requests, AllocateAligned(bytes) PROVE ArenaInv'
    <3>0. allocOffset \in Nat /\ Slop \in Nat /\ (allocOffset + Slop) % Align = 0
      <4>1. allocOffset \in Nat
          BY DEF ArenaInv, ArenaTypeOK
      <4>2. CASE allocOffset % Align = 0
          BY <4>1, <4>2 DEF Slop
      <4>3. CASE allocOffset % Align # 0
          BY <4>1, <4>3, PaddedIsAligned DEF Slop
      <4> QED BY <4>1, <4>2, <4>3
    <3>1. CASE bytes + Slop <= remaining
      <4>1. TakeFromBlock(bytes, Slop, TRUE)
          BY <2>2, <3>1, Zenon DEF AllocateAligned
      <4>2. Slop + bytes <= remaining
          BY <3>0, <3>1
      <4> QED BY <3>0, <4>1, <4>2, TakeKeeps
    <3>2. CASE ~(bytes + Slop <= remaining)
        BY <2>2, <3>2, FallbackKeeps DEF AllocateAligned
    <3> QED BY <3>1, <3>2
  <2>3. CASE UNCHANGED arenaVars
      BY <2>3 DEF arenaVars, ArenaInv, ArenaTypeOK, BlockIsCounted, GivenIsBehind, AllocationsAreApart
  <2> QED BY <2>1, <2>2, <2>3 DEF ArenaNext
<1>3. ArenaInv => AllocationsAreApart
    BY DEF ArenaInv
<1> QED BY <1>1, <1>2, <1>3, PTL DEF ArenaSpec

-----------------------------------------------------------------------------
\* The openers whose entry is in the set of their process.
Inside == {"inserted", "holds", "released"}

\* An opener inside is the only one of its process, and the kernel's lock is its
\* process's unless closing a descriptor took it away.
LockInv ==
    /\ lockPc \in [Ops -> {"idle", "inserted", "holds", "released", "removed"}]
    /\ \A a \in Ops : lockPc[a] \in Inside => a[1] \in lockedFiles
    /\ \A a, b \in Ops : a # b /\ a[1] = b[1] => ~(lockPc[a] \in Inside /\ lockPc[b] \in Inside)
    /\ \A a \in Ops : lockPc[a] = "holds" => owner = a[1] \/ dropped
    /\ dropped \in BOOLEAN

\* The items that were scheduled are those run, the one running and those queued, in
\* this order.
QueueInv ==
    /\ scheduled \in Nat /\ queue \in Seq(Nat) /\ ran \in Seq(Nat)
    /\ bg \in {"none", "ready", "waiting", "running"}
    /\ ItemsRunInOrder
    /\ \A i \in 1 .. Len(queue) : queue[i] = scheduled - Len(queue) + i
    /\ bg = "running" => running = Len(ran) + 1

\* A step of LockFile or UnlockFile keeps the exclusion.
LEMMA LockStepKeeps == ASSUME LockInv, NEW o \in Ops, LockStep(o) PROVE LockInv'
<1> USE PosixEnvAssumption DEF Inside
<1>0. o[1] \in Processes
    BY DEF Ops
<1>1. CASE InsertLock(o)
  <2>1. CASE o[1] \in lockedFiles
      BY <1>0, <1>1, <2>1 DEF InsertLock, CloseFile, LockInv
  <2>2. CASE o[1] \notin lockedFiles
      BY <1>1, <2>2 DEF InsertLock, Step, LockInv
  <2> QED BY <2>1, <2>2
<1>2. CASE TakeLock(o)
  <2>1. /\ lockPc' = [lockPc EXCEPT ![o] = "holds"] /\ lockPc[o] = "inserted" /\ owner \in {Nobody, o[1]}
        /\ owner' = o[1] /\ UNCHANGED <<lockedFiles, dropped>>
      BY <1>2 DEF TakeLock, Step
  <2>2. \A a \in Ops : a[1] \in Processes
      BY DEF Ops
  <2>3. ASSUME NEW a \in Ops, a # o, lockPc[a] = "holds" PROVE dropped
      BY <2>1, <2>2, <2>3 DEF LockInv
  <2> QED BY <2>1, <2>3 DEF LockInv
<1>3. CASE TakeLockFails(o)
    BY <1>3 DEF TakeLockFails, CloseFile, Step, LockInv
<1>4. CASE ReleaseLock(o)
    BY <1>4 DEF ReleaseLock, Step, LockInv
<1>5. CASE RemoveLock(o)
    BY <1>5 DEF RemoveLock, Step, LockInv
<1>6. CASE CloseLock(o)
    BY <1>6 DEF CloseLock, CloseFile, Step, LockInv
<1> QED BY <1>1, <1>2, <1>3, <1>4, <1>5, <1>6 DEF LockStep

\* The LOCK file excludes the openers of one process from each other, and those of two
\* as long as no descriptor is closed under a holder (PosixEnv::LockFile, UnlockFile).
THEOREM LockCorrect == EnvInit /\ [][EnvNext]_envVars => []LockExcludes
<1>1. EnvInit => LockInv
    BY DEF EnvInit, LockInv, Inside
<1>2. LockInv /\ [EnvNext]_envVars => LockInv'
  <2> SUFFICES ASSUME LockInv, [EnvNext]_envVars PROVE LockInv'
      OBVIOUS
  <2>1. CASE \E o \in Ops : LockStep(o)
      BY <2>1, LockStepKeeps
  <2>2. CASE UNCHANGED lockVars
      BY <2>2 DEF LockInv, lockVars
  <2>3. CASE Schedule \/ BGStep \/ SpuriousWakeup \/ UNCHANGED envVars
    <3>1. UNCHANGED lockVars
        BY <2>3 DEF Schedule, BGStep, BGWait, BGTake, BGReturn, SpuriousWakeup, envVars
    <3> QED BY <2>2, <3>1
  <2> QED BY <2>1, <2>3 DEF EnvNext
<1>3. LockInv => LockExcludes
    BY PosixEnvAssumption DEF LockInv, LockExcludes, Inside, Ops
<1> QED BY <1>1, <1>2, <1>3, PTL

\* Items are run once each, in the order in which they were scheduled, by one thread
\* (PosixEnv::Schedule, BGThread).
THEOREM QueueCorrect == EnvInit /\ [][EnvNext]_envVars => []ItemsRunInOrder
<1>1. EnvInit => QueueInv
    BY DEF EnvInit, QueueInv, ItemsRunInOrder
<1>2. QueueInv /\ [EnvNext]_envVars => QueueInv'
  <2> SUFFICES ASSUME QueueInv, [EnvNext]_envVars PROVE QueueInv'
      OBVIOUS
  <2> USE DEF QueueInv, ItemsRunInOrder
  <2>1. CASE Schedule
    <3>1. /\ scheduled' = scheduled + 1 /\ queue' = Append(queue, scheduled + 1) /\ UNCHANGED <<running, ran>>
          /\ bg' \in {"none", "ready", "waiting", "running"} /\ (bg' = "running" <=> bg = "running")
        BY <2>1 DEF Schedule
    <3>2. /\ queue' \in Seq(Nat) /\ Len(queue') = Len(queue) + 1 /\ queue'[Len(queue) + 1] = scheduled + 1
          /\ \A i \in 1 .. Len(queue) : queue'[i] = queue[i]
        BY <3>1, Appended
    <3>3. scheduled' \in Nat /\ ran' \in Seq(Nat) /\ (bg' = "running" => running' = Len(ran') + 1)
        BY <3>1
    <3>4. \A i \in 1 .. Len(queue') : queue'[i] = scheduled' - Len(queue') + i
      <4> SUFFICES ASSUME NEW i \in 1 .. Len(queue') PROVE queue'[i] = scheduled' - Len(queue') + i
          OBVIOUS
      <4>0. Len(queue) \in Nat /\ scheduled \in Nat /\ scheduled' = scheduled + 1
          BY <3>1
      <4>1. CASE i \in 1 .. Len(queue)
          BY <3>2, <4>0, <4>1
      <4>2. CASE i = Len(queue) + 1
          BY <3>2, <4>0, <4>2
      <4> QED BY <3>2, <4>0, <4>1, <4>2
    <3>5. ItemsRunInOrder'
      <4>1. ran' = [i \in 1 .. Len(ran') |-> i]
          BY <3>1
      <4>2. Len(ran') + (IF bg' = "running" THEN 1 ELSE 0) + Len(queue') = scheduled'
        <5>1. /\ Len(queue) \in Nat /\ Len(ran) \in Nat /\ scheduled \in Nat
              /\ Len(ran) + (IF bg = "running" THEN 1 ELSE 0) + Len(queue) = scheduled
            OBVIOUS
        <5>2. /\ scheduled' = scheduled + 1 /\ ran' = ran /\ (bg' = "running" <=> bg = "running")
              /\ Len(queue') = Len(queue) + 1
            BY <3>1, <3>2
        <5> HIDE DEF QueueInv, ItemsRunInOrder
        <5>3. CASE bg = "running"
            BY <5>1, <5>2, <5>3
        <5>4. CASE bg # "running"
          <6>1. Len(ran) + Len(queue) = scheduled
              BY <5>1, <5>4
          <6>2. bg' # "running"
              BY <5>2, <5>4
          <6>3. Len(ran') + Len(queue') = scheduled'
              BY <5>1, <5>2, <6>1
          <6> QED BY <5>1, <5>2, <6>2, <6>3
        <5> QED BY <5>3, <5>4
      <4> QED BY <4>1, <4>2
    <3> QED BY <3>1, <3>2, <3>3, <3>4, <3>5
  <2>2. CASE BGWait \/ SpuriousWakeup
      BY <2>2 DEF BGWait, SpuriousWakeup
  <2>3. CASE BGTake
    <3>1. /\ queue' = Tail(queue) /\ running' = queue[1] /\ bg' = "running" /\ bg = "ready"
          /\ UNCHANGED <<scheduled, ran>> /\ queue # <<>>
        BY <2>3 DEF BGTake
    <3>2. /\ queue' \in Seq(Nat) /\ Len(queue') = Len(queue) - 1 /\ Len(queue) > 0
          /\ \A i \in 1 .. Len(queue') : queue'[i] = queue[i + 1]
        BY <3>1
    <3>3. running' = Len(ran) + 1
        BY <3>1, <3>2
    <3>4. \A i \in 1 .. Len(queue') : queue'[i] = scheduled - Len(queue') + i
        BY <3>1, <3>2
    <3>5. ItemsRunInOrder'
      <4>1. ran' = [i \in 1 .. Len(ran') |-> i]
          BY <3>1
      <4>2. Len(ran) + Len(queue) = scheduled /\ Len(ran) \in Nat /\ Len(queue) \in Nat
          BY <3>1
      <4>3. Len(ran) + 1 + (Len(queue) - 1) = scheduled
          BY <4>2
      <4> QED BY <3>1, <3>2, <4>1, <4>3
    <3> QED BY <3>1, <3>2, <3>3, <3>4, <3>5
  <2>4. CASE BGReturn
    <3>1. /\ ran' = Append(ran, running) /\ bg' = "ready" /\ bg = "running" /\ running = Len(ran) + 1
          /\ UNCHANGED <<scheduled, queue>>
        BY <2>4 DEF BGReturn
    <3>2. running \in Nat
        BY <3>1
    <3>3. /\ ran' \in Seq(Nat) /\ Len(ran') = Len(ran) + 1 /\ DOMAIN ran' = 1 .. Len(ran) + 1
          /\ ran'[Len(ran) + 1] = Len(ran) + 1 /\ \A i \in 1 .. Len(ran) : ran'[i] = ran[i]
        BY <3>1, <3>2, Appended
    <3>4. \A i \in 1 .. Len(ran) : ran[i] = i
        OBVIOUS
    <3>5. ran' = [i \in 1 .. Len(ran') |-> i]
        BY <3>3, <3>4
    <3> QED BY <3>1, <3>3, <3>5
  <2>5. CASE UNCHANGED bgVars
      BY <2>5 DEF bgVars
  <2>6. CASE (\E o \in Ops : LockStep(o)) \/ UNCHANGED envVars
    <3>1. UNCHANGED bgVars
        BY <2>6 DEF LockStep, InsertLock, TakeLock, TakeLockFails, ReleaseLock, RemoveLock, CloseLock, envVars
    <3> QED BY <2>5, <3>1
  <2> QED BY <2>1, <2>2, <2>3, <2>4, <2>6 DEF EnvNext, BGStep
<1>3. QueueInv => ItemsRunInOrder
    BY DEF QueueInv
<1> QED BY <1>1, <1>2, <1>3, PTL

-----------------------------------------------------------------------------
(* The table cache.  What Resize, Insert and the collected lists compute    *)
(* turn by turn is followed through LoopHasStates: a recursive function     *)
(* over the turns exists, and a least turn that leaves the invariant cannot *)
(* (LeastNatural).  CacheInv counts: the references of a handle are the     *)
(* list's and its users', and the charge and the mappings are those of the  *)
(* handles with references.                                                 *)

\* Every set of naturals that is not empty has a least element: induction, for
\* what sequences of every length satisfy.
LEMMA LeastNatural == ASSUME NEW T \in SUBSET Nat, T # {} PROVE \E m \in T : \A k \in T : m <= k
<1> PICK n \in T : TRUE
    OBVIOUS
<1> DEFINE U == {0 .. k : k \in {x \in T : x <= n}}
<1>1. U \subseteq FiniteSubsetsOf(0 .. n)
  <2>1. \A k \in T : k <= n => 0 .. k \subseteq 0 .. n /\ IsFiniteSet(0 .. k)
      BY FS_Interval
  <2> QED BY <2>1 DEF FiniteSubsetsOf
<1>2. 0 .. n \in U
    OBVIOUS
<1>3. IsWellFoundedOn(StrictSubsetOrdering(0 .. n), FiniteSubsetsOf(0 .. n))
    BY FS_StrictSubsetOrderingWellFounded
<1>4. PICK S \in U : \A V \in U : ~ (<<V, S>> \in StrictSubsetOrdering(0 .. n))
    BY <1>1, <1>2, <1>3, WFMin
<1>5. PICK m \in T : m <= n /\ S = 0 .. m
    BY <1>4
<1>6. \A k \in T : m <= k
  <2> SUFFICES ASSUME NEW k \in T, k < m PROVE FALSE
      OBVIOUS
  <2>1. 0 .. k \in U /\ 0 .. k \subseteq 0 .. m /\ 0 .. k # 0 .. m /\ 0 .. k \subseteq 0 .. n /\ 0 .. m \subseteq 0 .. n
    <3>1. m \in 0 .. m /\ m \notin 0 .. k
        OBVIOUS
    <3> QED BY <1>5, <3>1
  <2> QED BY <1>4, <1>5, <2>1 DEF StrictSubsetOrdering
<1> QED BY <1>6


LEMMA MinIsLeast ==
    ASSUME NEW T \in SUBSET Nat, T # {}
    PROVE  Min(T) \in T /\ Min(T) \in Nat /\ \A k \in T : Min(T) <= k
<1>1. \E m \in T : \A k \in T : m <= k
    BY LeastNatural
<1> QED BY <1>1 DEF Min

\* A loop of n turns, each of which leads from where it may start to where the next one
\* may: the recursive function that gives its states exists, and stays in bounds.
Turns(n, Q, base, turn) ==
    /\ base \in Q[0]
    /\ \A i \in 1 .. n : \A s \in Q[i - 1] : turn[i][s] \in Q[i]
HasStates(n, Q, base, turn) ==
    \E f : /\ f = [i \in 0 .. n |-> IF i = 0 THEN base ELSE turn[i][f[i - 1]]]
           /\ \A i \in 0 .. n : f[i] \in Q[i]
LEMMA LoopHasStates ==
    ASSUME NEW n \in Nat, NEW Q, NEW base, NEW turn, Turns(n, Q, base, turn)
    PROVE  HasStates(n, Q, base, turn)
<1> DEFINE P(k) == \E f : /\ f = [i \in 0 .. k |-> IF i = 0 THEN base ELSE turn[i][f[i - 1]]]
                          /\ \A i \in 0 .. k : f[i] \in Q[i]
           T == {k \in 0 .. n : ~P(k)}
<1>0. base \in Q[0] /\ \A i \in 1 .. n : \A s \in Q[i - 1] : turn[i][s] \in Q[i]
    BY DEF Turns
<1> SUFFICES ASSUME T # {} PROVE FALSE
    BY DEF HasStates
<1>1. PICK m \in T : \A k \in T : m <= k
  <2>1. T \in SUBSET Nat
      OBVIOUS
  <2> HIDE DEF T
  <2> QED BY <2>1, LeastNatural
<1>2. P(0)
  <2> DEFINE f == [i \in 0 .. 0 |-> base]
  <2>1. f = [i \in 0 .. 0 |-> IF i = 0 THEN base ELSE turn[i][f[i - 1]]]
      OBVIOUS
  <2>2. \A i \in 0 .. 0 : f[i] \in Q[i]
      BY <1>0
  <2> HIDE DEF f
  <2> QED BY <2>1, <2>2
<1>3. m # 0 /\ m - 1 \in 0 .. n /\ m \in 0 .. n /\ ~P(m)
  <2> HIDE DEF P
  <2> QED BY <1>1, <1>2
<1>4. P(m - 1)
  <2> HIDE DEF P
  <2>1. m - 1 \notin T
      BY <1>1, <1>3
  <2> QED BY <1>3, <2>1
<1>5. PICK g : /\ g = [i \in 0 .. m - 1 |-> IF i = 0 THEN base ELSE turn[i][g[i - 1]]]
               /\ \A i \in 0 .. m - 1 : g[i] \in Q[i]
    BY <1>4
<1> DEFINE f == [i \in 0 .. m |-> IF i = m THEN turn[m][g[m - 1]] ELSE g[i]]
<1>6. m \in 1 .. n /\ m - 1 \in 0 .. m - 1 /\ m - 1 # m /\ turn[m][g[m - 1]] \in Q[m]
    BY <1>0, <1>3, <1>5
<1>7. \A i \in 0 .. m : f[i] = IF i = 0 THEN base ELSE turn[i][f[i - 1]]
  <2> SUFFICES ASSUME NEW i \in 0 .. m PROVE f[i] = IF i = 0 THEN base ELSE turn[i][f[i - 1]]
      OBVIOUS
  <2>1. CASE i = m
      BY <1>3, <1>6, <2>1
  <2>2. CASE i # m
    <3>1. i \in 0 .. m - 1 /\ f[i] = g[i]
        BY <1>3, <2>2
    <3>2. g[i] = IF i = 0 THEN base ELSE turn[i][g[i - 1]]
        BY <1>5, <3>1
    <3>3. i # 0 => f[i - 1] = g[i - 1]
        BY <1>3, <2>2
    <3> QED BY <3>1, <3>2, <3>3
  <2> QED BY <2>1, <2>2
<1>8. \A i \in 0 .. m : f[i] \in Q[i]
  <2> SUFFICES ASSUME NEW i \in 0 .. m PROVE f[i] \in Q[i]
      OBVIOUS
  <2>1. CASE i = m
      BY <1>6, <2>1
  <2>2. CASE i # m
      BY <1>3, <1>5, <2>2
  <2> QED BY <2>1, <2>2
<1>9. f = [i \in 0 .. m |-> IF i = 0 THEN base ELSE turn[i][f[i - 1]]]
  <2>1. f = [i \in 0 .. m |-> f[i]]
      OBVIOUS
  <2> HIDE DEF f
  <2> QED BY <1>7, <2>1
<1>10. P(m)
  <2> HIDE DEF f
  <2> QED BY <1>8, <1>9
<1> QED BY <1>3, <1>10

\* What the first state has and each turn keeps, all states have.
LEMMA LoopStaysIn ==
    ASSUME NEW n \in Nat, NEW Q, NEW g, g[0] \in Q[0],
           \A i \in 1 .. n : g[i - 1] \in Q[i - 1] => g[i] \in Q[i]
    PROVE  \A i \in 0 .. n : g[i] \in Q[i]
<1> DEFINE T == {k \in 0 .. n : g[k] \notin Q[k]}
<1> SUFFICES ASSUME T # {} PROVE FALSE
    OBVIOUS
<1>1. PICK m \in T : \A k \in T : m <= k
  <2>1. T \in SUBSET Nat
      OBVIOUS
  <2> HIDE DEF T
  <2> QED BY <2>1, LeastNatural
<1>2. m \in 1 .. n /\ m - 1 \in 0 .. n /\ g[m] \notin Q[m]
    BY <1>1
<1>3. m - 1 \notin T
  <2>1. m - 1 < m
      BY <1>2
  <2> HIDE DEF T
  <2> QED BY <1>1, <1>2, <2>1
<1> QED BY <1>2, <1>3

-----------------------------------------------------------------------------
(* Lists that name each member of a set once. *)

Lists(s, H, E) == s \in Seq(H) /\ IsInjective(s) /\ ToSet(s) = E

LEMMA ListAppend ==
    ASSUME NEW H, NEW E, NEW s, Lists(s, H, E), NEW e \in H, e \notin E
    PROVE  Lists(Append(s, e), H, E \cup {e})
<1>1. s \in Seq(H) /\ IsInjective(s) /\ ToSet(s) = E
    BY DEF Lists
<1> DEFINE t == Append(s, e)
<1>2. /\ t \in Seq(H) /\ Len(s) \in Nat /\ DOMAIN t = 1 .. Len(s) + 1 /\ DOMAIN s = 1 .. Len(s)
      /\ t[Len(s) + 1] = e /\ \A i \in 1 .. Len(s) : t[i] = s[i]
    BY <1>1
<1> HIDE DEF t
<1>3. \A i \in DOMAIN s : s[i] \in E
    BY <1>1 DEF ToSet
<1>4. ToSet(t) = E \cup {e}
    BY <1>1, <1>2, <1>3 DEF ToSet
<1>5. \A i \in DOMAIN t : i \in DOMAIN s \/ i = Len(s) + 1
    BY <1>2
<1>6. IsInjective(t)
    BY <1>1, <1>2, <1>3, <1>5 DEF IsInjective
<1> QED BY <1>2, <1>4, <1>6 DEF Lists, t

LEMMA ListPush ==
    ASSUME NEW H, NEW E, NEW s, Lists(s, H, E), NEW e \in H, e \notin E
    PROVE  Lists(<<e>> \o s, H, E \cup {e})
<1>1. s \in Seq(H) /\ IsInjective(s) /\ ToSet(s) = E
    BY DEF Lists
<1> DEFINE t == <<e>> \o s
<1>2. /\ t \in Seq(H) /\ Len(s) \in Nat /\ DOMAIN t = 1 .. Len(s) + 1 /\ DOMAIN s = 1 .. Len(s)
      /\ t[1] = e /\ \A i \in 1 .. Len(s) : t[i + 1] = s[i]
    BY <1>1
<1> HIDE DEF t
<1>3. \A i \in DOMAIN s : s[i] \in E
    BY <1>1 DEF ToSet
<1>5. \A i \in DOMAIN t : i = 1 \/ (i - 1 \in DOMAIN s /\ t[i] = s[i - 1])
  <2> SUFFICES ASSUME NEW i \in DOMAIN t, i # 1 PROVE i - 1 \in DOMAIN s /\ t[i] = s[i - 1]
      OBVIOUS
  <2>1. i - 1 \in 1 .. Len(s) /\ (i - 1) + 1 = i
      BY <1>2
  <2> QED BY <1>2, <2>1
<1>4. ToSet(t) = E \cup {e}
  <2>1. \A i \in DOMAIN s : i + 1 \in DOMAIN t /\ t[i + 1] = s[i]
      BY <1>2
  <2>2. 1 \in DOMAIN t /\ t[1] = e
      BY <1>2
  <2>3. \A i \in DOMAIN t : t[i] \in E \cup {e}
      BY <1>3, <1>5, <2>2
  <2>4. \A x \in E : \E i \in DOMAIN t : t[i] = x
      BY <1>1, <2>1 DEF ToSet
  <2> QED BY <2>2, <2>3, <2>4 DEF ToSet
<1>6. IsInjective(t)
  <2> SUFFICES ASSUME NEW a \in DOMAIN t, NEW b \in DOMAIN t, t[a] = t[b] PROVE a = b
      BY DEF IsInjective
  <2>1. a \in Nat /\ b \in Nat
      BY <1>2
  <2>2. a - 1 = b - 1 => a = b
      BY <2>1
  <2> QED BY <1>1, <1>2, <1>3, <1>5, <2>2 DEF IsInjective
<1> QED BY <1>2, <1>4, <1>6 DEF Lists, t

LEMMA ListReplace ==
    ASSUME NEW H, NEW E, NEW s, Lists(s, H, E), NEW e \in H, e \notin E, NEW i \in DOMAIN s
    PROVE  Lists([s EXCEPT ![i] = e], H, (E \ {s[i]}) \cup {e})
<1>1. s \in Seq(H) /\ IsInjective(s) /\ ToSet(s) = E
    BY DEF Lists
<1> DEFINE t == [s EXCEPT ![i] = e]
<1>2. t \in Seq(H) /\ DOMAIN t = DOMAIN s /\ t[i] = e /\ \A j \in DOMAIN s : j # i => t[j] = s[j]
    BY <1>1
<1> HIDE DEF t
<1>3. \A j \in DOMAIN s : s[j] \in E
    BY <1>1 DEF ToSet
<1>4. ToSet(t) = (E \ {s[i]}) \cup {e}
    BY <1>1, <1>2, <1>3 DEF ToSet, IsInjective
<1>6. IsInjective(t)
    BY <1>1, <1>2, <1>3 DEF IsInjective
<1> QED BY <1>2, <1>4, <1>6 DEF Lists, t

LEMMA ListTail ==
    ASSUME NEW H, NEW E, NEW s, Lists(s, H, E), s # <<>>
    PROVE  /\ s[1] \in E /\ s[1] \in H /\ Lists(Tail(s), H, E \ {s[1]})
           /\ Len(s) \in Nat \ {0} /\ Len(Tail(s)) = Len(s) - 1
<1>1. s \in Seq(H) /\ IsInjective(s) /\ ToSet(s) = E
    BY DEF Lists
<1> DEFINE t == Tail(s)
<1>2. /\ t \in Seq(H) /\ Len(s) \in Nat \ {0} /\ DOMAIN t = 1 .. Len(s) - 1 /\ DOMAIN s = 1 .. Len(s)
      /\ \A i \in 1 .. Len(s) - 1 : t[i] = s[i + 1]
      /\ Len(t) = Len(s) - 1
    BY <1>1
<1> HIDE DEF t
<1>3. \A j \in DOMAIN s : s[j] \in E /\ s[j] \in H
    BY <1>1 DEF ToSet
<1>i. 1 \in DOMAIN s
    BY <1>2
<1>4. \A i \in DOMAIN s : i = 1 \/ (i - 1 \in DOMAIN t /\ t[i - 1] = s[i])
  <2> SUFFICES ASSUME NEW i \in DOMAIN s, i # 1 PROVE i - 1 \in DOMAIN t /\ t[i - 1] = s[i]
      OBVIOUS
  <2>1. i - 1 \in 1 .. Len(s) - 1 /\ (i - 1) + 1 = i
      BY <1>2
  <2> QED BY <1>2, <2>1
<1>5. \A i \in DOMAIN t : i + 1 \in DOMAIN s /\ i + 1 # 1 /\ t[i] = s[i + 1]
    BY <1>2
<1>6. ToSet(t) = E \ {s[1]}
    BY <1>1, <1>3, <1>4, <1>5, <1>i DEF ToSet, IsInjective
<1>7. IsInjective(t)
  <2> SUFFICES ASSUME NEW a \in DOMAIN t, NEW b \in DOMAIN t, t[a] = t[b] PROVE a = b
      BY DEF IsInjective
  <2>1. a \in Nat /\ b \in Nat
      BY <1>2
  <2>2. a + 1 = b + 1 => a = b
      BY <2>1
  <2> QED BY <1>1, <1>5, <2>2 DEF IsInjective
<1> QED BY <1>2, <1>3, <1>6, <1>7, <1>i DEF Lists, t

LEMMA PlaceIs ==
    ASSUME NEW H, NEW s \in Seq(H), NEW e
    PROVE  LET i == SelectInSeq(s, LAMBDA v : v = e)
           IN  (\E j \in 1 .. Len(s) : s[j] = e) => i \in 1 .. Len(s) /\ s[i] = e
<1> DEFINE I == {i \in 1 .. Len(s) : s[i] = e}
<1> SUFFICES ASSUME I # {} PROVE Min(I) \in I
    BY DEF SelectInSeq
<1>1. I \in SUBSET Nat
    OBVIOUS
<1> HIDE DEF I
<1> QED BY <1>1, MinIsLeast

LEMMA Joined ==
    ASSUME NEW S, NEW p \in Seq(S), NEW q \in Seq(S)
    PROVE  /\ p \o q \in Seq(S) /\ Len(p) \in Nat /\ Len(q) \in Nat /\ Len(p \o q) = Len(p) + Len(q)
           /\ \A i \in 1 .. Len(p) : (p \o q)[i] = p[i]
           /\ \A i \in 1 .. Len(q) : (p \o q)[Len(p) + i] = q[i]
    OBVIOUS

LEMMA Rest ==
    ASSUME NEW S, NEW s \in Seq(S), NEW k \in 1 .. Len(s)
    PROVE  Len(SubSeq(s, k + 1, Len(s))) = Len(s) - k
<1>1. CASE k = Len(s)
  <2>1. SubSeq(s, k + 1, Len(s)) = [i \in 1 .. 0 |-> s[i + k]]
      BY <1>1
  <2> QED BY <1>1, <2>1
<1>2. CASE k # Len(s)
    BY <1>2
<1> QED BY <1>1, <1>2

LEMMA ListRemove ==
    ASSUME NEW H, NEW E, NEW s, Lists(s, H, E), NEW e
    PROVE  Lists(RemoveFirst(s, e), H, E \ {e})
<1>1. s \in Seq(H) /\ IsInjective(s) /\ ToSet(s) = E /\ DOMAIN s = 1 .. Len(s) /\ Len(s) \in Nat
    BY DEF Lists
<1>2. CASE e \notin E
  <2>1. ~ \E i \in 1 .. Len(s) : s[i] = e
      BY <1>1, <1>2 DEF ToSet
  <2> QED BY <1>2, <2>1 DEF RemoveFirst
<1>3. CASE e \in E
  <2>1. \E i \in 1 .. Len(s) : s[i] = e
      BY <1>1, <1>3 DEF ToSet
  <2> DEFINE k == SelectInSeq(s, LAMBDA v : v = e)
  <2>2. k \in 1 .. Len(s) /\ s[k] = e
      BY <1>1, <2>1, PlaceIs
  <2> HIDE DEF k
  <2> DEFINE t == RemoveAt(s, k)
  <2>3. RemoveFirst(s, e) = t
      BY <2>1 DEF RemoveFirst, k
  <2> DEFINE p == SubSeq(s, 1, k - 1)
             q == SubSeq(s, k + 1, Len(s))
  <2>4. /\ p \in Seq(H) /\ Len(p) = k - 1 /\ \A i \in 1 .. k - 1 : p[i] = s[i]
      BY <1>1, <2>2
  <2>5. /\ q \in Seq(H) /\ Len(q) = Len(s) - k /\ \A i \in 1 .. Len(s) - k : q[i] = s[i + k]
    <3>1. k + 1 \in 1 .. Len(s) + 1
        BY <1>1, <2>2
    <3>2. q \in Seq(H)
        BY <1>1, <3>1
    <3>3. Len(q) = Len(s) - k
        BY <1>1, <2>2, Rest
    <3>4. ASSUME NEW i \in 1 .. Len(s) - k PROVE q[i] = s[i + k]
      <4>1. k + 1 <= Len(s) /\ i \in 1 .. Len(s) - (k + 1) + 1 /\ (k + 1) + i - 1 = i + k
          BY <1>1, <2>2
      <4> QED BY <1>1, <2>2, <4>1
    <3> QED BY <3>2, <3>3, <3>4
  <2>6. t = p \o q
      BY DEF RemoveAt
  <2> HIDE DEF p, q, t
  <2>7. /\ t \in Seq(H) /\ DOMAIN t = 1 .. Len(s) - 1
        /\ \A i \in 1 .. k - 1 : t[i] = s[i]
        /\ \A i \in k .. Len(s) - 1 : t[i] = s[i + 1]
    <3>1. t \in Seq(H) /\ Len(t) = Len(s) - 1
      <4>1. t \in Seq(H) /\ Len(t) = Len(p) + Len(q)
          BY <2>4, <2>5, <2>6, Joined
      <4> QED BY <1>1, <2>2, <2>4, <2>5, <4>1
    <3>2. \A i \in 1 .. k - 1 : t[i] = s[i]
        BY <1>1, <2>2, <2>4, <2>5, <2>6
    <3>3. ASSUME NEW i \in k .. Len(s) - 1 PROVE t[i] = s[i + 1]
      <4>1. /\ i \in Nat /\ i > Len(p) /\ i <= Len(p) + Len(q) /\ i - Len(p) \in 1 .. Len(s) - k
            /\ (i - Len(p)) + k = i + 1
          BY <1>1, <2>2, <2>4, <2>5
      <4>2. t[i] = q[i - Len(p)]
          BY <2>4, <2>5, <2>6, <4>1
      <4> QED BY <2>5, <4>1, <4>2
    <3> QED BY <3>1, <3>2, <3>3
  <2>8. \A i \in DOMAIN t : \E j \in DOMAIN s : j # k /\ t[i] = s[j]
    <3> SUFFICES ASSUME NEW i \in DOMAIN t PROVE \E j \in DOMAIN s : j # k /\ t[i] = s[j]
        OBVIOUS
    <3>1. CASE i < k
        BY <1>1, <2>2, <2>7, <3>1
    <3>2. CASE ~(i < k)
      <4>1. i \in k .. Len(s) - 1 /\ i + 1 \in DOMAIN s /\ i + 1 # k
          BY <1>1, <2>2, <2>7, <3>2
      <4> QED BY <2>7, <4>1
    <3> QED BY <3>1, <3>2
  <2>9. \A j \in DOMAIN s : j # k => \E i \in DOMAIN t : t[i] = s[j]
    <3> SUFFICES ASSUME NEW j \in DOMAIN s, j # k PROVE \E i \in DOMAIN t : t[i] = s[j]
        OBVIOUS
    <3>1. CASE j < k
      <4>1. j \in 1 .. k - 1 /\ j \in DOMAIN t
          BY <1>1, <2>2, <2>7, <3>1
      <4> QED BY <2>7, <4>1
    <3>2. CASE ~(j < k)
      <4>1. j - 1 \in k .. Len(s) - 1 /\ j - 1 \in DOMAIN t /\ (j - 1) + 1 = j
          BY <1>1, <2>2, <2>7, <3>2
      <4> QED BY <2>7, <4>1
    <3> QED BY <3>1, <3>2
  <2>10. ToSet(t) = E \ {e}
    <3>1. \A j \in DOMAIN s : s[j] \in E /\ (s[j] = e <=> j = k)
        BY <1>1, <2>2 DEF ToSet, IsInjective
    <3> QED BY <1>1, <2>8, <2>9, <3>1 DEF ToSet
  <2>11. IsInjective(t)
    <3> SUFFICES ASSUME NEW a \in DOMAIN t, NEW b \in DOMAIN t, t[a] = t[b] PROVE a = b
        BY DEF IsInjective
    <3> DEFINE At(i) == IF i < k THEN i ELSE i + 1
    <3>1. \A i \in DOMAIN t : At(i) \in DOMAIN s /\ t[i] = s[At(i)]
      <4> SUFFICES ASSUME NEW i \in DOMAIN t PROVE At(i) \in DOMAIN s /\ t[i] = s[At(i)]
          OBVIOUS
      <4>1. CASE i < k
        <5>1. i \in 1 .. k - 1 /\ i \in DOMAIN s
            BY <1>1, <2>2, <2>7, <4>1
        <5> QED BY <2>7, <4>1, <5>1
      <4>2. CASE ~(i < k)
        <5>1. i \in k .. Len(s) - 1 /\ i + 1 \in DOMAIN s
            BY <1>1, <2>2, <2>7, <4>2
        <5> QED BY <2>7, <4>2, <5>1
      <4> QED BY <4>1, <4>2
    <3>2. At(a) = At(b)
      <4> HIDE DEF At
      <4> QED BY <1>1, <3>1 DEF IsInjective
    <3> QED BY <1>1, <2>2, <2>7, <3>2
  <2> QED BY <2>3, <2>7, <2>10, <2>11 DEF Lists
<1> QED BY <1>2, <1>3

\* The chains of a hash table in one list.
LEMMA Flattened ==
    ASSUME NEW H, NEW list \in Seq(Seq(H)), Len(list) # 0,
           \A b \in DOMAIN list : IsInjective(list[b]),
           \A b, c \in DOMAIN list : b # c => ToSet(list[b]) \cap ToSet(list[c]) = {}
    PROVE  Lists(FlattenSeq(list), H, Cached(list))
<1> DEFINE N == Len(list)
           n == N - 1
           Upto(i) == UNION {ToSet(list[b]) : b \in 1 .. i}
           Q == [i \in 0 .. n |-> {s \in Seq(H) : Lists(s, H, Upto(i + 1))}]
           turn == [i \in 1 .. n |-> [s \in Q[i - 1] |-> s \o list[i + 1]]]
           base == list[1]
           flatten[i \in 1 .. N] == IF i = 1 THEN list[i] ELSE flatten[i - 1] \o list[i]
<1>1. N \in Nat \ {0} /\ n \in Nat /\ DOMAIN list = 1 .. N /\ \A b \in 1 .. N : list[b] \in Seq(H)
    OBVIOUS
<1>2. FlattenSeq(list) = flatten[N]
    BY DEF FlattenSeq
<1>3. base \in Q[0]
  <2>1. Upto(1) = ToSet(list[1])
      BY <1>1
  <2>2. Lists(base, H, Upto(1))
      BY <1>1, <2>1 DEF Lists
  <2> QED BY <1>1, <2>2 DEF Lists
<1>4. ASSUME NEW i \in 1 .. n, NEW s, Lists(s, H, Upto(i))
      PROVE  Lists(s \o list[i + 1], H, Upto(i + 1))
  <2> DEFINE q == list[i + 1]
             E == Upto(i)
             t == s \o q
  <2>1. i + 1 \in 1 .. N /\ i \in 1 .. N
      BY <1>1
  <2>2. q \in Seq(H) /\ IsInjective(q) /\ s \in Seq(H) /\ IsInjective(s) /\ ToSet(s) = E
      BY <1>1, <1>4, <2>1 DEF Lists
  <2>3. E \cap ToSet(q) = {}
    <3>1. \A b \in 1 .. i : b \in DOMAIN list /\ b # i + 1
        BY <1>1, <2>1
    <3>2. i + 1 \in DOMAIN list
        BY <1>1, <2>1
    <3> QED BY <3>1, <3>2
  <2>4. Upto(i + 1) = E \cup ToSet(q)
    <3>1. 1 .. i + 1 = (1 .. i) \cup {i + 1}
        BY <2>1
    <3> QED BY <3>1
  <2> HIDE DEF q, E, t
  <2>5. /\ t \in Seq(H) /\ Len(s) \in Nat /\ Len(q) \in Nat /\ DOMAIN t = 1 .. Len(s) + Len(q)
        /\ DOMAIN s = 1 .. Len(s) /\ DOMAIN q = 1 .. Len(q)
        /\ \A j \in 1 .. Len(s) : t[j] = s[j]
        /\ \A j \in 1 .. Len(q) : t[Len(s) + j] = q[j]
      BY <2>2, Joined DEF t
  <2>6. \A j \in DOMAIN t : j \in DOMAIN s \/ (j - Len(s) \in DOMAIN q /\ t[j] = q[j - Len(s)])
    <3> SUFFICES ASSUME NEW j \in DOMAIN t, j \notin DOMAIN s
                 PROVE  j - Len(s) \in DOMAIN q /\ t[j] = q[j - Len(s)]
        OBVIOUS
    <3>1. j - Len(s) \in 1 .. Len(q) /\ Len(s) + (j - Len(s)) = j
        BY <2>5
    <3> QED BY <2>5, <3>1
  <2>7. (\A j \in DOMAIN s : s[j] \in E) /\ (\A j \in DOMAIN q : q[j] \in ToSet(q) /\ q[j] \notin E)
      BY <2>2, <2>3 DEF ToSet
  <2>8. ToSet(t) = E \cup ToSet(q)
    <3>1. \A j \in DOMAIN t : t[j] \in E \cup ToSet(q)
        BY <2>5, <2>6, <2>7
    <3>2. \A x \in E : \E j \in DOMAIN t : t[j] = x
      <4>1. \A j \in DOMAIN s : j \in DOMAIN t
          BY <2>5
      <4> QED BY <2>2, <2>5, <4>1 DEF ToSet
    <3>3. \A x \in ToSet(q) : \E j \in DOMAIN t : t[j] = x
      <4>1. \A j \in DOMAIN q : Len(s) + j \in DOMAIN t /\ t[Len(s) + j] = q[j]
          BY <2>5
      <4> QED BY <4>1 DEF ToSet
    <3> DEFINE F == E \cup ToSet(q)
    <3>4. (\A j \in DOMAIN t : t[j] \in F) /\ \A x \in F : \E j \in DOMAIN t : t[j] = x
        BY <3>1, <3>2, <3>3
    <3> HIDE DEF F
    <3>5. ToSet(t) = F
        BY <3>4 DEF ToSet
    <3> QED BY <3>5 DEF F
  <2>9. IsInjective(t)
    <3> SUFFICES ASSUME NEW a \in DOMAIN t, NEW b \in DOMAIN t, t[a] = t[b] PROVE a = b
        BY DEF IsInjective
    <3>1. a \in Nat /\ b \in Nat /\ Len(s) \in Nat
        BY <2>5
    <3>2. a - Len(s) = b - Len(s) => a = b
        BY <3>1
    <3>3. CASE a \in DOMAIN s
      <4>1. t[a] = s[a] /\ s[a] \in E
          BY <2>5, <2>7, <3>3
      <4>2. b \in DOMAIN s
          BY <2>6, <2>7, <4>1
      <4> QED BY <2>2, <2>5, <3>3, <4>1, <4>2 DEF IsInjective
    <3>4. CASE a \notin DOMAIN s
      <4>1. a - Len(s) \in DOMAIN q /\ t[a] = q[a - Len(s)] /\ t[a] \notin E
          BY <2>6, <2>7, <3>4
      <4>2. b \notin DOMAIN s
          BY <2>5, <2>7, <4>1
      <4>3. b - Len(s) \in DOMAIN q /\ t[b] = q[b - Len(s)]
          BY <2>6, <4>2
      <4> QED BY <2>2, <3>2, <4>1, <4>3 DEF IsInjective
    <3> QED BY <3>3, <3>4
  <2> QED BY <2>4, <2>5, <2>8, <2>9 DEF Lists, t, q
<1>5. \A i \in 1 .. n : \A s \in Q[i - 1] : Lists(s, H, Upto(i)) /\ turn[i][s] = s \o list[i + 1]
  <2> SUFFICES ASSUME NEW i \in 1 .. n, NEW s \in Q[i - 1]
               PROVE  Lists(s, H, Upto(i)) /\ turn[i][s] = s \o list[i + 1]
      OBVIOUS
  <2>1. i - 1 \in 0 .. n /\ (i - 1) + 1 = i
      BY <1>1
  <2> HIDE DEF Upto, n
  <2> QED BY <2>1
<1>6. \A i \in 1 .. n : \A s \in Q[i - 1] : turn[i][s] \in Q[i]
  <2> SUFFICES ASSUME NEW i \in 1 .. n, NEW s \in Q[i - 1] PROVE turn[i][s] \in Q[i]
      OBVIOUS
  <2>1. Lists(turn[i][s], H, Upto(i + 1)) /\ i \in 0 .. n
    <3>1. i \in 0 .. n
        BY <1>1
    <3> HIDE DEF Upto, turn, Q
    <3>2. Lists(s, H, Upto(i)) /\ turn[i][s] = s \o list[i + 1]
        BY <1>5
    <3>3. Lists(s \o list[i + 1], H, Upto(i + 1))
        BY <1>4, <3>2
    <3> QED BY <3>1, <3>2, <3>3
  <2> HIDE DEF Upto, turn
  <2> QED BY <2>1 DEF Lists
<1>7. PICK f : /\ f = [i \in 0 .. n |-> IF i = 0 THEN base ELSE turn[i][f[i - 1]]]
               /\ \A i \in 0 .. n : f[i] \in Q[i]
  <2> HIDE DEF n, Q, turn, base
  <2>1. Turns(n, Q, base, turn)
      BY <1>3, <1>6 DEF Turns
  <2>2. HasStates(n, Q, base, turn)
      BY <1>1, <2>1, LoopHasStates
  <2> QED BY <2>2 DEF HasStates
<1> DEFINE g == [i \in 1 .. N |-> f[i - 1]]
<1>8. g = [i \in 1 .. N |-> IF i = 1 THEN list[i] ELSE g[i - 1] \o list[i]]
  <2>1. ASSUME NEW i \in 1 .. N PROVE g[i] = IF i = 1 THEN list[i] ELSE g[i - 1] \o list[i]
    <3>1. g[i] = f[i - 1] /\ i - 1 \in 0 .. n
        BY <1>1
    <3>2. CASE i = 1
        BY <1>1, <1>7, <3>1, <3>2
    <3>3. CASE i # 1
      <4>1. i - 1 \in 1 .. n /\ i - 1 # 0 /\ i - 1 \in 1 .. N /\ (i - 1) - 1 \in 0 .. n /\ (i - 1) + 1 = i
          BY <1>1, <3>3
      <4>2. f[i - 1] = turn[i - 1][f[(i - 1) - 1]] /\ f[(i - 1) - 1] \in Q[(i - 1) - 1]
        <5> HIDE DEF Q, turn, n, N
        <5> QED BY <1>7, <3>1, <4>1
      <4>3. f[i - 1] = f[(i - 1) - 1] \o list[(i - 1) + 1]
        <5> HIDE DEF Q, turn, n, N, Upto
        <5> QED BY <1>5, <4>1, <4>2
      <4>4. g[i - 1] = f[(i - 1) - 1]
          BY <4>1
      <4> HIDE DEF g
      <4> QED BY <3>1, <3>3, <4>1, <4>3, <4>4
    <3> QED BY <3>2, <3>3
  <2>2. g = [i \in 1 .. N |-> g[i]]
      OBVIOUS
  <2> HIDE DEF g
  <2> QED BY <2>1, <2>2
<1> HIDE DEF g
<1>9. flatten = [i \in 1 .. N |-> IF i = 1 THEN list[i] ELSE flatten[i - 1] \o list[i]]
    BY <1>8, Zenon
<1> HIDE DEF flatten
<1>10. \A i \in 0 .. n : flatten[i + 1] \in Q[i]
  <2> DEFINE h == [i \in 0 .. n |-> flatten[i + 1]]
  <2>1. h[0] \in Q[0]
    <3>1. flatten[1] = base
        BY <1>1, <1>9
    <3> HIDE DEF Q
    <3> QED BY <1>1, <1>3, <3>1
  <2>2. ASSUME NEW i \in 1 .. n, h[i - 1] \in Q[i - 1] PROVE h[i] \in Q[i]
    <3>1. /\ h[i] = flatten[i + 1] /\ h[i - 1] = flatten[i] /\ i + 1 \in 1 .. N /\ i + 1 # 1 /\ (i + 1) - 1 = i
        BY <1>1
    <3>2. flatten[i + 1] = flatten[i] \o list[i + 1]
        BY <1>9, <3>1
    <3> HIDE DEF Q, turn, n, N, Upto, h
    <3>3. turn[i][flatten[i]] = flatten[i] \o list[i + 1] /\ turn[i][flatten[i]] \in Q[i]
        BY <1>5, <1>6, <2>2, <3>1
    <3> QED BY <3>1, <3>2, <3>3
  <2> HIDE DEF h, Q
  <2>3. \A i \in 0 .. n : h[i] \in Q[i]
    <3> HIDE DEF n
    <3> QED BY <1>1, <2>1, <2>2, LoopStaysIn
  <2> QED BY <2>3 DEF h
<1>11. Lists(flatten[N], H, Upto(N))
  <2>1. n \in 0 .. n /\ n + 1 = N
      BY <1>1
  <2> HIDE DEF Upto
  <2> QED BY <1>10, <2>1
<1>12. Upto(N) = Cached(list)
    BY <1>1 DEF Cached
<1> HIDE DEF Upto
<1> QED BY <1>2, <1>11, <1>12

-----------------------------------------------------------------------------
(* The hash table: chains that list the handles of their bucket. *)

OnePerFile(E, files) == \A h, k \in E : files[h] = files[k] => h = k
InBucket(E, files, length, b) == {h \in E : Bucket(files[h], length) = b}

\* The table holds the handles E.
TableOK(list, files, E) ==
    /\ list \in Seq(Seq(DOMAIN files)) /\ Len(list) \in Nat \ {0}
    /\ E \subseteq DOMAIN files /\ OnePerFile(E, files)
    /\ \A b \in 1 .. Len(list) : Lists(list[b], DOMAIN files, InBucket(E, files, Len(list), b))

LEMMA BucketIs ==
    ASSUME NEW f \in Files, NEW n \in Nat \ {0}
    PROVE  Bucket(f, n) \in 1 .. n
<1>1. HashOf[f] \in Nat
    BY TableCacheAssumption
<1> QED BY <1>1 DEF Bucket

LEMMA FileOfHandle ==
    ASSUME NEW files \in Seq(Files), NEW h \in DOMAIN files
    PROVE  files[h] \in Files
    OBVIOUS

LEMMA TableHolds ==
    ASSUME NEW files \in Seq(Files), NEW list, NEW E, TableOK(list, files, E)
    PROVE  Cached(list) = E /\ IsFiniteSet(E) /\ Cardinality(E) \in Nat
<1>1. \A b \in 1 .. Len(list) : ToSet(list[b]) = InBucket(E, files, Len(list), b)
    BY DEF TableOK, Lists
<1>2. DOMAIN list = 1 .. Len(list)
    BY DEF TableOK
<1>3. \A h \in E : files[h] \in Files /\ Bucket(files[h], Len(list)) \in 1 .. Len(list)
  <2>1. \A h \in E : files[h] \in Files
      BY DEF TableOK
  <2>2. Len(list) \in Nat \ {0}
      BY DEF TableOK
  <2> QED BY <2>1, <2>2, BucketIs
<1>4. Cached(list) = E
    BY <1>1, <1>2, <1>3 DEF Cached, InBucket
<1>5. IsFiniteSet(E)
  <2>1. IsFiniteSet(DOMAIN files)
    <3>1. DOMAIN files = 1 .. Len(files) /\ Len(files) \in Nat
        OBVIOUS
    <3> QED BY <3>1, FS_Interval
  <2>2. E \subseteq DOMAIN files
      BY DEF TableOK
  <2> QED BY <2>1, <2>2, FS_Subset
<1> QED BY <1>4, <1>5, FS_CardinalityType

\* One chain changes, and the handles of its bucket with it.
LEMMA OneChain ==
    ASSUME NEW files \in Seq(Files), NEW list, NEW E, TableOK(list, files, E), NEW b \in 1 .. Len(list),
           NEW F \in SUBSET DOMAIN files, OnePerFile(F, files),
           \A h \in DOMAIN files : Bucket(files[h], Len(list)) # b => (h \in F <=> h \in E),
           NEW chain, Lists(chain, DOMAIN files, InBucket(F, files, Len(list), b))
    PROVE  TableOK([list EXCEPT ![b] = chain], files, F)
<1> DEFINE H == DOMAIN files
           new == [list EXCEPT ![b] = chain]
<1>1. list \in Seq(Seq(H)) /\ Len(list) \in Nat \ {0} /\ E \subseteq H /\ chain \in Seq(H)
    BY DEF TableOK, Lists
<1>2. /\ new \in Seq(Seq(H)) /\ Len(new) = Len(list) /\ new[b] = chain
      /\ \A c \in 1 .. Len(list) : c # b => new[c] = list[c]
    BY <1>1
<1>3. ASSUME NEW c \in 1 .. Len(list) PROVE Lists(new[c], H, InBucket(F, files, Len(list), c))
  <2>1. CASE c = b
      BY <1>2, <2>1
  <2>2. CASE c # b
    <3>1. InBucket(F, files, Len(list), c) = InBucket(E, files, Len(list), c)
        BY <1>1, <2>2 DEF InBucket
    <3>2. Lists(list[c], H, InBucket(E, files, Len(list), c))
        BY DEF TableOK
    <3> QED BY <1>2, <2>2, <3>1, <3>2
  <2> QED BY <2>1, <2>2
<1> HIDE DEF new
<1> QED BY <1>1, <1>2, <1>3 DEF TableOK, new

\* The place of a file's handle.
LEMMA FindIs ==
    ASSUME NEW chain, NEW f, NEW files
    PROVE  LET i == FindPointer(chain, f, files)
           IN  \/ i = 0 /\ \A j \in 1 .. Len(chain) : files[chain[j]] # f
               \/ i \in 1 .. Len(chain) /\ files[chain[i]] = f
<1> DEFINE I == {i \in 1 .. Len(chain) : files[chain[i]] = f}
<1>1. CASE I = {}
    BY <1>1 DEF FindPointer, SelectInSeq
<1>2. CASE I # {}
  <2>1. FindPointer(chain, f, files) = Min(I)
      BY <1>2 DEF FindPointer, SelectInSeq
  <2>2. Min(I) \in I
    <3>1. I \in SUBSET Nat
        OBVIOUS
    <3> HIDE DEF I
    <3> QED BY <1>2, <3>1, MinIsLeast
  <2> QED BY <2>1, <2>2
<1> QED BY <1>1, <1>2

\* What FindPointer finds in the chain of the file's bucket.
Finds(i, b, f, list, files, E) ==
    \/ i = 0 /\ \A k \in E : files[k] # f
    \/ /\ i \in DOMAIN list[b] /\ list[b][i] \in E /\ files[list[b][i]] = f
       /\ \A k \in E : files[k] = f => k = list[b][i]
LEMMA PlaceFound ==
    ASSUME NEW files \in Seq(Files), NEW list, NEW E, TableOK(list, files, E), NEW f \in Files
    PROVE  /\ Bucket(f, Len(list)) \in 1 .. Len(list)
           /\ Finds(FindPointer(list[Bucket(f, Len(list))], f, files), Bucket(f, Len(list)), f, list, files, E)
<1> DEFINE b == Bucket(f, Len(list))
           chain == list[b]
           i == FindPointer(chain, f, files)
<1>1. b \in 1 .. Len(list)
    BY BucketIs DEF TableOK
<1>2. Lists(chain, DOMAIN files, InBucket(E, files, Len(list), b))
    BY <1>1 DEF TableOK
<1>3. /\ chain \in Seq(DOMAIN files) /\ DOMAIN chain = 1 .. Len(chain)
      /\ ToSet(chain) = InBucket(E, files, Len(list), b)
    BY <1>2 DEF Lists
<1>4. \/ i = 0 /\ \A j \in 1 .. Len(chain) : files[chain[j]] # f
      \/ i \in 1 .. Len(chain) /\ files[chain[i]] = f
    BY FindIs
<1>5. \A k \in E : files[k] = f => k \in ToSet(chain)
    BY <1>3 DEF InBucket
<1>6. \A j \in 1 .. Len(chain) : chain[j] \in E
    BY <1>3 DEF ToSet, InBucket
<1>7. OnePerFile(E, files)
    BY DEF TableOK
<1> HIDE DEF b, chain, i
<1>8. CASE i = 0 /\ \A j \in 1 .. Len(chain) : files[chain[j]] # f
  <2>1. \A k \in E : files[k] # f
      BY <1>3, <1>5, <1>8 DEF ToSet
  <2>2. Finds(i, b, f, list, files, E)
      BY <1>8, <2>1 DEF Finds
  <2> QED BY <1>1, <2>2 DEF i, b, chain
<1>9. CASE i \in 1 .. Len(chain) /\ files[chain[i]] = f
  <2>1. \A k \in E : files[k] = f => k = chain[i]
      BY <1>6, <1>7, <1>9 DEF OnePerFile
  <2>2. Finds(i, b, f, list, files, E)
      BY <1>3, <1>6, <1>9, <2>1 DEF Finds, chain
  <2> QED BY <1>1, <2>2 DEF i, b, chain
<1> QED BY <1>4, <1>8, <1>9

LEMMA HandleFound ==
    ASSUME NEW files \in Seq(Files), NEW list, NEW E, TableOK(list, files, E), NEW f \in Files
    PROVE  \/ HandleIn(list, f, files) = 0 /\ \A k \in E : files[k] # f
           \/ /\ HandleIn(list, f, files) \in E /\ HandleIn(list, f, files) # 0
              /\ files[HandleIn(list, f, files)] = f
              /\ \A k \in E : files[k] = f => k = HandleIn(list, f, files)
<1> DEFINE b == Bucket(f, Len(list))
           i == FindPointer(list[b], f, files)
<1>1. HandleIn(list, f, files) = IF i = 0 THEN 0 ELSE list[b][i]
    BY DEF HandleIn
<1>2. b \in 1 .. Len(list) /\ Finds(i, b, f, list, files, E)
    BY PlaceFound
<1>3. DOMAIN list[b] = 1 .. Len(list[b]) /\ 0 \notin DOMAIN files /\ E \subseteq DOMAIN files
    BY <1>2 DEF TableOK, Lists
<1>4. 0 \notin DOMAIN list[b] /\ 0 \notin E
    BY <1>3
<1> HIDE DEF i, b
<1> QED BY <1>1, <1>2, <1>4 DEF Finds

LEMMA FilesGrow ==
    ASSUME NEW files \in Seq(Files), NEW list, NEW E, TableOK(list, files, E), NEW f \in Files
    PROVE  TableOK(list, Append(files, f), E)
<1> DEFINE more == Append(files, f)
<1>1. /\ DOMAIN files \subseteq DOMAIN more /\ \A h \in DOMAIN files : more[h] = files[h]
    OBVIOUS
<1>2. /\ list \in Seq(Seq(DOMAIN files)) /\ Len(list) \in Nat \ {0}
      /\ E \subseteq DOMAIN files /\ OnePerFile(E, files)
      /\ \A b \in 1 .. Len(list) : Lists(list[b], DOMAIN files, InBucket(E, files, Len(list), b))
    BY DEF TableOK
<1> HIDE DEF more
<1>3. list \in Seq(Seq(DOMAIN more))
    BY <1>1, <1>2
<1>4. OnePerFile(E, more)
    BY <1>1, <1>2 DEF OnePerFile
<1>5. ASSUME NEW b \in 1 .. Len(list) PROVE Lists(list[b], DOMAIN more, InBucket(E, more, Len(list), b))
  <2>1. InBucket(E, more, Len(list), b) = InBucket(E, files, Len(list), b)
      BY <1>1, <1>2 DEF InBucket
  <2>2. list[b] \in Seq(DOMAIN more)
      BY <1>3
  <2> QED BY <1>2, <2>1, <2>2 DEF Lists
<1> QED BY <1>1, <1>2, <1>3, <1>4, <1>5 DEF TableOK, more

LEMMA TableRemoves ==
    ASSUME NEW files \in Seq(Files), NEW list, NEW E, TableOK(list, files, E), NEW f \in Files
    PROVE  TableOK(TableRemove(list, f, files), files, E \ {HandleIn(list, f, files)})
<1> DEFINE b == Bucket(f, Len(list))
           h == HandleIn(list, f, files)
           F == E \ {h}
           chain == RemoveFirst(list[b], h)
<1>1. b \in 1 .. Len(list)
    BY BucketIs DEF TableOK
<1>2. Lists(list[b], DOMAIN files, InBucket(E, files, Len(list), b))
    BY <1>1 DEF TableOK
<1>3. h = 0 \/ (h \in E /\ files[h] = f)
    BY HandleFound
<1>4. TableRemove(list, f, files) = [list EXCEPT ![b] = chain]
    BY DEF TableRemove
<1>5. E \subseteq DOMAIN files /\ OnePerFile(E, files) /\ 0 \notin DOMAIN files
    BY DEF TableOK
<1>6. Lists(chain, DOMAIN files, InBucket(E, files, Len(list), b) \ {h})
    BY <1>2, ListRemove
<1> HIDE DEF h, chain
<1>7. InBucket(E, files, Len(list), b) \ {h} = InBucket(F, files, Len(list), b)
    BY DEF InBucket
<1>8. F \in SUBSET DOMAIN files /\ OnePerFile(F, files)
    BY <1>5 DEF OnePerFile
<1>9. \A k \in DOMAIN files : Bucket(files[k], Len(list)) # b => (k \in F <=> k \in E)
    BY <1>3, <1>5
<1> HIDE DEF F, b
<1>10. TableOK([list EXCEPT ![b] = chain], files, F)
    BY <1>1, <1>6, <1>7, <1>8, <1>9, OneChain
<1> QED BY <1>4, <1>10 DEF F, h

\* Doubling from a positive length, n times at least, comes above n.
LEMMA NewLengthIs == ASSUME NEW elems \in Nat PROVE NewLength(elems) \in Nat \ {0}
<1> DEFINE Q == [i \in 0 .. elems |-> {k \in Nat : k >= i + 1}]
           turn == [i \in 1 .. elems |-> [s \in Q[i - 1] |-> 2 * s]]
           base == FirstLength
           doubled[k \in 0 .. elems] == IF k = 0 THEN FirstLength ELSE 2 * doubled[k - 1]
           enough == {k \in 0 .. elems : doubled[k] >= elems}
<1>1. base \in Q[0]
    BY TableCacheAssumption
<1>2. \A i \in 1 .. elems : \A s \in Q[i - 1] : turn[i][s] = 2 * s /\ 2 * s \in Q[i]
  <2> SUFFICES ASSUME NEW i \in 1 .. elems, NEW s \in Q[i - 1] PROVE turn[i][s] = 2 * s /\ 2 * s \in Q[i]
      OBVIOUS
  <2>1. i - 1 \in 0 .. elems /\ i \in 0 .. elems
      OBVIOUS
  <2>2. s \in Nat /\ s >= (i - 1) + 1
      BY <2>1
  <2>3. 2 * s \in Nat /\ 2 * s >= i + 1
      BY <2>2
  <2> QED BY <2>1, <2>3
<1>3. PICK f : /\ f = [i \in 0 .. elems |-> IF i = 0 THEN base ELSE turn[i][f[i - 1]]]
               /\ \A i \in 0 .. elems : f[i] \in Q[i]
  <2> HIDE DEF Q, turn, base
  <2>1. Turns(elems, Q, base, turn)
      BY <1>1, <1>2 DEF Turns
  <2>2. HasStates(elems, Q, base, turn)
      BY <2>1, LoopHasStates
  <2> QED BY <2>2 DEF HasStates
<1>4. f = [k \in 0 .. elems |-> IF k = 0 THEN FirstLength ELSE 2 * f[k - 1]]
  <2>1. ASSUME NEW k \in 0 .. elems PROVE f[k] = IF k = 0 THEN FirstLength ELSE 2 * f[k - 1]
    <3>1. f[k] = IF k = 0 THEN base ELSE turn[k][f[k - 1]]
      <4> HIDE DEF base, turn
      <4> QED BY <1>3
    <3>2. CASE k # 0
      <4>1. k \in 1 .. elems /\ k - 1 \in 0 .. elems
          BY <3>2
      <4>2. f[k - 1] \in Q[k - 1]
        <5> HIDE DEF Q
        <5> QED BY <1>3, <4>1
      <4> HIDE DEF Q, turn
      <4> QED BY <1>2, <3>1, <3>2, <4>1, <4>2
    <3> QED BY <3>1, <3>2
  <2>2. DOMAIN f = 0 .. elems /\ f = [k \in DOMAIN f |-> f[k]]
    <3> HIDE DEF base, turn
    <3> QED BY <1>3
  <2> QED BY <2>1, <2>2
<1>5. doubled = [k \in 0 .. elems |-> IF k = 0 THEN FirstLength ELSE 2 * doubled[k - 1]]
    BY <1>4, Zenon
<1>6. NewLength(elems) = doubled[Min(enough)]
    BY DEF NewLength
<1> HIDE DEF doubled
<1>7. \A i \in 0 .. elems : doubled[i] \in Q[i]
  <2>1. doubled[0] \in Q[0]
      BY <1>1, <1>5
  <2>2. ASSUME NEW i \in 1 .. elems, doubled[i - 1] \in Q[i - 1] PROVE doubled[i] \in Q[i]
    <3>1. doubled[i] = 2 * doubled[i - 1]
        BY <1>5
    <3> HIDE DEF Q, turn
    <3> QED BY <1>2, <2>2, <3>1
  <2> HIDE DEF Q
  <2> QED BY <2>1, <2>2, LoopStaysIn
<1>8. \A i \in 0 .. elems : doubled[i] \in Nat /\ doubled[i] >= i + 1
    BY <1>7
<1>9. elems \in enough /\ enough \subseteq 0 .. elems
  <2>1. elems \in 0 .. elems
      OBVIOUS
  <2>2. doubled[elems] >= elems
      BY <1>8, <2>1
  <2> QED BY <2>1, <2>2
<1>10. Min(enough) \in 0 .. elems
  <2>1. enough # {} /\ enough \in SUBSET Nat
      BY <1>9
  <2> HIDE DEF enough
  <2> QED BY <1>9, <2>1, MinIsLeast
<1> HIDE DEF enough
<1>11. doubled[Min(enough)] \in Nat /\ doubled[Min(enough)] >= Min(enough) + 1 /\ Min(enough) >= 0
    BY <1>8, <1>10
<1> QED BY <1>6, <1>10, <1>11

LEMMA Pushes ==
    ASSUME NEW files \in Seq(Files), NEW q, NEW E, TableOK(q, files, E), NEW h \in DOMAIN files,
           \A k \in E : files[k] # files[h], NEW b, b = Bucket(files[h], Len(q))
    PROVE  /\ TableOK([q EXCEPT ![b] = <<h>> \o q[b]], files, E \cup {h})
           /\ TableOK([q EXCEPT ![b] = Append(q[b], h)], files, E \cup {h})
<1> DEFINE F == E \cup {h}
           B == InBucket(E, files, Len(q), b)
<1>1. h \notin E /\ E \subseteq DOMAIN files /\ OnePerFile(E, files)
    BY DEF TableOK
<1>2. b \in 1 .. Len(q)
    BY FileOfHandle, BucketIs DEF TableOK
<1>3. Lists(q[b], DOMAIN files, B) /\ h \notin B
    BY <1>1, <1>2 DEF TableOK, InBucket
<1>4. InBucket(F, files, Len(q), b) = B \cup {h}
    BY DEF InBucket
<1>5. F \in SUBSET DOMAIN files /\ OnePerFile(F, files)
    BY <1>1 DEF OnePerFile
<1>6. \A k \in DOMAIN files : Bucket(files[k], Len(q)) # b => (k \in F <=> k \in E)
    OBVIOUS
<1> HIDE DEF F, B
<1>7. Lists(<<h>> \o q[b], DOMAIN files, B \cup {h}) /\ Lists(Append(q[b], h), DOMAIN files, B \cup {h})
    BY <1>3, ListPush, ListAppend
<1> DEFINE front == <<h>> \o q[b]
           back == Append(q[b], h)
<1> HIDE DEF front, back
<1>8. Lists(front, DOMAIN files, InBucket(F, files, Len(q), b)) /\ Lists(back, DOMAIN files, InBucket(F, files, Len(q), b))
    BY <1>4, <1>7 DEF front, back
<1>9. TableOK([q EXCEPT ![b] = front], files, F) /\ TableOK([q EXCEPT ![b] = back], files, F)
    BY <1>2, <1>5, <1>6, <1>8, OneChain
<1> QED BY <1>9 DEF front, back, F

LEMMA EmptyTable ==
    ASSUME NEW files \in Seq(Files), NEW n \in Nat \ {0}
    PROVE  TableOK([b \in 1 .. n |-> <<>>], files, {}) /\ Len([b \in 1 .. n |-> <<>>]) = n
<1> DEFINE q == [b \in 1 .. n |-> <<>>]
<1>1. q \in Seq(Seq(DOMAIN files)) /\ Len(q) = n
    OBVIOUS
<1>2. Lists(<<>>, DOMAIN files, {})
    BY DEF Lists, IsInjective, ToSet
<1>3. \A b \in 1 .. n : InBucket({}, files, n, b) = {} /\ q[b] = <<>>
    BY DEF InBucket
<1> HIDE DEF q
<1> QED BY <1>1, <1>2, <1>3 DEF TableOK, OnePerFile, q

\* Every handle finds its chain in the longer table.
LEMMA TableGrows ==
    ASSUME NEW files \in Seq(Files), NEW list, NEW E, TableOK(list, files, E)
    PROVE  TableOK(Resize(list, files), files, E)
<1> DEFINE length == NewLength(Cardinality(Cached(list)))
           all == FlattenSeq(list)
           n == Len(all)
           Seen(i) == {all[j] : j \in 1 .. i}
           Q == [i \in 0 .. n |-> {q \in Seq(Seq(DOMAIN files)) : TableOK(q, files, Seen(i)) /\ Len(q) = length}]
           turn == [i \in 1 .. n |-> [q \in Q[i - 1] |->
                        [q EXCEPT ![Bucket(files[all[i]], length)] = <<all[i]>> \o @]]]
           base == [b \in 1 .. length |-> <<>>]
           pushed[i \in 0 .. n] ==
               IF i = 0 THEN base
               ELSE [pushed[i - 1] EXCEPT ![Bucket(files[all[i]], length)] = <<all[i]>> \o @]
<1>1. length \in Nat \ {0}
    BY TableHolds, NewLengthIs
<1>2. Lists(all, DOMAIN files, E)
  <2>1. /\ list \in Seq(Seq(DOMAIN files)) /\ Len(list) # 0 /\ DOMAIN list = 1 .. Len(list)
        /\ \A b \in 1 .. Len(list) : IsInjective(list[b]) /\ ToSet(list[b]) = InBucket(E, files, Len(list), b)
      BY DEF TableOK, Lists
  <2>2. \A b, c \in DOMAIN list : b # c => ToSet(list[b]) \cap ToSet(list[c]) = {}
      BY <2>1 DEF InBucket
  <2>3. Lists(FlattenSeq(list), DOMAIN files, Cached(list))
      BY <2>1, <2>2, Flattened
  <2> QED BY <2>3, TableHolds
<1>3. /\ all \in Seq(DOMAIN files) /\ n \in Nat /\ DOMAIN all = 1 .. n /\ IsInjective(all) /\ ToSet(all) = E
    BY <1>2 DEF Lists
<1>4. OnePerFile(E, files) /\ Seen(n) = E /\ Seen(0) = {}
  <2>1. OnePerFile(E, files)
      BY DEF TableOK
  <2>2. Seen(n) = E
    <3> HIDE DEF n
    <3> QED BY <1>3 DEF ToSet
  <2>3. 1 .. 0 = {}
      OBVIOUS
  <2> QED BY <2>1, <2>2, <2>3
<1> HIDE DEF length, all
<1>5. base \in Q[0]
  <2>1. TableOK(base, files, {}) /\ Len(base) = length /\ base \in Seq(Seq(DOMAIN files))
      BY <1>1, EmptyTable DEF TableOK
  <2> HIDE DEF base, Seen, n
  <2>2. 0 \in 0 .. n
      BY <1>3
  <2>3. TableOK(base, files, Seen(0))
      BY <1>4, <2>1, Zenon
  <2> QED BY <2>1, <2>2, <2>3
<1>6. ASSUME NEW i \in 1 .. n, NEW q, TableOK(q, files, Seen(i - 1)), Len(q) = length
      PROVE  /\ TableOK([q EXCEPT ![Bucket(files[all[i]], length)] = <<all[i]>> \o @], files, Seen(i))
             /\ Len([q EXCEPT ![Bucket(files[all[i]], length)] = <<all[i]>> \o @]) = length
  <2> DEFINE h == all[i]
             b == Bucket(files[h], length)
             old == Seen(i - 1)
  <2>1. h \in DOMAIN files /\ h \in E
      BY <1>3 DEF ToSet
  <2>2. old \subseteq E /\ h \notin old
    <3>1. \A j \in 1 .. i - 1 : j \in DOMAIN all /\ i \in DOMAIN all /\ j # i
        BY <1>3
    <3> QED BY <1>3, <3>1 DEF ToSet, IsInjective
  <2>3. \A k \in old : files[k] # files[h]
      BY <1>4, <2>1, <2>2 DEF OnePerFile
  <2>4. Seen(i) = old \cup {h}
    <3>1. 1 .. i = (1 .. i - 1) \cup {i}
        BY <1>3
    <3> QED BY <3>1
  <2> HIDE DEF old, h, Seen
  <2>5. TableOK([q EXCEPT ![b] = <<h>> \o q[b]], files, old \cup {h})
      BY <1>6, <2>1, <2>3, Pushes DEF old
  <2>6. Len([q EXCEPT ![b] = <<h>> \o q[b]]) = length
    <3>1. q \in Seq(Seq(DOMAIN files))
        BY <1>6 DEF TableOK
    <3>2. DOMAIN [q EXCEPT ![b] = <<h>> \o q[b]] = DOMAIN q /\ DOMAIN q = 1 .. length
        BY <1>6, <3>1
    <3> QED BY <1>1, <1>6, <2>5 DEF TableOK
  <2> QED BY <2>4, <2>5, <2>6 DEF h
<1>7. \A i \in 1 .. n : \A q \in Q[i - 1] :
        /\ turn[i][q] = [q EXCEPT ![Bucket(files[all[i]], length)] = <<all[i]>> \o @]
        /\ turn[i][q] \in Q[i]
  <2> SUFFICES ASSUME NEW i \in 1 .. n, NEW q \in Q[i - 1]
               PROVE  /\ turn[i][q] = [q EXCEPT ![Bucket(files[all[i]], length)] = <<all[i]>> \o @]
                      /\ turn[i][q] \in Q[i]
      OBVIOUS
  <2> DEFINE r == [q EXCEPT ![Bucket(files[all[i]], length)] = <<all[i]>> \o @]
  <2>1. i - 1 \in 0 .. n /\ i \in 0 .. n
      BY <1>3
  <2>2. turn[i][q] = r
    <3> HIDE DEF Q
    <3> QED OBVIOUS
  <2>3. TableOK(q, files, Seen(i - 1)) /\ Len(q) = length
    <3> HIDE DEF Seen, n
    <3> QED BY <2>1
  <2>4. TableOK(r, files, Seen(i)) /\ Len(r) = length
    <3> HIDE DEF Seen, n
    <3> QED BY <1>6, <2>3
  <2>5. r \in Seq(Seq(DOMAIN files))
      BY <2>4 DEF TableOK
  <2> HIDE DEF r, turn, Seen, n
  <2>6. r \in Q[i]
      BY <2>1, <2>4, <2>5
  <2> QED BY <2>2, <2>6 DEF r
<1>8. PICK f : /\ f = [i \in 0 .. n |-> IF i = 0 THEN base ELSE turn[i][f[i - 1]]]
               /\ \A i \in 0 .. n : f[i] \in Q[i]
  <2> HIDE DEF n, Q, turn, base
  <2>1. Turns(n, Q, base, turn)
      BY <1>5, <1>7 DEF Turns
  <2>2. HasStates(n, Q, base, turn)
      BY <1>3, <2>1, LoopHasStates
  <2> QED BY <2>2 DEF HasStates
<1>9. f = [i \in 0 .. n |-> IF i = 0 THEN base
                            ELSE [f[i - 1] EXCEPT ![Bucket(files[all[i]], length)] = <<all[i]>> \o @]]
  <2>1. ASSUME NEW i \in 0 .. n
        PROVE  f[i] = IF i = 0 THEN base
                      ELSE [f[i - 1] EXCEPT ![Bucket(files[all[i]], length)] = <<all[i]>> \o @]
    <3>1. f[i] = IF i = 0 THEN base ELSE turn[i][f[i - 1]]
      <4> HIDE DEF base, turn, n
      <4> QED BY <1>8
    <3>2. CASE i # 0
      <4>1. i \in 1 .. n /\ i - 1 \in 0 .. n
          BY <1>3, <3>2
      <4> HIDE DEF Q, turn, n
      <4>2. f[i - 1] \in Q[i - 1]
          BY <1>8, <4>1
      <4>3. turn[i][f[i - 1]] = [f[i - 1] EXCEPT ![Bucket(files[all[i]], length)] = <<all[i]>> \o @]
          BY <1>7, <4>1, <4>2
      <4> QED BY <3>1, <3>2, <4>3
    <3> QED BY <3>1, <3>2
  <2>2. DOMAIN f = 0 .. n /\ f = [i \in DOMAIN f |-> f[i]]
    <3> HIDE DEF base, turn, n
    <3> QED BY <1>8
  <2> HIDE DEF base, n
  <2> QED BY <2>1, <2>2
<1>10. pushed = [i \in 0 .. n |-> IF i = 0 THEN base
                 ELSE [pushed[i - 1] EXCEPT ![Bucket(files[all[i]], length)] = <<all[i]>> \o @]]
    BY <1>9, Zenon
<1>11. Resize(list, files) = pushed[n]
    BY DEF Resize, length, all
<1> HIDE DEF pushed
<1>12. \A i \in 0 .. n : pushed[i] \in Q[i]
  <2>1. pushed[0] = base
    <3> HIDE DEF base
    <3> QED BY <1>3, <1>10
  <2>2. ASSUME NEW i \in 1 .. n, pushed[i - 1] \in Q[i - 1] PROVE pushed[i] \in Q[i]
    <3>1. i \in 0 .. n /\ i # 0
        BY <1>3
    <3> HIDE DEF base, turn, Q, n
    <3>2. pushed[i] = [pushed[i - 1] EXCEPT ![Bucket(files[all[i]], length)] = <<all[i]>> \o @]
        BY <1>10, <3>1
    <3> QED BY <1>7, <2>2, <3>2
  <2>3. pushed[0] \in Q[0]
    <3> HIDE DEF base, Q
    <3> QED BY <1>5, <2>1
  <2> HIDE DEF Q, n
  <2> QED BY <1>3, <2>2, <2>3, LoopStaysIn
<1>13. n \in 0 .. n
    BY <1>3
<1>14. TableOK(pushed[n], files, Seen(n))
  <2> HIDE DEF Seen, n
  <2> QED BY <1>12, <1>13
<1> HIDE DEF Seen, n
<1> QED BY <1>4, <1>11, <1>14

Inserted(new, h, files, E) ==
    \/ new.old = 0 /\ (\A k \in E : files[k] # files[h]) /\ TableOK(new.list, files, E \cup {h})
    \/ /\ new.old \in E /\ new.old # 0 /\ files[new.old] = files[h]
       /\ TableOK(new.list, files, (E \ {new.old}) \cup {h})
LEMMA TableInserts ==
    ASSUME NEW files \in Seq(Files), NEW E, TableOK(buckets, files, E), NEW h \in DOMAIN files, h \notin E
    PROVE  Inserted(TableInsert(h, files), h, files, E)
<1> DEFINE b == Bucket(files[h], Len(buckets))
           i == FindPointer(buckets[b], files[h], files)
           grown == [buckets EXCEPT ![b] = Append(buckets[b], h)]
           new == TableInsert(h, files)
<1>1. b \in 1 .. Len(buckets) /\ Finds(i, b, files[h], buckets, files, E)
    BY FileOfHandle, PlaceFound
<1>2. new = IF i # 0
            THEN [old |-> buckets[b][i], list |-> [buckets EXCEPT ![b] = [buckets[b] EXCEPT ![i] = h]]]
            ELSE [old |-> 0, list |-> IF Cardinality(Cached(grown)) > Len(buckets) THEN Resize(grown, files) ELSE grown]
    BY DEF TableInsert
<1>3. /\ buckets \in Seq(Seq(DOMAIN files)) /\ E \subseteq DOMAIN files /\ OnePerFile(E, files)
      /\ Lists(buckets[b], DOMAIN files, InBucket(E, files, Len(buckets), b))
    BY <1>1 DEF TableOK
<1>4. DOMAIN buckets[b] = 1 .. Len(buckets[b]) /\ 0 \notin DOMAIN files
    BY <1>3 DEF Lists
<1>5. CASE i = 0 /\ \A k \in E : files[k] # files[h]
  <2>1. TableOK(grown, files, E \cup {h})
      BY <1>5, Pushes
  <2> HIDE DEF grown, b, i
  <2>2. TableOK(Resize(grown, files), files, E \cup {h})
      BY <2>1, TableGrows
  <2> HIDE DEF new
  <2>3. new.old = 0 /\ TableOK(new.list, files, E \cup {h})
      BY <1>2, <1>5, <2>1, <2>2
  <2> QED BY <1>5, <2>3 DEF Inserted, new
<1>6. CASE /\ i \in DOMAIN buckets[b] /\ buckets[b][i] \in E /\ files[buckets[b][i]] = files[h]
           /\ \A k \in E : files[k] = files[h] => k = buckets[b][i]
  <2> DEFINE old == buckets[b][i]
             F == (E \ {old}) \cup {h}
             chain == [buckets[b] EXCEPT ![i] = h]
             B == InBucket(E, files, Len(buckets), b)
  <2>1. h \notin B
      BY DEF InBucket
  <2>2. Lists(chain, DOMAIN files, (B \ {old}) \cup {h})
    <3> HIDE DEF B, b, i
    <3> QED BY <1>3, <1>6, <2>1, ListReplace DEF B
  <2>3. (B \ {old}) \cup {h} = InBucket(F, files, Len(buckets), b)
    <3> HIDE DEF i, old
    <3> QED BY DEF InBucket
  <2>4. F \in SUBSET DOMAIN files /\ OnePerFile(F, files)
    <3> HIDE DEF b, i
    <3> QED BY <1>3, <1>6 DEF OnePerFile
  <2>5. Bucket(files[old], Len(buckets)) = b
      BY <1>6
  <2>6. \A k \in DOMAIN files : Bucket(files[k], Len(buckets)) # b => (k \in F <=> k \in E)
    <3> HIDE DEF old, i
    <3> QED BY <2>5
  <2> HIDE DEF F, B, chain
  <2>7. TableOK([buckets EXCEPT ![b] = chain], files, F)
    <3>1. Lists(chain, DOMAIN files, InBucket(F, files, Len(buckets), b))
        BY <2>2, <2>3
    <3> HIDE DEF b, i, old
    <3> QED BY <1>1, <2>4, <2>6, <3>1, OneChain DEF b
  <2> HIDE DEF b, i, new
  <2>8. i # 0 /\ old # 0 /\ old \in E /\ files[old] = files[h]
      BY <1>3, <1>4, <1>6
  <2>9. new.old = old /\ new.list = [buckets EXCEPT ![b] = chain]
      BY <1>2, <2>8 DEF chain
  <2> HIDE DEF old
  <2> QED BY <2>7, <2>8, <2>9 DEF Inserted, F, new
<1> HIDE DEF i, b
<1> QED BY <1>1, <1>5, <1>6 DEF Finds

-----------------------------------------------------------------------------
(* The shard: references, usage and mappings, the list and the table. *)

ShardOf(files) ==
    [refs : Seq(Nat), usage : Nat, lru : Seq(DOMAIN files), buckets : Seq(Seq(DOMAIN files)), allowed : Nat,
     mapped : Seq(BOOLEAN)]
Alive(s) == {h \in DOMAIN s.refs : s.refs[h] > 0}
AliveMapped(s) == {h \in DOMAIN s.refs : s.refs[h] > 0 /\ s.mapped[h] = TRUE}

\* The charge and the mappings are those of the open tables, and of the threads that
\* open one, of which pending have a mapping.
Counted(s, files, pending) ==
    /\ s \in ShardOf(files) /\ Len(s.refs) = Len(files) /\ Len(s.mapped) = Len(files)
    /\ s.usage = Cardinality(Alive(s))
    /\ MaxMaps = s.allowed + Cardinality(AliveMapped(s)) + pending

\* The list holds a reference of each of its handles; the others are held by users.
Held(s, files, held) ==
    /\ IsInjective(s.lru) /\ ToSet(s.lru) \subseteq DOMAIN files
    /\ \A h \in DOMAIN files : s.refs[h] = held[h] + (IF h \in ToSet(s.lru) THEN 1 ELSE 0)
Linked(s, files, held) == Held(s, files, held) /\ TableOK(s.buckets, files, ToSet(s.lru))

\* What is left when a reference of a handle goes.
Lessened(r, s, h) ==
    /\ r.refs = [s.refs EXCEPT ![h] = s.refs[h] - 1]
    /\ r.usage = IF s.refs[h] = 1 THEN s.usage - 1 ELSE s.usage
    /\ r.allowed = IF s.refs[h] = 1 /\ s.mapped[h] = TRUE THEN s.allowed + 1 ELSE s.allowed
    /\ r.lru = s.lru /\ r.buckets = s.buckets /\ r.mapped = s.mapped
LEMMA UnrefIs ==
    ASSUME NEW files, NEW s, s \in ShardOf(files), NEW h, h \in DOMAIN s.refs, s.refs[h] > 0
    PROVE  Lessened(Unref(s, h), s, h)
    BY DEF Unref, ShardOf, Lessened

LEMMA ShardStays ==
    ASSUME NEW files, NEW s \in ShardOf(files), NEW x \in Seq(Nat), NEW y \in Nat, NEW z \in Nat
    PROVE  [s EXCEPT !.refs = x, !.usage = y, !.allowed = z] \in ShardOf(files)
    BY DEF ShardOf

LEMMA UnrefCounted ==
    ASSUME NEW files \in Seq(Files), NEW s, NEW pending \in Nat, Counted(s, files, pending),
           NEW h \in DOMAIN files, s.refs[h] > 0
    PROVE  Counted(Unref(s, h), files, pending) /\ Unref(s, h).usage <= s.usage
<1> DEFINE r == Unref(s, h)
           A == Alive(s)
           M == AliveMapped(s)
           last == s.refs[h] = 1
<1>1. /\ s \in ShardOf(files) /\ s.refs \in Seq(Nat) /\ s.mapped \in Seq(BOOLEAN) /\ s.usage \in Nat /\ s.allowed \in Nat
      /\ DOMAIN s.refs = DOMAIN files /\ DOMAIN s.mapped = DOMAIN files
      /\ Len(s.refs) = Len(files) /\ Len(s.mapped) = Len(files)
      /\ s.usage = Cardinality(A) /\ MaxMaps = s.allowed + Cardinality(M) + pending
    BY DEF Counted, ShardOf
<1>2. /\ r.refs = [s.refs EXCEPT ![h] = s.refs[h] - 1]
      /\ r.usage = IF last THEN s.usage - 1 ELSE s.usage
      /\ r.allowed = IF last /\ s.mapped[h] = TRUE THEN s.allowed + 1 ELSE s.allowed
      /\ r.lru = s.lru /\ r.buckets = s.buckets /\ r.mapped = s.mapped
  <2>1. h \in DOMAIN s.refs
      BY <1>1
  <2>2. Lessened(r, s, h)
      BY <1>1, <2>1, UnrefIs
  <2> HIDE DEF r
  <2> QED BY <2>2 DEF Lessened
<1>3. IsFiniteSet(A) /\ IsFiniteSet(M) /\ Cardinality(A) \in Nat /\ Cardinality(M) \in Nat
  <2>1. IsFiniteSet(DOMAIN files)
    <3>1. DOMAIN files = 1 .. Len(files) /\ Len(files) \in Nat
        OBVIOUS
    <3> QED BY <3>1, FS_Interval
  <2>2. A \subseteq DOMAIN files /\ M \subseteq DOMAIN files
      BY <1>1 DEF Alive, AliveMapped
  <2> QED BY <2>1, <2>2, FS_Subset, FS_CardinalityType
<1>4. s.refs[h] \in Nat /\ (~last => s.refs[h] - 1 > 0) /\ (last => ~(s.refs[h] - 1 > 0))
    BY <1>1
<1>5. h \in A /\ (h \in M <=> s.mapped[h] = TRUE)
    BY <1>1 DEF Alive, AliveMapped
<1>6. /\ DOMAIN r.refs = DOMAIN files /\ r.refs[h] = s.refs[h] - 1
      /\ \A k \in DOMAIN files : k # h => r.refs[k] = s.refs[k]
    BY <1>1, <1>2
<1>7. Alive(r) = IF last THEN A \ {h} ELSE A
  <2> HIDE DEF r, last
  <2>1. \A k \in DOMAIN files : r.refs[k] > 0 <=> s.refs[k] > 0 /\ ~(last /\ k = h)
      BY <1>4, <1>6
  <2> QED BY <1>1, <1>6, <2>1 DEF Alive
<1>8. AliveMapped(r) = IF last THEN M \ {h} ELSE M
  <2> HIDE DEF r, last
  <2>1. \A k \in DOMAIN files : r.refs[k] > 0 <=> s.refs[k] > 0 /\ ~(last /\ k = h)
      BY <1>4, <1>6
  <2>2. r.mapped = s.mapped
      BY <1>2
  <2> QED BY <1>1, <1>6, <2>1, <2>2 DEF AliveMapped
<1>9. Cardinality(A \ {h}) = Cardinality(A) - 1
    BY <1>3, <1>5, FS_RemoveElement
<1>10. Cardinality(M \ {h}) = IF s.mapped[h] = TRUE THEN Cardinality(M) - 1 ELSE Cardinality(M)
    BY <1>3, <1>5, FS_RemoveElement
<1> HIDE DEF r, A, M, last
<1>11. r.usage = Cardinality(Alive(r)) /\ r.usage \in Nat /\ r.usage <= s.usage
  <2>1. Cardinality(Alive(r)) = IF last THEN Cardinality(A) - 1 ELSE Cardinality(A)
      BY <1>7, <1>9
  <2>2. last => Cardinality(A) # 0
      BY <1>3, <1>5, FS_EmptySet
  <2> QED BY <1>1, <1>2, <1>3, <2>1, <2>2
<1>12. MaxMaps = r.allowed + Cardinality(AliveMapped(r)) + pending /\ r.allowed \in Nat
  <2>1. Cardinality(AliveMapped(r)) = IF last /\ s.mapped[h] = TRUE THEN Cardinality(M) - 1 ELSE Cardinality(M)
      BY <1>8, <1>10
  <2> DEFINE back == last /\ s.mapped[h] = TRUE
  <2>2. /\ Cardinality(AliveMapped(r)) = IF back THEN Cardinality(M) - 1 ELSE Cardinality(M)
        /\ r.allowed = IF back THEN s.allowed + 1 ELSE s.allowed
      BY <1>2, <2>1
  <2>3. s.allowed \in Nat /\ MaxMaps = s.allowed + Cardinality(M) + pending /\ Cardinality(M) \in Nat
      BY <1>1, <1>3
  <2> HIDE DEF back
  <2> QED BY <2>2, <2>3
<1>13. r \in ShardOf(files) /\ Len(r.refs) = Len(files) /\ Len(r.mapped) = Len(files)
  <2>1. r.refs \in Seq(Nat) /\ Len(r.refs) = Len(files)
    <3>1. s.refs[h] - 1 \in Nat
        BY <1>4
    <3> QED BY <1>1, <1>2, <3>1
  <2>2. [s EXCEPT !.refs = r.refs, !.usage = r.usage, !.allowed = r.allowed] \in ShardOf(files)
      BY <1>1, <1>11, <1>12, <2>1, ShardStays
  <2>3. r = [s EXCEPT !.refs = r.refs, !.usage = r.usage, !.allowed = r.allowed]
      BY <1>1 DEF r, Unref, ShardOf
  <2> QED BY <1>1, <1>2, <2>1, <2>2, <2>3
<1> QED BY <1>11, <1>12, <1>13 DEF Counted, r

\* A handle leaves the list, and with it the reference of the cache goes.
Leaves(h, s, r, files) ==
    /\ h \in ToSet(s.lru)
    /\ r \in ShardOf(files) /\ r.refs = s.refs /\ r.usage = s.usage /\ r.allowed = s.allowed /\ r.mapped = s.mapped
    /\ Lists(r.lru, DOMAIN files, ToSet(s.lru) \ {h}) /\ TableOK(r.buckets, files, ToSet(s.lru) \ {h})
LEMMA Dropped ==
    ASSUME NEW files \in Seq(Files), NEW held \in [DOMAIN files -> Nat], NEW pending \in Nat,
           NEW s, Counted(s, files, pending), Held(s, files, held), NEW h, NEW r, Leaves(h, s, r, files)
    PROVE  /\ Counted(Unref(r, h), files, pending) /\ Linked(Unref(r, h), files, held)
           /\ Unref(r, h).usage <= s.usage /\ Unref(r, h).lru = r.lru
<1>0. /\ h \in ToSet(s.lru)
      /\ r \in ShardOf(files) /\ r.refs = s.refs /\ r.usage = s.usage /\ r.allowed = s.allowed /\ r.mapped = s.mapped
      /\ Lists(r.lru, DOMAIN files, ToSet(s.lru) \ {h}) /\ TableOK(r.buckets, files, ToSet(s.lru) \ {h})
    BY DEF Leaves
<1>1. Counted(r, files, pending)
  <2>1. Alive(r) = Alive(s) /\ AliveMapped(r) = AliveMapped(s)
      BY <1>0 DEF Alive, AliveMapped
  <2> QED BY <1>0, <2>1 DEF Counted
<1>2. h \in DOMAIN files /\ s.refs[h] = held[h] + 1 /\ DOMAIN s.refs = DOMAIN files /\ held[h] \in Nat
  <2>1. h \in DOMAIN files /\ s.refs[h] = held[h] + 1 /\ held[h] \in Nat
      BY <1>0 DEF Held
  <2>2. DOMAIN s.refs = DOMAIN files
      BY DEF Counted, ShardOf
  <2> QED BY <2>1, <2>2
<1>3. r.refs[h] > 0
    BY <1>0, <1>2
<1>4. Counted(Unref(r, h), files, pending) /\ Unref(r, h).usage <= s.usage
    BY <1>0, <1>1, <1>2, <1>3, UnrefCounted
<1>5. /\ Unref(r, h).refs = [r.refs EXCEPT ![h] = r.refs[h] - 1]
      /\ Unref(r, h).lru = r.lru /\ Unref(r, h).buckets = r.buckets
  <2>1. h \in DOMAIN r.refs
      BY <1>0, <1>2
  <2>2. Lessened(Unref(r, h), r, h)
      BY <1>0, <1>3, <2>1, UnrefIs
  <2> QED BY <2>2 DEF Lessened
<1> DEFINE u == Unref(r, h)
<1>6. ToSet(u.lru) = ToSet(s.lru) \ {h} /\ IsInjective(u.lru)
    BY <1>0, <1>5 DEF Lists
<1>7. \A k \in DOMAIN files : u.refs[k] = held[k] + (IF k \in ToSet(u.lru) THEN 1 ELSE 0)
  <2> HIDE DEF u
  <2> SUFFICES ASSUME NEW k \in DOMAIN files PROVE u.refs[k] = held[k] + (IF k \in ToSet(u.lru) THEN 1 ELSE 0)
      OBVIOUS
  <2>1. s.refs[k] = held[k] + (IF k \in ToSet(s.lru) THEN 1 ELSE 0) /\ held[k] \in Nat
      BY DEF Held
  <2>2. u.refs[k] = IF k = h THEN s.refs[h] - 1 ELSE s.refs[k]
      BY <1>0, <1>2, <1>5 DEF u
  <2> QED BY <1>2, <1>6, <2>1, <2>2
<1>8. ToSet(u.lru) \subseteq DOMAIN files
    BY <1>6 DEF Held
<1>9. TableOK(u.buckets, files, ToSet(u.lru))
    BY <1>0, <1>5, <1>6
<1> QED BY <1>4, <1>5, <1>6, <1>7, <1>8, <1>9 DEF Linked, Held

\* What holds of the shard between two calls.
ShardInv(s, files, held, pending, E) ==
    Counted(s, files, pending) /\ Linked(s, files, held) /\ ToSet(s.lru) \subseteq E

LEMMA EvictsOldest ==
    ASSUME NEW files \in Seq(Files), NEW held \in [DOMAIN files -> Nat], NEW pending \in Nat, NEW E,
           NEW s, ShardInv(s, files, held, pending, E)
    PROVE  /\ ShardInv(EvictOldest(s, files), files, held, pending, E)
           /\ EvictOldest(s, files).usage <= s.usage /\ s.usage \in Nat /\ Len(s.lru) \in Nat
           /\ s.usage > Capacity /\ Len(s.lru) # 0 => Len(EvictOldest(s, files).lru) = Len(s.lru) - 1
           /\ s.usage <= Capacity => EvictOldest(s, files) = s
<1>1. /\ s \in ShardOf(files) /\ s.usage \in Nat /\ Counted(s, files, pending) /\ Held(s, files, held)
      /\ TableOK(s.buckets, files, ToSet(s.lru)) /\ s.lru \in Seq(DOMAIN files) /\ Len(s.lru) \in Nat
    BY DEF ShardInv, Linked, Counted, ShardOf
<1>2. CASE s.usage <= Capacity \/ s.lru = <<>>
  <2>1. EvictOldest(s, files) = s
      BY <1>2 DEF EvictOldest
  <2>2. s.usage > Capacity /\ Len(s.lru) # 0 => FALSE
      BY <1>1, <1>2, TableCacheAssumption
  <2> QED BY <1>1, <2>1, <2>2
<1>3. CASE ~(s.usage <= Capacity) /\ s.lru # <<>>
  <2> DEFINE h == s.lru[1]
             table == TableRemove(s.buckets, files[h], files)
             r == [s EXCEPT !.lru = Tail(s.lru), !.buckets = table]
  <2>1. Lists(s.lru, DOMAIN files, ToSet(s.lru))
      BY <1>1 DEF Lists, Held
  <2>2. /\ h \in ToSet(s.lru) /\ h \in DOMAIN files /\ Lists(Tail(s.lru), DOMAIN files, ToSet(s.lru) \ {h})
        /\ Len(Tail(s.lru)) = Len(s.lru) - 1
      BY <1>3, <2>1, ListTail
  <2>3. TableOK(table, files, ToSet(s.lru) \ {HandleIn(s.buckets, files[h], files)})
      BY <1>1, <2>2, FileOfHandle, TableRemoves
  <2>4. HandleIn(s.buckets, files[h], files) = h
    <3> DEFINE f == files[h]
    <3>1. f \in Files
        BY <2>2, FileOfHandle
    <3>2. \/ HandleIn(s.buckets, f, files) = 0 /\ \A k \in ToSet(s.lru) : files[k] # f
          \/ \A k \in ToSet(s.lru) : files[k] = f => k = HandleIn(s.buckets, f, files)
      <4> HIDE DEF f
      <4> QED BY <1>1, <3>1, HandleFound
    <3> QED BY <2>2, <3>2
  <2>5. TableOK(table, files, ToSet(s.lru) \ {h})
      BY <2>3, <2>4
  <2>6. EvictOldest(s, files) = Unref(r, h)
      BY <1>3 DEF EvictOldest
  <2>7. Tail(s.lru) \in Seq(DOMAIN files) /\ table \in Seq(Seq(DOMAIN files))
      BY <2>2, <2>5 DEF Lists, TableOK
  <2> HIDE DEF table, h
  <2>8. /\ r \in ShardOf(files) /\ r.refs = s.refs /\ r.usage = s.usage /\ r.allowed = s.allowed
        /\ r.mapped = s.mapped /\ r.lru = Tail(s.lru) /\ r.buckets = table
      BY <1>1, <2>7 DEF ShardOf
  <2> HIDE DEF r
  <2>9. /\ Counted(Unref(r, h), files, pending) /\ Linked(Unref(r, h), files, held)
        /\ Unref(r, h).usage <= s.usage /\ Unref(r, h).lru = r.lru
    <3>1. Lists(r.lru, DOMAIN files, ToSet(s.lru) \ {h}) /\ TableOK(r.buckets, files, ToSet(s.lru) \ {h})
        BY <2>2, <2>5, <2>8
    <3>2. Leaves(h, s, r, files)
        BY <2>2, <2>8, <3>1 DEF Leaves
    <3>3. Counted(s, files, pending) /\ Held(s, files, held)
        BY <1>1
    <3>4. \A g, q : Leaves(g, s, q, files) =>
               /\ Counted(Unref(q, g), files, pending) /\ Linked(Unref(q, g), files, held)
               /\ Unref(q, g).usage <= s.usage /\ Unref(q, g).lru = q.lru
        BY <3>3, Dropped
    <3> QED BY <3>2, <3>4
  <2>10. ToSet(Unref(r, h).lru) \subseteq E
      BY <2>2, <2>8, <2>9 DEF Lists, ShardInv
  <2> QED BY <1>1, <1>3, <2>2, <2>6, <2>8, <2>9, <2>10 DEF ShardInv
<1> QED BY <1>2, <1>3

LEMMA EvictsWhileFull ==
    ASSUME NEW files \in Seq(Files), NEW held \in [DOMAIN files -> Nat], NEW pending \in Nat, NEW E,
           NEW s, ShardInv(s, files, held, pending, E)
    PROVE  /\ ShardInv(EvictWhileFull(s, files), files, held, pending, E)
           /\ EvictWhileFull(s, files).usage > Capacity => EvictWhileFull(s, files).lru = <<>>
<1> DEFINE n == Len(s.lru)
           Q == [i \in 0 .. n |-> {r \in ShardOf(files) : /\ ShardInv(r, files, held, pending, E)
                                                          /\ r.usage <= Capacity \/ Len(r.lru) = n - i}]
           turn == [i \in 1 .. n |-> [r \in Q[i - 1] |-> EvictOldest(r, files)]]
           evicted[i \in 0 .. n] == IF i = 0 THEN s ELSE EvictOldest(evicted[i - 1], files)
<1>1. n \in Nat /\ s \in ShardOf(files)
    BY EvictsOldest DEF ShardInv, Counted
<1>2. s \in Q[0]
  <2>1. Len(s.lru) = n - 0 /\ 0 \in 0 .. n
      BY <1>1
  <2> HIDE DEF n
  <2> QED BY <1>1, <2>1
<1>3. \A i \in 1 .. n : \A r \in Q[i - 1] :
         turn[i][r] = EvictOldest(r, files) /\ EvictOldest(r, files) \in Q[i]
  <2> SUFFICES ASSUME NEW i \in 1 .. n, NEW r \in Q[i - 1]
               PROVE  turn[i][r] = EvictOldest(r, files) /\ EvictOldest(r, files) \in Q[i]
      OBVIOUS
  <2> DEFINE u == EvictOldest(r, files)
  <2>1. i - 1 \in 0 .. n /\ i \in 0 .. n
      BY <1>1
  <2>2. turn[i][r] = u
    <3> HIDE DEF Q, n
    <3> QED OBVIOUS
  <2>3. ShardInv(r, files, held, pending, E) /\ (r.usage <= Capacity \/ Len(r.lru) = n - (i - 1))
    <3> HIDE DEF n
    <3> QED BY <2>1
  <2>4. /\ ShardInv(u, files, held, pending, E)
        /\ u.usage <= r.usage /\ r.usage \in Nat /\ Len(r.lru) \in Nat
        /\ r.usage > Capacity /\ Len(r.lru) # 0 => Len(u.lru) = Len(r.lru) - 1
      BY <2>3, EvictsOldest
  <2>5. u \in ShardOf(files) /\ u.usage \in Nat
      BY <2>4 DEF ShardInv, Counted, ShardOf
  <2> HIDE DEF u
  <2>6. u.usage <= Capacity \/ Len(u.lru) = n - i
    <3> HIDE DEF n
    <3>1. Capacity \in Nat
        BY TableCacheAssumption
    <3>2. CASE r.usage <= Capacity
        BY <2>4, <2>5, <3>1, <3>2
    <3>3. CASE ~(r.usage <= Capacity)
      <4>1. r.usage > Capacity
          BY <2>4, <3>1, <3>3
      <4>2. Len(r.lru) = n - (i - 1) /\ n - (i - 1) # 0 /\ (n - (i - 1)) - 1 = n - i
          BY <1>1, <2>3, <3>3
      <4>3. Len(u.lru) = Len(r.lru) - 1
          BY <2>4, <4>1, <4>2
      <4> QED BY <4>2, <4>3
    <3> QED BY <3>2, <3>3
  <2>7. u \in Q[i]
    <3> HIDE DEF n
    <3> QED BY <2>1, <2>4, <2>5, <2>6
  <2> QED BY <2>2, <2>7 DEF u
<1>4. PICK f : /\ f = [i \in 0 .. n |-> IF i = 0 THEN s ELSE turn[i][f[i - 1]]]
               /\ \A i \in 0 .. n : f[i] \in Q[i]
  <2> HIDE DEF n, Q, turn
  <2>1. Turns(n, Q, s, turn)
      BY <1>2, <1>3 DEF Turns
  <2>2. HasStates(n, Q, s, turn)
      BY <1>1, <2>1, LoopHasStates
  <2> QED BY <2>2 DEF HasStates
<1>5. f = [i \in 0 .. n |-> IF i = 0 THEN s ELSE EvictOldest(f[i - 1], files)]
  <2>1. ASSUME NEW i \in 0 .. n PROVE f[i] = IF i = 0 THEN s ELSE EvictOldest(f[i - 1], files)
    <3>1. f[i] = IF i = 0 THEN s ELSE turn[i][f[i - 1]]
      <4> HIDE DEF turn, n
      <4> QED BY <1>4
    <3>2. CASE i # 0
      <4>1. i \in 1 .. n /\ i - 1 \in 0 .. n
          BY <1>1, <3>2
      <4> HIDE DEF Q, turn, n
      <4>2. f[i - 1] \in Q[i - 1]
          BY <1>4, <4>1
      <4> QED BY <1>3, <3>1, <3>2, <4>1, <4>2
    <3> QED BY <3>1, <3>2
  <2>2. DOMAIN f = 0 .. n /\ f = [i \in DOMAIN f |-> f[i]]
    <3> HIDE DEF turn, n
    <3> QED BY <1>4
  <2> HIDE DEF n
  <2> QED BY <2>1, <2>2
<1>6. evicted = [i \in 0 .. n |-> IF i = 0 THEN s ELSE EvictOldest(evicted[i - 1], files)]
    BY <1>5, Zenon
<1>7. EvictWhileFull(s, files) = evicted[n]
    BY DEF EvictWhileFull
<1> HIDE DEF evicted
<1>8. \A i \in 0 .. n : evicted[i] \in Q[i]
  <2>1. evicted[0] \in Q[0]
    <3>1. evicted[0] = s
      <4> HIDE DEF n
      <4> QED BY <1>1, <1>6
    <3> HIDE DEF Q
    <3> QED BY <1>2, <3>1
  <2>2. ASSUME NEW i \in 1 .. n, evicted[i - 1] \in Q[i - 1] PROVE evicted[i] \in Q[i]
    <3>1. i \in 0 .. n /\ i # 0
        BY <1>1
    <3> HIDE DEF turn, Q, n
    <3>2. evicted[i] = EvictOldest(evicted[i - 1], files)
        BY <1>6, <3>1
    <3> QED BY <1>3, <2>2, <3>2
  <2> HIDE DEF Q, n
  <2> QED BY <1>1, <2>1, <2>2, LoopStaysIn
<1> DEFINE r == evicted[n]
<1>9. ShardInv(r, files, held, pending, E) /\ (r.usage <= Capacity \/ Len(r.lru) = n - n)
  <2>1. n \in 0 .. n
      BY <1>1
  <2> HIDE DEF n
  <2> QED BY <1>8, <2>1
<1>10. r.usage \in Nat /\ r.lru \in Seq(DOMAIN files) /\ n - n = 0
    BY <1>1, <1>9 DEF ShardInv, Counted, ShardOf
<1>11. r.usage > Capacity => r.lru = <<>>
  <2> HIDE DEF r
  <2>1. Capacity \in Nat
      BY TableCacheAssumption
  <2>2. r.usage > Capacity => Len(r.lru) = 0
      BY <1>9, <1>10, <2>1
  <2> QED BY <1>10, <2>2
<1> QED BY <1>7, <1>9, <1>11

\* A new table: its mapping passes from the thread that opened it to the handle.
One(h, list, isMapped) ==
    [Shard EXCEPT !.refs = Append(@, 2), !.usage = @ + 1, !.mapped = Append(@, isMapped),
                  !.lru = Append(@, h), !.buckets = list]
Grows(files, f, h, held, after) ==
    /\ fileOf \in Seq(Files) /\ f \in Files /\ files = Append(fileOf, f) /\ h = Len(fileOf) + 1
    /\ held \in [DOMAIN fileOf -> Nat] /\ after \in [DOMAIN files -> Nat]
    /\ after[h] = 1 /\ \A k \in DOMAIN fileOf : after[k] = held[k]
Passes(opening, pending, isMapped) ==
    isMapped \in BOOLEAN /\ pending \in Nat /\ opening = pending + (IF isMapped = TRUE THEN 1 ELSE 0)
LEMMA GrowsFacts ==
    ASSUME NEW files, NEW f, NEW h, NEW held, NEW after, Grows(files, f, h, held, after)
    PROVE  /\ files \in Seq(Files) /\ Len(fileOf) \in Nat /\ Len(files) = Len(fileOf) + 1
           /\ DOMAIN fileOf = 1 .. Len(fileOf) /\ h \in DOMAIN files /\ h \notin DOMAIN fileOf
           /\ DOMAIN files = DOMAIN fileOf \cup {h} /\ h = Len(fileOf) + 1
    BY DEF Grows

Added(s, h, list, files, after, pending) ==
    /\ Counted(s, files, pending) /\ Held(s, files, after)
    /\ Lists(s.lru, DOMAIN files, ToSet(lru) \cup {h}) /\ s.buckets = list
LEMMA OneCounted ==
    ASSUME NEW files, NEW f, NEW h, NEW held, NEW after, Grows(files, f, h, held, after),
           NEW pending, NEW isMapped, NEW opening, Passes(opening, pending, isMapped),
           Counted(Shard, fileOf, opening), Held(Shard, fileOf, held),
           NEW list \in Seq(Seq(DOMAIN files))
    PROVE  Added(One(h, list, isMapped), h, list, files, after, pending)
<1> DEFINE one == One(h, list, isMapped)
           n == Len(fileOf)
<1>0. isMapped \in BOOLEAN /\ pending \in Nat /\ opening = pending + (IF isMapped = TRUE THEN 1 ELSE 0)
    BY DEF Passes
<1>1. /\ files \in Seq(Files) /\ n \in Nat /\ Len(files) = n + 1
      /\ DOMAIN fileOf = 1 .. n /\ h \in DOMAIN files /\ h \notin DOMAIN fileOf
      /\ DOMAIN files = DOMAIN fileOf \cup {h} /\ h = n + 1
    BY GrowsFacts
<1>2. /\ refs \in Seq(Nat) /\ Len(refs) = n /\ mapped \in Seq(BOOLEAN) /\ Len(mapped) = n
      /\ usage \in Nat /\ allowed \in Nat /\ lru \in Seq(DOMAIN fileOf)
      /\ DOMAIN refs = 1 .. n /\ DOMAIN mapped = 1 .. n
    BY DEF Counted, ShardOf, Shard
<1>3. one = [refs |-> Append(refs, 2), usage |-> usage + 1, lru |-> Append(lru, h), buckets |-> list,
             allowed |-> allowed, mapped |-> Append(mapped, isMapped)]
  <2>1. /\ Shard.refs = refs /\ Shard.usage = usage /\ Shard.lru = lru /\ Shard.mapped = mapped
      BY DEF Shard
  <2>2. one = [Shard EXCEPT !.refs = Append(refs, 2), !.usage = usage + 1, !.mapped = Append(mapped, isMapped),
                            !.lru = Append(lru, h), !.buckets = list]
    <3> HIDE DEF Shard
    <3> QED BY <2>1 DEF One
  <2> DEFINE x == Append(refs, 2)
             y == usage + 1
             z == Append(mapped, isMapped)
             l == Append(lru, h)
  <2> HIDE DEF x, y, z, l, one
  <2>3. one = [Shard EXCEPT !.refs = x, !.usage = y, !.mapped = z, !.lru = l, !.buckets = list]
      BY <2>2 DEF x, y, z, l
  <2>4. one = [refs |-> x, usage |-> y, lru |-> l, buckets |-> list, allowed |-> allowed, mapped |-> z]
      BY <2>3 DEF Shard
  <2> QED BY <2>4 DEF x, y, z, l
<1>4. /\ one.refs = Append(refs, 2) /\ one.usage = usage + 1 /\ one.lru = Append(lru, h) /\ one.buckets = list
      /\ one.allowed = allowed /\ one.mapped = Append(mapped, isMapped)
    BY <1>3
<1> HIDE DEF one
<1>5. /\ Append(refs, 2) \in Seq(Nat) /\ Len(Append(refs, 2)) = n + 1
      /\ DOMAIN Append(refs, 2) = DOMAIN files
      /\ Append(refs, 2)[h] = 2 /\ \A k \in DOMAIN fileOf : Append(refs, 2)[k] = refs[k]
    BY <1>1, <1>2
<1>6. /\ Append(mapped, isMapped) \in Seq(BOOLEAN) /\ Len(Append(mapped, isMapped)) = n + 1
      /\ Append(mapped, isMapped)[h] = isMapped /\ \A k \in DOMAIN fileOf : Append(mapped, isMapped)[k] = mapped[k]
    BY <1>0, <1>1, <1>2
<1>7. Lists(Append(lru, h), DOMAIN files, ToSet(lru) \cup {h})
  <2>1. IsInjective(lru) /\ ToSet(lru) \subseteq DOMAIN fileOf
      BY DEF Held, Shard
  <2>2. Lists(lru, DOMAIN files, ToSet(lru)) /\ h \notin ToSet(lru)
      BY <1>1, <1>2, <2>1 DEF Lists
  <2> QED BY <1>1, <2>2, ListAppend
<1>8. one \in ShardOf(files)
  <2>1. Append(lru, h) \in Seq(DOMAIN files)
      BY <1>7 DEF Lists
  <2>2. usage + 1 \in Nat
      BY <1>2
  <2> QED BY <1>2, <1>3, <1>5, <1>6, <2>1, <2>2 DEF ShardOf
<1> DEFINE A == Alive(Shard)
           M == AliveMapped(Shard)
<1>9. IsFiniteSet(A) /\ IsFiniteSet(M) /\ Cardinality(A) \in Nat /\ Cardinality(M) \in Nat /\ h \notin A /\ h \notin M
  <2>1. A \subseteq 1 .. n /\ M \subseteq 1 .. n
      BY <1>2 DEF Alive, AliveMapped, Shard
  <2>2. IsFiniteSet(1 .. n)
      BY <1>1, FS_Interval
  <2>3. IsFiniteSet(A) /\ IsFiniteSet(M)
      BY <2>1, <2>2, FS_Subset
  <2>4. Cardinality(A) \in Nat /\ Cardinality(M) \in Nat
      BY <2>3, FS_CardinalityType
  <2> QED BY <1>1, <2>1, <2>3, <2>4
<1>10. Alive(one) = A \cup {h}
  <2>1. A = {k \in DOMAIN fileOf : refs[k] > 0}
      BY <1>1, <1>2 DEF Alive, Shard
  <2>2. Alive(one) = {k \in DOMAIN files : Append(refs, 2)[k] > 0}
      BY <1>4, <1>5 DEF Alive
  <2> HIDE DEF A
  <2> QED BY <1>1, <1>5, <2>1, <2>2
<1>11. AliveMapped(one) = IF isMapped = TRUE THEN M \cup {h} ELSE M
  <2>1. M = {k \in DOMAIN fileOf : refs[k] > 0 /\ mapped[k] = TRUE}
      BY <1>1, <1>2 DEF AliveMapped, Shard
  <2>2. AliveMapped(one) = {k \in DOMAIN files : Append(refs, 2)[k] > 0 /\ Append(mapped, isMapped)[k] = TRUE}
      BY <1>4, <1>5 DEF AliveMapped
  <2> HIDE DEF M
  <2> QED BY <1>1, <1>5, <1>6, <2>1, <2>2
<1>12. usage = Cardinality(A) /\ MaxMaps = allowed + Cardinality(M) + opening
    BY DEF Counted, Shard
<1> HIDE DEF A, M
<1>13. Cardinality(A \cup {h}) = Cardinality(A) + 1 /\ Cardinality(M \cup {h}) = Cardinality(M) + 1
    BY <1>9, FS_AddElement
<1>14. one.usage = Cardinality(Alive(one))
    BY <1>4, <1>10, <1>12, <1>13
<1>15. MaxMaps = one.allowed + Cardinality(AliveMapped(one)) + pending
  <2>1. CASE isMapped = TRUE
    <3>1. one.allowed = allowed /\ Cardinality(AliveMapped(one)) = Cardinality(M) + 1 /\ opening = pending + 1
        BY <1>0, <1>4, <1>11, <1>13, <2>1
    <3> QED BY <1>0, <1>2, <1>9, <1>12, <3>1
  <2>2. CASE isMapped # TRUE
    <3>1. one.allowed = allowed /\ Cardinality(AliveMapped(one)) = Cardinality(M)
        BY <1>4, <1>11, <2>2
    <3>2. opening = pending + 0
        BY <1>0, <2>2, Zenon
    <3> QED BY <1>0, <1>2, <1>9, <1>12, <3>1, <3>2
  <2> QED BY <2>1, <2>2
<1>16. Counted(one, files, pending)
    BY <1>1, <1>4, <1>5, <1>6, <1>8, <1>14, <1>15 DEF Counted
<1>17. Held(one, files, after)
  <2>1. IsInjective(one.lru) /\ ToSet(one.lru) = ToSet(lru) \cup {h}
      BY <1>4, <1>7 DEF Lists
  <2>2. ToSet(lru) \subseteq DOMAIN fileOf /\ \A k \in DOMAIN fileOf : refs[k] = held[k] + (IF k \in ToSet(lru) THEN 1 ELSE 0)
      BY DEF Held, Shard
  <2>3. ASSUME NEW k \in DOMAIN files PROVE one.refs[k] = after[k] + (IF k \in ToSet(one.lru) THEN 1 ELSE 0)
    <3>1. CASE k = h
        BY <1>4, <1>5, <2>1, <3>1 DEF Grows
    <3>2. CASE k # h
      <4>1. k \in DOMAIN fileOf
          BY <1>1, <3>2
      <4> QED BY <1>4, <1>5, <2>1, <2>2, <3>2, <4>1 DEF Grows
    <3> QED BY <3>1, <3>2
  <2> QED BY <1>1, <2>1, <2>2, <2>3 DEF Held
<1> QED BY <1>4, <1>7, <1>16, <1>17 DEF Added, one

LEMMA Inserts ==
    ASSUME NEW files, NEW f, NEW h, NEW held, NEW after, Grows(files, f, h, held, after),
           NEW pending, NEW isMapped, NEW opening, Passes(opening, pending, isMapped), NEW E, h \in E,
           ShardInv(Shard, fileOf, held, opening, E)
    PROVE  /\ ShardInv(CacheInsert(h, files, isMapped), files, after, pending, E)
           /\ CacheInsert(h, files, isMapped).usage > Capacity => CacheInsert(h, files, isMapped).lru = <<>>
<1> DEFINE new == TableInsert(h, files)
           list == new.list
           one == One(h, list, isMapped)
           old == new.old
           less == [one EXCEPT !.lru = RemoveFirst(one.lru, old)]
           two == IF old = 0 THEN one ELSE Unref(less, old)
           L == ToSet(lru)
<1>1. /\ files \in Seq(Files) /\ h \in DOMAIN files /\ h \notin DOMAIN fileOf
      /\ f \in Files /\ files = Append(fileOf, f) /\ fileOf \in Seq(Files) /\ after \in [DOMAIN files -> Nat] /\ pending \in Nat
    BY GrowsFacts DEF Grows, Passes
<1>2. TableOK(buckets, fileOf, L) /\ L \subseteq DOMAIN fileOf /\ L \subseteq E
    BY DEF ShardInv, Linked, Held, Shard
<1>3. TableOK(buckets, files, L) /\ h \notin L
    BY <1>1, <1>2, FilesGrow
<1>4. Inserted(new, h, files, L)
    BY <1>1, <1>3, TableInserts
<1>5. CacheInsert(h, files, isMapped) = EvictWhileFull(two, files)
    BY DEF CacheInsert, InsertCounted, One
<1> HIDE DEF new
<1>6. list \in Seq(Seq(DOMAIN files))
    BY <1>4 DEF Inserted, TableOK
<1>7. /\ Counted(one, files, pending) /\ Held(one, files, after)
      /\ Lists(one.lru, DOMAIN files, L \cup {h}) /\ one.buckets = list
  <2>1. Counted(Shard, fileOf, opening) /\ Held(Shard, fileOf, held)
      BY DEF ShardInv, Linked
  <2> HIDE DEF list, L
  <2>2. /\ Counted(one, files, pending) /\ Held(one, files, after)
        /\ Lists(one.lru, DOMAIN files, ToSet(lru) \cup {h}) /\ one.buckets = list
    <3>1. Added(one, h, list, files, after, pending)
        BY <1>6, <2>1, OneCounted
    <3> QED BY <3>1 DEF Added
  <2> QED BY <2>2 DEF L
<1> HIDE DEF one, L
<1>8. ToSet(one.lru) = L \cup {h} /\ one \in ShardOf(files)
    BY <1>7 DEF Lists, Counted
<1>9. ShardInv(two, files, after, pending, E)
  <2>1. CASE old = 0 /\ TableOK(new.list, files, L \cup {h})
    <3>1. two = one
        BY <2>1
    <3>2. Linked(one, files, after)
        BY <1>7, <1>8, <2>1 DEF Linked
    <3> QED BY <1>2, <1>7, <1>8, <3>1, <3>2 DEF ShardInv
  <2>2. CASE old \in L /\ old # 0 /\ TableOK(new.list, files, (L \ {old}) \cup {h})
    <3> DEFINE shorter == RemoveFirst(one.lru, old)
    <3>1. Lists(shorter, DOMAIN files, (L \cup {h}) \ {old})
        BY <1>7, ListRemove
    <3>2. (L \ {old}) \cup {h} = (L \cup {h}) \ {old}
        BY <1>3, <2>2
    <3>3. shorter \in Seq(DOMAIN files)
        BY <3>1 DEF Lists
    <3> HIDE DEF shorter
    <3>4. /\ [one EXCEPT !.lru = shorter] \in ShardOf(files)
          /\ [one EXCEPT !.lru = shorter].lru = shorter
          /\ [one EXCEPT !.lru = shorter].refs = one.refs /\ [one EXCEPT !.lru = shorter].usage = one.usage
          /\ [one EXCEPT !.lru = shorter].allowed = one.allowed /\ [one EXCEPT !.lru = shorter].mapped = one.mapped
          /\ [one EXCEPT !.lru = shorter].buckets = one.buckets
        BY <1>8, <3>3 DEF ShardOf
    <3>5. less = [one EXCEPT !.lru = shorter]
        BY DEF shorter
    <3> HIDE DEF less
    <3>6. Lists(less.lru, DOMAIN files, ToSet(one.lru) \ {old}) /\ TableOK(less.buckets, files, ToSet(one.lru) \ {old})
        BY <1>7, <1>8, <2>2, <3>1, <3>2, <3>4, <3>5
    <3>7. old \in ToSet(one.lru)
        BY <1>8, <2>2
    <3> HIDE DEF old
    <3>8. Leaves(old, one, less, files)
        BY <3>4, <3>5, <3>6, <3>7 DEF Leaves
    <3>9. \A g, q : Leaves(g, one, q, files) =>
               /\ Counted(Unref(q, g), files, pending) /\ Linked(Unref(q, g), files, after)
               /\ Unref(q, g).usage <= one.usage /\ Unref(q, g).lru = q.lru
      <4>1. Counted(one, files, pending) /\ Held(one, files, after)
          BY <1>7
      <4>2. files \in Seq(Files) /\ after \in [DOMAIN files -> Nat] /\ pending \in Nat
          BY <1>1
      <4> QED BY <4>1, <4>2, Dropped
    <3>10. Counted(Unref(less, old), files, pending) /\ Linked(Unref(less, old), files, after) /\ Unref(less, old).lru = less.lru
        BY <3>8, <3>9
    <3>11. ToSet(less.lru) \subseteq E
        BY <1>2, <1>8, <3>6 DEF Lists
    <3>12. two = Unref(less, old)
        BY <2>2
    <3> QED BY <3>10, <3>11, <3>12 DEF ShardInv
  <2> HIDE DEF two
  <2> QED BY <1>4, <2>1, <2>2 DEF Inserted
<1> HIDE DEF two
<1>10. files \in Seq(Files) /\ after \in [DOMAIN files -> Nat] /\ pending \in Nat
    BY <1>1
<1>11. /\ ShardInv(EvictWhileFull(two, files), files, after, pending, E)
       /\ EvictWhileFull(two, files).usage > Capacity => EvictWhileFull(two, files).lru = <<>>
    BY <1>9, <1>10, EvictsWhileFull
<1> QED BY <1>5, <1>11

-----------------------------------------------------------------------------
(* The threads, and the inductive invariant. *)

ThreadStates == [pc : {"idle", "open", "opened", "use"}, file : Files \cup {0}, handle : Nat, mapped : BOOLEAN]
\* A thread uses a handle of its file, which is one of a live version.
ThreadsOK ==
    /\ threads \in [Threads -> ThreadStates]
    /\ \A t \in Threads : threads[t].pc # "idle" => threads[t].file \in live
    /\ \A t \in Threads : threads[t].pc = "use" =>
           threads[t].handle \in DOMAIN fileOf /\ fileOf[threads[t].handle] = threads[t].file

Holders == [h \in DOMAIN fileOf |-> Cardinality(InUse(h))]
Opened == {t \in Threads : threads[t].pc = "opened" /\ threads[t].mapped = TRUE}
LiveHandles == {h \in DOMAIN fileOf : fileOf[h] \in live}

CacheInv ==
    /\ live \in SUBSET Files /\ fileOf \in Seq(Files) /\ ThreadsOK
    /\ ShardInv(Shard, fileOf, Holders, Cardinality(Opened), LiveHandles)
    /\ usage > Capacity => lru = <<>>

Uses(w, h) == w.pc = "use" /\ w.handle = h
Opens(w) == w.pc = "opened" /\ w.mapped = TRUE

LEMMA MemberMoves ==
    ASSUME NEW S, IsFiniteSet(S), NEW R, NEW t, NEW in \in BOOLEAN,
           R \ {t} = S \ {t}, t \in R <=> in = TRUE
    PROVE  /\ IsFiniteSet(R) /\ Cardinality(S) \in Nat /\ Cardinality(R) \in Nat
           /\ Cardinality(R) + (IF t \in S THEN 1 ELSE 0) = Cardinality(S) + (IF in = TRUE THEN 1 ELSE 0)
<1> DEFINE B == S \ {t}
<1>1. IsFiniteSet(B) /\ Cardinality(B) = (IF t \in S THEN Cardinality(S) - 1 ELSE Cardinality(S))
    BY FS_RemoveElement
<1>2. Cardinality(S) \in Nat /\ Cardinality(B) \in Nat
    BY <1>1, FS_CardinalityType
<1>3. IsFiniteSet(B \cup {t}) /\ Cardinality(B \cup {t}) = Cardinality(B) + 1
    BY <1>1, FS_AddElement
<1>4. R = IF in = TRUE THEN B \cup {t} ELSE B
    OBVIOUS
<1>5. IsFiniteSet(R) /\ Cardinality(R) \in Nat
  <2> HIDE DEF B
  <2>1. IsFiniteSet(R)
      BY <1>1, <1>3, <1>4
  <2> QED BY <2>1, FS_CardinalityType
<1>6. Cardinality(R) = IF in = TRUE THEN Cardinality(B) + 1 ELSE Cardinality(B)
  <2> HIDE DEF B
  <2> QED BY <1>3, <1>4
<1>7. Cardinality(R) + (IF t \in S THEN 1 ELSE 0) = Cardinality(S) + (IF in = TRUE THEN 1 ELSE 0)
  <2> HIDE DEF B
  <2>1. CASE t \in S
      BY <1>1, <1>2, <1>5, <1>6, <2>1
  <2>2. CASE t \notin S
      BY <1>1, <1>2, <1>5, <1>6, <2>2
  <2> QED BY <2>1, <2>2
<1> QED BY <1>2, <1>5, <1>7

LEMMA HoldersAre ==
    ASSUME ThreadsOK
    PROVE  /\ \A h : IsFiniteSet(InUse(h)) /\ Cardinality(InUse(h)) \in Nat
           /\ IsFiniteSet(Opened) /\ Cardinality(Opened) \in Nat
           /\ Holders \in [DOMAIN fileOf -> Nat] /\ \A h \in DOMAIN fileOf : Holders[h] = Cardinality(InUse(h))
<1>1. IsFiniteSet(Threads)
    BY TableCacheAssumption
<1>2. \A h : IsFiniteSet(InUse(h)) /\ Cardinality(InUse(h)) \in Nat
  <2> TAKE h
  <2>1. InUse(h) \subseteq Threads
      BY DEF InUse
  <2> QED BY <1>1, <2>1, FS_Subset, FS_CardinalityType
<1>3. IsFiniteSet(Opened) /\ Cardinality(Opened) \in Nat
  <2>1. Opened \subseteq Threads
      BY DEF Opened
  <2> QED BY <1>1, <2>1, FS_Subset, FS_CardinalityType
<1> QED BY <1>2, <1>3 DEF Holders

\* One thread does something: who uses what, and who has a mapping, afterwards.
LEMMA Moves ==
    ASSUME ThreadsOK, NEW t \in Threads, NEW w, threads' = [threads EXCEPT ![t] = w]
    PROVE  /\ \A h : /\ Cardinality(InUse(h)') \in Nat
                     /\ Cardinality(InUse(h)') + (IF Uses(threads[t], h) THEN 1 ELSE 0)
                          = Cardinality(InUse(h)) + (IF Uses(w, h) THEN 1 ELSE 0)
           /\ Cardinality(Opened') \in Nat
           /\ Cardinality(Opened') + (IF Opens(threads[t]) THEN 1 ELSE 0)
                = Cardinality(Opened) + (IF Opens(w) THEN 1 ELSE 0)
<1>1. threads'[t] = w /\ \A u \in Threads : u # t => threads'[u] = threads[u]
    BY DEF ThreadsOK
<1>2. ASSUME NEW h
      PROVE  /\ Cardinality(InUse(h)') \in Nat
             /\ Cardinality(InUse(h)') + (IF Uses(threads[t], h) THEN 1 ELSE 0)
                  = Cardinality(InUse(h)) + (IF Uses(w, h) THEN 1 ELSE 0)
  <2> DEFINE S == InUse(h)
             R == InUse(h)'
             in == IF Uses(w, h) THEN TRUE ELSE FALSE
  <2>1. R \ {t} = S \ {t}
      BY <1>1 DEF InUse
  <2>2. t \in R <=> in = TRUE
      BY <1>1 DEF InUse, Uses
  <2>3. t \in S <=> Uses(threads[t], h)
      BY DEF InUse, Uses
  <2>4. IsFiniteSet(S)
      BY HoldersAre
  <2>5. in \in BOOLEAN /\ (in = TRUE <=> Uses(w, h))
      OBVIOUS
  <2> HIDE DEF S, R, in
  <2>6. /\ IsFiniteSet(R) /\ Cardinality(S) \in Nat /\ Cardinality(R) \in Nat
        /\ Cardinality(R) + (IF t \in S THEN 1 ELSE 0) = Cardinality(S) + (IF in = TRUE THEN 1 ELSE 0)
      BY <2>1, <2>2, <2>4, <2>5, MemberMoves
  <2>7. Cardinality(R) + (IF Uses(threads[t], h) THEN 1 ELSE 0) = Cardinality(S) + (IF Uses(w, h) THEN 1 ELSE 0)
      BY <2>3, <2>5, <2>6
  <2> QED BY <2>6, <2>7 DEF S, R
<1>3. /\ Cardinality(Opened') \in Nat
      /\ Cardinality(Opened') + (IF Opens(threads[t]) THEN 1 ELSE 0)
           = Cardinality(Opened) + (IF Opens(w) THEN 1 ELSE 0)
  <2> DEFINE S == Opened
             R == Opened'
             in == IF Opens(w) THEN TRUE ELSE FALSE
  <2>1. R \ {t} = S \ {t}
      BY <1>1 DEF Opened
  <2>2. t \in R <=> in = TRUE
      BY <1>1 DEF Opened, Opens
  <2>3. t \in S <=> Opens(threads[t])
      BY DEF Opened, Opens
  <2>4. IsFiniteSet(S)
      BY HoldersAre
  <2>5. in \in BOOLEAN /\ (in = TRUE <=> Opens(w))
      OBVIOUS
  <2> HIDE DEF S, R, in
  <2>6. /\ IsFiniteSet(R) /\ Cardinality(S) \in Nat /\ Cardinality(R) \in Nat
        /\ Cardinality(R) + (IF t \in S THEN 1 ELSE 0) = Cardinality(S) + (IF in = TRUE THEN 1 ELSE 0)
      BY <2>1, <2>2, <2>4, <2>5, MemberMoves
  <2>7. Cardinality(R) + (IF Opens(threads[t]) THEN 1 ELSE 0) = Cardinality(S) + (IF Opens(w) THEN 1 ELSE 0)
      BY <2>3, <2>5, <2>6
  <2> QED BY <2>6, <2>7 DEF S, R
<1> QED BY <1>2, <1>3

LEMMA ThreadsStay ==
    ASSUME ThreadsOK, NEW t \in Threads, NEW w \in ThreadStates, threads' = [threads EXCEPT ![t] = w],
           live' = live, \A k \in DOMAIN fileOf : k \in DOMAIN fileOf' /\ fileOf'[k] = fileOf[k],
           w.pc # "idle" => w.file \in live,
           w.pc = "use" => w.handle \in DOMAIN fileOf' /\ fileOf'[w.handle] = w.file
    PROVE  ThreadsOK'
<1>1. threads'[t] = w /\ \A u \in Threads : u # t => threads'[u] = threads[u]
    BY DEF ThreadsOK
<1>2. threads' \in [Threads -> ThreadStates]
    BY DEF ThreadsOK
<1>3. \A u \in Threads : threads'[u].pc # "idle" => threads'[u].file \in live'
    BY <1>1 DEF ThreadsOK
<1>4. \A u \in Threads : threads'[u].pc = "use" =>
           threads'[u].handle \in DOMAIN fileOf' /\ fileOf'[threads'[u].handle] = threads'[u].file
    BY <1>1 DEF ThreadsOK
<1> QED BY <1>2, <1>3, <1>4 DEF ThreadsOK

LEMMA BecomesIs ==
    ASSUME NEW files, NEW s \in ShardOf(files), Becomes(s)
    PROVE  Shard' = s
    BY DEF Shard, Becomes, ShardOf

LEMMA CacheFacts ==
    ASSUME CacheInv
    PROVE  /\ live \in SUBSET Files /\ fileOf \in Seq(Files) /\ ThreadsOK
           /\ Counted(Shard, fileOf, Cardinality(Opened)) /\ Held(Shard, fileOf, Holders)
           /\ TableOK(buckets, fileOf, ToSet(lru)) /\ ToSet(lru) \subseteq LiveHandles
           /\ Shard \in ShardOf(fileOf)
           /\ refs \in Seq(Nat) /\ DOMAIN refs = DOMAIN fileOf /\ usage \in Nat /\ allowed \in Nat
           /\ mapped \in Seq(BOOLEAN) /\ DOMAIN mapped = DOMAIN fileOf /\ lru \in Seq(DOMAIN fileOf)
           /\ Len(refs) = Len(fileOf) /\ Len(mapped) = Len(fileOf)
           /\ Lists(lru, DOMAIN fileOf, ToSet(lru)) /\ ToSet(lru) \subseteq DOMAIN fileOf
           /\ \A h \in DOMAIN fileOf : refs[h] = Holders[h] + (IF h \in ToSet(lru) THEN 1 ELSE 0)
<1>1. /\ live \in SUBSET Files /\ fileOf \in Seq(Files) /\ ThreadsOK
      /\ ShardInv(Shard, fileOf, Holders, Cardinality(Opened), LiveHandles)
    BY DEF CacheInv
<1>2. /\ Counted(Shard, fileOf, Cardinality(Opened)) /\ Held(Shard, fileOf, Holders)
      /\ TableOK(buckets, fileOf, ToSet(lru)) /\ ToSet(lru) \subseteq LiveHandles
    BY <1>1 DEF ShardInv, Linked, Shard
<1>3. /\ Shard \in ShardOf(fileOf)
      /\ refs \in Seq(Nat) /\ DOMAIN refs = DOMAIN fileOf /\ usage \in Nat /\ allowed \in Nat
      /\ mapped \in Seq(BOOLEAN) /\ DOMAIN mapped = DOMAIN fileOf /\ lru \in Seq(DOMAIN fileOf)
      /\ Len(refs) = Len(fileOf) /\ Len(mapped) = Len(fileOf)
    BY <1>1, <1>2 DEF Counted, ShardOf, Shard
<1>4. Lists(lru, DOMAIN fileOf, ToSet(lru)) /\ ToSet(lru) \subseteq DOMAIN fileOf
    BY <1>2, <1>3 DEF Held, Lists, Shard
<1>5. \A h \in DOMAIN fileOf : refs[h] = Holders[h] + (IF h \in ToSet(lru) THEN 1 ELSE 0)
    BY <1>2 DEF Held, Shard
<1> QED BY <1>1, <1>2, <1>3, <1>4, <1>5

LEMMA SameHolders ==
    ASSUME ThreadsOK, ThreadsOK', fileOf' = fileOf,
           \A h : Cardinality(InUse(h)') = Cardinality(InUse(h))
    PROVE  Holders' = Holders
    BY DEF Holders

LEMMA ShardRests ==
    ASSUME CacheInv, ThreadsOK', UNCHANGED <<live, fileOf, refs, mapped, usage, lru, buckets>>, allowed' \in Nat,
           allowed' + Cardinality(Opened') = allowed + Cardinality(Opened), Cardinality(Opened') \in Nat,
           \A h : Cardinality(InUse(h)') = Cardinality(InUse(h))
    PROVE  CacheInv'
<1>1. Holders' = Holders /\ LiveHandles' = LiveHandles
  <2>1. Holders' = Holders
      BY SameHolders, CacheFacts
  <2> QED BY <2>1 DEF LiveHandles
<1>2. /\ Counted(Shard, fileOf, Cardinality(Opened)) /\ Held(Shard, fileOf, Holders)
      /\ TableOK(buckets, fileOf, ToSet(lru)) /\ ToSet(lru) \subseteq LiveHandles /\ allowed \in Nat /\ ThreadsOK
    BY CacheFacts
<1>3. Shard' = [Shard EXCEPT !.allowed = allowed']
    BY DEF Shard
<1>4. Alive(Shard') = Alive(Shard) /\ AliveMapped(Shard') = AliveMapped(Shard)
    BY DEF Alive, AliveMapped, Shard
<1>5. Shard' \in ShardOf(fileOf)
    BY <1>2, <1>3 DEF Counted, ShardOf
<1>6. MaxMaps = allowed' + Cardinality(AliveMapped(Shard)) + Cardinality(Opened')
  <2>1. Cardinality(AliveMapped(Shard)) \in Nat
    <3>1. refs \in Seq(Nat)
        BY CacheFacts
    <3>2. AliveMapped(Shard) \subseteq 1 .. Len(refs) /\ Len(refs) \in Nat
        BY <3>1 DEF AliveMapped, Shard
    <3>3. IsFiniteSet(1 .. Len(refs))
        BY <3>2, FS_Interval
    <3>4. IsFiniteSet(AliveMapped(Shard))
        BY <3>2, <3>3, FS_Subset
    <3> QED BY <3>4, FS_CardinalityType
  <2>2. MaxMaps = allowed + Cardinality(AliveMapped(Shard)) + Cardinality(Opened)
      BY <1>2 DEF Counted, Shard
  <2>3. Cardinality(Opened) \in Nat
      BY <1>2, HoldersAre
  <2> QED BY <1>2, <2>1, <2>2, <2>3
<1>7. Counted(Shard', fileOf, Cardinality(Opened'))
  <2>1. Shard'.allowed = allowed' /\ Shard'.refs = Shard.refs /\ Shard'.mapped = Shard.mapped /\ Shard'.usage = Shard.usage
      BY DEF Shard
  <2> QED BY <1>2, <1>4, <1>5, <1>6, <2>1 DEF Counted
<1>8. Linked(Shard', fileOf, Holders) /\ ToSet(Shard'.lru) \subseteq LiveHandles
  <2>1. Shard'.refs = Shard.refs /\ Shard'.lru = Shard.lru /\ Shard'.buckets = buckets /\ Shard.lru = lru
      BY DEF Shard
  <2> QED BY <1>2, <2>1 DEF Linked, Held
<1>9. ShardInv(Shard', fileOf', Holders', Cardinality(Opened'), LiveHandles')
    BY <1>1, <1>7, <1>8 DEF ShardInv
<1> QED BY <1>9 DEF CacheInv

LEMMA OpenSteps ==
    ASSUME CacheInv, NEW t \in Threads,
           OpenFile(t) \/ OpenFileFails(t) \/ TableOpenFails(t)
    PROVE  CacheInv'
<1>1. ThreadsOK /\ allowed \in Nat /\ Cardinality(Opened) \in Nat
    BY CacheFacts, HoldersAre
<1>2. threads[t] \in ThreadStates /\ Idle \in ThreadStates
  <2>1. Idle \in ThreadStates
      BY DEF Idle, ThreadStates
  <2> QED BY <1>1, <2>1 DEF ThreadsOK
<1>3. CASE OpenFile(t)
  <2> DEFINE m == allowed > 0
             w == [threads[t] EXCEPT !.pc = "opened", !.mapped = m]
  <2>1. threads' = [threads EXCEPT ![t] = w] /\ threads[t].pc = "open"
      BY <1>3 DEF OpenFile
  <2>2. w \in ThreadStates /\ w.pc = "opened" /\ w.file = threads[t].file /\ (w.mapped = TRUE <=> m)
    <3>1. m \in BOOLEAN
        OBVIOUS
    <3> QED BY <1>2, <3>1 DEF ThreadStates
  <2>3. UNCHANGED <<live, fileOf, refs, mapped, usage, lru, buckets>> /\ allowed' = IF m THEN allowed - 1 ELSE allowed
      BY <1>3 DEF OpenFile
  <2>4. threads[t].file \in live
      BY <1>1, <2>1 DEF ThreadsOK
  <2> HIDE DEF w
  <2>5. ThreadsOK'
      BY <1>1, <2>1, <2>2, <2>3, <2>4, ThreadsStay
  <2>6. ~Opens(threads[t]) /\ (Opens(w) <=> m) /\ \A h : ~Uses(threads[t], h) /\ ~Uses(w, h)
      BY <2>1, <2>2 DEF Opens, Uses
  <2>7. /\ \A h : Cardinality(InUse(h)') = Cardinality(InUse(h))
        /\ Cardinality(Opened') = (IF m THEN Cardinality(Opened) + 1 ELSE Cardinality(Opened))
        /\ Cardinality(Opened') \in Nat
    <3>1. \A h : Cardinality(InUse(h)) \in Nat
        BY <1>1, HoldersAre
    <3>2. /\ \A h : /\ Cardinality(InUse(h)') \in Nat
                    /\ Cardinality(InUse(h)') + (IF Uses(threads[t], h) THEN 1 ELSE 0)
                         = Cardinality(InUse(h)) + (IF Uses(w, h) THEN 1 ELSE 0)
          /\ Cardinality(Opened') \in Nat
          /\ Cardinality(Opened') + (IF Opens(threads[t]) THEN 1 ELSE 0)
               = Cardinality(Opened) + (IF Opens(w) THEN 1 ELSE 0)
        BY <1>1, <2>1, Moves
    <3> HIDE DEF m
    <3> QED BY <1>1, <2>6, <3>1, <3>2
  <2>8. allowed' \in Nat /\ allowed' + Cardinality(Opened') = allowed + Cardinality(Opened)
      BY <1>1, <2>3, <2>7
  <2> QED BY <2>3, <2>5, <2>7, <2>8, ShardRests
<1>4. CASE OpenFileFails(t)
  <2>1. threads' = [threads EXCEPT ![t] = Idle] /\ threads[t].pc = "open"
      BY <1>4 DEF OpenFileFails
  <2>2. UNCHANGED <<live, fileOf, refs, mapped, usage, lru, buckets>> /\ allowed' = allowed
      BY <1>4 DEF OpenFileFails
  <2>3. ThreadsOK'
    <3>1. Idle.pc = "idle"
        BY DEF Idle
    <3> QED BY <1>1, <1>2, <2>1, <2>2, <3>1, ThreadsStay
  <2>4. ~Opens(threads[t]) /\ ~Opens(Idle) /\ \A h : ~Uses(threads[t], h) /\ ~Uses(Idle, h)
      BY <2>1 DEF Opens, Uses, Idle
  <2>5. /\ \A h : Cardinality(InUse(h)') = Cardinality(InUse(h))
        /\ Cardinality(Opened') = Cardinality(Opened)
    <3>1. \A h : Cardinality(InUse(h)) \in Nat
        BY <1>1, HoldersAre
    <3>2. /\ \A h : /\ Cardinality(InUse(h)') \in Nat
                    /\ Cardinality(InUse(h)') + (IF Uses(threads[t], h) THEN 1 ELSE 0)
                         = Cardinality(InUse(h)) + (IF Uses(Idle, h) THEN 1 ELSE 0)
          /\ Cardinality(Opened') \in Nat
          /\ Cardinality(Opened') + (IF Opens(threads[t]) THEN 1 ELSE 0)
               = Cardinality(Opened) + (IF Opens(Idle) THEN 1 ELSE 0)
        BY <1>1, <2>1, Moves
    <3> QED BY <1>1, <2>4, <3>1, <3>2
  <2>6. allowed' + Cardinality(Opened') = allowed + Cardinality(Opened)
      BY <2>2, <2>5
  <2> QED BY <1>1, <2>2, <2>3, <2>5, <2>6, ShardRests
<1>5. CASE TableOpenFails(t)
  <2> DEFINE m == threads[t].mapped
  <2>1. threads' = [threads EXCEPT ![t] = Idle] /\ threads[t].pc = "opened"
      BY <1>5 DEF TableOpenFails
  <2>2. UNCHANGED <<live, fileOf, refs, mapped, usage, lru, buckets>>
      BY <1>5 DEF TableOpenFails
  <2>m. m \in BOOLEAN
      BY <1>2 DEF ThreadStates
  <2>n. allowed' = IF m = TRUE THEN allowed + 1 ELSE allowed
    <3>1. allowed' = IF m THEN allowed + 1 ELSE allowed
        BY <1>5 DEF TableOpenFails
    <3> HIDE DEF m
    <3> QED BY <2>m, <3>1
  <2>3. ThreadsOK'
    <3>1. Idle.pc = "idle"
        BY DEF Idle
    <3> QED BY <1>1, <1>2, <2>1, <2>2, <3>1, ThreadsStay
  <2>4. (Opens(threads[t]) <=> m = TRUE) /\ ~Opens(Idle) /\ \A h : ~Uses(threads[t], h) /\ ~Uses(Idle, h)
      BY <2>1 DEF Opens, Uses, Idle
  <2>5. /\ \A h : Cardinality(InUse(h)') = Cardinality(InUse(h))
        /\ Cardinality(Opened') + (IF m = TRUE THEN 1 ELSE 0) = Cardinality(Opened)
        /\ Cardinality(Opened') \in Nat
    <3>1. \A h : Cardinality(InUse(h)) \in Nat
        BY <1>1, HoldersAre
    <3>2. /\ \A h : /\ Cardinality(InUse(h)') \in Nat
                    /\ Cardinality(InUse(h)') + (IF Uses(threads[t], h) THEN 1 ELSE 0)
                         = Cardinality(InUse(h)) + (IF Uses(Idle, h) THEN 1 ELSE 0)
          /\ Cardinality(Opened') \in Nat
          /\ Cardinality(Opened') + (IF Opens(threads[t]) THEN 1 ELSE 0)
               = Cardinality(Opened) + (IF Opens(Idle) THEN 1 ELSE 0)
        BY <1>1, <2>1, Moves
    <3> HIDE DEF m
    <3> QED BY <1>1, <2>4, <3>1, <3>2
  <2>6. allowed' \in Nat /\ allowed' + Cardinality(Opened') = allowed + Cardinality(Opened)
    <3> HIDE DEF m
    <3> QED BY <1>1, <2>n, <2>5
  <2> QED BY <2>2, <2>3, <2>5, <2>6, ShardRests
<1> QED BY <1>3, <1>4, <1>5

LEMMA LookupFinds ==
    ASSUME CacheInv, NEW f \in Files, NEW h, h = TableLookup(f)
    PROVE  \/ h = 0 /\ \A k \in ToSet(lru) : fileOf[k] # f
           \/ /\ h # 0 /\ h \in ToSet(lru) /\ h \in DOMAIN fileOf /\ fileOf[h] = f
              /\ \A k \in ToSet(lru) : fileOf[k] = f => k = h
<1>1. fileOf \in Seq(Files) /\ TableOK(buckets, fileOf, ToSet(lru)) /\ ToSet(lru) \subseteq DOMAIN fileOf
    BY CacheFacts
<1>2. h = HandleIn(buckets, f, fileOf)
    BY DEF TableLookup
<1> DEFINE g == HandleIn(buckets, f, fileOf)
<1>3. \/ g = 0 /\ \A k \in ToSet(lru) : fileOf[k] # f
      \/ g \in ToSet(lru) /\ g # 0 /\ fileOf[g] = f /\ \A k \in ToSet(lru) : fileOf[k] = f => k = g
    BY <1>1, HandleFound
<1> HIDE DEF g
<1> QED BY <1>1, <1>2, <1>3 DEF g

LEMMA FindMisses ==
    ASSUME CacheInv, NEW t \in Threads, NEW f \in Files, FindTable(t, f), TableLookup(f) = 0
    PROVE  CacheInv'
<1> DEFINE w == [Idle EXCEPT !.pc = "open", !.file = f]
<1>1. ThreadsOK /\ allowed \in Nat /\ Cardinality(Opened) \in Nat
    BY CacheFacts, HoldersAre
<1>2. threads' = [threads EXCEPT ![t] = w] /\ threads[t].pc = "idle" /\ f \in live
    BY DEF FindTable
<1>3. UNCHANGED <<live, fileOf, refs, mapped, usage, lru, buckets>> /\ allowed' = allowed
    BY DEF FindTable
<1>4. w \in ThreadStates /\ w.pc = "open" /\ w.file = f
    BY DEF ThreadStates, Idle
<1> HIDE DEF w
<1>5. ThreadsOK'
    BY <1>1, <1>2, <1>3, <1>4, ThreadsStay
<1>6. ~Opens(threads[t]) /\ ~Opens(w) /\ \A h : ~Uses(threads[t], h) /\ ~Uses(w, h)
    BY <1>2, <1>4 DEF Opens, Uses
<1>7. /\ \A h : Cardinality(InUse(h)') = Cardinality(InUse(h))
      /\ Cardinality(Opened') = Cardinality(Opened)
  <2>1. \A h : Cardinality(InUse(h)) \in Nat
      BY <1>1, HoldersAre
  <2>2. /\ \A h : /\ Cardinality(InUse(h)') \in Nat
                  /\ Cardinality(InUse(h)') + (IF Uses(threads[t], h) THEN 1 ELSE 0)
                       = Cardinality(InUse(h)) + (IF Uses(w, h) THEN 1 ELSE 0)
        /\ Cardinality(Opened') \in Nat
        /\ Cardinality(Opened') + (IF Opens(threads[t]) THEN 1 ELSE 0)
             = Cardinality(Opened) + (IF Opens(w) THEN 1 ELSE 0)
      BY <1>1, <1>2, Moves
  <2> QED BY <1>1, <1>6, <2>1, <2>2
<1>8. allowed' + Cardinality(Opened') = allowed + Cardinality(Opened)
    BY <1>3, <1>7
<1> QED BY <1>1, <1>3, <1>5, <1>7, <1>8, ShardRests

LEMMA FindHits ==
    ASSUME CacheInv, NEW t \in Threads, NEW f \in Files, FindTable(t, f), TableLookup(f) # 0
    PROVE  CacheInv'
<1> PICK h : h = TableLookup(f)
    OBVIOUS
<1> DEFINE w == [Idle EXCEPT !.pc = "use", !.file = f, !.handle = h]
<1>1. ThreadsOK /\ Cardinality(Opened) \in Nat /\ Holders \in [DOMAIN fileOf -> Nat]
    BY CacheFacts, HoldersAre
<1>2. h # 0 /\ h \in ToSet(lru) /\ h \in DOMAIN fileOf /\ fileOf[h] = f
    BY LookupFinds
<1>3. /\ threads' = [threads EXCEPT ![t] = w] /\ threads[t].pc = "idle" /\ f \in live
      /\ refs' = [refs EXCEPT ![h] = refs[h] + 1] /\ lru' = Append(RemoveFirst(lru, h), h)
      /\ UNCHANGED <<live, fileOf, mapped, usage, buckets, allowed>>
    BY DEF FindTable
<1>4. /\ fileOf \in Seq(Files) /\ Lists(lru, DOMAIN fileOf, ToSet(lru)) /\ refs \in Seq(Nat) /\ DOMAIN refs = DOMAIN fileOf
      /\ Len(refs) = Len(fileOf)
      /\ \A k \in DOMAIN fileOf : refs[k] = Holders[k] + (IF k \in ToSet(lru) THEN 1 ELSE 0)
      /\ Counted(Shard, fileOf, Cardinality(Opened)) /\ TableOK(buckets, fileOf, ToSet(lru))
      /\ ToSet(lru) \subseteq LiveHandles /\ ToSet(lru) \subseteq DOMAIN fileOf
    BY CacheFacts
<1>5. w \in ThreadStates /\ w.pc = "use" /\ w.file = f /\ w.handle = h
  <2>1. h \in Nat
      BY <1>2, <1>4
  <2> QED BY <2>1 DEF ThreadStates, Idle
<1> HIDE DEF w
<1>6. ThreadsOK'
    BY <1>1, <1>2, <1>3, <1>5, ThreadsStay
<1>7. /\ ~Opens(threads[t]) /\ ~Opens(w) /\ \A k : ~Uses(threads[t], k) /\ (Uses(w, k) <=> k = h)
    BY <1>3, <1>5 DEF Opens, Uses
<1>8. /\ \A k : Cardinality(InUse(k)') = (IF k = h THEN Cardinality(InUse(k)) + 1 ELSE Cardinality(InUse(k)))
      /\ Cardinality(Opened') = Cardinality(Opened)
  <2>1. \A k : Cardinality(InUse(k)) \in Nat
      BY <1>1, HoldersAre
  <2>2. /\ \A k : /\ Cardinality(InUse(k)') \in Nat
                  /\ Cardinality(InUse(k)') + (IF Uses(threads[t], k) THEN 1 ELSE 0)
                       = Cardinality(InUse(k)) + (IF Uses(w, k) THEN 1 ELSE 0)
        /\ Cardinality(Opened') \in Nat
        /\ Cardinality(Opened') + (IF Opens(threads[t]) THEN 1 ELSE 0)
             = Cardinality(Opened) + (IF Opens(w) THEN 1 ELSE 0)
      BY <1>1, <1>3, Moves
  <2> QED BY <1>1, <1>7, <2>1, <2>2
<1>9. \A k \in DOMAIN fileOf : Holders'[k] = (IF k = h THEN Holders[k] + 1 ELSE Holders[k])
    BY <1>3, <1>8 DEF Holders
<1>10. Lists(lru', DOMAIN fileOf, ToSet(lru))
  <2> DEFINE s == RemoveFirst(lru, h)
             E == ToSet(lru) \ {h}
  <2>1. Lists(s, DOMAIN fileOf, E)
      BY <1>4, ListRemove
  <2>2. h \notin E /\ E \cup {h} = ToSet(lru)
      BY <1>2
  <2>3. lru' = Append(s, h)
      BY <1>3
  <2> HIDE DEF s, E
  <2>4. Lists(Append(s, h), DOMAIN fileOf, E \cup {h})
      BY <1>2, <2>1, <2>2, ListAppend
  <2> QED BY <2>2, <2>3, <2>4
<1>11. ToSet(lru') = ToSet(lru) /\ lru' \in Seq(DOMAIN fileOf) /\ IsInjective(lru')
    BY <1>10 DEF Lists
<1>12. /\ refs' \in Seq(Nat) /\ Len(refs') = Len(fileOf) /\ DOMAIN refs' = DOMAIN fileOf
       /\ refs'[h] = refs[h] + 1 /\ \A k \in DOMAIN fileOf : k # h => refs'[k] = refs[k]
  <2>1. refs[h] + 1 \in Nat
      BY <1>2, <1>4
  <2> QED BY <1>2, <1>3, <1>4, <2>1
<1>13. refs[h] > 0 /\ refs'[h] > 0
  <2>1. refs[h] = Holders[h] + 1 /\ Holders[h] \in Nat
      BY <1>1, <1>2, <1>4
  <2> QED BY <1>12, <2>1
<1>14. Shard' \in ShardOf(fileOf)
  <2>1. /\ usage \in Nat /\ allowed \in Nat /\ mapped \in Seq(BOOLEAN) /\ buckets \in Seq(Seq(DOMAIN fileOf))
      BY CacheFacts DEF TableOK
  <2>2. Shard' = [refs |-> refs', usage |-> usage, lru |-> lru', buckets |-> buckets, allowed |-> allowed, mapped |-> mapped]
      BY <1>3 DEF Shard
  <2> QED BY <1>11, <1>12, <2>1, <2>2 DEF ShardOf
<1>15. Alive(Shard') = Alive(Shard) /\ AliveMapped(Shard') = AliveMapped(Shard)
  <2>1. Shard'.refs = refs' /\ Shard.refs = refs /\ Shard'.mapped = Shard.mapped
      BY <1>3 DEF Shard
  <2>2. \A k \in DOMAIN fileOf : refs'[k] > 0 <=> refs[k] > 0
      BY <1>12, <1>13
  <2> HIDE DEF Shard
  <2> QED BY <1>4, <1>12, <2>1, <2>2 DEF Alive, AliveMapped
<1>16. Counted(Shard', fileOf, Cardinality(Opened))
  <2>1. /\ Shard'.refs = refs' /\ Shard'.mapped = Shard.mapped /\ Shard'.usage = Shard.usage
        /\ Shard'.allowed = Shard.allowed
      BY <1>3 DEF Shard
  <2> QED BY <1>4, <1>12, <1>14, <1>15, <2>1 DEF Counted
<1>17. Linked(Shard', fileOf, Holders')
  <2>1. Shard'.refs = refs' /\ Shard'.lru = lru' /\ Shard'.buckets = buckets
      BY <1>3 DEF Shard
  <2>2. \A k \in DOMAIN fileOf : refs'[k] = Holders'[k] + (IF k \in ToSet(lru') THEN 1 ELSE 0)
    <3> SUFFICES ASSUME NEW k \in DOMAIN fileOf PROVE refs'[k] = Holders'[k] + (IF k \in ToSet(lru') THEN 1 ELSE 0)
        OBVIOUS
    <3>1. refs[k] = Holders[k] + (IF k \in ToSet(lru) THEN 1 ELSE 0) /\ Holders[k] \in Nat
        BY <1>1, <1>4
    <3> QED BY <1>9, <1>11, <1>12, <3>1
  <2> QED BY <1>4, <1>11, <2>1, <2>2 DEF Linked, Held
<1>18. ShardInv(Shard', fileOf', Holders', Cardinality(Opened'), LiveHandles')
  <2>1. LiveHandles' = LiveHandles /\ Shard'.lru = lru'
      BY <1>3 DEF LiveHandles, Shard
  <2> QED BY <1>3, <1>4, <1>8, <1>11, <1>16, <1>17, <2>1 DEF ShardInv
<1>19. usage' > Capacity => lru' = <<>>
  <2>1. lru # <<>>
      BY <1>2 DEF ToSet
  <2> QED BY <1>3, <2>1 DEF CacheInv
<1>20. live' \in SUBSET Files /\ fileOf' \in Seq(Files)
    BY <1>3 DEF CacheInv
<1> QED BY <1>6, <1>18, <1>19, <1>20 DEF CacheInv

LEMMA FindTableStep ==
    ASSUME CacheInv, NEW t \in Threads, NEW f \in Files, FindTable(t, f)
    PROVE  CacheInv'
<1>1. CASE TableLookup(f) = 0
    BY <1>1, FindMisses
<1>2. CASE TableLookup(f) # 0
    BY <1>2, FindHits
<1> QED BY <1>1, <1>2

LEMMA ReleaseStep ==
    ASSUME CacheInv, NEW t \in Threads, ReleaseTable(t)
    PROVE  CacheInv'
<1> PICK h : h = threads[t].handle
    OBVIOUS
<1>1. ThreadsOK /\ Cardinality(Opened) \in Nat /\ Holders \in [DOMAIN fileOf -> Nat] /\ \A k : Cardinality(InUse(k)) \in Nat
    BY CacheFacts, HoldersAre
<1>2. /\ threads' = [threads EXCEPT ![t] = Idle] /\ threads[t].pc = "use"
      /\ Becomes(Unref(Shard, h)) /\ live' = live /\ fileOf' = fileOf
    BY DEF ReleaseTable
<1>3. /\ fileOf \in Seq(Files) /\ refs \in Seq(Nat) /\ DOMAIN refs = DOMAIN fileOf
      /\ \A k \in DOMAIN fileOf : refs[k] = Holders[k] + (IF k \in ToSet(lru) THEN 1 ELSE 0)
      /\ Counted(Shard, fileOf, Cardinality(Opened)) /\ TableOK(buckets, fileOf, ToSet(lru))
      /\ ToSet(lru) \subseteq LiveHandles /\ ToSet(lru) \subseteq DOMAIN fileOf /\ Shard \in ShardOf(fileOf)
      /\ Held(Shard, fileOf, Holders)
    BY CacheFacts
<1>4. h \in DOMAIN fileOf
    BY <1>1, <1>2 DEF ThreadsOK
<1>5. ThreadsOK'
  <2>1. Idle \in ThreadStates /\ Idle.pc = "idle"
      BY DEF Idle, ThreadStates
  <2> QED BY <1>1, <1>2, <2>1, ThreadsStay
<1>6. ~Opens(threads[t]) /\ ~Opens(Idle) /\ \A k : (Uses(threads[t], k) <=> k = h) /\ ~Uses(Idle, k)
    BY <1>2 DEF Opens, Uses, Idle
<1>7. /\ \A k : /\ Cardinality(InUse(k)') \in Nat
                /\ Cardinality(InUse(k)') + (IF k = h THEN 1 ELSE 0) = Cardinality(InUse(k))
      /\ Cardinality(Opened') = Cardinality(Opened)
  <2>1. /\ \A k : /\ Cardinality(InUse(k)') \in Nat
                  /\ Cardinality(InUse(k)') + (IF Uses(threads[t], k) THEN 1 ELSE 0)
                       = Cardinality(InUse(k)) + (IF Uses(Idle, k) THEN 1 ELSE 0)
        /\ Cardinality(Opened') \in Nat
        /\ Cardinality(Opened') + (IF Opens(threads[t]) THEN 1 ELSE 0)
             = Cardinality(Opened) + (IF Opens(Idle) THEN 1 ELSE 0)
      BY <1>1, <1>2, Moves
  <2> QED BY <1>1, <1>6, <2>1
<1>8. \A k \in DOMAIN fileOf : Holders'[k] \in Nat /\ Holders[k] \in Nat /\ Holders'[k] + (IF k = h THEN 1 ELSE 0) = Holders[k]
    BY <1>1, <1>2, <1>7 DEF Holders
<1>9. refs[h] > 0 /\ h \in DOMAIN refs /\ Shard.refs = refs
  <2>1. refs[h] = Holders[h] + (IF h \in ToSet(lru) THEN 1 ELSE 0) /\ Holders'[h] \in Nat /\ Holders'[h] + 1 = Holders[h]
      BY <1>3, <1>4, <1>8
  <2>2. Shard.refs = refs
      BY DEF Shard
  <2> QED BY <1>3, <1>4, <2>1, <2>2
<1> DEFINE r == Unref(Shard, h)
<1>10. Counted(r, fileOf, Cardinality(Opened)) /\ r.usage <= Shard.usage
  <2> DEFINE n == Cardinality(Opened)
  <2>1. n \in Nat /\ Counted(Shard, fileOf, n) /\ fileOf \in Seq(Files) /\ h \in DOMAIN fileOf /\ Shard.refs[h] > 0
      BY <1>1, <1>3, <1>4, <1>9
  <2> HIDE DEF n
  <2>2. Counted(Unref(Shard, h), fileOf, n) /\ Unref(Shard, h).usage <= Shard.usage
      BY <2>1, UnrefCounted
  <2> QED BY <2>2 DEF n
<1>11. /\ r.refs = [refs EXCEPT ![h] = refs[h] - 1]
       /\ r.lru = lru /\ r.buckets = buckets
  <2>1. /\ Unref(Shard, h).refs = [Shard.refs EXCEPT ![h] = Shard.refs[h] - 1]
        /\ Unref(Shard, h).lru = Shard.lru /\ Unref(Shard, h).buckets = Shard.buckets
    <3> PICK s : s = Shard
        OBVIOUS
    <3>1. s \in ShardOf(fileOf) /\ h \in DOMAIN s.refs /\ s.refs[h] > 0
        BY <1>3, <1>9
    <3>2. /\ Unref(s, h).refs = [s.refs EXCEPT ![h] = s.refs[h] - 1]
          /\ Unref(s, h).lru = s.lru /\ Unref(s, h).buckets = s.buckets
      <4>1. Lessened(Unref(s, h), s, h)
          BY <3>1, UnrefIs
      <4> QED BY <4>1 DEF Lessened
    <3> QED BY <3>2
  <2>2. Shard.lru = lru /\ Shard.buckets = buckets
      BY DEF Shard
  <2> HIDE DEF Shard
  <2> QED BY <1>9, <2>1, <2>2
<1> HIDE DEF r
<1>12. Shard' = r /\ usage' = r.usage /\ lru' = lru
  <2>1. r \in ShardOf(fileOf) /\ Becomes(r)
      BY <1>2, <1>10 DEF Counted, r
  <2>2. Shard' = r
      BY <2>1, BecomesIs
  <2> QED BY <1>11, <2>1, <2>2 DEF Becomes
<1>13. Linked(r, fileOf, Holders')
  <2>1. \A k \in DOMAIN fileOf : r.refs[k] = Holders'[k] + (IF k \in ToSet(lru) THEN 1 ELSE 0)
    <3> SUFFICES ASSUME NEW k \in DOMAIN fileOf PROVE r.refs[k] = Holders'[k] + (IF k \in ToSet(lru) THEN 1 ELSE 0)
        OBVIOUS
    <3>1. refs[k] = Holders[k] + (IF k \in ToSet(lru) THEN 1 ELSE 0)
        BY <1>3
    <3>2. r.refs[k] = IF k = h THEN refs[h] - 1 ELSE refs[k]
        BY <1>3, <1>4, <1>11
    <3>3. Holders'[k] \in Nat /\ Holders'[k] + (IF k = h THEN 1 ELSE 0) = Holders[k]
        BY <1>8
    <3> QED BY <3>1, <3>2, <3>3
  <2>2. IsInjective(lru)
      BY <1>3 DEF Held, Shard
  <2> QED BY <1>3, <1>11, <2>1, <2>2 DEF Linked, Held
<1>14. ShardInv(Shard', fileOf', Holders', Cardinality(Opened'), LiveHandles')
  <2>1. LiveHandles' = LiveHandles
      BY <1>2 DEF LiveHandles
  <2> QED BY <1>2, <1>3, <1>7, <1>10, <1>11, <1>12, <1>13, <2>1 DEF ShardInv
<1>15. usage' > Capacity => lru' = <<>>
  <2>1. usage' \in Nat /\ usage \in Nat /\ usage' <= usage /\ Capacity \in Nat
    <3>1. Shard.usage = usage
        BY DEF Shard
    <3>2. usage \in Nat /\ r.usage \in Nat
        BY <1>10, CacheFacts DEF Counted, ShardOf
    <3> QED BY <1>10, <1>12, <3>1, <3>2, TableCacheAssumption
  <2>2. usage' > Capacity => usage > Capacity
      BY <2>1
  <2> QED BY <1>12, <2>2 DEF CacheInv
<1>16. live' \in SUBSET Files /\ fileOf' \in Seq(Files)
    BY <1>2 DEF CacheInv
<1> QED BY <1>5, <1>14, <1>15, <1>16 DEF CacheInv

LEMMA InsertStep ==
    ASSUME CacheInv, NEW t \in Threads, InsertTable(t)
    PROVE  CacheInv'
<1> PICK h : h = Len(fileOf) + 1
    OBVIOUS
<1> PICK f : f = threads[t].file
    OBVIOUS
<1> PICK m : m = threads[t].mapped
    OBVIOUS
<1> DEFINE w == [threads[t] EXCEPT !.pc = "use", !.handle = h]
<1>1. /\ ThreadsOK /\ Cardinality(Opened) \in Nat /\ Holders \in [DOMAIN fileOf -> Nat]
      /\ \A k : Cardinality(InUse(k)) \in Nat
      /\ fileOf \in Seq(Files) /\ live \in SUBSET Files
      /\ ToSet(lru) \subseteq LiveHandles /\ ToSet(lru) \subseteq DOMAIN fileOf
      /\ ShardInv(Shard, fileOf, Holders, Cardinality(Opened), LiveHandles)
    BY CacheFacts, HoldersAre DEF CacheInv
<1>2. /\ threads[t].pc = "opened" /\ threads' = [threads EXCEPT ![t] = w] /\ live' = live
      /\ fileOf' = Append(fileOf, f) /\ Becomes(CacheInsert(h, fileOf', m))
    BY DEF InsertTable
<1>3. threads[t] \in ThreadStates /\ f \in live /\ f \in Files /\ m \in BOOLEAN /\ Len(fileOf) \in Nat /\ h \in Nat
  <2>1. threads[t] \in ThreadStates
      BY <1>1 DEF ThreadsOK
  <2>2. f \in live
      BY <1>1, <1>2 DEF ThreadsOK
  <2>3. Len(fileOf) \in Nat
      BY <1>1
  <2> QED BY <1>1, <2>1, <2>2, <2>3 DEF ThreadStates
<1>4. /\ fileOf' \in Seq(Files) /\ h \in DOMAIN fileOf' /\ fileOf'[h] = f /\ h \notin DOMAIN fileOf
      /\ DOMAIN fileOf' = DOMAIN fileOf \cup {h}
      /\ \A k \in DOMAIN fileOf : k \in DOMAIN fileOf' /\ fileOf'[k] = fileOf[k]
    BY <1>1, <1>2, <1>3
<1>5. w \in ThreadStates /\ w.pc = "use" /\ w.file = f /\ w.handle = h
    BY <1>3 DEF ThreadStates
<1> HIDE DEF w
<1>6. ThreadsOK'
    BY <1>1, <1>2, <1>3, <1>4, <1>5, ThreadsStay
<1>7. /\ (Opens(threads[t]) <=> m = TRUE) /\ ~Opens(w) /\ \A k : ~Uses(threads[t], k) /\ (Uses(w, k) <=> k = h)
    BY <1>2, <1>5 DEF Opens, Uses
<1>8. /\ \A k : /\ Cardinality(InUse(k)') \in Nat
                /\ Cardinality(InUse(k)') = Cardinality(InUse(k)) + (IF k = h THEN 1 ELSE 0)
      /\ Cardinality(Opened') \in Nat
      /\ Cardinality(Opened') + (IF m = TRUE THEN 1 ELSE 0) = Cardinality(Opened)
  <2>1. /\ \A k : /\ Cardinality(InUse(k)') \in Nat
                  /\ Cardinality(InUse(k)') + (IF Uses(threads[t], k) THEN 1 ELSE 0)
                       = Cardinality(InUse(k)) + (IF Uses(w, k) THEN 1 ELSE 0)
        /\ Cardinality(Opened') \in Nat
        /\ Cardinality(Opened') + (IF Opens(threads[t]) THEN 1 ELSE 0)
             = Cardinality(Opened) + (IF Opens(w) THEN 1 ELSE 0)
      BY <1>1, <1>2, Moves
  <2> QED BY <1>1, <1>7, <2>1
<1>9. Cardinality(InUse(h)) = 0
  <2>1. InUse(h) = {}
      BY <1>1, <1>4 DEF InUse, ThreadsOK
  <2> QED BY <2>1, FS_EmptySet
<1> PICK files : files = fileOf'
    OBVIOUS
<1> PICK held : held = Holders
    OBVIOUS
<1> PICK after : after = Holders'
    OBVIOUS
<1> PICK opening : opening = Cardinality(Opened)
    OBVIOUS
<1> PICK pending : pending = Cardinality(Opened')
    OBVIOUS
<1> PICK E : E = LiveHandles'
    OBVIOUS
<1>10. Grows(files, f, h, held, after)
  <2>1. after \in [DOMAIN files -> Nat]
      BY <1>8 DEF Holders
  <2>2. after[h] = 1
      BY <1>4, <1>8, <1>9 DEF Holders
  <2>3. \A k \in DOMAIN fileOf : after[k] = held[k]
    <3> SUFFICES ASSUME NEW k \in DOMAIN fileOf PROVE after[k] = held[k]
        OBVIOUS
    <3>1. k # h /\ k \in DOMAIN fileOf'
        BY <1>4
    <3>2. after[k] = Cardinality(InUse(k)') /\ held[k] = Cardinality(InUse(k))
        BY <3>1 DEF Holders
    <3>3. Cardinality(InUse(k)') = Cardinality(InUse(k)) + 0 /\ Cardinality(InUse(k)) \in Nat
        BY <1>1, <1>8, <3>1
    <3> QED BY <3>2, <3>3
  <2>4. files = Append(fileOf, f) /\ h = Len(fileOf) + 1 /\ held \in [DOMAIN fileOf -> Nat]
      BY <1>1, <1>2
  <2> QED BY <1>1, <1>3, <2>1, <2>2, <2>3, <2>4 DEF Grows
<1>11. Passes(opening, pending, m)
  <2>1. pending \in Nat /\ opening = pending + (IF m = TRUE THEN 1 ELSE 0)
      BY <1>8
  <2> QED BY <1>3, <2>1 DEF Passes
<1>12. h \in E /\ ShardInv(Shard, fileOf, held, opening, E)
  <2>1. h \in E /\ LiveHandles \subseteq E
      BY <1>2, <1>3, <1>4 DEF LiveHandles
  <2>2. ToSet(Shard.lru) \subseteq E
      BY <1>1, <2>1 DEF Shard
  <2> QED BY <1>1, <2>1, <2>2 DEF ShardInv
<1> PICK r : r = CacheInsert(h, files, m)
    OBVIOUS
<1>13. ShardInv(r, files, after, pending, E) /\ (r.usage > Capacity => r.lru = <<>>)
  <2>1. /\ ShardInv(CacheInsert(h, files, m), files, after, pending, E)
        /\ CacheInsert(h, files, m).usage > Capacity => CacheInsert(h, files, m).lru = <<>>
      BY <1>10, <1>11, <1>12, Inserts
  <2> QED BY <2>1
<1>14. Becomes(r) /\ r \in ShardOf(files)
    BY <1>2, <1>13 DEF ShardInv, Counted
<1>15. Shard' = r
    BY <1>14, BecomesIs
<1>16. ShardInv(Shard', fileOf', Holders', Cardinality(Opened'), LiveHandles')
    BY <1>13, <1>15
<1>17. usage' > Capacity => lru' = <<>>
    BY <1>13, <1>14 DEF Becomes
<1>18. live' \in SUBSET Files
    BY <1>1, <1>2
<1> QED BY <1>4, <1>6, <1>16, <1>17, <1>18 DEF CacheInv

\* The handle that the file's table had leaves the cache, and nobody uses it.
LEMMA EvictHits ==
    ASSUME CacheInv, NEW f \in Files, Evict(f), TableLookup(f) # 0
    PROVE  /\ ShardInv(Shard', fileOf, Holders, Cardinality(Opened), LiveHandles')
           /\ usage' > Capacity => lru' = <<>>
<1> PICK h : h = TableLookup(f)
    OBVIOUS
<1>1. /\ h # 0 /\ h \in ToSet(lru) /\ h \in DOMAIN fileOf /\ fileOf[h] = f
      /\ \A k \in ToSet(lru) : fileOf[k] = f => k = h
    BY LookupFinds
<1>2. /\ ThreadsOK /\ Cardinality(Opened) \in Nat /\ Holders \in [DOMAIN fileOf -> Nat]
      /\ fileOf \in Seq(Files) /\ Lists(lru, DOMAIN fileOf, ToSet(lru))
      /\ Counted(Shard, fileOf, Cardinality(Opened)) /\ TableOK(buckets, fileOf, ToSet(lru))
      /\ ToSet(lru) \subseteq LiveHandles /\ ToSet(lru) \subseteq DOMAIN fileOf /\ Shard \in ShardOf(fileOf)
      /\ Held(Shard, fileOf, Holders) /\ usage \in Nat
    BY CacheFacts, HoldersAre
<1> PICK table : table = TableRemove(buckets, f, fileOf)
    OBVIOUS
<1> PICK list : list = RemoveFirst(lru, h)
    OBVIOUS
<1> PICK s : s = Shard
    OBVIOUS
<1> PICK held : held = Holders
    OBVIOUS
<1> PICK n : n = Cardinality(Opened)
    OBVIOUS
<1> PICK files : files = fileOf
    OBVIOUS
<1> DEFINE r == [s EXCEPT !.buckets = table, !.lru = list]
<1>3. TableOK(table, files, ToSet(lru) \ {h})
  <2>1. HandleIn(buckets, f, fileOf) = h
      BY DEF TableLookup
  <2>2. TableOK(TableRemove(buckets, f, fileOf), fileOf, ToSet(lru) \ {HandleIn(buckets, f, fileOf)})
      BY <1>2, TableRemoves
  <2> QED BY <2>1, <2>2
<1>4. Lists(list, DOMAIN files, ToSet(lru) \ {h})
    BY <1>2, ListRemove
<1>5. /\ live' = live \ {f} /\ Becomes(Unref(r, h))
  <2>1. r = [Shard EXCEPT !.buckets = TableRemove(buckets, f, fileOf), !.lru = RemoveFirst(lru, TableLookup(f))]
      OBVIOUS
  <2>2. Shard.buckets = buckets /\ Shard.lru = lru
      BY DEF Shard
  <2>3. live' = live \ {f}
      BY DEF Evict
  <2>4. Becomes(Unref([Shard EXCEPT !.buckets = TableRemove(Shard.buckets, f, fileOf),
                                    !.lru = RemoveFirst(Shard.lru, TableLookup(f))], TableLookup(f)))
      BY DEF Evict
  <2> HIDE DEF Shard
  <2> QED BY <2>1, <2>2, <2>3, <2>4
<1>6. s.lru = lru /\ s.usage = usage
    BY DEF Shard
<1>7. Leaves(h, s, r, files)
  <2>1. table \in Seq(Seq(DOMAIN files)) /\ list \in Seq(DOMAIN files)
      BY <1>3, <1>4 DEF TableOK, Lists
  <2>2. s \in ShardOf(files)
      BY <1>2
  <2>3. /\ r \in ShardOf(files) /\ r.refs = s.refs /\ r.usage = s.usage /\ r.allowed = s.allowed
        /\ r.mapped = s.mapped /\ r.lru = list /\ r.buckets = table
      BY <2>1, <2>2 DEF ShardOf
  <2> HIDE DEF r
  <2> QED BY <1>1, <1>3, <1>4, <1>6, <2>3 DEF Leaves
<1>8. r.lru = list
    BY <1>2 DEF ShardOf
<1> HIDE DEF r
<1>9. /\ Counted(Unref(r, h), files, n) /\ Linked(Unref(r, h), files, held)
      /\ Unref(r, h).usage <= s.usage /\ Unref(r, h).lru = r.lru
  <2>1. \A g, q : Leaves(g, s, q, files) =>
             /\ Counted(Unref(q, g), files, n) /\ Linked(Unref(q, g), files, held)
             /\ Unref(q, g).usage <= s.usage /\ Unref(q, g).lru = q.lru
    <3>1. files \in Seq(Files) /\ held \in [DOMAIN files -> Nat] /\ n \in Nat
          /\ Counted(s, files, n) /\ Held(s, files, held)
        BY <1>2
    <3> QED BY <3>1, Dropped
  <2> QED BY <1>7, <2>1
<1>10. Shard' = Unref(r, h)
  <2>1. Unref(r, h) \in ShardOf(files)
      BY <1>9 DEF Counted
  <2> QED BY <1>5, <2>1, BecomesIs
<1>11. ToSet(list) \subseteq LiveHandles'
  <2>1. ToSet(list) = ToSet(lru) \ {h}
      BY <1>4 DEF Lists
  <2>2. fileOf' = fileOf
      BY DEF Evict
  <2> QED BY <1>1, <1>2, <1>5, <2>1, <2>2 DEF LiveHandles
<1>12. ShardInv(Shard', fileOf, Holders, Cardinality(Opened), LiveHandles')
  <2>1. ToSet(Unref(r, h).lru) \subseteq LiveHandles'
      BY <1>8, <1>9, <1>11
  <2> QED BY <1>9, <1>10, <2>1 DEF ShardInv
<1>13. usage' <= usage /\ usage' \in Nat
  <2>1. usage' = Unref(r, h).usage
      BY <1>5 DEF Becomes
  <2>2. Unref(r, h).usage \in Nat
      BY <1>9 DEF Counted, ShardOf
  <2> QED BY <1>6, <1>9, <2>1, <2>2
<1>14. ~(usage > Capacity)
  <2>1. lru # <<>>
      BY <1>1 DEF ToSet
  <2> QED BY <2>1 DEF CacheInv
<1>15. ~(usage' > Capacity)
    BY <1>2, <1>13, <1>14, TableCacheAssumption
<1> QED BY <1>12, <1>15

LEMMA EvictStep ==
    ASSUME CacheInv, NEW f \in Files, Evict(f)
    PROVE  CacheInv'
<1>1. /\ f \in live /\ live' = live \ {f} /\ UNCHANGED <<threads, fileOf>>
      /\ \A t \in Threads : threads[t].pc # "idle" => threads[t].file # f
    BY DEF Evict
<1>2. ThreadsOK /\ live \in SUBSET Files /\ fileOf \in Seq(Files)
    BY DEF CacheInv
<1>3. ThreadsOK'
    BY <1>1, <1>2 DEF ThreadsOK
<1>4. Holders' = Holders /\ Opened' = Opened
    BY <1>1 DEF Holders, Opened, InUse
<1>5. CASE TableLookup(f) # 0
  <2>1. /\ ShardInv(Shard', fileOf, Holders, Cardinality(Opened), LiveHandles')
        /\ usage' > Capacity => lru' = <<>>
      BY <1>5, EvictHits
  <2> QED BY <1>1, <1>2, <1>3, <1>4, <2>1 DEF CacheInv
<1>6. CASE TableLookup(f) = 0
  <2>1. Becomes(Shard)
      BY <1>6 DEF Evict
  <2>2. Shard' = Shard /\ usage' = usage /\ lru' = lru
    <3>1. Shard \in ShardOf(fileOf)
        BY CacheFacts
    <3>2. Shard' = Shard
        BY <2>1, <3>1, BecomesIs
    <3> QED BY <2>1, <3>2 DEF Becomes, Shard
  <2>3. \A k \in ToSet(lru) : fileOf[k] # f
      BY <1>6, LookupFinds
  <2>4. ToSet(lru) \subseteq LiveHandles
      BY CacheFacts
  <2>5. ToSet(lru) \subseteq LiveHandles'
      BY <1>1, <2>3, <2>4 DEF LiveHandles
  <2>6. ShardInv(Shard, fileOf, Holders, Cardinality(Opened), LiveHandles')
    <3>1. ShardInv(Shard, fileOf, Holders, Cardinality(Opened), LiveHandles) /\ Shard.lru = lru
        BY DEF CacheInv, Shard
    <3> HIDE DEF Shard
    <3> QED BY <2>5, <3>1 DEF ShardInv
  <2> QED BY <1>1, <1>2, <1>3, <1>4, <2>2, <2>6 DEF CacheInv
<1> QED BY <1>5, <1>6

-----------------------------------------------------------------------------
LEMMA CacheStarts == CacheInit => CacheInv
<1> SUFFICES ASSUME CacheInit PROVE CacheInv
    OBVIOUS
<1>1. /\ live = Files /\ threads = [t \in Threads |-> Idle]
      /\ fileOf = <<>> /\ refs = <<>> /\ mapped = <<>>
      /\ usage = 0 /\ lru = <<>> /\ buckets = [b \in 1 .. FirstLength |-> <<>>] /\ allowed = MaxMaps
    BY DEF CacheInit
<1>2. ThreadsOK /\ Opened = {}
  <2>1. Idle \in ThreadStates /\ Idle.pc = "idle"
      BY DEF Idle, ThreadStates
  <2> QED BY <1>1, <2>1 DEF ThreadsOK, Opened
<1>3. TableOK(buckets, fileOf, {})
  <2>1. fileOf \in Seq(Files) /\ FirstLength \in Nat \ {0}
      BY <1>1, TableCacheAssumption
  <2> QED BY <1>1, <2>1, EmptyTable
<1>4. ToSet(lru) = {} /\ IsInjective(lru)
    BY <1>1 DEF ToSet, IsInjective
<1>5. Shard = [refs |-> <<>>, usage |-> 0, lru |-> <<>>, buckets |-> buckets, allowed |-> MaxMaps, mapped |-> <<>>]
    BY <1>1 DEF Shard
<1>6. Shard \in ShardOf(fileOf)
  <2>1. buckets \in Seq(Seq(DOMAIN fileOf)) /\ MaxMaps \in Nat
      BY <1>3, TableCacheAssumption DEF TableOK
  <2>2. <<>> \in Seq(Nat) /\ <<>> \in Seq(DOMAIN fileOf) /\ <<>> \in Seq(BOOLEAN)
      OBVIOUS
  <2> QED BY <1>5, <2>1, <2>2 DEF ShardOf
<1>7. Alive(Shard) = {} /\ AliveMapped(Shard) = {}
    BY <1>5 DEF Alive, AliveMapped
<1>8. Counted(Shard, fileOf, Cardinality(Opened))
  <2>1. Cardinality(Alive(Shard)) = 0 /\ Cardinality(AliveMapped(Shard)) = 0 /\ Cardinality(Opened) = 0
      BY <1>2, <1>7, FS_EmptySet
  <2>2. Len(Shard.refs) = Len(fileOf) /\ Len(Shard.mapped) = Len(fileOf) /\ Shard.usage = 0 /\ Shard.allowed = MaxMaps
      BY <1>1, <1>5
  <2>3. MaxMaps = MaxMaps + 0 + 0
      BY TableCacheAssumption
  <2> QED BY <1>6, <2>1, <2>2, <2>3 DEF Counted
<1>9. Linked(Shard, fileOf, Holders)
  <2>1. Shard.lru = lru /\ Shard.buckets = buckets /\ DOMAIN fileOf = {}
      BY <1>1 DEF Shard
  <2> QED BY <1>3, <1>4, <2>1 DEF Linked, Held
<1>10. ShardInv(Shard, fileOf, Holders, Cardinality(Opened), LiveHandles)
  <2>1. Shard.lru = lru
      BY DEF Shard
  <2> QED BY <1>4, <1>8, <1>9, <2>1 DEF ShardInv
<1>11. live \in SUBSET Files /\ fileOf \in Seq(Files)
    BY <1>1
<1> QED BY <1>1, <1>2, <1>10, <1>11 DEF CacheInv

LEMMA CacheStays == CacheInv /\ [CacheNext]_cacheVars => CacheInv'
<1> SUFFICES ASSUME CacheInv, [CacheNext]_cacheVars PROVE CacheInv'
    OBVIOUS
<1>1. CASE UNCHANGED cacheVars
  <2>1. /\ live' = live /\ threads' = threads /\ fileOf' = fileOf /\ refs' = refs /\ mapped' = mapped
        /\ usage' = usage /\ lru' = lru /\ buckets' = buckets /\ allowed' = allowed
      BY <1>1 DEF cacheVars
  <2>2. Shard' = Shard /\ Holders' = Holders /\ Opened' = Opened /\ LiveHandles' = LiveHandles
      BY <2>1 DEF Shard, Holders, Opened, LiveHandles, InUse
  <2>3. ThreadsOK'
      BY <2>1 DEF CacheInv, ThreadsOK
  <2> QED BY <2>1, <2>2, <2>3 DEF CacheInv
<1>2. ASSUME NEW t \in Threads, NEW f \in Files, FindTable(t, f) PROVE CacheInv'
    BY <1>2, FindTableStep
<1>3. ASSUME NEW t \in Threads, OpenFile(t) \/ OpenFileFails(t) \/ TableOpenFails(t) PROVE CacheInv'
    BY <1>3, OpenSteps
<1>4. ASSUME NEW t \in Threads, InsertTable(t) PROVE CacheInv'
    BY <1>4, InsertStep
<1>5. ASSUME NEW t \in Threads, ReleaseTable(t) PROVE CacheInv'
    BY <1>5, ReleaseStep
<1>6. ASSUME NEW f \in Files, Evict(f) PROVE CacheInv'
    BY <1>6, EvictStep
<1> QED BY <1>1, <1>2, <1>3, <1>4, <1>5, <1>6 DEF CacheNext

LEMMA InListIs == ASSUME NEW e PROVE Contains(lru, e) <=> \E i \in 1 .. Len(lru) : lru[i] = e
    BY DEF Contains

LEMMA CacheSound == CacheInv => TableCacheIsSound
<1> SUFFICES ASSUME CacheInv PROVE TableCacheIsSound
    OBVIOUS
<1>1. /\ live \in SUBSET Files /\ fileOf \in Seq(Files) /\ ThreadsOK
      /\ Counted(Shard, fileOf, Cardinality(Opened)) /\ Held(Shard, fileOf, Holders)
      /\ TableOK(buckets, fileOf, ToSet(lru)) /\ ToSet(lru) \subseteq LiveHandles
      /\ refs \in Seq(Nat) /\ DOMAIN refs = DOMAIN fileOf /\ usage \in Nat /\ allowed \in Nat
      /\ mapped \in Seq(BOOLEAN) /\ DOMAIN mapped = DOMAIN fileOf /\ lru \in Seq(DOMAIN fileOf)
      /\ \A h \in DOMAIN fileOf : refs[h] = Holders[h] + (IF h \in ToSet(lru) THEN 1 ELSE 0)
    BY CacheFacts
<1>2. Holders \in [DOMAIN fileOf -> Nat] /\ \A h \in DOMAIN fileOf : Holders[h] = Cardinality(InUse(h))
    BY <1>1, HoldersAre
<1>3. \A h : Contains(lru, h) <=> h \in ToSet(lru)
  <2> TAKE h
  <2>1. DOMAIN lru = 1 .. Len(lru)
      BY <1>1
  <2> QED BY <2>1, InListIs DEF ToSet
<1>4. RefsCountUsers
  <2>1. \A h \in DOMAIN refs : refs[h] = Cardinality(InUse(h)) + (IF Contains(lru, h) THEN 1 ELSE 0)
      BY <1>1, <1>2, <1>3
  <2>2. usage = Cardinality({h \in DOMAIN refs : refs[h] > 0})
      BY <1>1 DEF Counted, Alive, Shard
  <2> QED BY <2>1, <2>2 DEF RefsCountUsers
<1>5. TableMatchesList
  <2>1. Cached(buckets) = ToSet(lru)
      BY <1>1, TableHolds
  <2>2. IsInjective(lru)
      BY <1>1 DEF Held, Shard
  <2>3. \A f \in Files : TableLookup(f) # 0 <=> \E h \in ToSet(lru) : fileOf[h] = f
    <3> TAKE f \in Files
    <3> QED BY LookupFinds
  <2>4. usage > Capacity => lru = <<>>
      BY DEF CacheInv
  <2> QED BY <2>1, <2>2, <2>3, <2>4 DEF TableMatchesList
<1>6. MappingsAreReturned
  <2>1. {h \in DOMAIN refs : refs[h] > 0 /\ mapped[h]} = AliveMapped(Shard)
    <3>1. \A h \in DOMAIN refs : mapped[h] \in BOOLEAN
        BY <1>1
    <3>2. \A h \in DOMAIN refs : mapped[h] <=> mapped[h] = TRUE
        BY <3>1, Zenon
    <3>3. AliveMapped(Shard) = {h \in DOMAIN refs : refs[h] > 0 /\ mapped[h] = TRUE}
        BY DEF AliveMapped, Shard
    <3> QED BY <3>2, <3>3, Zenon
  <2>2. {t \in Threads : threads[t].pc = "opened" /\ threads[t].mapped} = Opened
    <3>1. \A t \in Threads : threads[t].mapped \in BOOLEAN
        BY <1>1 DEF ThreadsOK, ThreadStates
    <3>2. \A t \in Threads : threads[t].mapped <=> threads[t].mapped = TRUE
        BY <3>1, Zenon
    <3> QED BY <3>2, Zenon DEF Opened
  <2>3. MaxMaps - allowed = Cardinality(AliveMapped(Shard)) + Cardinality(Opened)
    <3>1. Cardinality(AliveMapped(Shard)) \in Nat /\ Cardinality(Opened) \in Nat
      <4>1. AliveMapped(Shard) \subseteq 1 .. Len(refs) /\ Len(refs) \in Nat
          BY <1>1 DEF AliveMapped, Shard
      <4>2. IsFiniteSet(1 .. Len(refs))
          BY <4>1, FS_Interval
      <4>3. IsFiniteSet(AliveMapped(Shard))
          BY <4>1, <4>2, FS_Subset
      <4> QED BY <1>1, <4>3, FS_CardinalityType, HoldersAre
    <3>2. MaxMaps = allowed + Cardinality(AliveMapped(Shard)) + Cardinality(Opened)
        BY <1>1 DEF Counted, Shard
    <3> QED BY <1>1, <3>1, <3>2
  <2>4. \A h \in DOMAIN refs : refs[h] > 0 => fileOf[h] \in live
    <3> SUFFICES ASSUME NEW h \in DOMAIN refs, refs[h] > 0 PROVE fileOf[h] \in live
        OBVIOUS
    <3>1. CASE h \in ToSet(lru)
        BY <1>1, <3>1 DEF LiveHandles
    <3>2. CASE h \notin ToSet(lru)
      <4>1. Cardinality(InUse(h)) > 0
          BY <1>1, <1>2, <3>2
      <4>2. InUse(h) # {}
          BY <4>1, FS_EmptySet
      <4> QED BY <1>1, <4>2 DEF InUse, ThreadsOK
    <3> QED BY <3>1, <3>2
  <2>5. allowed >= 0
      BY <1>1
  <2> QED BY <2>1, <2>2, <2>3, <2>4, <2>5 DEF MappingsAreReturned
<1> QED BY <1>4, <1>5, <1>6 DEF TableCacheIsSound

\* The table cache, for any number of threads, files and buckets: a table is closed with
\* its last reference and not before, the hash table finds what the list holds, also
\* while it grows, and every mapping is returned once.
THEOREM CacheKeepsTables == CacheSpec => []TableCacheIsSound
<1>1. CacheSpec => []CacheInv
    BY CacheStarts, CacheStays, PTL DEF CacheSpec
<1> QED BY <1>1, CacheSound, PTL

-----------------------------------------------------------------------------
\* Side by side the components keep what is proved of each (SharedState).
THEOREM SharedCorrect ==
    SharedSpec => [](ReadsAreExact /\ AllocationsAreApart /\ TableCacheIsSound /\ LockExcludes /\ ItemsRunInOrder)
<1>1. SharedInit => MemInit /\ ArenaInit /\ CacheInit /\ EnvInit
    BY DEF SharedInit
<1>2. [SharedNext]_sharedVars =>
          [MemNext]_memVars /\ [ArenaNext]_arenaVars /\ [CacheNext]_cacheVars /\ [EnvNext]_envVars
    BY DEF SharedNext, sharedVars
<1>3. SharedSpec => MemSpec /\ ArenaSpec /\ CacheSpec /\ EnvInit /\ [][EnvNext]_envVars
    BY <1>1, <1>2, PTL DEF SharedSpec, MemSpec, ArenaSpec, CacheSpec
<1> QED BY <1>3, MemTableReads, ArenaCorrect, CacheKeepsTables, LockCorrect, QueueCorrect, PTL
=============================================================================
