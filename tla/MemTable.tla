------------------------------ MODULE MemTable ------------------------------
(***************************************************************************)
(* The memtable of leveldb and the skip list it is made of (skiplist.h,    *)
(* memtable.cc): one writer adds entries while a reader that holds no lock *)
(* seeks, gets and iterates.  Every load and store of a link is a step.    *)
(*                                                                         *)
(* The n-th entry has sequence number n and is node n; the head is node 0. *)
(* Which value an entry holds, or that it is a deletion, is fixed when it  *)
(* is added, so that finding the entry is all that Get is about.           *)
(***************************************************************************)
EXTENDS Integers

CONSTANTS
    Users,          \* user keys
    MaxHeight,      \* kMaxHeight: 12
    MaxEntries      \* bound: entries added

ASSUME MemTableAssumption ==
    /\ Users \subseteq Int
    /\ MaxHeight \in Nat \ {0}
    /\ MaxEntries \in Nat

HeadNode == 0
Null == -1
Garbage == -2       \* what the arena's memory holds before it is written
Nodes == 1 .. MaxEntries
Levels == 0 .. MaxHeight - 1

VARIABLES
    userOf,     \* the user key of every node
    link,       \* next_ of every node
    maxHeight,  \* max_height_
    count,      \* entries added, the one being inserted included
    published,  \* LastSequence: what readers may ask for
    wpc,        \* what the writer does next
    prev,       \* prev[] of Insert
    height,     \* height of the new node
    wx,         \* x and level of the writer's search, and of its loop over the levels
    wlevel,
    rpc,        \* the search the reader is in
    rx,         \* its x, level and key
    rlevel,
    goal,
    pos,        \* node_ of the reader's iterator
    answer,     \* what the reader found last
    tall        \* the levels at which a node has been linked

listVars == <<userOf, link, maxHeight, tall>>
writerVars == <<count, published, wpc, prev, height, wx, wlevel>>
readerVars == <<rpc, rx, rlevel, goal, pos, answer>>
memVars == <<userOf, link, maxHeight, tall, count, published, wpc, prev, height,
             wx, wlevel, rpc, rx, rlevel, goal, pos, answer>>

Key(user, seq) == [user |-> user, seq |-> seq]
KeyOf(n) == Key(userOf[n], n)

\* InternalKeyComparator: by user key, then newest first.
Less(k, l) == k.user < l.user \/ (k.user = l.user /\ k.seq > l.seq)
KeyIsAfterNode(key, n) == n # Null /\ Less(KeyOf(n), key)

\* The nodes that are completely inserted.
Complete == IF wpc = "idle" THEN count ELSE count - 1

NoKey == Key(0, 0)
NoAnswer == [kind |-> "none", key |-> NoKey, node |-> Null, had |-> 0]

-----------------------------------------------------------------------------
MemInit ==
    /\ userOf = [n \in Nodes |-> 0]
    /\ link = [n \in 0 .. MaxEntries |-> [l \in Levels |-> IF n = HeadNode THEN Null ELSE Garbage]]
    /\ tall = [n \in 0 .. MaxEntries |-> IF n = HeadNode THEN MaxHeight ELSE 0]
    /\ maxHeight = 1 /\ count = 0 /\ published = 0
    /\ wpc = "idle" /\ prev = [l \in Levels |-> HeadNode] /\ height = 1
    /\ wx = HeadNode /\ wlevel = 0
    /\ rpc = "idle" /\ rx = HeadNode /\ rlevel = 0 /\ goal = NoKey /\ pos = Null /\ answer = NoAnswer

\* MemTable::Add and the start of Insert: the search for the predecessors.
Add(user) ==
    /\ wpc = "idle" /\ count < MaxEntries
    /\ wpc' = "find" /\ count' = count + 1
    /\ userOf' = [userOf EXCEPT ![count + 1] = user]
    /\ wx' = HeadNode /\ wlevel' = maxHeight - 1
    /\ UNCHANGED <<link, maxHeight, tall, published, prev, height>> /\ UNCHANGED readerVars

\* A turn of FindGreaterOrEqual with prev.
FindPrev ==
    LET n == link[wx][wlevel]
    IN  /\ wpc = "find"
        /\ \/ /\ KeyIsAfterNode(KeyOf(count), n)
              /\ wx' = n
              /\ UNCHANGED <<wpc, prev, wlevel>>
           \/ /\ ~KeyIsAfterNode(KeyOf(count), n)
              /\ prev' = [prev EXCEPT ![wlevel] = wx]
              /\ IF wlevel = 0 THEN wpc' = "height" /\ UNCHANGED wlevel
                               ELSE wpc' = wpc /\ wlevel' = wlevel - 1
              /\ UNCHANGED wx
        /\ UNCHANGED <<count, published, height>> /\ UNCHANGED listVars /\ UNCHANGED readerVars

\* RandomHeight, the new max_height_ and NewNode.
NewNode(h) ==
    /\ wpc = "height"
    /\ wpc' = "point" /\ height' = h
    /\ prev' = [l \in Levels |-> IF maxHeight <= l /\ l < h THEN HeadNode ELSE prev[l]]
    /\ maxHeight' = IF h > maxHeight THEN h ELSE maxHeight
    /\ wlevel' = 0
    /\ UNCHANGED <<userOf, link, tall, count, published, wx>> /\ UNCHANGED readerVars

\* Mutant: the node is published before its own link is written.
PointNodeLater ==
    /\ wpc = "point"
    /\ wpc' = "publish"
    /\ link' = [link EXCEPT ![count][wlevel] = Null]
    /\ UNCHANGED <<userOf, maxHeight, tall, count, published, prev, height, wx, wlevel>>
    /\ UNCHANGED readerVars

\* The loop of Insert: the node's own link is written first, then the node is
\* published in its predecessor's.
PointNode ==
    /\ wpc = "point"
    /\ wpc' = "publish"
    /\ link' = [link EXCEPT ![count][wlevel] = link[prev[wlevel]][wlevel]]
    /\ UNCHANGED <<userOf, maxHeight, tall, count, published, prev, height, wx, wlevel>>
    /\ UNCHANGED readerVars
PublishNode ==
    /\ wpc = "publish"
    /\ link' = [link EXCEPT ![prev[wlevel]][wlevel] = count]
    /\ tall' = [tall EXCEPT ![count] = wlevel + 1]
    /\ IF wlevel + 1 < height THEN wpc' = "point" /\ wlevel' = wlevel + 1
                              ELSE wpc' = "idle" /\ UNCHANGED wlevel
    /\ UNCHANGED <<userOf, maxHeight, count, published, prev, height, wx>>
    /\ UNCHANGED readerVars

\* A batch is in the memtable: DBImpl::Write moves the last sequence.
SetLastSequence ==
    /\ wpc = "idle" /\ published' = count
    /\ UNCHANGED <<count, wpc, prev, height, wx, wlevel>>
    /\ UNCHANGED listVars /\ UNCHANGED readerVars

-----------------------------------------------------------------------------
Found(kind, key, n) == answer' = [kind |-> kind, key |-> key, node |-> n, had |-> answer.had]
Unwritten == UNCHANGED listVars /\ UNCHANGED writerVars

\* The reader begins a search.  The height it loads may be an old one.
Begin(kind, h, key) ==
    /\ rpc = "idle"
    /\ rpc' = kind /\ answer' = [NoAnswer EXCEPT !.had = Complete]
    /\ rx' = HeadNode /\ rlevel' = h - 1 /\ goal' = key
    /\ UNCHANGED pos /\ Unwritten

\* Get and Seek: FindGreaterOrEqual of the user key at a snapshot; Prev: FindLessThan
\* of the node's key; SeekToLast: FindLast.
Seek(h, user, snapshot) == Begin("ge", h, Key(user, snapshot))
Prev(h) == pos # Null /\ Begin("lt", h, KeyOf(pos))
SeekToLast(h) == Begin("last", h, NoKey)

\* Whether a search goes on behind node n.
GoesOn(kind, key, n) == IF kind = "last" THEN n # Null ELSE KeyIsAfterNode(key, n)

\* A turn of the loop of the three searches.
FindStep ==
    LET n == link[rx][rlevel]
        ends == IF rpc = "ge" THEN n ELSE IF rx = HeadNode THEN Null ELSE rx
    IN  /\ rpc # "idle"
        /\ \/ /\ GoesOn(rpc, goal, n)
              /\ rx' = n
              /\ UNCHANGED <<rlevel, rpc, pos, answer>>
           \/ /\ ~GoesOn(rpc, goal, n) /\ rlevel > 0
              /\ rlevel' = rlevel - 1
              /\ UNCHANGED <<rx, rpc, pos, answer>>
           \/ /\ ~GoesOn(rpc, goal, n) /\ rlevel = 0
              /\ rpc' = "idle" /\ pos' = ends /\ Found(rpc, goal, ends)
              /\ UNCHANGED <<rx, rlevel>>
        /\ UNCHANGED goal /\ Unwritten

\* Next and SeekToFirst load one link.
Next0(kind, x, key) ==
    /\ rpc = "idle"
    /\ pos' = link[x][0]
    /\ answer' = [kind |-> kind, key |-> key, node |-> link[x][0], had |-> Complete]
    /\ UNCHANGED <<rpc, rx, rlevel, goal>> /\ Unwritten
IterNext0 == pos # Null /\ Next0("next", pos, KeyOf(pos))
SeekToFirst0 == Next0("first", HeadNode, NoKey)

\* MemTable::Get: the node of the seek if it has the user key.
Get(n, key) == IF n # Null /\ userOf[n] = key.user THEN n ELSE Null

MemNext ==
    \/ \E user \in Users : Add(user)
    \/ FindPrev
    \/ \E h \in 1 .. MaxHeight : NewNode(h)
    \/ PointNode
    \/ PublishNode
    \/ SetLastSequence
    \/ \E h \in 1 .. maxHeight, user \in Users : \E snapshot \in 0 .. published : Seek(h, user, snapshot)
    \/ \E h \in 1 .. maxHeight : Prev(h)
    \/ \E h \in 1 .. maxHeight : SeekToLast(h)
    \/ FindStep
    \/ IterNext0
    \/ SeekToFirst0

MemSpec == MemInit /\ [][MemNext]_memVars

-----------------------------------------------------------------------------
In(n, l) == n \in 0 .. count /\ l < tall[n]

ListTypeOK ==
    /\ userOf \in [Nodes -> Int]
    /\ link \in [0 .. MaxEntries -> [Levels -> Nodes \cup {Null, Garbage}]]
    /\ tall \in [0 .. MaxEntries -> 0 .. MaxHeight]
    /\ maxHeight \in 1 .. MaxHeight
    /\ count \in 0 .. MaxEntries /\ published \in 0 .. count
WriterTypeOK ==
    /\ wpc \in {"idle", "find", "height", "point", "publish"}
    /\ prev \in [Levels -> 0 .. MaxEntries] /\ height \in 1 .. MaxHeight
    /\ wx \in 0 .. MaxEntries /\ wlevel \in Levels
ReaderTypeOK ==
    /\ rpc \in {"idle", "ge", "lt", "last"}
    /\ rx \in 0 .. MaxEntries /\ rlevel \in Levels /\ goal \in [user : Int, seq : Nat]
    /\ pos \in Nodes \cup {Null}
    /\ answer \in [kind : {"none", "ge", "lt", "last", "next", "first"}, key : [user : Int, seq : Nat],
                   node : Nodes \cup {Null}, had : 0 .. MaxEntries]
MemTypeOK == ListTypeOK /\ WriterTypeOK /\ ReaderTypeOK

\* A node that a search of this kind must not have left out.
LeftOut(a, n) ==
    LET k == KeyOf(n)
        beforeNode == a.node = Null \/ Less(k, KeyOf(a.node))
        afterNode == a.node = Null \/ Less(KeyOf(a.node), k)
    IN  \/ a.kind = "ge" /\ ~Less(k, a.key) /\ beforeNode
        \/ a.kind = "lt" /\ Less(k, a.key) /\ afterNode
        \/ a.kind = "last" /\ afterNode
        \/ a.kind = "next" /\ Less(a.key, k) /\ beforeNode
        \/ a.kind = "first" /\ beforeNode

\* Whatever the writer does meanwhile, what a reader's search or step returns is on
\* its side of the key, and no entry that was in the list when it began was passed
\* over (skiplist.h:18-28, "Reads require a guarantee that the SkipList will not be
\* destroyed"; otherwise "progress without any internal locking or synchronization").
AnswersMissNothing ==
    /\ answer.node # Null =>
          /\ In(answer.node, 0)
          /\ answer.kind = "ge" => ~Less(KeyOf(answer.node), answer.key)
          /\ answer.kind = "lt" => Less(KeyOf(answer.node), answer.key)
          /\ answer.kind = "next" => Less(answer.key, KeyOf(answer.node))
    /\ \A n \in 1 .. answer.had : ~LeftOut(answer, n)

\* MemTable::Get at a snapshot returns the newest entry of the user key that is not
\* newer than the snapshot, while later entries are being inserted
\* (memtable.cc:119-121, "the Seek() call above should have skipped all entries with
\* overly large sequence numbers").
GetIsExact ==
    answer.kind = "ge" =>
        LET mine == {n \in 1 .. answer.key.seq : userOf[n] = answer.key.user}
            got == Get(answer.node, answer.key)
        IN  IF mine = {} THEN got = Null ELSE got \in mine /\ \A n \in mine : n <= got

\* Readers without a lock see a memtable in which nothing is missing.
ReadsAreExact == AnswersMissNothing /\ GetIsExact

-----------------------------------------------------------------------------
\* The inductive invariant.  x comes before a key, or is the head.
Precedes(x, key) == x = HeadNode \/ Less(KeyOf(x), key)

\* Every link of a list leads forward, to a node of that list.
ListsAreSorted ==
    \A x \in 0 .. count, l \in Levels :
        In(x, l) => \/ link[x][l] = Null
                    \/ link[x][l] # HeadNode /\ In(link[x][l], l) /\ Precedes(x, KeyOf(link[x][l]))

\* No node of the lowest list lies inside one of its links.
NoGap ==
    \A x \in 0 .. count, n \in 1 .. count :
        In(x, 0) /\ In(n, 0) /\ Precedes(x, KeyOf(n)) =>
            link[x][0] # Null /\ ~Less(KeyOf(n), KeyOf(link[x][0]))

\* How high the nodes are linked.
Heights ==
    /\ tall[HeadNode] = MaxHeight
    /\ \A n \in 1 .. count : tall[n] <= maxHeight /\ (n < count \/ wpc = "idle" => tall[n] > 0)
    /\ \A n \in Nodes : n > count => tall[n] = 0
    /\ \A l \in Levels : l >= maxHeight => link[HeadNode][l] = Null

\* Where node "count" goes at a level.
PrevOK(l) ==
    /\ In(prev[l], l) /\ Precedes(prev[l], KeyOf(count))
    /\ link[prev[l]][l] # Null => Less(KeyOf(count), KeyOf(link[prev[l]][l]))

Writing ==
    /\ wpc # "idle" => count > 0
    /\ wpc \in {"find", "height"} => tall[count] = 0
    /\ wpc = "find" => /\ wlevel < maxHeight /\ In(wx, wlevel) /\ Precedes(wx, KeyOf(count))
                       /\ \A l \in Levels : wlevel < l /\ l < maxHeight => PrevOK(l)
    /\ wpc = "height" => \A l \in Levels : l < maxHeight => PrevOK(l)
    /\ wpc \in {"point", "publish"} =>
          /\ tall[count] = wlevel /\ wlevel < height /\ height <= maxHeight
          /\ \A l \in Levels : wlevel <= l /\ l < height => PrevOK(l)
    /\ wpc = "publish" => link[count][wlevel] = link[prev[wlevel]][wlevel]

Reading ==
    /\ published <= Complete /\ answer.had <= Complete
    /\ pos # Null => In(pos, 0)
    /\ rpc # "idle" => /\ In(rx, rlevel)
                       /\ rpc # "last" => Precedes(rx, goal)
                       /\ answer.kind = "none" /\ answer.node = Null
    /\ rpc = "ge" => goal.seq <= answer.had
    /\ answer.kind = "ge" => answer.key.seq <= answer.had

MemInv ==
    MemTypeOK /\ ListsAreSorted /\ NoGap /\ Heights /\ Writing /\ Reading /\ AnswersMissNothing
=============================================================================
