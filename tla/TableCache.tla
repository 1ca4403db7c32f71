----------------------------- MODULE TableCache -----------------------------
(***************************************************************************)
(* The table cache (db/table_cache.cc) with the LRU cache and its hash     *)
(* table (util/cache.cc; one shard, as shards share nothing) and the       *)
(* opening of table files, of which a limited number is mapped             *)
(* (util/env_posix.cc).  Threads look tables up at the same time.          *)
(*                                                                         *)
(* A handle (LRUHandle) is a number; it owns an open file and a table.     *)
(***************************************************************************)
EXTENDS Integers, SequencesExt

CONSTANTS
    Threads,
    Files,          \* file numbers of tables
    HashOf,         \* the hash of a file number
    Capacity,       \* entries of the cache: max_open_files - 10
    MaxMaps,        \* files that may be mapped: 1000
    FirstLength,    \* buckets of an empty hash table: 4
    MaxHandles      \* bound: tables opened

ASSUME TableCacheAssumption ==
    /\ IsFiniteSet(Threads) /\ HashOf \in [Files -> Nat]
    /\ Capacity \in Nat /\ MaxMaps \in Nat /\ FirstLength \in Nat \ {0}

Handles == 1 .. MaxHandles
Idle == [pc |-> "idle", file |-> 0, handle |-> 0, mapped |-> FALSE]

VARIABLES
    live,           \* the table files of live versions
    threads,        \* what each thread does: [pc, file, handle, mapped]
    fileOf,         \* of each handle created: its file,
    refs,           \* its references,
    mapped,         \* and whether the file is mapped
    usage,          \* usage_
    lru,            \* the LRU list, oldest first
    buckets,        \* the hash table: a sequence of chains
    allowed         \* allowed_ of the MmapLimiter

cacheVars == <<live, threads, fileOf, refs, mapped, usage, lru, buckets, allowed>>

CacheInit ==
    /\ live = Files /\ threads = [t \in Threads |-> Idle]
    /\ fileOf = <<>> /\ refs = <<>> /\ mapped = <<>>
    /\ usage = 0 /\ lru = <<>> /\ buckets = [b \in 1 .. FirstLength |-> <<>>]
    /\ allowed = MaxMaps

-----------------------------------------------------------------------------
\* HandleTable.
Bucket(file, length) == 1 + (HashOf[file] % length)
Cached(list) == UNION {ToSet(list[b]) : b \in DOMAIN list}

\* The place of a file's handle in its chain, or 0.
FindPointer(chain, file, files) == SelectInSeq(chain, LAMBDA h : files[h] = file)
HandleIn(list, file, files) ==
    LET chain == list[Bucket(file, Len(list))]
        i == FindPointer(chain, file, files)
    IN  IF i = 0 THEN 0 ELSE chain[i]
TableLookup(file) == HandleIn(buckets, file, fileOf)

\* Resize: the entries of each chain are pushed in front of their new ones.
NewLength(elems) ==
    LET doubled[k \in 0 .. elems] == IF k = 0 THEN FirstLength ELSE 2 * doubled[k - 1]
    IN  doubled[Min({k \in 0 .. elems : doubled[k] >= elems})]
Resize(list, files) ==
    LET length == NewLength(Cardinality(Cached(list)))
        all == FlattenSeq(list)
        pushed[n \in 0 .. Len(all)] ==
            IF n = 0 THEN [b \in 1 .. length |-> <<>>]
            ELSE [pushed[n - 1] EXCEPT ![Bucket(files[all[n]], length)] = <<all[n]>> \o @]
    IN  pushed[Len(all)]

TableInsert(h, files) ==
    LET b == Bucket(files[h], Len(buckets))
        i == FindPointer(buckets[b], files[h], files)
        grown == [buckets EXCEPT ![b] = Append(@, h)]
    IN  IF i # 0
        THEN [old |-> buckets[b][i], list |-> [buckets EXCEPT ![b][i] = h]]
        ELSE [old |-> 0, list |-> IF Cardinality(Cached(grown)) > Len(buckets)
                                  THEN Resize(grown, files) ELSE grown]
TableRemove(list, file, files) ==
    [list EXCEPT ![Bucket(file, Len(list))] = RemoveFirst(@, HandleIn(list, file, files))]

\* Unref in a shard s = [refs, usage]: with the last reference the charge goes, and
\* DeleteEntry deletes the table and the file, which gives its mapping back.
Unref(s, h) ==
    [s EXCEPT !.refs[h] = @ - 1, !.usage = IF s.refs[h] = 1 THEN @ - 1 ELSE @,
              !.allowed = IF s.refs[h] = 1 /\ s.mapped[h] THEN @ + 1 ELSE @]
Shard == [refs |-> refs, usage |-> usage, lru |-> lru, buckets |-> buckets, allowed |-> allowed,
          mapped |-> mapped]
Becomes(s) ==
    /\ refs' = s.refs /\ usage' = s.usage /\ lru' = s.lru /\ buckets' = s.buckets
    /\ allowed' = s.allowed /\ mapped' = s.mapped

\* LRUCache::Insert: the oldest entries go until the charge fits, whoever holds them,
\* the new one at last.
EvictOldest(s, files) ==
    LET h == s.lru[1]
    IN  IF s.usage <= Capacity \/ s.lru = <<>> THEN s
        ELSE Unref([s EXCEPT !.lru = Tail(@), !.buckets = TableRemove(@, files[h], files)], h)
EvictWhileFull(s, files) ==
    LET evicted[n \in 0 .. Len(s.lru)] == IF n = 0 THEN s ELSE EvictOldest(evicted[n - 1], files)
    IN  evicted[Len(s.lru)]
\* The handle that the table had for the file is replaced.
InsertCounted(references, h, files, isMapped) ==
    LET new == TableInsert(h, files)
        one == [Shard EXCEPT !.refs = Append(@, references), !.usage = @ + 1, !.mapped = Append(@, isMapped),
                             !.lru = Append(@, h), !.buckets = new.list]
        two == IF new.old = 0 THEN one
               ELSE Unref([one EXCEPT !.lru = RemoveFirst(@, new.old)], new.old)
    IN  EvictWhileFull(two, files)
\* Mutant: the caller's reference is not counted.
CacheInsertOne(h, files, isMapped) == InsertCounted(1, h, files, isMapped)

CacheInsert(h, files, isMapped) == InsertCounted(2, h, files, isMapped)

-----------------------------------------------------------------------------
\* FindTable begins with a lookup, of a file of the version the thread reads.
FindTable(t, f) ==
    LET h == TableLookup(f)
    IN  /\ threads[t].pc = "idle" /\ f \in live
        /\ IF h = 0
           THEN /\ threads' = [threads EXCEPT ![t] = [Idle EXCEPT !.pc = "open", !.file = f]]
                /\ UNCHANGED <<refs, lru>>
           ELSE /\ threads' = [threads EXCEPT ![t] = [Idle EXCEPT !.pc = "use", !.file = f, !.handle = h]]
                /\ refs' = [refs EXCEPT ![h] = @ + 1]
                /\ lru' = Append(RemoveFirst(lru, h), h)
        /\ UNCHANGED <<live, fileOf, mapped, usage, buckets, allowed>>

\* NewRandomAccessFile: mapped while the limit allows it.
OpenFile(t) ==
    /\ threads[t].pc = "open"
    /\ threads' = [threads EXCEPT ![t].pc = "opened", ![t].mapped = allowed > 0]
    /\ allowed' = IF allowed > 0 THEN allowed - 1 ELSE allowed
    /\ UNCHANGED <<live, fileOf, refs, mapped, usage, lru, buckets>>

\* Opening the file or mapping it fails: the slot is given back at once.
OpenFileFails(t) ==
    /\ threads[t].pc = "open"
    /\ threads' = [threads EXCEPT ![t] = Idle]
    /\ UNCHANGED <<live, fileOf, refs, mapped, usage, lru, buckets, allowed>>

\* Table::Open fails: the file is deleted and nothing is cached.
TableOpenFails(t) ==
    /\ threads[t].pc = "opened"
    /\ threads' = [threads EXCEPT ![t] = Idle]
    /\ allowed' = IF threads[t].mapped THEN allowed + 1 ELSE allowed
    /\ UNCHANGED <<live, fileOf, refs, mapped, usage, lru, buckets>>

\* Table::Open succeeds: the table is inserted, though another thread may have
\* inserted one for the same file meanwhile.
InsertTable(t) ==
    LET h == Len(fileOf) + 1
    IN  /\ threads[t].pc = "opened" /\ h \in Handles
        /\ threads' = [threads EXCEPT ![t].pc = "use", ![t].handle = h]
        /\ fileOf' = Append(fileOf, threads[t].file)
        /\ Becomes(CacheInsert(h, fileOf', threads[t].mapped))
        /\ UNCHANGED live

\* Get is done with the table, or an iterator is destroyed: UnrefEntry.
ReleaseTable(t) ==
    /\ threads[t].pc = "use"
    /\ Becomes(Unref(Shard, threads[t].handle))
    /\ threads' = [threads EXCEPT ![t] = Idle]
    /\ UNCHANGED <<live, fileOf>>

\* DeleteObsoleteFiles drops a table that no version and so no thread uses any more:
\* TableCache::Evict, then the file is deleted.
Evict(f) ==
    LET h == TableLookup(f)
        s == [Shard EXCEPT !.buckets = TableRemove(@, f, fileOf), !.lru = RemoveFirst(@, h)]
    IN  /\ f \in live /\ \A t \in Threads : threads[t].pc # "idle" => threads[t].file # f
        /\ live' = live \ {f}
        /\ IF h = 0 THEN Becomes(Shard) ELSE Becomes(Unref(s, h))
        /\ UNCHANGED <<threads, fileOf>>

CacheNext ==
    \/ \E t \in Threads, f \in Files : FindTable(t, f)
    \/ \E t \in Threads : OpenFile(t) \/ OpenFileFails(t) \/ TableOpenFails(t) \/ InsertTable(t) \/ ReleaseTable(t)
    \/ \E f \in Files : Evict(f)

CacheSpec == CacheInit /\ [][CacheNext]_cacheVars

-----------------------------------------------------------------------------
InUse(h) == {t \in Threads : threads[t].pc = "use" /\ threads[t].handle = h}

\* The references of a handle are the cache's and its users': a table is deleted
\* with the last of them and not before, though it was evicted, erased or replaced
\* while in use (cache.cc:186-194, 242-253).
RefsCountUsers ==
    /\ \A h \in DOMAIN refs : refs[h] = Cardinality(InUse(h)) + (IF Contains(lru, h) THEN 1 ELSE 0)
    /\ usage = Cardinality({h \in DOMAIN refs : refs[h] > 0})

\* The hash table finds exactly what is on the LRU list, also after it grew, and the
\* cache is over its capacity only when it keeps nothing.
TableMatchesList ==
    /\ Cached(buckets) = ToSet(lru) /\ IsInjective(lru)
    /\ \A f \in Files : TableLookup(f) # 0 <=> \E h \in ToSet(lru) : fileOf[h] = f
    /\ usage > Capacity => lru = <<>>

\* Every mapping is one that an open table, or a thread that opens one, has, and is
\* given back once on every path; no table of a deleted file stays open.
MappingsAreReturned ==
    /\ allowed >= 0
    /\ MaxMaps - allowed = Cardinality({h \in DOMAIN refs : refs[h] > 0 /\ mapped[h]})
                             + Cardinality({t \in Threads : threads[t].pc = "opened" /\ threads[t].mapped})
    /\ \A h \in DOMAIN refs : refs[h] > 0 => fileOf[h] \in live

\* Tables, their handles and their mappings live exactly as long as somebody needs them.
TableCacheIsSound == RefsCountUsers /\ TableMatchesList /\ MappingsAreReturned
=============================================================================
