# A TLA+ model of meal-deals

meal-deals is an iOS application that shows restaurant deals on a map. A
Firebase database holds the restaurants; the application observes it, keeps a
list that a carousel shows, looks up the coordinates of every address and puts
a pin on the map, notifies the user when a deal changes, and lets the user
slide a panel with the carousel over the map. The repository also carries the
sources the application is built with: the carousel layout, and, for the
Firebase SDK, the storage engine leveldb, the protocol-buffer codec nanopb and
the zlib wrapper of GoogleToolboxForMac. This directory models all of these,
checks the models with TLC and proves the main safety properties of the
application, of leveldb's shared memory and of its files with TLAPS.

Two kinds of behaviour make the code hard. The application's handlers all run
on the main queue, so each is one atomic step; the difficulty is what happens
between them: a delayed block and a geocoder answer that were started for an
older version of a restaurant, animations that end after the list changed,
views that are recycled. leveldb adds threads, I/O errors and crashes, and a
state on disk that must be right after any of them; nanopb and the zlib wrapper
must take whatever bytes arrive.

## 1. Inventory

| Part | State | Operations | Interacts with |
|---|---|---|---|
| Observers (`MainViewController.viewDidLoad`) | `restaurants` | childAdded, childChanged, childRemoved, each with early returns for malformed children | Firebase query (250 first children), pins, notifications, carousel |
| Pins (`addAnnotationFor`) | `annotations`, `geocoderCounter`, annotations on `mapView` | delayed request, geocoder call, completion, removal by the observers | `DispatchQueue.main`, `CLGeocoder` |
| Notifications (`notifyFor`, `willPresent`, `AppDelegate`) | requests in the notification centre, authorization | file, replace by identifier, present, answer of the prompt | `UNUserNotificationCenter` |
| Panel and camera | `isExpanded`, `followLocation`, chevron hidden/enabled, region of the map | chevron and location buttons, end of animation, lookup of the centred restaurant, location updates | carousel, geocoder, location manager |
| Carousel layout (`CenteredCollectionViewFlowLayout`) | insets, offset, last size and direction | invalidateLayout, targetContentOffset, scrollToPage, currentCenteredPage | `UICollectionView` |
| Recycled views (`CollectionViewCell`, `DealAnnotationView`) | restaurant, texts of labels | render, prepareForReuse, cellForItemAt, viewFor | reuse pools of UIKit and MapKit |
| leveldb: levels (`version_set.cc`) | files of each level, compaction pointers, file to compact | lookup, level of a flushed memtable, choice, course and cut of compactions | memtable, snapshots, background thread |
| leveldb: database (`db_impl.cc`) | writer queue, memtables, log, manifest, CURRENT, tables, pending outputs, background error | Write in groups, MakeRoomForWrite, flush, compaction, LogAndApply, DeleteObsoleteFiles, Open and Recover, close | file system, threads |
| leveldb: tables (`table/`, `bloom.cc`) | blocks, index, filter | build, look up, approximate offset | iterators, table cache |
| leveldb: iterators (`merger.cc`, `two_level_iterator.cc`, `db_iter.cc`) | position, direction, saved key and value | SeekToFirst, SeekToLast, Seek, Next, Prev | tables, memtable |
| leveldb: log format (`log_writer.cc`, `log_reader.cc`) | block offset; buffer, scratch, resynchronisation | AddRecord, ReadRecord | write path, manifest, recovery |
| leveldb: encodings (`write_batch.cc`, `version_edit.cc`, `coding.cc`) | bytes | put, append, iterate; encode, decode | log, manifest |
| leveldb: memtable (`memtable.cc`, `skiplist.h`) | linked nodes, maximal height | Add; Get and iterator without a lock | arena, `DBImpl` |
| leveldb: arena, table cache, environment (`arena.cc`, `cache.cc`, `table_cache.cc`, `env_posix.cc`) | blocks; handles, LRU list, hash table, mapping limit; work queue, locked files | Allocate; FindTable, Evict; Schedule, LockFile | all of the above |
| nanopb (`pb_encode.c`, `pb_decode.c`) | streams, fields seen | encode, size, decode, skip, merge | callbacks of the caller |
| `GTMNSData+zlib` | stream of zlib | compressing and inflating methods | zlib |
| `AppDelegate` | window | launch, authorization request | everything at start |
| `ViewController` | none | none | dead template, not in the target |

What makes each part correct: the list holds what the database reported; a pin
shows the current deal of its restaurant and the dictionary knows it; the
delays of geocoding requests count those without an answer; the user is told of
the newest change; the page that indexes the list exists; the map is aimed above
an open panel; the carousel rests on an item; a recycled view shows nothing of
its previous life. A read of leveldb returns the newest write its snapshot sees,
through every flush and compaction; an acknowledged write survives what
`WriteOptions::sync` says it survives; no file in use is deleted, and the
database opens again; an iterator is a cursor over one map or says it failed;
whatever remains of a log, only records that were written come back. A message
and its sizes agree, decoding stays within its struct; compressed data comes
back or an error does. `PROJECT.json` lists, under `hazards`, the lines where
each of these could go wrong and the properties aimed at them.

## 2. Modules

### The application

`Restaurants` declares restaurants: an id and a title. Name, address and
description are never compared, so one title stands for all texts of a version
of a deal, and `NoTitle` for a missing `deal_title`.

`DealAnnotations` models the pins. `requests` is the sequence of all calls of
`addAnnotationFor`; a request goes from `delayed` (the `asyncAfter` block waits)
to `sent` (the geocoder was asked) to `found` or `failed`. Its number also names
the `MKPointAnnotation` it creates. `AddPin`, `ReplacePin`, `DropPin` are what
the three observers do to the pins, each one whole: removal from map and
dictionary, new request, counter. `Geocode`, `Found`, `NotFound` are the block
and the two outcomes of the completion handler. `answered`, the field
`answeredBefore` and `raced` are history variables; nothing reads them but the
properties. `raced` collects the restaurants that an event touched while one of
their requests was under way.

`DealNotifications` models `notifyFor`. The notification centre keeps one
pending request per identifier and refuses requests before the user has granted
authorization; the code prints such an error and goes on. A serial number tells
the accepted requests of a restaurant apart. `Announcements` is the abstract
specification: one announcement in force per restaurant, superseded by newer
ones, and only the one in force is ever shown.

`MapPanel` models panel, buttons and camera. `lookups` are the addresses that
`updateRestaurantLocation` has asked the geocoder for; answers come in any
order. The camera remembers whom it shows and whether its region was moved up
for the open panel. `missed` is history: since the last press of the chevron the
latest attempt to aim the camera came to nothing. On its own, the list is
replaced by any other list at any time. `tracking` is the map view's
`userTrackingMode`, which the location button sets whether the panel is open or
not; in `.follow` MapKit moves the map to the user (`MapFollowsUser`). `strayed` is
history too: since the last press of the chevron and the last `setRegion` it did so
behind an open panel.

`MainViewController` composes the three and adds the database. `db` is the
server's content, `Window` the query's view of it, `view` what the observers
have been told. Whenever the two differ for a key, the handler for that
difference may run. `removed` is history: a restaurant was removed while it was
listed.

`CenteredFlowLayout` models the layout along the scrolling axis, with both
directions, rotations, drags beyond the ends and reloads during a drag.
`ReusableViews` models cells and pin views with their reuse pools.
`MCMealDeals` puts controller, views and carousel side by side for TLC; a
behaviour exercises one of them, chosen at the start by `scenario`.

### leveldb

`VersionSet` holds the decisions about one version as operators: an entry is a
user key, a sequence number and a type, a file a number and a set of entries, a
version a function from levels to sets of files. `LevelTree` is the tree over
time on top of it: `Write`, `CompactMemTable`, `BackgroundCompaction` of the
three kinds (trivial move, by size or seeks, manual) in two steps, because
`DoCompactionWork` releases the mutex and flushes memtables in between,
snapshots, `CompactRange` with its loop over levels, and reads that charge
seeks. `split` and `crossed` are history: some output was cut inside a user key, and
some flush put its file between the inputs of a running manual compaction.

`DBImpl` is the database between its threads and its files. A step ends where
the code releases `mutex_` or where a crash could cut it. The disk is `logs`,
`manifests`, `tables` and `current`, each with how much of it is synced; a crash
of the process keeps what was written, a crash of the machine at least what was
synced, as the mapped or buffered writes of `env_posix.cc` leave it. The writer
queue, `BuildBatchGroup` and the answer of a group are `EnterWrite` to
`FinishWrite`; a write is one numbered operation, and `owed` collects what the
database has promised. `LogAndApply` is cut at its unlock. Recovery goes through
NewDB, the manifest, each log in turn, the new manifest and CURRENT, and may
itself crash. Which entries a compaction drops is `LevelTree`'s matter; here it
replaces tables by one with the same entries.

`SSTable` lays out and reads table files: prefix compression restarts, shortened
index keys, one filter per 2 KB of offsets with a Bloom filter over a small hash.
`Iterators` builds `DBIter` over a merge of memtable, level-0 tables and a
two-level iterator, after any small history of writes, flushes and compactions,
and with any block unreadable. `view` is history: the user's entries at the
snapshot when the iterator was made. `UserCursor` is the abstract specification, what
`include/leveldb/iterator.h` promises, and `Iterators` implements it with the
snapshot's map as the refinement mapping.

`LogFile` models the log byte by byte in small blocks: a byte is known by the
fragment it belongs to, so a checksum is whether a fragment's bytes are all
there and unchanged. `Coding`, `WriteBatches` and `VersionEdits` model the
encodings on bytes of fewer bits. `Formats` composes these with `Iterators`,
`NanoPb` and `GTMZlib`; a behaviour exercises one format.

`MemTable` has one writer that follows `SkipList::Insert` pointer by pointer and
one reader that follows the searches without a lock, each load and store a step.
A node that was allocated but whose links are not written yet holds `Garbage`.
The reader may load an old maximal height. `Arena` gives out memory, `TableCache`
is the LRU cache with its chains, handles, references and the limit of mapped
files, `PosixEnv` the background queue and the two levels of the LOCK file's
protection. `SharedState` composes the four.

### nanopb and zlib

`NanoPb` follows `pb_encode.c`, `pb_decode.c` and the field iterator as this
build compiles them, on `Coding`'s small bytes. A message type is a sequence of
field descriptors; `MCNanoPb` gives one with a field of every kind: required,
optional, repeated, packed, oneof, string, bytes, submessage, extension,
callback, pointer, and fields the receiver does not know. `GTMZlib` follows the
two loops around zlib; data is a length, and zlib stands by what its manual
promises of `deflate` and `inflate`.

Operators whose comment begins with "Mutant" are faulty variants of the operator
that follows them; they are used to see that each property can fail.

The proofs are in `CarouselProofs` (panel, layout and recycled views),
`MainViewControllerProofs` (pins, notifications and the whole controller),
`SharedStateProofs` (memtable, arena, table cache, LOCK file, background queue),
`DBImplProofs` and `DBWritesProofs` (files, numbers and promised writes),
`LevelTreeProofs` (disjoint levels), `LevelReadsProofs` (reads of the levels) and
`GTMZlibProofs`.

## 3. Runs

| Run | Properties | Instance and bounds |
|---|---|---|
| `app` | `AppTypeOK`, `RequestsAreSpaced`, `RegisteredPinsAreOnMap`, `UnracedPinIsLatest`, `NewestIsPendingOrShown`, `ListingMatchesReports`, `ListedDealsAreOut`, `PageNamesRestaurant`, `SettledCameraFitsPanel`, `ViewsAreCurrent`, `CarouselIsCentered` | three children, a window of two and three writes, enough for additions, changes, malformed versions, removals and evictions; the user's actions with two children, two writes and two lookups under way; two cells, two rows, two pin views; views of 8 or 12 points, items of 4 or 6, two points beyond the ends |
| `app_live` | `FeedSettles`, `ImplementsAnnouncements`, `PanelSettles` | two children, two deals, two writes; three accepted notifications; two lookups at a time |
| `tree` | `TreeTypeOK`, `UncrossedLevelsDisjoint`, `InputsStayCurrent`, `UnsplitReadsSeeNewest`, `NewerEntriesAbove` | two user keys, four writes, three levels, memtables of two entries, files of two, level 0 compacted at two and stopped at three files, one snapshot, one manual compaction of one key: the smallest tree in which a file lies below the output level and a flush runs inside a compaction |
| `db` | `DBTypeOK`, `AckedWritesSurvive`, `SequencesAreUnique`, `LiveTablesAreWhole`, `ReopenSucceeds`, `OneLogger`, `EveryoneIsAnswered` | two writers, three writes (synced, not synced, without a batch), groups of two, one I/O error (creating, appending, syncing, a table, a table while the last log is replayed), one crash or close and one more crash during recovery, one iterator |
| `formats` | `FormatsTypeOK`, `TablesAnswer`, `LogReadsBack`, `EncodingsReadBack`, `MessagesSurvive`, `CodecStaysInBounds`, `DataComesBack`, `IterIsCursor`, `ReadersEnd` | log: blocks of seven bytes with headers of three, two records of 0, 2 or 5 bytes (one leaves a trailer behind it, one is cut into fragments), an append error, a crash, a flipped byte and a failed read; bytes of four bits; batches of three updates; three entries over two user keys in blocks of one or more entries, one unreadable block; two fields set in a message, sent once or twice, cut or changed in one byte; chunks of two bytes and streams of up to five |
| `shared` | `ReadsAreExact`, `AllocationsAreApart`, `TableCacheIsSound`, `LockExcludes`, `WorkIsDone` | three entries of two levels; four allocations of sizes 1 to 5 in blocks of 8; two threads, three tables, a cache of two, two mappings; two processes with two openers each, three work items |

Every bound is a constant (`MaxRequests`, `MaxTime`, `MaxNotes`, `MaxRows`,
`MaxLookups`, `MaxWrites`, `Overscroll`, `MaxSeq`, `MaxSnapshots`, `MaxFiles`,
`MaxCalls`, `MaxOps`, `MaxFaults`, `MaxCrashes`, `MaxIters`, `MaxRecords`,
`MaxUpdates`, `MaxFields`, `MaxSet`, `MaxChange`, `MaxEntries`, `MaxTables`,
`MaxBad`, `MaxRequests`, `MaxHandles`, `MaxItems`, `MaxOpens`) and appears in the
guard of the action that would exceed it. When the bounds are used up the model
stops, so deadlock is not checked; waiting for each other is what
`EveryoneIsAnswered` and `WorkIsDone` exclude.

What is small is chosen around a boundary of the code: sizes of blocks, chunks,
groups, caches and words are such that one item fits, fits exactly and does not
fit. The radix of `Coding` and the words of `fields_seen` are parameters; no run
has a number of required fields that fills whole words (`WordBits = 3`). There the
last comparison of `pb_decode_noinit` shifts by the width of the word
(`pb_decode.c:947`), which C leaves undefined; with `WordBits = 2`, `MessagesSurvive`
fails in one of the two outcomes of the hardware, so it says nothing of that case.

Six runs are expected to fail and show disagreements between the code and what
the repository says of it:

* `removed_restaurant`: the handler of childRemoved keeps the entries whose id
  equals the removed one (`MainViewController.swift:155`). The removed
  restaurant stays in the list and all others vanish from it. Because of this,
  the properties of the list are stated for the time until a listed restaurant
  is removed.
* `outdated_pin`: the completion handler of `addAnnotationFor` does not look
  whether its restaurant has changed meanwhile. A change during the lookup
  leaves two pins, and the dictionary knows only one of them. `UnracedPinIsLatest`
  and its theorem say exactly when this cannot happen.
* `tree_split`: `DoCompactionWork` closes an output by size only (`db_impl.cc:966`),
  so two entries of one user key, both kept for a snapshot, may end in two files.
  A later compaction that takes the first of them moves the newer entry below the
  older one. `Version::Get` and the drop rule rest on the opposite
  (`version_set.cc:337`, `db_impl.cc:931`). `UnsplitReadsSeeNewest` and
  `NewerEntriesAbove` say that nothing else breaks it.
* `tree_crossed`: a compaction flushes a full memtable while it runs
  (`db_impl.cc:890`), and `PickLevelForMemTableOutput` looks only at the current
  version. The inputs of a manual compaction may have a gap of keys between them, in
  both levels. The flushed file can then land in the gap, in the level of the
  output, and the output reaches over it: files that "must not overlap"
  (`version_set.cc:756`) do, and a lookup, which reads one file of a level, misses
  keys. It takes three user keys. `UncrossedLevelsDisjoint` says that nothing else
  makes files overlap; the inputs of an automatic compaction leave no gap. The
  read properties of `tree` are stated for the time until this happens.
* `db_recover`: `DBImpl::Recover` overwrites the status of one log with that of
  the next (`db_impl.cc:344`), so an error while the older log is replayed does
  not fail the opening, and synced writes are gone. An error while the last log
  is replayed does fail it (`OpenFails`), which is why the fault `"replay"` of `db`
  is restricted to that log.
* `raw_inflate`: `gtm_dataByRawInflatingBytes:length:` passes its bytes to the
  method for zlib streams (`GTMNSData+zlib.m:502`).

More were met and have no run of their own:

* With `"torn"` in `Faults`, an append that fails after a part of the record was
  written, `AckedWritesSurvive` fails in `DBImpl`, because writing goes on behind the
  torn record and recovery stops at it.
* The location button may set `.follow` while the panel is open, and MapKit then shows
  the user where the restaurant should be, until the next `setRegion`. The guard of
  `didUpdateLocations` (`MainViewController.swift:368`) shows that the controller means to
  avoid that, but no comment says so. `SettledCameraFitsPanel` and
  `OpenPanelIsAimed` are stated for the time until `strayed`; without it both fail.
* `LastRecordOffset` of a record behind a trailer is the offset of the trailer,
  because `physical_record_offset` is taken before the trailer is skipped
  (`log_reader.cc:75`), although `log_reader.h:55` calls it the physical offset of the
  record. `CutOffIsNotCorruption` compares with that offset (`Reported`).
* A submessage of a oneof that arrives twice replaces the first one
  (`pb_decode.c:418-424`), where protocol buffers merge the two, as nanopb says
  itself where malloc is compiled in (`pb_decode.c:996`); and what such a submessage holds
  for callbacks is skipped, because setting it to zero clears the callbacks.
  `Merged` and `Received` in `NanoPb` name these exceptions.

## 4. Fairness

For the application, liveness is checked under weak fairness of what the platform
does by itself: due blocks of the main queue run, the geocoder answers every
request (possibly with an error), time passes while a block waits, animations and
scrolls end, triggers fire, and Firebase reports a difference that persists. No
fairness is assumed of the user, of other clients of the database or of the
authorization prompt. `CLGeocoder` calls each completion handler once; this is an
assumption about external code, and `FeedSettles` rests on it.

For leveldb, weak fairness says that a thread that can go on does go on: each
writer, the background thread and a close. It is the scheduler's, not leveldb's;
nobody has to start a write, and no fault or crash has to happen. The log reader,
the loops of the zlib wrapper and the background thread of the environment get
the same.

## 5. Proofs

The theorems hold for every set of restaurants and deals, every interval, any
writers, entries, options and faults, and every bound. They assume only the named
assumptions of the modules, which TLC evaluates in each run, and two
hypotheses on the set `Faults` that the theorems name (`NoTornWrites` and
`NoSkippedLogs`, below; the run `db` meets both). They are proved of the
specifications without fairness. The named assumptions give the constants their
types, say that a marker (`NoPage`, `User`, `NoNote`, `Absent`, `NotCreated`,
`Pooled`, `Nothing`) is not an ordinary value, and of the carousel that an item
fits its view, that the spacing is less than the view, and that lengths are even
numbers of the model's unit, so that a half is a whole number.

* Pins, types and counter. The types are not inductive alone: a deadline is a
  natural number only because the counter that multiplies the delay is not
  negative, and that follows from `CounterCountsOutstanding`. Both are proved
  together (`CountInv`), with the finite-set theorems for one element more or
  less.
* Pins, registration. `PinsInv` strengthens `RegisteredPinsAreOnMap` and
  `UnracedPinIsLatest`: every pin comes from a found request, and for a
  restaurant that is not raced a request under way is its latest one and no pin
  is registered. The second part is what makes an arriving answer put up the
  only pin.
* Pins, deadlines. `DeadlineInv`: the counter is one more than calls less
  answers, so a deadline is at most now plus (number of the request less answers
  before it) intervals; the distance of two deadlines follows by distributing
  the interval. `SpacingCorrect` joins both to `RequestsAreSpaced`.
* Notifications. `NewestIsPendingOrShown` is inductive with the types. It also
  gives the one fact the refinement needs: what is presented differs from what
  was presented before. `NotesRefineAnnouncements` maps accepted requests to
  `said` and presented ones to `heard`.
* Panel. `RowsInv` (the carousel's rows are those of the list) gives the types
  and `PageNamesRestaurant`. `CameraInv` adds that the button is disabled exactly
  during the animation, that an enabled button with nothing under way and
  nothing missed means a camera that fits unless the map strayed to the user, and
  that the camera is moved up only for a restaurant.
* Controller. Each step of `MainViewController` is a step of the pins and of the
  notifications or leaves them alone, so their theorems carry over
  (`ControllerRefinesPins`, `ControllerPins`, `ControllerRefinesAnnouncements`).
  `ControllerPanel` proves the panel's results again for the whole, from the reload
  that ends each handler. `ControllerInv` joins the parts' invariants with what
  relates them: the list is what the observers reported (`ListingMatchesReports`),
  the newest note accepted for a restaurant announces its listed deal
  (`NotesMatchListing`), so does its latest request, whose pin is on the map once it
  succeeded (`ListedDealIsPinned`), and a
  note was accepted only with an authorization that is never taken back
  (`AcceptedIsGranted`). `ListedDealIsPinned` goes through an arriving answer by the
  unraced part of `PinsInv` (`PinnedAnswer`). What `filter` does to a list is said of
  its positions (`KeptEntries`, `WithoutEntries`): those it keeps are numbered in
  order by counting the ones before, so no induction over the list is needed.
  `ControllerListing` and `ControllerDeals` follow, and `AppCorrect` adds layout and
  views for the whole application.
* Layout. `LayoutInv`: the insets belong to the current size and direction, and at
  rest the offset is the one that centres an item (`LaidOut`, `Rests`). The target of
  a swipe is such an offset (`RestRows`): the candidates are non-empty and the
  nearest one is a least element, which exists among natural numbers.
* Recycled views. `ViewsInv`: a pin view that was never used is empty, and a view in
  use belongs to a pin on the map, whose title is known. Both are needed because a
  view that comes from the pool keeps what it showed until it is filled again.
* Memtable. `MemInv` is inductive: every link leads forward in its own list
  (`ListsAreSorted`), no node of the lowest list lies inside one of its links
  (`NoGap`), a node is linked from the lowest level up (`Heights`), the writer's
  recorded predecessors are those of the new node at every level still to come
  (`Writing`), and the reader stands on a node of its list before its key
  (`Reading`). `NoGap` is needed because `ReadsAreExact` speaks of nodes passed
  over, and it says so of single links and nodes instead of paths through the
  list, so that no induction over the list is needed. `PublishNodeInv` is the
  step in which a node enters a list; `NothingBetween` gives a search its answer.
  `MemTableReads` then holds for any number of entries, levels and user keys.
* Table cache. `CacheInv` counts: the references of a handle are those of the LRU
  list and of the threads that use it (`Held`), the charge is the number of handles
  with references, and the mappings that are out belong to those handles or to
  threads that just opened a file (`Counted`). A handle leaves the list and the hash
  table together (`Dropped`, for replacement, eviction and erasure alike). `TableOK`
  says of the hash table that each chain lists the handles of its bucket, one per
  file; `TableGrows` shows that this survives `Resize`, turn by turn: `LoopHasStates`
  gives the states of a loop as a recursive function and `LoopStaysIn` that what each
  turn keeps holds of all of them, both from a least turn that would fail. The same
  two lemmas bound the loop that evicts while the cache is full (`EvictsWhileFull`).
  `CacheKeepsTables` asks of the constants only that threads are finitely many,
  hashes natural numbers and the first length positive.
* Arena, LOCK file, background queue. `ArenaInv` says that the free bytes of the
  current block lie behind everything given out of it, and that the counter of
  blocks is their number, so a fresh block is one that nothing was given out of.
  `LockInv` records at each step of `LockFile` and `UnlockFile` whether the process
  has the name in its table and the lock of the system. `QueueInv`: what was run,
  what runs and what is queued are together the numbers of all items, in order
  (`ItemsRunInOrder`). `SharedCorrect` carries the results over to `SharedState`.
* Levels. `TreeInv` has the files of the version and of a running compaction with
  distinct numbers and entries of the history (`MemInv`, `FilesInv`), the pointers
  and the charged file (`PointersInv`), the request of CompactRange (`RestInv`) and
  the running compaction (`Running`). That levels stay disjoint is not inductive
  alone: a flush inside a compaction may choose the level its output is going to,
  from a version that does not show it. `Running` therefore says that the output lies
  beside every file of that level that is not an input, and that an automatic
  compaction's inputs leave no gap (`Solid`): each stretch of keys between their ends
  is met by one of them, so a flushed file that overlaps none (`FlushLevel`) lies
  beside them all (`FlushedBeside`), and beside the output. `PickedLeavesNoGap`
  follows PickCompaction: level 0 takes what overlaps until nothing more does
  (`Overlapping`), the level below takes what meets that range, and a second round
  grows the first only if the second stays (`GrownInputs`). Manual compactions have
  gaps, and `crossed` records the flush that falls into one (run `tree_crossed`).
  `UnchosenBeside` says the same of files that were not chosen, and
  `OutputsAreSorted` that cutting the outputs leaves runs in order and which entries
  they keep, through the loop of DoCompactionWork (`EntryKeeps`). The loops are recursive functions over counts;
  `Iterates` gives their results without an induction principle.
* Reads of the levels (`LevelReadsProofs`). `ReadInv` joins `TreeInv`. What is in
  memory is newer than what is in files (`Layered`); and while nothing was split or
  crossed (`Intact`): above level 0 a user key is in one file of a level
  (`KeysInOneFile`), what is higher up is newer (`Stacked`, which is
  `NewerEntriesAbove`), of every key the newest entry a reader may see is still there
  or was a deletion with nothing older left (`Kept`), and a running compaction's
  output can take the place of its inputs (`Replaceable`). The last part is what the
  unlocked stretch of DoCompactionWork needs: it is established when the inputs are
  chosen (`ChosenIsMovable`, `DroppedIsNeedless`, `OutputIsPruned`), kept by every
  write, flush and release of a snapshot until the end (`FlushedStayMovable`,
  `FlushedStayPruned`), and used when the edit is installed (`ReplacedStayStacked`,
  `PrunedKeeps`). A dropped entry is `Needless`: hidden by a newer one that the oldest
  snapshot sees, or a deletion with nothing of its key deeper (IsBaseLevelForKey).
  In level 0, where files overlap, the inputs must be clear of the files left behind
  (`Alone`, from GetOverlappingInputs); otherwise an older file would come to lie
  above a newer one. `FileIsSearched` and `VersionGetFinds` follow `Version::Get`
  down the levels, and `NewestIsRead` shows that the first hit is the newest entry.
* Writers of the database. `WritersInv`: each thread in `Write` stands in the queue
  once, all but the head sleep, and while the head writes, its group is the
  beginning of the queue. `Answer` takes the group off and wakes the next head;
  `AnswerKeeps` shows that nobody is lost or woken twice. `OneLoggerAtATime` needs
  no hypothesis.
* Files of the database. `FilesInv` is inductive and gives `TablesInUseAreWhole`,
  `OpeningAgainSucceeds` and `DBTypes`. None of its parts can be left out:
  `DiskInv` speaks of every prefix of the manifest that a crash can leave, from the
  synced records on, and of the tables such a prefix describes; `NumbersRise`,
  that each record's next file number is above all files it names, keeps a number
  from being used twice after a crash; `VersionIsLogged` says that the version in
  memory is what the manifest describes, unless an error forbids all deletions,
  and so that what `DeleteObsoleteFiles` removes belongs to no prefix; `BgInv` and
  `OpenInv` keep the tables of a running compaction and of iterators apart from
  new ones; `RecoverInv` and `NewManifestInv` carry all this from a closed
  database to an open one, while the old manifest stays current. `ReplayOfAppend`
  is what `VersionSet::Builder` makes of one more edit. Where the model computes
  with recursive functions (`GroupOps`, `MemTables`), `StepsHaveResults` gives
  their values without an induction principle: a smallest argument without a value
  (`LeastNatural`) cannot exist.
* Numbers of the database (`DBWritesProofs`). `NumbersInv` gives `SequencesStayUnique`
  together with `FilesInv`. Its core is `Consistent(InUse)`: of all entries in logs, in
  tables that the manifest names and in memory, no two with one number differ. That
  a new record takes fresh numbers follows from bounds on each place (`OpenBounds`;
  `Taken` counts a group that is in the log but has not returned). After a crash
  `lastSequence` is known only from the manifest and the logs, so `DiskBounds` says
  of each edit that its number is at least those in the tables up to it and in the
  logs it makes superfluous: what a recovery no longer reads, it does not need to
  count. `BgBounds` and `RecoverBounds` keep this through compactions and recovery.
* Promised writes. `KeptInv` gives `WritesSurvive`. `DiskKeeps` is the durable half:
  each promised write is found by a recovery from the whole manifest and the logs;
  one that asked for sync is found from every prefix of the manifest that a crash
  of the machine can leave, with the synced part of the logs. `OpenKeeps` is the
  other half: it is visible, and what a log still counts for is in memory, so that
  a flush may drop the log. `EditKeeps` says that an edit adds what it takes away
  (`EditLosesNothing`), `GroupKeeps` that the group at work has no sync write that
  is not synced (`StartGroupKeeps`) and is in the log when it answers, `RecoverKeeps`
  that a log leaves `todo` only when its entries are in tables (`RecoverLogFileFacts`).
* `NoSkippedLogs` excludes only the fault of the run `db_recover`, in which the
  error of a log that is not the last is lost and `AckedWritesSurvive` fails.
  `NoTornWrites` (no append stops in the middle of a record) is a real
  restriction. A torn record may lie in the middle of a manifest only after an
  error, and then the version on disk is no longer the one in memory; the
  theorems say nothing of what happens then. All other faults, crashes of process
  and machine at any step and during recovery are covered.
* Compressed data (`GTMZlibProofs`). `ZlibInv`: until the inflating loop returns
  there is neither a result nor an error and the end of the stream was not seen, and
  something comes out only with a method for the kind of stream (`Pending`). A call that
  neither takes nor makes a byte can then only mean that the stream was cut off
  (`InflateTakes`), which is why the loop may give up at a buffer error.

Only model-checked: everything about liveness, which the prover cannot do under
fairness; that iterators yield what the tables hold (`TablesAnswer`); and that the
formats of logs, blocks, edits, batches and messages are read back as they were
written (`LogReadsBack`, `EncodingsReadBack`, `MessagesSurvive`,
`CodecStaysInBounds`, with `FormatsTypeOK`), whose encodings and decodings are
recursive over data of any length and so out of the prover's reach.

## 6. Abstractions and external code

* The key of a child in the database serves as its field `id`. Two children with
  one id, or a child that changes its id, are outside the model.
* Firebase reports differences in any order and may merge quick changes. The
  SDK's order (removals before additions in one update) is one of these orders.
* The geocoder may answer requests in any order and fail any of them; throttling
  and cancellation of overlapping requests are failures.
* After a reload the carousel keeps its centred row if it still exists and may
  come to rest anywhere otherwise; a swipe may end on any row or between rows,
  with or without a deceleration that the delegate hears of.
* UIKit clamps the offset of a carousel that nobody drags to its content, lays
  out one item per line and proposes an offset in the direction of the swipe.
* MapKit moves a map in `.follow` to the user at any time, as long as it is in that
  mode; `setRegion` may or may not end the mode. Moves of the map by the user's
  fingers are left out.
* Time is counted in ticks and passes only while a block waits for its deadline.
* Colours, fonts, constraints, images and printed messages are left out. The
  application sets the carousel's `itemSize` before its first layout pass; the
  layout does not notice a later change (`CenteredCollectionViewFlowLayout.swift:45`).
* leveldb: values are left out, the sequence number of an entry stands for its
  value. Sizes of files and levels count entries. `allowed_seeks` is not counted,
  so any charged read may be the one that asks for a compaction. The file system
  keeps at least what was synced, in order within a file; renames are atomic and
  durable.
* A checksum tells damaged bytes from intact ones; collisions are left out.
* nanopb: the caller's callbacks read all of their substream and write their
  items; with `drift` one writes another item on the second pass.
* zlib's `deflate` and `inflate` make progress whenever they have input and room,
  and report the end of the stream and missing input as their manual says.

## 7. Not modelled

* `ViewController.swift` is a template outside the target. The Firebase frameworks
  are binaries; their headers document the events that `MainViewController`
  models.
* leveldb's tools (`db_bench.cc`, `leveldb_main.cc`, `dumpfile.cc`, `repair.cc`), the
  C interface (`c.cc`), names of files, hashes, checksums, statistics and the
  wrappers of pthreads: they hold no protocol of their own, or are not part of the
  application.
* In `db_impl.cc`: `DestroyDB`, `GetProperty`, `GetApproximateSizes`, and the reuse
  of logs and manifests, which is off by default. In `table/`: compression and the
  cache of blocks.
* nanopb's allocation of pointer fields, which this build does not compile.
* The pods' tests and the headers of Firebase, which hold no implementation.

## 8. Plan

Done: the application with its abstract notifications, and proofs of all its safety properties; leveldb from
the environment to the iterators, with proofs for memtable, arena, LOCK file, table
cache, queues, files, numbers, promised writes, disjoint levels and reads of them;
nanopb; the zlib wrapper and its proof.

Next: that `LevelTree`'s compactions and `DBImpl`'s together implement one abstract
map with snapshots; a repaired cut of
outputs and a repaired filter of childRemoved as second specifications of those
actions; ids that differ from keys; the carousel of `CenteredFlowLayout` in place
of the abstract one of `MapPanel`.
