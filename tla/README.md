# VectorSearchEngine: a TLA+ model

The repository is a sharded vector database: a C++ HNSW index
(`include/hnsw.hpp`), a C ABI and Go binding around it, a Go layer that makes one
index durable with a write-ahead log and snapshots, a gRPC shard server, and a
stateless coordinator that routes writes and fans out queries. This directory
holds TLA+ modules for the parts where interleavings and crashes decide whether
the system is correct, TLC configurations that check them on small instances,
and TLAPS proofs for instances of every size.

## 1. Inventory

| part | state it keeps | operations | hard behaviour | what makes it correct |
|---|---|---|---|---|
| durable index, `go/durable` | index, log handle, snapshot and log paths, `mu` | `Open`, `Add`, `MarkDeleted`, `UnmarkDeleted`, `Snapshot`, `Close`, `Search` | a crash between any two steps; log order against index order; a failing rotation | what was answered is what a restart finds; `Open` accepts what the index wrote |
| log, `go/wal` | the file, `mu` | `Create`, `OpenForAppend`, `Append`, `Replay`, `Close` | torn tails, failing writes and reads, file without header | records are read back in order up to the first damage |
| index table, `hnsw.hpp`, `hnsw_c.cpp`, `go/hnsw` | labels, tombstones, counter | `addPoint`, `markDeleted`, `unmarkDeleted`, `save`, `load` | codes and exceptions decide what replay forgives | one entry per key, bounded by the capacity |
| HNSW graph, `hnsw.hpp` | vectors, levels, links, entry point, locks | `addPoint` from many threads | several locks per insert, decisions on stale reads, lists overwritten | links stay within levels, the entry is on top, everything can be reached, no deadlock |
| HNSW query, `hnsw.hpp` | `deleted_`, `numDeleted_` | `search`, `activeSize`, `markDeleted`, `unmarkDeleted` | a walk through a graph that changes, tombstones and counters read without a lock | nothing deleted is returned, nothing live is lost behind a tombstone |
| visited lists, `hnsw.hpp` | 16-bit tags, a pool | `reset`, `testAndSet`, `acquire`, `release` | wrap-around of the tag | a search never skips a node it has not seen, and ends |
| snapshot file, `hnsw.hpp` | the fields of the file | `save`, `load` | an insert during `save`, a file that ends early | a load gives back the index of one moment, or nothing |
| shard server, `go/shard` | ticker, stop channel | RPC handlers, `Start`, `Close` | shutdown against ticker and handlers | final snapshot, then close, once |
| coordinator, `go/coordinator` | connections | `Insert`, `Delete`, `Search` (scatter-gather) | partial failure, cancellation, retries | a key has one shard; the merge is the top k of all |
| daemons, metrics, generated code, benchmarks | - | - | - | not modelled, see section 8 |

They interact by calls: the coordinator calls shards over gRPC, a shard calls
its durable index from one goroutine per request and from its ticker, the
durable index calls the log and the C++ index. Two locks order the durable
layer: `Index.mu` (writers share it, `Snapshot` and `Close` own it) and `WAL.mu`
(one append at a time). The C++ index has `labelLock_`, `entryLock_`, one lock
per node for its links, and an atomic counter.

The hazards that follow from this are listed, each at its line, in
`PROJECT.json`.

## 2. Modules

| module | models | composes |
|---|---|---|
| `KeyTable` | an index as a table: answer and effect of each write | - |
| `Wal` | a log file, and what replaying it means, without recursion | `KeyTable` |
| `Durable` | `durable.Index`, its files, clients, snapshots, crashes; the mapping under which it refines `DurableMap` | `Wal`, `KeyTable`, `DurableMap` |
| `DurableMap` | the abstract promise: an atomic map that survives crashes | `KeyTable` |
| `MCDurable` | instances | `Durable` |
| `DurableProofs` | theorems about `Durable`, among them the refinement | `Durable` |
| `HnswGraph` | the pure parts: one round of `searchLayer`, neighbour selection | - |
| `HnswGraphProofs` | what those operators return, for every input | `HnswGraph` |
| `HnswInsert` | concurrent `addPoint` | `HnswGraph` |
| `MCHnswInsert` | instances | `HnswInsert` |
| `HnswInsertProofs` | theorems about `HnswInsert` | `HnswInsert`, `HnswGraphProofs` |
| `HnswQuery` | `search`, `markDeleted`, `unmarkDeleted` beside inserts | `HnswInsert` |
| `HnswQueryProofs` | theorems about `HnswQuery` | `HnswQuery`, `HnswInsertProofs` |
| `HnswActive` | `activeSize` beside all of these | `HnswQuery` |
| `MCHnswQuery` | instances | `HnswActive` |
| `HnswActiveProofs` | a theorem about `HnswActive` | `HnswActive`, `HnswQueryProofs` |
| `VisitedLists` | visited lists, their pool, and the loop of `searchLayer` | - |
| `VisitedListsProofs` | theorems about `VisitedLists` | `VisitedLists` |
| `IndexFile` | `save`, `load`, the file, the writers beside them | - |
| `IndexFileProofs` | theorems about `IndexFile` | `IndexFile` |
| `Cluster` | the coordinator in front of its shards: routing, writes, scatter-gather | `KeyTable` |
| `MCCluster` | instances | `Cluster` |
| `ClusterProofs` | theorems about `Cluster` | `Cluster` |

### Durable

State: the four files (`snap`, `tmp`, `wal`, `walNew`), the process (`proc`,
`mem`, `rp`, `handle`), the clients' calls (`pc`, `op`) and `snapPc`.
Each action is the code between two points at which a crash or another goroutine
can be told apart:

* `Open`: `OpenLoad` (load or create, header check), one `ReplayRecord` per
  record with `apply`'s tolerance, then `ReopenWAL` or `CreateWAL` and
  `CreateWALHeader`. `OpenRefuses` and `OpenFault` are its error returns;
  `ReplayCutShort` is the error it does not return: `readRecord` takes a read that
  fails for the end of the log, and `OpenForAppend` cuts off what was not read.
* a write: `Call` takes the read lock, `Write` and `Sync` are the two halves of
  `WAL.Append` under `WAL.mu`, `ApplyIndex` changes the index and returns.
  `WriteClosed` and `AppendFault` are the error returns.
* `Snapshot`: one action per file operation, `SnapSave` to `SnapReopen`;
  `SnapExists`, `SnapCloseTwice` and `SnapFault` are its error returns, each
  leaving behind what the code leaves behind.
* the environment: `Crash` (the process dies; with the `power` fault, bytes that
  were not fsync'd may be gone) and `Writeback`. `Faults` says what else may go
  wrong: `io`, a file operation of `Open` or `Snapshot` fails and they say so;
  `read`, a read of the log fails; `append`, the write or fsync of a record fails;
  `flush`, the last buffered bytes of a snapshot are lost and nobody says so.

A waiting `Snapshot` keeps new readers out because `sync.RWMutex` does. One
`Snapshot` is under way at a time; a second one would wait for the same lock and
then do the same. The log is its readable records plus one flag: `readRecord`
never resynchronises after damage, so bytes behind damage are not part of the
log. A left-over `.tmp` file is only ever overwritten, so its content is dropped.
A short snapshot is taken to be refused by `load`; `IndexFile` has the cases in which
`load` reads uninitialized variables first.
`KeyTable` gives duplicate inserts the answer of the sequential code; that two
concurrent ones can both succeed inside the C++ index is shown by `HnswInsert`.

`DurableMap` is the promise: a map with one atomic `Commit` per write, which a crash
leaves alone. The mapping (end of `Durable`) takes as the map what a restart would
recover from the files as they are, and a client's write as pending until its record
is in the log. What recovery computes is, for each key, the entry that `Replayed`
determines (`Recovery`), so that it can be reasoned about without recursion.

### HnswInsert

Each thread runs one `addPoint`. A step is what happens between two lock
acquisitions or counter accesses: `CheckLabel`, `Reserve` / `GiveBack`,
`Publish`, `Probe`, `LockEntry`, `FirstNode`, `StartWalk`, `Descend` (one round
of `greedyDescend`), `Visit` (one expansion of `searchLayer`), `SetOwnLinks`,
`BackLink` (one neighbour), `NextLayer`, `Finish`. Vectors are points on a line,
random levels are a choice. `Publish` joins the publication of the label with
the writes to the new node's own slots: no other insert can see those slots
before a list names the node.

### HnswQuery

The actions of `HnswInsert` go on while one reader asks again and again. Its
steps are those between two reads of shared state: `QueryStart` (`count_`),
`QueryEntry` (entry point and top level under `entryLock_`), `QueryDescend` (one
round of `greedyDescend`), `SearchBottom` (the tombstone of the node the bottom
search starts from), `QueryCopy` (a node leaves the frontier and its list is
copied under its lock), `QueryLook` (one candidate of the copy, with its tombstone),
`QueryReturn`. `MarkDeleted` and `UnmarkDeleted` may come between any two. Queries
share only the visited lists, so one reader stands for all. `dead` and `still` are
history: what has been deleted since the query began, and whether anything changed.

### HnswActive

`activeSize` is `count_.load() - numDeleted_`, two reads under no lock. C++ leaves
their order open, so `ReadFirst` takes either counter and `ReadSecond` the other one,
which ends the call; `ActiveSize` is what it returns if the second read is now,
subtracted modulo the number `SizeT` of values of a `size_t` (`Minus`). Between the
two, any insert may take a step and any label may be deleted or undeleted
(`InsertBeside`, `MarkBeside`, `UnmarkBeside`). The reader of `HnswQuery` makes these
calls between its queries (`QueryOnly` is a step of a query). `numDeleted_` is not
atomic; a read beside a mark is taken to give the value before or after it, which is
what a load of an aligned word gives on the 64-bit machines it is built for.
`between` is history: what has happened since the first read.

### VisitedLists

State: the pool, the list each thread holds, and its frontier. The graph is left
open: `ExpandNode` reads any set of neighbours, which covers every graph and every
change inserts make between two reads, and any of those not visited may join the
frontier. `Acquire`, `Begin` and `Release` are the pool operations and the second
reset that `searchLayer` makes. A tag has `Tags` values. `met` and `expanded` are
history.

### IndexFile

The file is a sequence of fields (`Order`), each holding what the index held when
the field was written. `SaveOpen` truncates the file and reads the counters,
`SaveField` writes one field; `SaveFails` and `SaveReturns` end it, and because
`save` checks its stream before the last buffer is flushed, a returned save may have
lost its end too. `Crash` may come anywhere. `Load` has the outcomes the code has:
fields missing before the counters are read uninitialized, and so is the length of a
node's upper links; the outcome may then be `undefined`, about which nothing is
promised. Everything else that is missing is found out by the check at the end. The
arrays of an empty index have no bytes, so a file of one is `Whole` with its counters.
`addPoint` is three steps here. The lock between writers and `save` is `Index.mu` of the durable layer. Here `save` writes the file
it is given; that the durable layer gives it a temporary one and renames is in
`Durable`.

### Cluster

State: the slots of each shard's index (`slots`, at first those its `Open` brought
back, `Restored`), the writers' calls (`wr`), requests
whose caller is gone (`late`), and one search: `rpc` and `reply` per shard, and what
`coordinator.Search` shares between its goroutines (`all`, `failed`) or leaves to
the errgroup (`err`). An Insert is served in the two critical sections of
`addPoint`: `Absent` finds that the key is not there (`Duplicate` that it is), and
later `Store` takes a slot and publishes it, or finds the index `Full`; another
Insert of the key may come in between, and the shard then holds both.
`MarkDeleted` is the delete of the slot that was published last. `WriteCall`,
`WriteChecked`, `WriteServed`, `WriteReturns` follow a write through coordinator and
shard; `WriteFails` gives it up at any point, and `LateChecked` and `LateServed` are
what may come of it. `SearchCall` starts a goroutine per shard; `SearchServed`,
`Collect` and `CallFails` are their steps, `Expire` the client's deadline,
`SearchReturns` is `g.Wait` and what follows. History: `must`, the live slots that
have been there since the search began; `acked`, the inserts that were answered OK,
and `sure`, those of them from before the search; `gone`, the keys whose deletion
anybody ever asked.

What the module takes for granted: a shard that crashes does not come back (it shows
as calls that fail; what a restart brings back, and when it is not what was there,
is in `Durable`); a node is found as soon as it has its slot; a shard's local
search is exact, which HNSW is not, so `SearchComplete` says what fan-out and
merge add to the loss of recall: nothing; one search runs at a time, because
searches share no state; the hash is a parameter; empty requests, which are
refused before anything happens, are left out. The coordinator has no `Undelete`
and none is sent. How a call fails is told apart as far as the code tells it
apart: a failing shard, a cancelled call, a deadline.

## 3. Runs

| run | instance | shows |
|---|---|---|
| `durable_serial` | 2 clients, a key each, 2 vectors, log of 2, `io` faults | `AckedWritesSurvive`, `OpenAcceptsItsFiles`, and `ImplementsMap`: the refinement of `DurableMap` |
| `durable_faults` | 2 clients racing on 1 key, deletes of absent keys, every fault but `io`, fairness | `ReplayMatchesReference`, `CallsReturn`, `SnapshotsReturn` |
| `hnsw_concurrent` | 4 threads, 3 slots, levels 0 and 2, M = 2, ef = 2 | `LinksWithinLevels`, `EntryOnTop`, `EntryWrittenExclusively`, `FullMeansFull`, `NoSelfLink`, `NoDuplicateLinks`, `NotStuck` |
| `hnsw_query` | 3 inserting threads and a reader, levels 0 and 1, k = 2, ef = 1, one key marked and unmarked, 16 values of a `size_t` | `DeletedStayHidden`, `WalkWithinLevels`, `QueryExact`, `ActiveSizeRight` |
| `visited_lists` | 2 threads, 3 nodes, 5 tags, fairness | `MarksAreThisSearch`, `ExpandedOnce`, `PoolBounded`, `SearchEnds` |
| `index_file` | capacity 2, 3 labels | `LoadedIsSaved`, `IndexSound` |
| `cluster_search` | 2 shards, 3 keys, k = 2, 1 writer with 4 requests, 1 late request, fairness | `SearchComplete`, `AckedAreFound`, `ErrorIsGenuine`, `FailsFast` |
| `durable_order`, `durable_stale`, `durable_power` | the smallest instance each | three disagreements with `WAL.md` (section 6) |
| `hnsw_label`, `hnsw_orphan` | 2 and 3 threads | two disagreements about concurrent inserts (section 6) |

`TypeOK` is checked in one run of each of `Durable`, `HnswInsert`, `VisitedLists`,
`IndexFile` and `Cluster`.

**Bounds.** `MaxLog` = 2 bounds the log between two rotations, not the history:
after a rotation or with the next crash the system goes on, so histories are
unbounded. Two records over a snapshot are enough for a duplicate, a delete
before or after its add, and a mark on either side of the snapshot; two clients
are enough for a race, and the proofs cover every other size. Three slots and
four threads give an entry point, two nodes that race below it, and an insert
too many; levels 0 and 2 give an upper list that is not the top one, so that an
insert walks down through more than one level. The query run has levels 0 and 1 to
stay small: a query that walks down through several levels is the same
`greedyDescend`, which inserts exercise. Its ef is below k, so that `max(ef, k)`
matters, and one key in the middle of the graph comes and goes as a tombstone.
With 5 tags a list wraps round after two searches (each takes two), in the middle
of one and between two; the theorems cover 2^16. A file has all its ten fields, so
it is cut at every place the code has.
In `hnsw_query` every thread finds a slot; that `count_` is bumped and given back at the
capacity is exercised by `hnsw_concurrent`, and covered beside `activeSize` by the
theorem.
In `cluster_search` writes go on at the first shard: two vectors for one key, its
deletion, and one call that was given up and is still being served, which stands
for a second writer too. The second shard starts full, with a key twice and one of
the two deleted, as two racing inserts and a delete leave it, so that an insert there
is refused, and an answer of k = 2 merges what both shards have. `MaxLate` = 1 bounds
how many abandoned calls are on their way at a time, not how many there are.
`CHECK_DEADLOCK FALSE` appears only for `HnswInsert`, whose inserts
end when all calls have returned. That they end nowhere else follows from an
invariant and a theorem: as long as a call has not returned, some call is under way
that `entryLock_` does not hold up (`NotStuck`), and a call that the lock does not
hold up finds the condition of its next step true (`WaitsForNothingElse`). The symmetry of
`durable_serial` swaps the two clients together with their keys, and the
vectors; that run checks no liveness.

**Fairness** (`FairSpec` of `Durable`, in `durable_faults`). Weak fairness of the steps a
goroutine takes without waiting and of `Snapshot`'s steps: Go schedules runnable
goroutines, and `RWMutex` lets a waiting writer in once the readers inside are
gone. Strong fairness of `Write`, where `WAL.mu` is taken: `sync.Mutex` hands
the lock to a waiter that has starved. Nothing obliges anybody to call, to
snapshot, to crash or to restart, and no fault has to happen. `FairSpec` of
`Cluster`, in `cluster_search`: weak fairness of `g.Wait` and of each shard's
goroutine once it has its reply or its call was cancelled, which gRPC ends. Nothing
obliges a shard to answer or a call to fail by itself, so a search may hang for
ever as long as no shard has failed; the code sets no deadline of its own.
`VisitedLists` assumes weak fairness of a search that has begun: its loop waits for
nothing but short critical sections. Nobody has to search.

## 4. What is proved

`DurableProofs`, for every set of clients, keys and vectors, every capacity and
every length of the log:

* `TypeCorrect`: `TypeOK` is an invariant.
* `ReplayCorrect`: `ReplayMatchesReference` is an invariant, with undisciplined
  clients and every fault, reads that fail included.
* `WritesSurvive` and `OpenAccepts`: `AckedWritesSurvive` and
  `OpenAcceptsItsFiles` are invariants under `Discipline`.
* `DurableImplementsMap`: under `Discipline`, `Spec` implements `DurableMap`
  (`ImplementsMap`).

`Discipline` says: no two clients write one key, nobody deletes a key that is
not there, there is room for every key, and the only faults are failing file
operations that `Open` or `Snapshot` reports (`io`). Each is needed: the
configurations `MCDurable_order`, `_overlap` and `_full`, and for the faults it
excludes `_read`, `_append` and `_power`, are the counterexamples without it. (The
last excluded fault, `flush`, leaves a short snapshot, which `load` refuses.)

**The argument.** `Wal` says what replay computes without recursion (`Replayed`):
the vector of the snapshot or else of the first add; deleted if some delete that
found the key has no undelete after it. `ReplayStep` shows that one record moves
`Replayed` of a prefix to `Replayed` of the next; this is what `ReplayCorrect`
needs and what makes an append equal to an application (`WriteKeeps`).
`ReplayIdempotent` is the heart of a crash between the two renames of
`Snapshot`: replaying a log over a table that already contains its effect
changes nothing, provided every delete in the log found its key
(`DeletesFindKeys`), which is where a refused delete would break it.
`AckedWritesSurvive` is not inductive: it speaks of the running index only.
`DurableInv` adds what the files hold in each phase (`FilesInv`), that the index
under replay is the reference on the prefix read (`ReplayInv`), that files and
index differ by the records in flight and nothing else (`LogInv`), that the
snapshot being taken is the index (`SnapInv`), and that requests stay on their
client's keys (`RequestInv`). `NeverFull` turns room for every key into the
absence of the answer "full".

The refinement needs one more invariant, `MapInv`: at every moment the files can be
replayed, so that what they stand for is a table. `ReplayUnique` says that it is only
one, so `Recovery` is a function of the files; `RecoveryAppend` says that appending a
record is applying it,
so the step that completes a record in the log is the abstract `Commit`
(`WriteCommits`); `OthersKeepFiles` says that every other step (the two renames of
`Snapshot` among them, by `ReplayIdempotent`) leaves what would be recovered alone.
`PendingOther` keeps the other clients' requests where they are. `MapStep` puts the
cases together: each step is a step of the map or none.

`ClusterProofs`, for every number of shards, every hash, every set of keys,
writers and requests, and every k:

* `TypeCorrect`: `TypeOK` is an invariant.
* `GenuineErrors`: `ErrorIsGenuine` is an invariant, by `ErrInv`: the error kept
  is never a cancellation, because a context is cancelled only after an error
  was kept.
* `CompleteSearch`: `SearchComplete` is an invariant. `CountInv` says that every
  failed call was counted. `FoundInv` follows a slot from its shard to the answer:
  at each stage the slot is there, or k candidates that are at least as near are
  (`Enough`). A shard's reply has this by `Displaced`, the union of replies keeps
  it, and `Within` turns it into the answer's being full of nearer ones. This is
  where a reply of fewer than k would break the argument.
* `AckedFound`: `AckedAreFound` is an invariant. `AckInv` follows an insert from the
  slot it stored to its answer: as long as nobody asked for a deletion of its key
  (`DeletesKnown`: no deletion is on its way that `gone` does not have), some live
  slot of the home shard has the key with that vector. For inserts answered before
  the search, `SureInv` says that this slot is one of `must`, and the rest is
  `SearchComplete`.
  The two critical sections of an insert are no obstacle: a racing insert takes
  another slot and changes none.

`VisitedListsProofs`, for every number of threads and nodes and every width of the
tag:

* `TypeCorrect`, `MarksCorrect` (`MarksAreThisSearch`), `ExpandsOnce`
  (`ExpandedOnce`), `PoolStaysSmall` (`PoolBounded`).

`MarksAreThisSearch` speaks of running searches only. The invariant adds that no
mark, in a list of the pool or of a thread, is above its list's tag: then the next
tag is new to the list, and clearing at the wrap-around restores just that. For
`ExpandedOnce` it adds that whatever was expanded or is on the frontier was met.
`PoolBounded` needs only the types.

`IndexFileProofs`, for every capacity and every set of labels:

* `TypeCorrect`; `Sound`: `IndexSound` is an invariant; `LoadGivesSaved`: every step
  satisfies `LoadedIsSaved`.

The invariant follows an insert through its three steps (`IndexInv`: labels and
links are complete up to `LabelEnd` and `LinkEnd`, nothing is written at or above
the counter), says the same of the index that was saved (`SavedInv`), ties the lock
to who is at work (`Locks`: while save runs the index is the saved one), and says of
every field that is in the file that it agrees with the saved index (`FileInv`).
Cutting the file keeps that (`FileShorter`). That nothing is written at or above the
counter is what makes a save of the first `count_` elements a save of the whole
(`SavedWhole`), and that no two slots have one label is what makes the table that
`load` rebuilds the table that was there (`LookupFinds`). The second is an assumption
of the module, made where `AddWrite` asks for a new label: `hnsw_label` shows that
concurrent inserts of one label can break it.

`HnswGraphProofs`, for every vector, every list and every M and efConstruction:
`SelectKeepsNearest` says that `selectNeighborsHeuristic` returns at least one and at
most m of its candidates, the nearest first; that one is where the search of the
next level starts. The lemmas under it say what `Sorted`, `Expand`, `Fitting` and
`WithBackLink` return, that a list without repetitions stays one under each of them
(`SelectBounds`, `FittingOnce`, `WithBackLinkOnce`), and which lists lead a set by
distance: any two that do have the same distances in the same order, whichever of
equally distant nodes they name. The library's folds are recursive functions on sets of
positions; `FoldExists` builds such a function step by step, and a property of the
fold is shown by taking the least position at which it fails (`UpTo`), which needs
no induction rule.

`HnswInsertProofs`, for every number of threads and slots, every set of levels, every M
and efConstruction:

* `Invariance`: `IInv` is an invariant; from it `TypeCorrect` (`TypeOK`),
  `LinksStayWithinLevels` (`LinksWithinLevels`), `EntryStaysOnTop` (`EntryOnTop`),
  `FullIsFull` (`FullMeansFull`) and `EntryWrittenByHolder` (every step satisfies
  `EntryWrittenExclusively`).
* `NeverStuck`: `NotStuck` is an invariant; `WaitsForNothingElse`: a call that has not
  returned and is not held up by `entryLock_` finds the condition of its next step true.
* `NeverOwnNeighbour`: `NoSelfLink` is an invariant.
* `NoneTwice`: `NoDuplicateLinks` is an invariant; `BlocksAreWideEnough`: no list is
  longer than its block in the link arrays.

None of the properties is inductive. `Slots` counts: the counter is the number of
owners plus that of failed attempts that have not given back, and an attempt fails
only when all slots have owners, so a slot handed out is nobody else's. `Fresh` keeps
unpublished slots at level 0, so publishing only adds lists. `Locks` ties the holders
of `entryLock_` to the threads' places. `Entries` says that what a thread decided
before it had the lock is still right: one that will take it shared saw an entry at
least as high as its node, and the top never falls. `Walks` keeps lists and every
walk's locals on nodes of their level, and a search's results non-empty, so that
`NextLayer` has a neighbour to start from. With `Locks` this is enough for
`NotStuck`: a lock that holds somebody up has a holder, and a holder waits for
nothing (`HolderGoesOn`). `WaitsForNothingElse` writes out the conditions of the
actions (`Guard`), since `ENABLED` is beyond the prover, and gets them from `Walks`.

`NoSelfLink` needs more, because the code excludes a new node from its own search
nowhere: another insert that came across it on a level above may link to it on a
lower level before its own search has got there. `Apart` says why the search still
does not meet it. Each level's nodes are coloured so that linked nodes have one
colour and levels below are finer; an insert that is to link its node to the start
of its search is a pending edge between two colours; and the pending edges of a level
close no cycle, which is said by giving each a cut, a set of colours that separates
its ends and no other edge's. The first search of an insert adds an edge
(`NewEdge`), `SetOwnLinks` draws one and with it merges two colours (`DrawEdge`, where
cuts on the level below are mended by symmetric difference), back-links stay within
a colour. TLC checked the same invariant first, with colours and cuts as history
variables, on the instance of `hnsw_concurrent`.

`NoDuplicateLinks` rests on `Apart` too. `connectNewElement` appends a back-link
without a look at the list, so the link must not be there. `Distinct` says of each
neighbour that is still to be linked back that it does not name the new node: when
neighbours are chosen they have another colour than the node, hence no link to it
(`SetOwnLinksDistinct`), and from then on they have the node's colour, so that a
search of their own that is still to come looks for neighbours of another colour and
does not find the node. `BackLinkDistinct` keeps this for the other threads, whose
nodes are other ones. TLC checked `Distinct` on the same instance before it was
proved.

`HnswQueryProofs`, for the same parameters and every k and ef:

* `QueryInvariance`: `QInv` is an invariant; from it `DeletedAreHidden`
  (`DeletedStayHidden`) and `WalksStayWithinLevels` (`WalkWithinLevels`).
* `QueryIsExact`: `QueryExact` is an invariant.

`QInv` is `IInv`, which marks and queries do not disturb, and four parts: the types of
the reader's locals (`QTypes`); its descent on a node of the level it is at, to which
publishing may add and from which nothing is taken (`QWalks`); no result and no answer
among the nodes deleted since before the query (`QHidden`); and labels and marks only
on slots that have an owner, as many marks as `numDeleted_` says (`QMarks`).

`QueryExact` is about what the whole search computes. The search is followed as a
sweep (`Sweeps`): until it has ef results, every live node it has seen is among
them, and whatever neighbours of a node that left the frontier it has not seen are in
the copy it is looking at. An empty frontier with fewer than ef results therefore
means that what was seen is closed under links, so it is all that level 0 leads to
(`SweepEnds`); a deleted node is swept like any other, which is the point of the
filter. With ef results and no more live nodes than that, these are all. The answer
then leads the live nodes by distance (`Leads`), and so does brute force. Ties make
the statement what it is: of equally distant nodes the heaps may return either, so
`QueryExact` compares distances, asks for distinct live nodes, and for as many as
brute force returns. `Apart` is needed once more: an insert beside the query writes
the vector of its new node without the graph's having changed, and only because no
list names that node do the distances of the answer stay what they were
(`StepKnown`).

`HnswActiveProofs`, for the same parameters and every `size_t` wide enough for the
counter:

* `ActiveSizeIsRight`: `ActiveSizeRight` is an invariant of `ActiveSpec`.

`QMarks` gives `numDeleted_` as the number of marked slots, which have owners, and
`Slots` of `IInv` gives `count_` as at least the number of owners (`CountCovers`).
`AHalf` says what this leaves after the first of the two reads: if it was `count_`
and nothing was marked since, the marks now are no more than what was read; if it
was `numDeleted_`, the owners now are no fewer, because no slot loses its owner
(`OwnersGrow`). With all inserts back and nothing in between, the difference counts
the nodes without a mark (`QuietDifference`). `QueriesAsBefore` shows that a call of
`activeSize` changes nothing of what queries see, which carries the theorems of
`HnswQueryProofs` over to `ActiveSpec`.

The assumptions are those of the modules: finitely many threads, at least one slot,
level 0 among finitely many levels, M at least 1 and efConstruction at least M, as
the constructor has it.

## 5. What is only model-checked

* Liveness: `CallsReturn`, `SnapshotsReturn`, `FailsFast`, `SearchEnds`. The prover
  does not handle fairness. That a query beside inserts ends is not checked as such,
  the instance being too large for a liveness check; `SearchEnds` says it of the
  loop, on every graph.
* `OpenLosesNothing`, `NoKeyTwice`, `ActiveNeverMore`, `LabelsUnique`,
  `AllReachable`, `SnapshotNotBlocked` and `RotationLosesNothing` are false of the
  code (section 6).
* `Discipline` cannot be dropped from the three theorems that have it (section 6).

## 6. Disagreements between code and documents

In each of these configurations TLC finds the property violated. The first five are
runs, for which `PROJECT.json` quotes the document; the others are kept beside them
and are checked by hand (`tlc -config MCDurable_read.cfg MCDurable`).

1. `MCDurable_order`: two `Add`s of one key may be logged in one order and
   applied in the other (run `durable_order`, `AckedWritesSurvive`).
2. `MCDurable_stale`: a `.new` log left by a crash makes every later `Snapshot`
   fail (run `durable_stale`, `SnapshotNotBlocked`).
3. `MCDurable_power`: the snapshot is not fsync'd before the log it replaces is
   dropped (run `durable_power`, `RotationLosesNothing`).
4. `MCHnswInsert_label`: two concurrent inserts of one label both succeed (run
   `hnsw_label`, `LabelsUnique`).
5. `MCHnswInsert_orphan`: an insert can end unreachable because its neighbour's list
   is overwritten (run `hnsw_orphan`, `AllReachable`).
6. `MCDurable_overlap`: a refused delete in the log deletes, on replay over a
   newer snapshot, a key whose insert was answered (`AckedWritesSurvive`).
7. `MCDurable_full`: an insert refused for lack of room makes every later `Open` fail
   (`OpenAcceptsItsFiles`).
8. `MCDurable_read`: a read of the log that fails during `Open` is taken for the end of
   the log, and the answered records behind it are truncated (`OpenLosesNothing`).
9. `MCDurable_append`: a write of a record that fails half way leaves bytes behind which
   later, answered records are not found (`AckedWritesSurvive`).
10. `MCHnswQuery_wrap`: `activeSize` reads two counters one after the other; an insert
    and its deletion in between make it wrap round, and `Stats` reports that
    (`ActiveNeverMore`).
11. `MCCluster_twice`: an Insert that timed out and its retry are both stored by the
    shard (number 4 seen from a client), and a search names the key twice
    (`NoKeyTwice`).

## 7. Plan

1. `ShardServer`: the ticker's `select` between tick and stop, `GracefulStop`, the
   order of final snapshot and close, handlers that outlive `Close`.
2. What a client may conclude from `ALREADY_EXISTS`: `shard.proto` says the
   coordinator treats it as success, the code passes it through.
3. A `Cluster` whose shards restart as `Durable` says, and what of `AckedAreFound` is
   left then.

## 8. Not modelled

Distance kernels, SIMD, the normalisation of cosine vectors and rounding (numerical;
vectors are points on a line), the distribution of random levels, and the seed a
loaded index starts with (levels are a choice already). Bytes inside a field of the
snapshot and inside a record of the log (I/O; a file is whole, short or torn), fsync
of directories (a rename is taken to be durable at once). The error text
`g_lastError` of the C ABI, which a second cgo call reads from a thread-local buffer:
only codes are modelled. Metrics, logging and health endpoints (nothing reads them
back), flag parsing and dialling, generated code. The measuring programs
`sift_bench`, `shard_sim`, `benchmark` and `make_test_fvecs`, which keep no state the
system uses; of `benchmark` the exact search is the reference of `QueryExact`, the
threads of `stress` are the environment of `HnswQuery`, and what `snapshot_race`
asks, a save without the lock, is what `IndexFile` shows to be excluded by
`Index.mu`. `Search` in `durable.Index` takes no lock and changes nothing.
