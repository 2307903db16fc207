# A TLA+ model of rustviking

rustviking keeps the context of AI agents as files behind `viking://` URIs and
as vectors that make those files searchable.  The two are written one after the
other, by concurrent callers, over stores that lock nothing across calls.  This
directory models that: the vector stores, the file system behind them and its
plugins, the layer that keeps the one in step with the other, the summaries made
of the files, the command line that starts all of it as processes over one
directory; and, on their own, the two vector indexes and the way they are saved
to disk.

Paths below are relative to the repository; `rocks.rs 316-379` means
`src/vector_store/rocks.rs`, lines 316 to 379.

## The system

| part | state | operations | interacts with |
|---|---|---|---|
| `vikingfs/mod.rs` VikingFS | none of its own | write, write_context, rm, mv, mkdir, read, find, commit | calls AGFS synchronously, then awaits the sync manager |
| `vector_store/sync.rs` VectorSyncManager | none | on_file_created, _updated, _deleted, _moved, search | awaits the embedding provider, then one call of the vector store |
| `vector_store/rocks.rs` RocksDBVectorStore | one database: a meta key (dimension, count), a data key per vector, a uri key per URI | create_collection, upsert, delete, delete_by_uri_prefix, update_uri, search, get | every call is a `spawn_blocking` closure on a shared `Arc<DB>`, no lock |
| `vector_store/memory.rs` MemoryVectorStore | a map from ids to points | the same | one tokio `RwLock`, held for a whole call |
| `vector_store/qdrant.rs` | a remote server | the same, one message each, update_uri one per point | whole-string filters, pages of 1000, a timeout per message |
| `storage/rocks_kv.rs` RocksKvStore | RocksDB | get, put, delete, scan_prefix, range, batch | puts are not synced, batches are |
| `agfs/` MountableFS, VikingUri | a table of mounts behind an `RwLock` | mount, unmount, route | hands each operation to a plugin, the lock given up before |
| `plugins/localfs.rs`, `plugins/memory.rs` | a directory tree | create, remove, rename, mkdir, read, write, remove_all, stat | called by AGFS |
| `index/hnsw.rs`, `index/ivf_pq.rs` and their `_persist.rs` | id maps, graph or partitions, each behind its own lock; keys in the key-value store | insert, delete, search, train, persist, restore | called by the CLI and tests |
| `vikingfs/aggregator.rs`, `heuristic_summary.rs` | none | list a directory and write abstracts and an overview | several AGFS calls per file, no lock over them |
| `plugins/mod.rs`, `main.rs`, `cli/` | registries; a process per command | start-up, fs, kv, index, viking commands | RocksDB's lock on each database directory, the storage directory |
| `config/`, `error.rs`, `compute/`, `embedding/` | none | parsing, output, arithmetic, HTTP | |

What is hard about it, part by part (`PROJECT.json` lists each hazard at its
line):

* **RocksDB store.**  A call is several steps on the database.  Removals and
  moves commit what a scan found earlier; the count is a read-modify-write
  after the batch; single puts are lost with the power, batches are not.
  Correct means: index and vectors agree, in every database a crash may leave;
  nothing is removed that was not asked for; the count is right at rest; one
  call at a time, it is the same store as the memory one; both of its searches
  return the nearest.
* **Qdrant store.**  An upsert is answered before it is applied, a message given
  up on still arrives, update_uri is a scroll and then a message per point.
  Correct means: what a call that returned Ok and that nothing interfered with
  stored, removed or moved stays so, and every call returns.
* **VikingFS and the sync manager.**  The file step, the embedding and the
  vector step of one call interleave with those of others, the embedding may
  fail and the process may die between them.  Correct means: at rest every file
  has a vector, of its present content, and every vector has a file.
* **Indexes.**  Several locks per operation, and a save of many single puts
  beside operations that go on.  Correct means: between calls the maps agree
  and every vector is found under its id; a load gives back what was saved, and
  what a finished save found is never lost by a later one.
* **AGFS.**  Routing by string prefix; mounts that change under an operation;
  plugins that differ in what removal and rename do to a directory.  Correct
  means: what was reported written is read back, and it does not matter which
  plugin a path is mounted on.
* **Commits.**  Listing, size, read and write are separate calls, beside clients
  and other commits.  Correct means: abstracts and overview are those of the
  files, unless a file changed under the commit.
* **Summaries.**  Positions are computed in bytes on text that is not ASCII, with
  running totals.  Correct means: no panic, within the limit, nothing invented.
* **Processes.**  Two openers of one database, also within a process; a
  collection created on every start; batches that are single writes.  Correct
  means: no command waits for ever, and none undoes what another completed.

## Modules

```
PartialMaps             hash maps and key ranges: restriction, removal, overlay, keys in order
VectorPoints            points, calls, URIs as strings  (extends PartialMaps)
 |-- VectorSearch       filters, the two searches, what a search must return
 |-- MemoryStore        memory.rs, one step per call
 |-- RocksStore         rocks.rs and rocks_kv.rs, one step per database access
 |    `-- RocksSync     + SyncManager, VectorSearch: properties, refinement of MemoryStore
 |         |-- RocksSyncProofs    types; calls that overlap; one task: the refinement, the count
 |         `-- MCRocksSync
 `-- SyncManager        sync.rs: the calls made for a file operation
      |-- Qdrant        + VectorSearch: qdrant.rs, messages to a server
      |    |-- QdrantProofs
      |    `-- MCQdrant
      `-- VikingSync    + LocalFs, MemoryStore: vikingfs/mod.rs
           |-- VikingProofs   + LocalFsProofs
           `-- MCVikingSync
FileTree                trees of files, what reads and listings return
 |-- MemoryPlugin       plugins/memory.rs
 `-- LocalFs            plugins/localfs.rs
      |-- LocalFsProofs what every operation leaves of a tree
      |-- Agfs          + MemoryPlugin: mountable.rs, setup.rs, callers
      |    |-- AgfsProofs   + LocalFsProofs
      |    `-- MCAgfs
      |-- Aggregator    + HeuristicSummary: aggregator.rs beside clients
      |    `-- MCAggregator
      `-- Cli           + VikingUri: main.rs and cli/ as processes
           |-- CliProofs    + LocalFsProofs
           `-- MCCli
VikingUri               viking_uri.rs: parse, print, normalize, parent, join
HeuristicSummary        heuristic_summary.rs, byte by byte
 `-- Summaries          every text put together from a few pieces
      `-- MCSummaries
HnswIndex               hnsw.rs, one step per lock access  (extends PartialMaps)
 `-- HnswPersist        hnsw_persist.rs beside it: saves, death, loading
      |-- HnswProofs
      `-- MCHnsw
IvfIndex                ivf_pq.rs: partitions, training  (extends PartialMaps)
 `-- IvfPersist         ivf_persist.rs beside it
      |-- IvfProofs
      `-- MCIvf
```

* **VectorPoints.**  A URI is a sequence of characters, because the stores
  match and rewrite URIs with `starts_with` and `strip_prefix`: `Under` and
  `Rebase` are those, with no notion of a path segment.  A point has its id,
  the two payload fields the stores look at (`uri`, `parent_uri`) and its
  embedding, a member of `Vec` of which those in `Fits` have the collection's
  dimension.
* **VectorSearch.**  `MatchesFilter` is that of the memory and RocksDB stores,
  which let And and Or pass everything; `Compiled` is what Qdrant makes of the
  same filter.  `SearchSequential` sorts all (`SortHits`, stable: equal scores keep
  their order), `SearchParallel` keeps a heap (`Kept`, top_k_smallest); `IsBest` says what either must return.  The distance
  of a vector from the query is a table.
* **MemoryStore.**  `InsertPoints`, `DeletePoint`, `DeleteUnder`, `MoveUnder`
  are upsert, delete, delete_by_uri_prefix and update_uri.  A batch stops at
  the first point of a wrong dimension and keeps the ones before it
  (`Accepted`).
* **RocksStore.**  `kv` is the database: `exists` and `count` (the meta key),
  `data`, `uris`.  A task's record holds where its closure stands (`pc`), the
  call, the count it read (`base`), the count it will write (`target`), the
  points checked (`at`) and what its lookup or scan returned (`seen`).
  `durable` is the set of databases a loss of power may leave: an unsynced put
  adds one (`Put`), a synced batch leaves only the newest (`Commit`).  `Crash`
  drops the tasks, `PowerLoss` also goes back to a member of `durable`.
* **Qdrant.**  `wire` holds messages on their way, `log` those the server has
  accepted and not applied, `points` what is applied and therefore seen by
  scrolls and searches; `View` is what the points will be.  `Call` sends a
  call's first message, `MoveOne` the next of a move; the server's steps are
  `Refuse`, `CreateCollection`, `Scroll`, `Accept` and `ApplyNext`; `Lose` is the
  network, `TimeOut` the client's clock, after which the message is nobody's
  and may still arrive.  The server is external: it is modelled from how
  qdrant.rs uses it, `wait(true)` on removals and moves and not on upserts.
  `after` is history: what the last call that named a URI left there, if no
  other change came between.  Of a removal that is the one URI the server
  matches; of those below it nothing is known.  A move keeps the points that
  were on no page of its scroll apart (`beyond`).
* **SyncManager.**  The call each event turns into.  `IdOf` is `generate_id`.
* **FileTree, LocalFs, MemoryPlugin.**  A map from absolute paths to `Dir` or a
  text.  Every operation is an operator from a tree to a tree, whether it
  succeeded and what it returned.  In LocalFs `Blocked`, `CanRename` and
  `Renamed` are what the operating system does; in MemoryPlugin nothing ties an
  entry to its parent, as in the code.
* **Agfs.**  `mounts`, `trees` (what each plugin holds) and `held` (the operation
  a caller runs and the plugin it was routed to).  `Route` looks up the mount
  and gives the lock up, `Perform` runs on the plugin held, `Mount` and
  `Unmount` come between.  `book` is history, written from the calls alone: the
  text each path was last reported to hold; `astray` holds the paths no promise
  is made about, because a mount changed over them, a rename led to another
  mount, or a memory plugin moved a directory or handed out a stream.
  `FilesReachable` does not look at it: it is about each step, and names the two
  ways in which a call makes a file that no read reaches.  What is
  mounted below a directory is not part of it: a plugin that removes or moves the
  directory leaves it alone.
* **VikingSync.**  `fs` (LocalFs), `points` (MemoryStore) and what each client
  of VikingFS is doing.  One step per synchronous stretch between awaits:
  `WriteFile`, then `UpsertVector` when the embedding arrives or `EmbedFails`;
  `RemoveFile`, then `DeleteVectors`; `RenameFile`, then `MoveVectors`.
  write_context runs through the stages `main`, `abstract` and `again`, the
  last being its second upsert of the abstract.  `lapsed` is history: the URIs
  whose last embedding failed, that the process died over, or of which a string
  prefix was removed or moved.
* **HeuristicSummary.**  A text is a sequence of bytes: letters, white space,
  `.`, `#`, the bytes `w1 w2 w3` of a wide character and `p1 p2 p3` of a full
  stop that takes three.  A cut inside a character is `Panic`.  `Sentences`,
  `SmartTruncate`, `GenerateAbstract` and `GenerateOverview` follow the code's
  positions and running totals.  **Summaries** has one state per list of texts.
* **Aggregator.**  A commit lists once (`Begin`), then per file `Pick`,
  `AskSize`, `Read`, `WriteAbstract`, and at last `Finish`; clients `Write`,
  `RemoveFile` and `RemoveFolder` between any two.  `dirty` is history: the names
  changed under a commit; `since` the names the last commits need not have
  caught up with.
* **VikingUri.**  A string is a sequence of pieces, each slash, each blank and the
  scheme one of them; what is between two slashes is a name.  `Names` is the stack
  that `normalize` leaves of them, `Slashed` joins it again.  `Lawful` is what
  `parse`, `Display`, `parent`, `join`, `starts_with` and `normalize` promise each
  other.  One kind of URI is not parsed back from what is printed: if the account
  ends in a blank and the path is only a slash, as in `"viking://user/a /"`, the
  slash is not printed (viking_uri.rs 79-90) and the blank, now last, is trimmed
  (20).  `Padded` names it and the law leaves it out.
* **Cli.**  `proc` says where each process stands, `fs` is the tree under
  storage.path, `kv` and `disk` the two databases and `kvLock`, `dbLock` who has
  them open.  `CreatePlugins` is what `run` does before any command, then a
  command opens (`OpenKv`, `OpenStore`, `CreateCollection`, `CreateEmbedder`),
  works and prints, and `Exit` gives back what it held; `Die` kills it anywhere.
  A file operation is one step on the tree, one for the batch of vectors
  (`ChangeVectors`) and one for their count (`WriteCount`): VikingSync and
  RocksStore have what happens inside.  `owed`, `torn` and the mark `cut` are
  history: what completed kv commands left, the keys of batches that were killed,
  and a death between a batch of vectors and its count.
* **HnswIndex.**  `idMap`, `reverseMap`, `levels`, `vectors`, `nextId` are the
  fields of the struct, each behind its own lock; `graph` is the set of nodes
  the external hnsw_rs structure has been given, which only grows.  insert takes
  seven steps, one per lock (`CheckId` ... `Link`); delete takes four, with the
  write guard of id_map held over all of them because it is the temporary of an
  `if let` (`IdMapLocked`).  A search may meet any node; `ExternalId` is
  neighbour_to_result.
* **HnswPersist.**  `db` holds the keys at the path by family, `saver` how far
  persist_index is: each stage copies one map under its lock (`CopyNext`) and
  puts its entries one by one in any order (`PutOne`), the next internal id
  last.  `Restart` is the death of the process at any step followed by
  HnswIndex::load; restore_index gives new numbers in the order of the old ones.
  The history variables `covered` and `kept` are what the save under way found,
  and what finished ones found, less what calls have deleted since; `torn` and
  `mixed` record whether a save was cut short and whether a call went on beside
  one.
* **IvfIndex.**  `centroids`, `partitions` and `trained`.  insert reads the
  centroids (`Place`) and pushes under another lock (`Push`); train and delete
  are atomic.  Distances and what k-means makes of a sample are tables.
* **IvfPersist.**  `upkeep` is the call on the persister under way, a sequence of
  single writes: `FirstWrites`, then for a save the centroids and the vectors as
  they are when it gets there.  `RestoredCentroids` reads the keys in the order
  of their decimal digits; `RestoredPartitions` inserts every vector anew, in
  the order of the keys: what the loop of inserts leaves in a partition is
  the keys whose vector is nearest to its centroid, `Sorted` (PartialMaps).
  `orderly` is history: it stays true while saves and calls keep apart, none is
  cut short, training precedes the first insert, an id has one vector at a time
  (`Uniform`), the path is not emptied or filled behind the index's back, and
  what leaves the index has no key on the path.  delete_vector removes the key its
  metadata lead to: when a load has changed the partition of a vector and a save
  has put it again, an older key stays.
  `kept` and `covered` are as in HnswPersist; besides deletions they lose what is
  `Overtaken`, a vector whose id has another one too, for the two may share a key.

Operators whose names end in `_Something` next to another definition
(`Less_Unchecked` beside `Less`) are wrong variants kept for comparison: with
one of them in place of the definition, the property it is listed with in
`PROJECT.json` fails.  No specification uses them.  `TypesFit` is the type
invariant of a module whose first invariant includes it.

## Runs

| run | shows | bounds |
|---|---|---|
| RocksConcurrent | index and vectors are inverse to each other in every durable database, commits survive a loss of power, removals only take what is below them, types | 2 tasks, 5 calls out of create, two writes, a rejected write, two removals of which one is above both files; symmetric tasks; crash and loss of power anywhere |
| RocksSerial | the RocksDB store implements the memory store (`ActsLikeMemory`), and the step by which a call takes effect does what the memory store does for that very call (`ServesAsAsked`); exact count; the sequential and the parallel search return the nearest (`SearchesAgree`) | 1 task, 8 calls: create, a write, a batch, a batch refused for its last point, removals by id and by prefix, moves onto each other and back |
| VikingOwned | no vector outlives its file; every settled file whose last call succeeded has a vector, of its present content; types | 2 clients with disjoint files, 5 calls out of writes, contexts, removals of files and trees, moves of a tree; failing providers, process death anywhere |
| HnswIndexed | the id maps are inverse to each other, a search finds every vector under its id, numbers are fresh, finished saves are kept, levels survive, types | 2 threads with disjoint ids: inserts, one id with either of two vectors and levels, a batch that fails half way, removals, the same ids again; four calls without a save, three beside one, two beside two (`CallsAndSaves`); any overlap, process death and load anywhere |
| IvfSaves | metadata lead to keys of vectors the index holds, a vector is looked for where it is, what finished saves found is kept until a call deletes it or gives its id another vector, a load gives the saved entries and centroids back, types | 2 threads, 3 calls out of training three ways, inserts, a batch that fails half way, removals; 2 saves, single puts or single deletions on the path; 11 partitions; any overlap, process death and load anywhere |
| AgfsMounts | what was reported written is read back, no call makes a file where no read reaches it, other than by a rename out of its mount or under a change of mounts (`FilesReachable`), the plugins agree, types | 2 symmetric callers, 3 operations of every kind, 1 change of mounts; a local and a memory mount, one inside the first, one inside that and one whose name continues it |
| Commits | abstracts and overview are those of the files, no summary of a summary, every commit ends (`Returns`) | 2 committers, 2 commits, 3 changes by clients; files that fit, are too large, are cut inside a character or make the summary panic; death anywhere |
| SummaryTexts | limits, no panic on one-byte texts, sentences are a beginning, the overview lists what fits | every list of texts of up to 4 of 10 pieces; limits of 5 and 21 bytes |
| CliProcesses | what kv commands left stays, the vector count is exact across starts unless a command died before writing it, URIs obey the laws of paths, every command exits (`Exits`), types | 2 processes, 1 to 4 commands under each of 7 configurations (every plugin, agreeing and disagreeing dimensions, a missing section), death anywhere; every URI of up to 4 names, dots and slashes, a blank before and within |
| QdrantMessages | calls keep their word, what is removed is unseen, filters agree, every call returns (`Returns`), types | 2 clients, 3 calls, pages of 2, a collection that is new or holds three points at one URI; messages lost, late, given up on, anywhere |
| VikingRewrite | **violated**: every file is found | write, move, write again |
| CliAlone | **violated**: the first command is served | one mkdir with the rocksdb plugin |

The violated ones are disagreements between the code and what its documents
say; `PROJECT.json` quotes each.  That of VikingRewrite is with the header of sync.rs
(3-5), that of CliAlone with the repository's README.

**Further disagreements.**  The conditions under which the passing runs hold are
there because the code breaks the property without them, or the documents say
something else:

* *Vector stores.*  Two upserts under way lose an update of the count, which is
  read at rocks.rs 343 and written at 364 "if changed".  A move onto a path that
  has a vector leaves one that no removal by prefix finds; RocksSerial asks for
  no such removal while index and vectors disagree (`CallIndexed`).  The memory
  store keeps the points of a batch before one of the wrong dimension, the
  RocksDB store none.  `find` with a target and a level passes And, which both
  ignore (rocks.rs 123-125) and Qdrant honours.
* *Qdrant.*  The trait says "by URI prefix" of removals (traits.rs 44), and so does
  the comment in the code (qdrant.rs 441), but Qdrant matches the whole URI: points
  below it stay.  `KeepsItsWord` claims neither, it is about the one URI.  A move of
  more points than a page has returns Ok and leaves the rest (qdrant.rs 471).  A
  generated id is 16 hexadecimal digits (sync.rs 197-201), which
  Qdrant accepts only when all are decimal (qdrant.rs 152-158).  An upsert is not
  waited for, so a move right after it can miss the point.
* *VikingFS.*  Two writes of one file may reach the file system in one order and
  the vectors in the other.  Removing `/p/a` drops the vector of `/p/ab`.  Moving
  a file moves the vector of its abstract and not the abstract; removing it
  leaves the abstract file and drops its vector.
  A failed embedding, or a death between the file and its vector, leaves a file
  without one, and nothing makes up for it.
* *AGFS.*  A rename is routed by its old path only (vikingfs/mod.rs 346-352), so one
  onto a path of another mount makes a file that no read finds.  A call goes on with
  the plugin it was given after a change of mounts.  A mount at `/local` serves
  `/localx`.  A memory plugin that renames a directory leaves what is in it where it was.
* *Indexes.*  Two inserts of one HNSW id both succeed (hnsw.rs 152), although
  index_test.rs 464-466 expects the second to fail.  The node of a deleted vector
  stays in the graph and is reported under its internal number, which may be
  another vector's id (`Searchable` is about live nodes).  A save leaves the keys
  of deleted vectors at the path, and a load restores them (hnsw_persist.rs 73).
  A save cut short before the next internal id leaves numbers that will be handed
  out again (`FreshNodes` is stated for `~torn`), and beside inserts a save may
  keep a vector without its level (`LevelsAsGiven`, for `~mixed`).  IVF centroids
  come back in the order of decimal strings, so with eleven partitions (the default
  is 256) they change places, although ivf_persist.rs 213 says "retrieved in
  partition_id order"; a save after such a load leaves a second key of each vector
  that changed its partition, of which delete_vector finds one.  IVF
  saves are not one batch, although ivf_persist.rs 70 says so: one cut short
  behind the configuration loads as an index without centroids, whose searches
  look nowhere; and a vector saved before the index was trained gets a second
  key, of which delete_vector removes one (both are outside `orderly`).  insert
  takes an id the index has (ivf_pq.rs 167-181): both vectors are held, and a save
  leaves one of them under their key (also outside `orderly`).
* *Summaries.*  Limits are named in characters and counted in bytes, and a limit
  inside a wide character panics (heuristic_summary.rs 20, 177).
* *Command line.*  Under the default configuration the mock provider makes vectors
  of 1024 numbers for a store of 768: `write` stores the file and exits with 1.
  With the memory store `find` sees no earlier command's vectors.  `session` is a
  scope with no mount.  The `qdrant` plugin is not registered, so a configuration
  that names it ends every command with 1.  The second start over a RocksDB
  collection would be refused because it exists (vikingfs/mod.rs 146-158), if the
  lock did not refuse the first.  A death between a batch of vectors and its count
  leaves the count wrong for good (rocks.rs 362-373).

**Why the bounds are enough.**  A defect of the RocksDB store needs a scan, a
commit of another task in between, and a call that notices: three calls of two
tasks; five leave room for a re-creation and a restart.  Three paths cover the
relations two URIs can have (segment prefix, string prefix only, unrelated).
In RocksSerial two or three calls put two vectors on one URI and two more move
them away again; eight leave room for removals after that, and its collections
of up to three points are searched for one and for two of them, below and above
the threshold.  In VikingSync a
file operation is at most five steps and every hazard found needs two or three
calls.  In the indexes a number is reused or a key goes stale after an insert, a
save, a removal and another insert or save; two saves are the least with an old
and a new version at the path, and eleven partitions the least in which the order
of the keys is not that of the numbers.  (With three calls on the path instead of
two, IvfSaves held as well.)  In Agfs a promise is broken by a write, a change
of mounts or a rename, and a read.  Two commits and three changes let a file be
written, committed, changed under one commit and summarised by another.  The
texts of four pieces reach every strategy, a cut at and inside each kind of
character, and lists that fit by a byte and fail to.  A kv batch is two writes,
and three commands put one between the writes of another.  In Qdrant a write
and a removal make the third a retry, or a move; the collection that holds three
points already lets that move meet more than a page.  `MaxRequests`,
`MaxCalls`, `MaxSaves`, `MaxUpkeep`, `MaxMounts`, `MaxChanges`, `MaxCommits`,
`MaxRuns`, `MaxPieces` and the constraint `CallsAndSaves` are the only bounds on
behaviours; deadlock checking is
off because a behaviour ends when they are used up.

**What the passing runs assume.**  RocksConcurrent: nothing is moved, every
vector is stored under the hash of its URI (`NothingMoves`), which is what
VikingFS does until the first `mv`.  VikingOwned: the
clients' URIs are apart (`Ownership`, which TLC evaluates for the calls of that
run).  HnswIndexed: each
thread inserts ids of its own.  In IvfSaves the vectors put on the path have the dimension of the index
(`PersistAssumption`): one of another dimension makes every later load fail.
The others restrict nothing; what some of their properties need is in the
properties, as `torn`, `mixed`, `orderly`, `astray`, `since`, `lapsed` and
`Settled`.

**Fairness.**  Three specifications have it.  *Commits*: weak fairness of each
commit's own steps (`Proceed`), for a task that can run does run; clients need
not call, and a process may die.  `Returns` then says that no change made under a
commit keeps it going: the list is taken once and an error is only noted.
*CliProcesses*: weak fairness of each process's steps, which the operating system
gives; no command waits for a lock, so `Exits` holds whoever keeps one.
*QdrantMessages*: weak fairness of "the client goes on or its timeout fires", the
client's own clock; nothing is asked of the network, which may lose everything,
or of the server, which may never answer.  The stores and the indexes have no
fairness: their calls are loops over their input that wait for nobody.

## Proofs

`RocksSyncProofs` proves `Spec => []TypeOK` (`TypeCorrect`) for any number of
tasks, ids, URIs and calls, moves and removals by id included.  The inductive
invariant `TypeInv` adds that every database holds finitely many keys: the prefix
removal subtracts a cardinality from the count, which is a number only then.  One
lemma per operation; `WriteGood`, `TaskGood` and their like reduce each action to
the database or record it writes.

With the hypothesis `NothingMoves` it also proves for every value of the
constants

* `IndexStaysInverse`: `Spec => []IndexInverse`;
* `CommitsSurvive`: `Spec => []CommittedSurvives`;
* `RemovalsOnlyMatch`: `Spec => RemovalsMatch`, an action property.

`IndexInverse` is not inductive, for a removal commits what its scan found
several steps ago.  `SyncInv` strengthens it with what makes a stale scan
harmless: an index entry can only name the hash of its URI (`Paired`), so an
entry found is either gone or still says the same when the batch commits, and
the vector it names is the one of that URI (`FoundPaired`).  That in turn needs
`IdOf` to be injective, `SyncAssumption`: two URIs whose 64-bit hashes collide
would overwrite each other's vector.  The proof has no assumption on the number
of points in a batch: `BatchPaired` shows that of several points with one id the
data key and the uri key keep the same one.

It is then about calls that do not overlap (`OneTask`: `Task` has one
member), moves and removals by id included, and proves

* `ImplementsMemory`: `IndexedSpec => ActsLikeMemory`, the refinement of
  MemoryStore, and `EachCallAsAsked` (`ServesAsAsked`), which says more: the step
  that changes the points is the memory store's handler of the very call that
  the task carries.  A task has scanned and looked up in earlier steps than
  the one that commits; `SerialInv` says, with `Current`, that what it found is
  still what the database holds, that a collection not yet created is empty, and
  that where a prefix is removed the index names every vector below it.
* `CountStaysExact` (`CountExact`): the count is the number of vectors after every call.
  `CountInv` follows the number that a call is going to write: what was counted
  plus the checked ids that are new, or less what the scan found.  It needs
  `BatchesDistinct`: a batch with the same id twice is counted twice (rocks.rs
  319-375).

`SearchesAlwaysAgree` (`SearchesAgree`) holds for any number of tasks.  What a
search reads has each id once: `KeyedInv`, every point is under its own id, in
the database, in the scan of a move and in the batch it is going to write.  From
there it is about the two algorithms, for a collection of any size and any
distances (`SearchBest`): `SortHitsIs`, that sorting by score and place
rearranges the hits with no nearer one behind a farther; `KeptIs`, by the least
prefix at which it would fail, that the heap holds as many as it is allowed of
those it has seen and none farther than one it gave up; `FirstBest` and
`TopKBest`, that the first k of the former and the latter are the k nearest.
Which of two hits at the same distance is returned may differ between the two.

`HnswProofs` proves all five invariants of HnswIndexed.  Two hold however threads
share ids, three assume `Owned`: calls of different threads are about different
ids.  Without it they fail, for insert looks an id up under one lock and maps it
under another, and two inserts of one id both pass (hnsw.rs 130-152).

* `Typed` and `NumbersFresh` (`FreshNodes`): `FreshInv` counts every id that is
  mapped, saved, being saved or about to be mapped (`Known`).  There are never
  more of them than the next number, and the next number a finished save leaves
  on the path is above all that the path holds; a load hands out the numbers
  below their count.
* `FinishedSavesKept` (`KeptHeld`): `MappedInv` says how far an id is from being
  gone, `KeptInv` that what a save found is either still to put or put, in memory
  and at the path alike, until a call dooms it.
* `MapsStayInverse` and `VectorsStayFound` (`MapsInverse`, `Searchable`, which is
  stated for live nodes and until a save is cut short):
  `DomainsInv` says which maps hold an id at each step of the call that is about
  it, `NumbersInv` and `NodesInv` which numbers and nodes are whose.
* `LevelsStayGiven` (`LevelsAsGiven`): `LevelsInv` carries the entry a level came
  from through the maps, the copy a save is putting, the path and back.

`VikingProofs` proves the three invariants of VikingOwned for any clients, URIs,
texts and calls that satisfy `Ownership`, with failing embeddings and crashes:
`NoOrphansLeft` (`NoOrphans`), `FilesStayIndexed` (`FilesIndexed`) and
`VectorsStayFresh` (`VectorsFresh`).  `Ownership` is

* `Owned`: no name in a call of one client is a prefix of a name of another's,
  for nothing in VikingFS orders the two, and a slow embedding would overwrite a
  later one;
* `MovesWhole`: what has a moved URI as a string prefix is that URI or below it,
  for the store rewrites the vectors of a sibling whose name continues it, and
  the file system does not move the sibling (sync.rs 123-127);
* `AbstractsAreFiles`: no call makes a directory where an abstract goes, for then
  the abstract's write fails, its second upsert comes all the same, and a
  vector is left without a file (vikingfs/mod.rs 458-500);
* `NamesKnown`: URIs that files can have are in `Uri`, where `IdOf` is injective.

`TypeInv` has the tree and where each client can be.  `KeptInv` says that what a
client has written and is still to embed or to sum up is in its file: only the
owner touches it.  `OrphanInv` says of every vector's URI that it is a file's, or
that a client is about to remove it, or to move it where the file went.  `IndexInv`
says of a file not `lapsed` that its one vector is that of what it holds or that
one is on its way, and that all a move is about has lapsed.  The steps on files
are lemmas of `LocalFsProofs`: a tree stays a tree under each operation of the
plugin, which files each keeps, and that a rename that succeeds takes each file
below its source to the same place below its target.

`CliProofs` proves, for any number of processes, configurations, commands and
keys, and with no hypothesis but `CliAssumption`, the state invariants of
CliProcesses: `Typed` (`TypeOK`), `WritesKept` (`KvKept`), `CountKept` (`CountMatches`)
and `UrisStayLawful` (`UrisLawful`).  The inductive invariant has five parts.  `Shape` puts
every process at a step of its command and says what its record holds there;
`Locks` that who works on the keys is the one that has them open, so two batches are never under way
together; `Keys` that what a batch has written so far is there as its last write to
each key left it, which makes `owed` right when the batch completes; `Database`
that no process is past the collection's creation before the collection is made, so a creation
that succeeds finds no vectors, and that a process between its batch and its count
holds the right number, which no other can make wrong: the lock is its own;
`Stored` that the tree is one, from the lemmas of
`LocalFsProofs` and from `UriPaths`: what a URI is parsed to is a sequence of names.
The record of `owed` in `KvDone` names the last write to each key in closed form,
for what a fold computes is out of the provers' reach.

`UrisStayLawful` is for strings of any length, and of the invariant needs only that
commands are the ones given; what is hard is the cutting.  `Parts` and `PartsUnique`
say that a string is cut at its slashes in one way, from which `PrintedIsParsed`;
`BelowParent` and `ParentOfJoined` (for every name, of which the law takes the
account) are about the last slash that is not at the end (`LastSlash`).
`NormalIsNormal` follows from `NamesOfSlashed`: names none of which is empty, `.` or
`..`, joined with slashes, are the names of what they make, and `NamesPlain` says
that `normalize` leaves only such.  `Names` and `Slashed` are recursive functions;
that they exist (`StacksExist`, `JoinedExist`) is shown from the least place where
they would not.

`QdrantProofs` proves, for any number of clients, calls and points, any page size
and with no hypothesis but the modules' assumptions, the three invariants of
QdrantMessages: `ItsWordKept` (`KeepsItsWord`), `GoneIsUnseen` (`RemovedUnseen`) and
`FiltersMatch` (`FiltersAgree`).  What a call may say when it returns is decided many
steps before: by what its scroll found, and by messages of others that came to the
log since.  `Told` follows that.  Of a client that, as things are, will know what it
did (`Sure`), every point still at the URI it takes away, at any moment of the log
being applied (`Views`), is `Pending`: still on the client's list or beyond the page
that list was made from, in a message on
its way, or in one logged and not yet applied at that moment.  When the call returns
only those beyond the page are left, now and at every later point of the log,
which is what `Learnt` then keeps until a message changes the URI.  `SoleInv`
says that a client has at most one message anywhere, so what was given up on is
nobody's.  The points after any number of messages are a recursive function of
the log (`Replayed`); that it exists, is unique and goes on from the first message
as from the start is shown from the least index at which it would not.

`AgfsProofs` proves the four invariants of AgfsMounts for any callers, plugins,
mounts and requests, with no hypothesis but `AgfsAssumption`, which says of the
requests that their paths are absolute, below the root and without empty names:
`AgfsTypes` (`TypeOK`), `TextsKept` (`Promised`), `SamePlugins` (`PluginsAgree`), and
the action property `FilesReached` (`FilesReachable`).  `Promised` is not inductive:
that a read finds the text needs the file to be on the plugin a read is routed to, and
that no other plugin has one is what makes a removal complete.  `AgfsInv` says both,
path by path, of every path a promise still holds for (`Honest`): if a text is
booked, exactly the plugin routed to has a file there, with that text; if none is, no
plugin has.  `FilesReached` owes nothing to promises: a call that was routed under
the mounts of now makes files at its path, or below the target of a rename, and
what lies below a path that one mount serves, with no mount below it, that mount
serves too.  A call runs on the plugin it was routed to before, so each
lemma on a call distinguishes whether that is still the path's.  `Moves` says what a
rename does to the files of a plugin, path by path, whichever plugin it is.
`SamePlugins` compares a tree with its `Twin`, the same entries and the memory
plugin's root, operation by operation; that an entry without children has nothing
below it, on which removals differ, is by an entry of least length (`Childless`).

`IvfProofs` proves the four properties of IvfSaves, for any number of partitions:
`HeldIsFound` (`SelfFound`), `KeptIsHeld` (`KeptHeld`), which holds in any use, saves cut
short and calls beside them included, `PathsArePaired` (`KeysPaired`) and
`SavesAreExact` (`SaveExact`).  Beyond ten partitions the key of the one numbered 10
sorts before that of 2, the centroids of a load change places, and a vector that
was saved in one partition comes back in another.  So `KeysPaired` does not say that
a vector has one key, and `SaveExact` speaks of entries and centroids and not of
their places.

* `TypeInv` says which writes may be left of which call, and in which order.
* `FoundInv`: in orderly use every vector is in the partition of its nearest
  centroid, one that is placed and not yet pushed too, and the path has all the
  centroids before it has a vector.  The last part is what makes it inductive:
  a restart places every vector by the centroids it reads.
* `KeptInv`: what a finished save found is on the path, under some partition, with
  the vector its id has; of what the present save found, what is not on the path
  is still to be written.  It needs that no write that is left puts another vector
  at its key, which is why `kept` leaves out what is `Overtaken`: the proof
  failed there first, and TLC then showed an id inserted twice, saved, and
  loaded with one of its vectors.
* `PathInv`: in orderly use the path says nothing that the index does not
  (`PathHeld`) and no vector without the configuration (`ConfigHeld`), metadata have
  the vector they lead to there or are about to go (`Paired`, which goes by the order
  of the writes left), and a save misses nothing (`Complete`).

A load is put together by `Sorted`, which is not a fold: that the keys have ranks,
each its own, is by counting those before a key (`SortedAll`), and needs the order
of the decimal strings to be total (`KeysOrdered`), which follows from the digits
of a number determining it (`DigitsTell`).  `Digits`, and the flattening of the
sequences of writes, are recursive functions; that they exist and what they
satisfy is shown from the least argument at which they would not.

The assumptions on constants are those named in the modules (`PointsAssumption`,
`StoreAssumption`, `SyncAssumption`, `SyncFsAssumption`, `QdrantAssumption`, `CliAssumption`, `AgfsAssumption` and
those of the indexes), evaluated by TLC in every run of a module that extends them.

Model-checked only: the commits and the summaries, whose definitions reach the
recursive operators of HeuristicSummary; and the liveness properties (`Returns`,
`Exits`), which are about fairness.

## What is not modelled

* The layered search and the bitmap: set algebra on an external structure and a
  loop that calls a search, without state; no command uses the layers.
* Floating point: distances, normalisation and k-means are tables; the kernels
  are out of TLC's reach.  HTTP and hashing of the embedding providers: a request
  succeeds or fails.
* Argument and configuration parsing, output, the benchmark; permissions and
  times of files; `infer_content_type` and `on_file_updated`, which nothing calls.
* Errors of RocksDB and of the operating system other than those named in LocalFs
  and Cli.  An operation of the local plugin is one step although it makes several
  system calls.  Only one collection is modelled: names with a colon would share
  key ranges.
* Saves of an index are checked against the death of the process, not the loss of
  power (their puts are not synced, so any suffix of them may go), and only one
  index uses a path.
* Paths with empty names or a trailing slash through AGFS (`Clean`; of `mkdir` the
  trailing slash is modelled): AGFS passes them on as they are, the operating
  system drops the empty names and the memory plugin keeps them.
* The tree a commit walks is one directory: the code lists one level.

## Plan

Modelled, checked and proved: every component of the table, as far as the
sections above say.  What could still be proved is `TypeOK`, `AbstractsFresh`
and `OverviewComplete` of the commits: they do not depend on what a summary
says, only on its being a function of the text, so `Aggregator` would take
the summaries as constant operators' tables in place of extending HeuristicSummary,
and Summaries would go on to check those by themselves.
