------------------------------ MODULE RocksSync ------------------------------
(***************************************************************************)
(* RocksStore under the calls VectorSyncManager (vector_store/sync.rs)      *)
(* makes, and what the store's three key families owe to each other.        *)
(***************************************************************************)
EXTENDS RocksStore, SyncManager, VectorSearch

\* Every vector is stored under the id of its URI, and nothing is ever moved.
HashedPoint(p) == p.uri \in Uri /\ p.id = IdOf[p.uri]

NothingMoves ==
  \A r \in Requests :
    \/ r.op = "create"
    \/ r.op = "upsert" /\ \A j \in DOMAIN r.points : HashedPoint(r.points[j])
    \/ r.op = "deletePrefix"

(***************************************************************************)
(* The URI index and the vectors are written by different keys of the same  *)
(* batch, from a scan that may be stale by the time the batch commits.      *)
(***************************************************************************)
IndexAgrees(s) ==
  /\ \A u \in DOMAIN s.uris : s.uris[u] \in DOMAIN s.data /\ s.data[s.uris[u]].uri = u
  /\ \A i \in DOMAIN s.data : s.data[i].uri \in DOMAIN s.uris /\ s.uris[s.data[i].uri] = i

\* While nothing moves, the URI index is the exact inverse of the stored
\* vectors, now and after any crash or loss of power: a removal by path can
\* find every vector it must remove and no other (rocks.rs 316-379, 525-577).
IndexInverse == \A s \in durable : IndexAgrees(s)

\* What a committed upsert or prefix removal did to the vectors is never
\* undone by a loss of power; only the count may fall behind (rocks.rs 362-372,
\* rocks_kv.rs 39-43 and 109-116).
CommittedSurvives == \A s \in durable : s.data = kv.data /\ s.uris = kv.uris

\* What this step removes, a removal above it removes.
RemovalMatched ==
  \A i \in DOMAIN kv.data \ DOMAIN kv'.data :
    \E t \in Task : /\ At(t, "commit", "deletePrefix")
                   /\ Under(kv.data[i].uri, task[t].req.prefix)

\* A vector disappears only when a removal of a prefix of its URI commits,
\* whatever was written between that removal's scan and its commit.
RemovalsMatch == [][RemovalMatched]_vars

(***************************************************************************)
(* The count, kept in the meta key and written after the batch.             *)
(***************************************************************************)
Quiet == \A t \in Task : task[t] = Fresh

CollectionInfo == [found |-> kv.exists, count |-> kv.count]

\* Once no operation is under way, collection_info reports the number of
\* stored vectors.
CountExact == Quiet => CollectionInfo.count = Cardinality(DOMAIN kv.data)

(***************************************************************************)
(* One operation at a time, the two backends are the same store.            *)
(***************************************************************************)
Memory == INSTANCE MemoryStore WITH exists <- kv.exists, points <- kv.data

\* The memory store removes by the URIs of the vectors, this one by its index.
\* Moves can put two vectors on one URI, of which the index names one: no
\* removal by prefix is asked for while the two disagree.
CallIndexed(t) == Call(t) /\ (task'[t].req.op = "deletePrefix" => IndexAgrees(kv))

ServeIndexed == \E t \in Task : CallIndexed(t) \/ Proceed(t)

IndexedSpec == Init /\ [][ServeIndexed]_vars

\* Every step of RocksStore is an operation of MemoryStore on the data keys, or
\* leaves them alone.
ActsLikeMemory == Memory!Spec

\* The step that takes effect: the only one whose writes reach the data keys.
TakesEffect(t) ==
  PutMeta(t) \/ CommitUpsert(t) \/ DeleteData(t) \/ CommitDelete(t) \/ CommitMove(t)

\* More than that, each call does to the vectors what MemoryStore does for that
\* very call: none is dropped and none does the work of another.
ServesAsAsked == [][\A t \in Task : TakesEffect(t) => Memory!Handle(task[t].req)]_vars

(***************************************************************************)
(* Searches read the data keys in one scan.                                 *)
(***************************************************************************)
InKeyOrder(points) ==
  LET ids == Ascending(DOMAIN points) IN [j \in DOMAIN ids |-> points[ids[j]]]

Filters == {FindFilter(u, n) : u \in Uri \cup {NoUri}, n \in {0, NoLevel}}

\* A search returns the nearest matching points whether it is made one by one
\* or in parallel, and whichever order the store keeps its points in: the keys'
\* or a hash map's (rocks.rs 171-258, memory.rs 281-368, simd.rs 430-452).
SearchesAgree ==
  \A ps \in {InKeyOrder(kv.data), Reverse(InKeyOrder(kv.data))}, k \in 1..2, flt \in Filters :
    \A threshold \in {0, Len(ps) + 1} : IsBest(Search(ps, k, flt, threshold), ps, k, flt)
=============================================================================
