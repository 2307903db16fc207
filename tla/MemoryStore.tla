----------------------------- MODULE MemoryStore -----------------------------
(***************************************************************************)
(* MemoryVectorStore (vector_store/memory.rs): one collection behind a      *)
(* tokio RwLock.  Every operation holds the write lock from its first read  *)
(* to its return, so each is one step.  It is also the plainest reading of  *)
(* what the VectorStore trait promises, and RocksStore is compared with it. *)
(***************************************************************************)
EXTENDS VectorPoints

VARIABLES exists, points

collection == <<exists, points>>

\* The collection is there once the process has started.
Init == exists \in BOOLEAN /\ points = <<>>

CreateCollection(r) ==
  /\ r.op = "create"
  /\ ~exists
  /\ exists' = TRUE
  /\ points' = <<>>

\* Points go in one by one until one has the wrong dimension; the ones before
\* it stay although the call fails.
Accepted(ps) ==
  SubSeq(ps, 1, Min({Len(ps)} \cup {j - 1 : j \in {i \in 1..Len(ps) : ps[i].vec \notin Fits}}))

\* Mutants: a point already there wins; the collection is replaced.
InsertPoints_IfAbsent(r) == r.op = "upsert" /\ points' = Overlay(points, ById(Accepted(r.points)))
InsertPoints_Replacing(r) == r.op = "upsert" /\ points' = ById(Accepted(r.points))

InsertPoints(r) ==
  /\ r.op = "upsert"
  /\ points' = Overlay(ById(Accepted(r.points)), points)

DeletePoint(r) ==
  /\ r.op = "delete"
  /\ points' = Without(points, {r.id})

\* Mutant: only the point of that very URI.
DeleteUnder_Exact(r) ==
  /\ r.op = "deletePrefix"
  /\ points' = Without(points, {i \in DOMAIN points : points[i].uri = r.prefix})

DeleteUnder(r) ==
  /\ r.op = "deletePrefix"
  /\ points' = Without(points, {i \in DOMAIN points : Under(points[i].uri, r.prefix)})

MoveUnder(r) ==
  /\ r.op = "updateUri"
  /\ points' = [i \in DOMAIN points |-> RebasePoint(points[i], r.old, r.new)]

\* Every call but create_collection answers NotFound without a collection.
Handle(r) ==
  \/ CreateCollection(r)
  \/ /\ exists
     /\ InsertPoints(r) \/ DeletePoint(r) \/ DeleteUnder(r) \/ MoveUnder(r)
     /\ UNCHANGED exists

Next == \E r \in Requests : Handle(r)

Spec == Init /\ [][Next]_collection
=============================================================================
