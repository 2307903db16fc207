----------------------------- MODULE RocksStore -----------------------------
(***************************************************************************)
(* RocksDBVectorStore (vector_store/rocks.rs) over RocksKvStore             *)
(* (storage/rocks_kv.rs): one collection, its three key families and any    *)
(* number of blocking tasks.                                                *)
(*                                                                          *)
(* Every operation runs in its own spawn_blocking closure on a clone of the *)
(* Arc<DB> and takes no lock, so a step of this specification is one call   *)
(* on the key-value store: a get, a put, a delete, a prefix scan (RocksDB   *)
(* iterators read one snapshot) or the commit of a WriteBatch.  Batches are *)
(* written with sync = true; single puts and deletes are not, so a machine  *)
(* that loses power may lose the ones after the last batch.                 *)
(*                                                                          *)
(* Covered: create_collection, upsert, delete, delete_by_uri_prefix,        *)
(* update_uri, a crash of the process and a loss of power between any two   *)
(* steps.  Not covered: get, search and collection_info (they change        *)
(* nothing), I/O errors of RocksDB, and several collections (their key      *)
(* ranges are disjoint unless a name contains a colon).                     *)
(***************************************************************************)
EXTENDS VectorPoints

CONSTANTS
  Task,         \* concurrent spawn_blocking closures
  MaxRequests   \* bound on the number of calls in a behaviour

ASSUME StoreAssumption == MaxRequests \in Nat

VARIABLES
  kv,           \* the database: meta key, data keys and uri keys
  durable,      \* the databases a loss of power may leave behind
  task,         \* what each task is doing
  issued        \* number of calls made so far

vars == <<kv, durable, task, issued>>

Fresh ==
  [pc |-> "idle", req |-> NoRequest, base |-> 0, target |-> 0, at |-> 0, seen |-> <<>>]

\* An empty database, or one whose collection was created by an earlier run.
Init ==
  /\ \E e \in BOOLEAN : kv = [exists |-> e, count |-> 0, data |-> <<>>, uris |-> <<>>]
  /\ durable = {kv}
  /\ task = [t \in Task |-> Fresh]
  /\ issued = 0

(***************************************************************************)
(* The type invariant.                                                      *)
(***************************************************************************)
Database(s) ==
  /\ s = [exists |-> s.exists, count |-> s.count, data |-> s.data, uris |-> s.uris]
  /\ s.exists \in BOOLEAN
  /\ s.count \in Nat
  /\ MapsTo(s.data, Id, Point)
  /\ MapsTo(s.uris, UriString, Id)

Steps ==
  [none |-> {"idle"},
   create |-> {"meta", "create"},
   upsert |-> {"meta", "check", "count"},
   delete |-> {"meta", "lookup", "unindex", "remove", "count"},
   deletePrefix |-> {"meta", "scan", "commit", "count"},
   updateUri |-> {"meta", "scan", "commit"}]

Local(l) ==
  /\ l = [pc |-> l.pc, req |-> l.req, base |-> l.base, target |-> l.target,
          at |-> l.at, seen |-> l.seen]
  /\ l.req \in Requests \cup {NoRequest}
  /\ l.pc \in Steps[l.req.op]
  /\ l.base \in Nat /\ l.target \in Nat /\ l.at \in Nat
  /\ l.req.op = "upsert" => l.at <= Len(l.req.points)
  /\ IF l.req.op = "deletePrefix" THEN MapsTo(l.seen, UriString, Id)
                                  ELSE MapsTo(l.seen, Id, Point)

\* The database and every database a loss of power could leave are well
\* formed, and each task is at a step of the operation it was asked for.
TypeOK ==
  /\ kv \in durable
  /\ \A s \in durable : Database(s)
  /\ task = [t \in Task |-> task[t]]
  /\ \A t \in Task : Local(task[t])
  /\ issued \in 0..MaxRequests

(***************************************************************************)
(* The key-value store's two ways of writing.                               *)
(***************************************************************************)
Put(new) == kv' = new /\ durable' = durable \cup {new}

Commit_Unsynced(new) == Put(new)      \* mutant: sync = false
Commit(new) == kv' = new /\ durable' = {new}

ReadOnly == UNCHANGED <<kv, durable>>

Goto(t, to) == task' = [task EXCEPT ![t].pc = to]

Return(t) == task' = [task EXCEPT ![t] = Fresh]

\* The count is written back only if the operation computed a new one.
WriteCountOrReturn(t) ==
  IF task[t].target # task[t].base THEN Goto(t, "count") ELSE Return(t)

\* What a lookup or a scan found is kept for the writes that follow it.
Remember(t, found, target, next) ==
  task' = [task EXCEPT ![t] = [@ EXCEPT !.seen = found, !.target = target, !.pc = next]]

\* The new count, unless the count read is too small to be right.
Less_Unchecked(n, gone) == n - gone      \* mutant: unsigned underflow
Less_ByOne(n, gone) == IF gone > 0 /\ n > 0 THEN n - 1 ELSE n      \* mutant
Less(n, gone) == IF n >= gone THEN n - gone ELSE n

At(t, pc, op) == task[t].pc = pc /\ task[t].req.op = op

(***************************************************************************)
(* A call begins, and every operation first reads the meta key.             *)
(***************************************************************************)
Call(t) ==
  /\ task[t].pc = "idle"
  /\ issued < MaxRequests
  /\ \E r \in Requests : task' = [task EXCEPT ![t] = [Fresh EXCEPT !.pc = "meta", !.req = r]]
  /\ issued' = issued + 1
  /\ ReadOnly

\* "Collection already exists", or NotFound for every other operation.
Refuse(t) ==
  /\ task[t].pc = "meta"
  /\ kv.exists <=> task[t].req.op = "create"
  /\ Return(t)
  /\ UNCHANGED issued
  /\ ReadOnly

NoCollectionYet(t) ==
  /\ At(t, "meta", "create")
  /\ ~kv.exists
  /\ Goto(t, "create")
  /\ UNCHANGED issued
  /\ ReadOnly

FirstStep ==
  [upsert |-> "check", delete |-> "lookup", deletePrefix |-> "scan", updateUri |-> "scan"]

LoadMeta(t) ==
  /\ task[t].pc = "meta"
  /\ task[t].req.op # "create"
  /\ kv.exists
  /\ task' = [task EXCEPT ![t] = [@ EXCEPT !.pc = FirstStep[task[t].req.op],
                                           !.base = kv.count, !.target = kv.count]]
  /\ UNCHANGED issued
  /\ ReadOnly

PutMeta(t) ==
  /\ task[t].pc = "create"
  /\ Put([kv EXCEPT !.exists = TRUE, !.count = 0])
  /\ Return(t)
  /\ UNCHANGED issued

\* The second write of upsert, delete and delete_by_uri_prefix.
PutCount(t) ==
  /\ task[t].pc = "count"
  /\ Put([kv EXCEPT !.exists = TRUE, !.count = task[t].target])
  /\ Return(t)
  /\ UNCHANGED issued

(***************************************************************************)
(* upsert: one get per point to tell new from known, then one batch.        *)
(***************************************************************************)
NextPoint(t) == task[t].req.points[task[t].at + 1]

CheckPoint(t) ==
  LET known == NextPoint(t).id \in DOMAIN kv.data IN
  /\ At(t, "check", "upsert")
  /\ task[t].at < Len(task[t].req.points)
  /\ NextPoint(t).vec \in Fits
  /\ task' = [task EXCEPT ![t] =
       [@ EXCEPT !.at = task[t].at + 1,
                 !.target = task[t].target + (IF known THEN 0 ELSE 1)]]
  /\ UNCHANGED issued
  /\ ReadOnly

\* InvalidDimension: the batch is dropped, nothing of it is written.
RejectPoint(t) ==
  /\ At(t, "check", "upsert")
  /\ task[t].at < Len(task[t].req.points)
  /\ NextPoint(t).vec \notin Fits
  /\ Return(t)
  /\ UNCHANGED issued
  /\ ReadOnly

\* As for the data keys, a later put of an index entry overwrites an earlier one.
LastByUri(ps) ==
  {ps[j] : j \in {i \in 1..Len(ps) : /\ ps[i].uri # NoUri
                                     /\ \A k \in i+1..Len(ps) : ps[k].uri # ps[i].uri}}

UriPuts_None(ps) == <<>>      \* mutant: the index is forgotten
UriPuts(ps) ==
  [u \in {p.uri : p \in LastByUri(ps)} |-> (CHOOSE p \in LastByUri(ps) : p.uri = u).id]

CommitUpsert(t) ==
  LET ps == task[t].req.points IN
  /\ At(t, "check", "upsert")
  /\ task[t].at = Len(ps)
  /\ Commit([kv EXCEPT !.data = Overlay(ById(ps), @), !.uris = Overlay(UriPuts(ps), @)])
  /\ WriteCountOrReturn(t)
  /\ UNCHANGED issued

(***************************************************************************)
(* delete: three single writes, none of them in a batch.                    *)
(***************************************************************************)
Lookup(t) ==
  LET found == Only(kv.data, {task[t].req.id})
      indexed == \E i \in DOMAIN found : found[i].uri # NoUri
  IN
  /\ At(t, "lookup", "delete")
  /\ Remember(t, found, Less(task[t].target, Cardinality(DOMAIN found)),
              IF indexed THEN "unindex" ELSE "remove")
  /\ UNCHANGED issued
  /\ ReadOnly

DeleteUri(t) ==
  /\ At(t, "unindex", "delete")
  /\ Put([kv EXCEPT !.uris = Without(@, {p.uri : p \in Range(task[t].seen)})])
  /\ Goto(t, "remove")
  /\ UNCHANGED issued

DeleteData(t) ==
  /\ At(t, "remove", "delete")
  /\ Put([kv EXCEPT !.data = Without(@, {task[t].req.id})])
  /\ WriteCountOrReturn(t)
  /\ UNCHANGED issued

(***************************************************************************)
(* delete_by_uri_prefix: a scan of the URI index, then one batch that       *)
(* deletes the entries found and the data key each of them names.           *)
(***************************************************************************)
ScanPrefix_NoStop(prefix) == kv.uris      \* mutant: the iterator runs on past the prefix
ScanPrefix(prefix) == Only(kv.uris, {u \in DOMAIN kv.uris : Under(u, prefix)})

ScanIndex(t) ==
  LET found == ScanPrefix(task[t].req.prefix) IN
  /\ At(t, "scan", "deletePrefix")
  /\ Remember(t, found, Less(task[t].target, Cardinality(DOMAIN found)), "commit")
  /\ UNCHANGED issued
  /\ ReadOnly

CommitDelete(t) ==
  LET found == task[t].seen IN
  /\ At(t, "commit", "deletePrefix")
  /\ Commit([kv EXCEPT !.data = Without(@, Range(found)), !.uris = Without(@, DOMAIN found)])
  /\ WriteCountOrReturn(t)
  /\ UNCHANGED issued

(***************************************************************************)
(* update_uri: a scan of all vectors, then one batch.  For each vector in   *)
(* key order the batch deletes its old index entry and puts the new one, so *)
(* of two vectors that touch the same entry the one with the larger id      *)
(* decides whether the entry survives and whom it names.                    *)
(***************************************************************************)
ScanData(t) ==
  /\ At(t, "scan", "updateUri")
  /\ Remember(t, kv.data, task[t].target, "commit")
  /\ UNCHANGED issued
  /\ ReadOnly

\* Mutant: the parent URI keeps its old prefix.
Moved_ParentStays(found, r) ==
  [i \in {j \in DOMAIN found : Touches(found[j], r.old)} |->
     [found[i] EXCEPT !.uri = Rebase(@, r.old, r.new)]]

Moved(found, r) ==
  [i \in {j \in DOMAIN found : Touches(found[j], r.old)} |-> RebasePoint(found[i], r.old, r.new)]

\* The index entries the vector i's part of the batch writes or deletes.
Entries(found, moved, i) ==
  {moved[i].uri} \cup (IF found[i].uri = moved[i].uri THEN {} ELSE {found[i].uri})

Decides(found, moved, i, u) ==
  /\ u \in Entries(found, moved, i)
  /\ \A j \in DOMAIN moved : j > i => u \notin Entries(found, moved, j)

CommitMove(t) ==
  LET found == task[t].seen
      moved == Moved(found, task[t].req)
      decided == (UNION {Entries(found, moved, i) : i \in DOMAIN moved}) \ {NoUri}
      puts == {i \in DOMAIN moved : Decides(found, moved, i, moved[i].uri)}
      named == {moved[i].uri : i \in puts} \ {NoUri}
  IN
  /\ At(t, "commit", "updateUri")
  /\ Commit([kv EXCEPT
       !.data = Overlay(moved, @),
       !.uris = Overlay([u \in named |-> CHOOSE i \in puts : moved[i].uri = u],
                        Without(@, decided))])
  /\ Return(t)
  /\ UNCHANGED issued

(***************************************************************************)
(* The process dies: the tasks are gone, what they wrote is in the WAL.     *)
(* The machine loses power: the WAL survives up to its last synced write or *)
(* any later one.                                                           *)
(***************************************************************************)
Crash ==
  /\ \E t \in Task : task[t] # Fresh
  /\ task' = [t \in Task |-> Fresh]
  /\ UNCHANGED <<kv, durable, issued>>

PowerLoss ==
  /\ \E s \in durable : kv' = s /\ durable' = {s}
  /\ task' = [t \in Task |-> Fresh]
  /\ UNCHANGED issued

\* A call under way goes on.
Proceed(t) ==
  \/ Refuse(t) \/ NoCollectionYet(t) \/ LoadMeta(t) \/ PutMeta(t) \/ PutCount(t)
  \/ CheckPoint(t) \/ RejectPoint(t) \/ CommitUpsert(t)
  \/ Lookup(t) \/ DeleteUri(t) \/ DeleteData(t)
  \/ ScanIndex(t) \/ CommitDelete(t)
  \/ ScanData(t) \/ CommitMove(t)

Step(t) == Call(t) \/ Proceed(t)

Serve == \E t \in Task : Step(t)

Next == Serve \/ Crash \/ PowerLoss

\* The store while the machine and the process stay up.
SteadySpec == Init /\ [][Serve]_vars

Spec == Init /\ [][Next]_vars
=============================================================================
