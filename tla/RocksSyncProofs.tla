-------------------------- MODULE RocksSyncProofs --------------------------
(***************************************************************************)
(* Type correctness of the store, for any number of tasks, ids, URIs and    *)
(* calls, the lemmas on points that it rests on, and what the URI index and *)
(* the vectors owe to each other as long as nothing is moved and every      *)
(* vector is stored under the hash of its URI, as VectorSyncManager does;   *)
(* then, for one task, that the store implements the memory store and that  *)
(* its count is exact.                                                      *)
(***************************************************************************)
EXTENDS RocksSync, SequenceTheorems, FiniteSetTheorems, WellFoundedInduction, TLAPS

(***************************************************************************)
(* What the operations on partial maps keep: the sets their keys and values *)
(* come from, and finiteness.                                               *)
(***************************************************************************)
\* The maps of the stores and indexes and the key ranges of RocksDB keep their keys'
\* and values' sets through insertion, removal and lookup.
LEMMA EmptyMaps == ASSUME NEW K, NEW V PROVE MapsTo(<<>>, K, V)
  BY DEF MapsTo

\* (See EmptyMaps.)
LEMMA OverlayMaps ==
  ASSUME NEW K, NEW V, NEW m, NEW n, MapsTo(m, K, V), MapsTo(n, K, V)
  PROVE  MapsTo(Overlay(m, n), K, V)
  BY DEF MapsTo, Overlay

\* (See EmptyMaps.)
LEMMA WithoutMaps ==
  ASSUME NEW K, NEW V, NEW m, NEW ks, MapsTo(m, K, V)
  PROVE  MapsTo(Without(m, ks), K, V)
  BY DEF MapsTo, Without

\* (See EmptyMaps.)
LEMMA OnlyMaps ==
  ASSUME NEW K, NEW V, NEW m, NEW ks, MapsTo(m, K, V)
  PROVE  MapsTo(Only(m, ks), K, V)
  BY DEF MapsTo, Only

\* A finite key range stays finite when a finite one is written over it or
\* keys are removed from it.
LEMMA OverlayFinite ==
  ASSUME NEW m, NEW n, IsFiniteSet(DOMAIN m), IsFiniteSet(DOMAIN n)
  PROVE  IsFiniteSet(DOMAIN Overlay(m, n))
  BY FS_Union DEF Overlay

\* (See OverlayFinite.)
LEMMA WithoutFinite ==
  ASSUME NEW m, NEW ks, IsFiniteSet(DOMAIN m)
  PROVE  IsFiniteSet(DOMAIN Without(m, ks))
  BY FS_Subset, DOMAIN Without(m, ks) \in SUBSET DOMAIN m DEF Without

\* (See OverlayFinite.)
LEMMA OnlyFinite ==
  ASSUME NEW m, NEW ks, IsFiniteSet(DOMAIN m)
  PROVE  IsFiniteSet(DOMAIN Only(m, ks))
  BY FS_Subset, DOMAIN Only(m, ks) \in SUBSET DOMAIN m DEF Only

\* Values picked from a finite set by a function are finitely many.
LEMMA ImageFinite ==
  ASSUME NEW S, IsFiniteSet(S), NEW f, NEW T, \A x \in T : \E s \in S : x = f[s]
  PROVE  IsFiniteSet(T)
<1> DEFINE g == [s \in S |-> f[s]]
           R == {f[s] : s \in S}
<1>1. g \in Surjection(S, R)
  <2>1. g \in [S -> R]
    OBVIOUS
  <2>2. \A x \in R : \E s \in S : g[s] = x
    OBVIOUS
  <2> HIDE DEF g, R
  <2>3. QED
    BY <2>1, <2>2 DEF Surjection
<1>2. IsFiniteSet(R)
  <2> HIDE DEF g, R
  <2>1. QED
    BY <1>1, FS_Surjection
<1>3. T \in SUBSET R
  OBVIOUS
<1> HIDE DEF R
<1>4. QED
  BY <1>2, <1>3, FS_Subset

(***************************************************************************)
(* Points.                                                                  *)
(***************************************************************************)
\* strip_prefix followed by format! turns a URI into a URI.
LEMMA RebaseType ==
  ASSUME NEW u \in UriString \cup {NoUri}, NEW old \in UriString, NEW new \in UriString
  PROVE  Rebase(u, old, new) \in UriString \cup {NoUri}
<1>1. CASE ~Under(u, old)
  BY <1>1 DEF Rebase
<1>2. CASE Under(u, old)
  <2> DEFINE rest == SubSeq(u, Len(old) + 1, Len(u))
  <2>1. u \in Seq(STRING) /\ new \in Seq(STRING) /\ new # <<>> /\ Len(old) \in Nat /\ Len(u) \in Nat
    BY <1>2 DEF Under, UriString
  <2>2. rest \in Seq(STRING)
    <3>1. \A i \in Len(old) + 1 .. Len(u) : u[i] \in STRING
      BY <2>1, ElementOfSeq
    <3>2. QED
      BY <2>1, <3>1, SubSeqProperties
  <2>3. new \o rest \in Seq(STRING) /\ Len(new \o rest) = Len(new) + Len(rest)
    BY <2>1, <2>2, ConcatProperties
  <2>4. Len(new) \in Nat /\ Len(new) # 0 /\ Len(rest) \in Nat
    BY <2>1, <2>2, EmptySeq, LenProperties
  <2>5. new \o rest # <<>>
    BY <2>3, <2>4, EmptySeq
  <2>6. QED
    BY <1>2, <2>3, <2>5 DEF Rebase, UriString
<1>3. QED
  BY <1>1, <1>2

\* update_uri leaves a point a point, with its id.
LEMMA RebasePointType ==
  ASSUME NEW p \in Point, NEW old \in UriString, NEW new \in UriString
  PROVE  RebasePoint(p, old, new) \in Point
<1>1. p.uri \in UriString \cup {NoUri} /\ p.parent \in UriString \cup {NoUri}
  BY DEF Point
<1>2. /\ Rebase(p.uri, old, new) \in UriString \cup {NoUri}
      /\ Rebase(p.parent, old, new) \in UriString \cup {NoUri}
  BY <1>1, RebaseType
<1>3. QED
  BY <1>2 DEF Point, RebasePoint

\* The data keys a batch writes hold points under ids, finitely many.
LEMMA ByIdType ==
  ASSUME NEW ps \in Seq(Point)
  PROVE  MapsTo(ById(ps), Id, Point) /\ IsFiniteSet(DOMAIN ById(ps))
<1>1. Len(ps) \in Nat /\ \A j \in 1..Len(ps) : ps[j] \in Point
  BY ElementOfSeq, LenProperties
<1>2. LastById(ps) \subseteq Point
  BY <1>1 DEF LastById
<1>3. \A p \in LastById(ps) : p.id \in Id
  BY <1>2 DEF Point
<1>4. \A i \in DOMAIN ById(ps) : ById(ps)[i] \in LastById(ps) /\ ById(ps)[i].id = i
  BY DEF ById
<1>5. DOMAIN ById(ps) \subseteq Id
  BY <1>3 DEF ById
<1>6. MapsTo(ById(ps), Id, Point)
  <2>1. ById(ps) = [i \in DOMAIN ById(ps) |-> ById(ps)[i]]
    BY DEF ById
  <2>2. QED
    BY <1>2, <1>4, <1>5, <2>1 DEF MapsTo
<1>7. IsFiniteSet(DOMAIN ById(ps))
  <2> DEFINE f == [j \in 1..Len(ps) |-> ps[j].id]
  <2>1. IsFiniteSet(1..Len(ps))
    BY <1>1, FS_Interval
  <2>2. \A i \in DOMAIN ById(ps) : \E j \in 1..Len(ps) : i = f[j]
    BY DEF ById, LastById
  <2> HIDE DEF f
  <2>3. QED
    BY <2>1, <2>2, ImageFinite
<1>8. QED
  BY <1>6, <1>7

\* The uri keys a batch writes name ids, finitely many.
LEMMA UriPutsType ==
  ASSUME NEW ps \in Seq(Point)
  PROVE  MapsTo(UriPuts(ps), UriString, Id) /\ IsFiniteSet(DOMAIN UriPuts(ps))
<1>1. Len(ps) \in Nat /\ \A j \in 1..Len(ps) : ps[j] \in Point
  BY ElementOfSeq, LenProperties
<1>2. \A p \in LastByUri(ps) : p \in Point /\ p.uri # NoUri
  BY <1>1 DEF LastByUri
<1>3. \A p \in LastByUri(ps) : p.id \in Id /\ p.uri \in UriString
  BY <1>2 DEF Point
<1>4. \A u \in DOMAIN UriPuts(ps) :
        \E p \in LastByUri(ps) : p.uri = u /\ UriPuts(ps)[u] = p.id
  BY DEF UriPuts
<1>5. MapsTo(UriPuts(ps), UriString, Id)
  <2>1. UriPuts(ps) = [u \in DOMAIN UriPuts(ps) |-> UriPuts(ps)[u]]
    BY DEF UriPuts
  <2>2. QED
    BY <1>3, <1>4, <2>1 DEF MapsTo
<1>6. IsFiniteSet(DOMAIN UriPuts(ps))
  <2> DEFINE f == [j \in 1..Len(ps) |-> ps[j].uri]
  <2>1. IsFiniteSet(1..Len(ps))
    BY <1>1, FS_Interval
  <2>2. \A u \in DOMAIN UriPuts(ps) : \E j \in 1..Len(ps) : u = f[j]
    BY DEF UriPuts, LastByUri
  <2> HIDE DEF f
  <2>3. QED
    BY <2>1, <2>2, ImageFinite
<1>7. QED
  BY <1>5, <1>6

(***************************************************************************)
(* The inductive invariant: the types, and that every database holds        *)
(* finitely many keys.  Finiteness is what makes the count a number: a      *)
(* prefix removal subtracts the cardinality of what its scan found.         *)
(***************************************************************************)
Finite(s) == IsFiniteSet(DOMAIN s.data) /\ IsFiniteSet(DOMAIN s.uris)

GoodDatabase(s) == Database(s) /\ Finite(s)

GoodLocal(l) == Local(l) /\ (l.req.op = "updateUri" => IsFiniteSet(DOMAIN l.seen))

StoreInv == kv \in durable /\ \A s \in durable : GoodDatabase(s)

TasksInv == task = [t \in Task |-> task[t]] /\ \A t \in Task : GoodLocal(task[t])

TypeInv == StoreInv /\ TasksInv /\ issued \in 0..MaxRequests

\* Both ways of writing keep the databases good if what they write is.
LEMMA WriteGood ==
  ASSUME StoreInv, NEW new, GoodDatabase(new), Put(new) \/ Commit(new)
  PROVE  StoreInv'
  BY DEF StoreInv, Put, Commit, GoodDatabase, Database, Finite

\* (See WriteGood.)
LEMMA ReadGood == ASSUME StoreInv, ReadOnly PROVE StoreInv'
  BY DEF StoreInv, ReadOnly, GoodDatabase, Database, Finite

\* A task that takes a step leaves the others' records alone.
LEMMA TaskGood ==
  ASSUME TasksInv, NEW t \in Task, NEW l, GoodLocal(l), task' = [task EXCEPT ![t] = l]
  PROVE  TasksInv'
<1>1. task' = [u \in Task |-> IF u = t THEN l ELSE task[u]]
  BY DEF TasksInv
<1>2. \A u \in Task : GoodLocal(task'[u])
  BY <1>1 DEF TasksInv
<1>3. QED
  BY <1>1, <1>2 DEF TasksInv

\* The record of a task without a call is well formed.
LEMMA FreshGood == GoodLocal(Fresh)
  BY EmptyMaps DEF GoodLocal, Local, Fresh, NoRequest, Steps

\* (See TaskGood.)
LEMMA ReturnGood == ASSUME TasksInv, NEW t \in Task, Return(t) PROVE TasksInv'
  BY TaskGood, FreshGood DEF Return

\* (See TaskGood.)
LEMMA GotoGood ==
  ASSUME TasksInv, NEW t \in Task, NEW to \in Steps[task[t].req.op], Goto(t, to)
  PROVE  TasksInv'
<1> DEFINE l == [task[t] EXCEPT !.pc = to]
<1>1. task' = [task EXCEPT ![t] = l]
  BY DEF Goto
<1>2. GoodLocal(task[t])
  BY DEF TasksInv
<1>3. GoodLocal(l)
  BY <1>2 DEF GoodLocal, Local
<1> HIDE DEF l
<1>4. QED
  BY <1>1, <1>3, TaskGood

\* What a call carries, by its operation.
LEMMA RequestFields ==
  ASSUME NEW r \in Requests \cup {NoRequest}
  PROVE  /\ r.op = "upsert" => r.points \in Seq(Point)
         /\ r.op = "delete" => r.id \in Id
         /\ r.op = "deletePrefix" => r.prefix \in UriString
         /\ r.op = "updateUri" => r.old \in UriString /\ r.new \in UriString
         /\ r.op \in {"none", "create", "upsert", "delete", "deletePrefix", "updateUri"}
         /\ r.op = "none" => r = NoRequest
  BY PointsAssumption
     DEF Request, Create, Upsert, Delete, DeletePrefix, UpdateUri, NoRequest

\* The database a write replaces is good, and so is the writing task's record.
LEMMA CurrentGood ==
  ASSUME TypeInv, NEW t \in Task
  PROVE  GoodDatabase(kv) /\ GoodLocal(task[t]) /\ task[t].req \in Requests \cup {NoRequest}
  BY DEF TypeInv, StoreInv, TasksInv, GoodLocal, Local

\* A database is made of its four fields, whichever two of them are rewritten.
LEMMA NewDatabase ==
  ASSUME GoodDatabase(kv), NEW data, NEW uris,
         MapsTo(data, Id, Point), IsFiniteSet(DOMAIN data),
         MapsTo(uris, UriString, Id), IsFiniteSet(DOMAIN uris)
  PROVE  GoodDatabase([kv EXCEPT !.data = data, !.uris = uris])
<1> DEFINE s == [kv EXCEPT !.data = data]
           n == [kv EXCEPT !.data = data, !.uris = uris]
<1>1. kv = [exists |-> kv.exists, count |-> kv.count, data |-> kv.data, uris |-> kv.uris]
  BY DEF GoodDatabase, Database
<1>2. s = [exists |-> kv.exists, count |-> kv.count, data |-> data, uris |-> kv.uris]
  BY <1>1
<1>3. n = [s EXCEPT !.uris = uris]
  OBVIOUS
<1> HIDE DEF s, n
<1>4. n = [exists |-> kv.exists, count |-> kv.count, data |-> data, uris |-> uris]
  BY <1>2, <1>3
<1>5. GoodDatabase(n)
  BY <1>4 DEF GoodDatabase, Database, Finite
<1>6. QED
  BY <1>5 DEF n

\* (See NewDatabase.)
LEMMA NewMeta ==
  ASSUME GoodDatabase(kv), NEW b \in BOOLEAN, NEW c \in Nat
  PROVE  GoodDatabase([kv EXCEPT !.exists = b, !.count = c])
<1> DEFINE s == [kv EXCEPT !.exists = b]
           n == [kv EXCEPT !.exists = b, !.count = c]
<1>1. kv = [exists |-> kv.exists, count |-> kv.count, data |-> kv.data, uris |-> kv.uris]
  BY DEF GoodDatabase, Database
<1>2. s = [exists |-> b, count |-> kv.count, data |-> kv.data, uris |-> kv.uris]
  BY <1>1
<1>3. n = [s EXCEPT !.count = c]
  OBVIOUS
<1> HIDE DEF s, n
<1>4. n = [exists |-> b, count |-> c, data |-> kv.data, uris |-> kv.uris]
  BY <1>2, <1>3
<1>5. GoodDatabase(n)
  BY <1>4 DEF GoodDatabase, Database, Finite
<1>6. QED
  BY <1>5 DEF n

(***************************************************************************)
(* One lemma per action or per group of actions of one operation.           *)
(***************************************************************************)
\* A call begins, is refused, or reads the meta key.
LEMMA MetaGood ==
  ASSUME TypeInv, NEW t \in Task,
         Call(t) \/ Refuse(t) \/ NoCollectionYet(t) \/ LoadMeta(t)
  PROVE  TypeInv'
<1>1. StoreInv'
  BY ReadGood DEF TypeInv, Call, Refuse, NoCollectionYet, LoadMeta
<1>2. GoodDatabase(kv) /\ GoodLocal(task[t]) /\ TasksInv
  BY CurrentGood DEF TypeInv
<1>3. CASE Call(t)
  <2>1. PICK r \in Requests :
          task' = [task EXCEPT ![t] = [Fresh EXCEPT !.pc = "meta", !.req = r]]
    BY <1>3 DEF Call
  <2> DEFINE l == [Fresh EXCEPT !.pc = "meta", !.req = r]
  <2> DEFINE m == [Fresh EXCEPT !.pc = "meta"]
  <2>a. m = [pc |-> "meta", req |-> NoRequest, base |-> 0, target |-> 0, at |-> 0, seen |-> <<>>]
    BY DEF Fresh
  <2>b. l = [m EXCEPT !.req = r]
    OBVIOUS
  <2> HIDE DEF m, l
  <2>2. l = [pc |-> "meta", req |-> r, base |-> 0, target |-> 0, at |-> 0, seen |-> <<>>]
    BY <2>a, <2>b
  <2>3. r.op \in {"create", "upsert", "delete", "deletePrefix", "updateUri"}
    BY PointsAssumption DEF Request, Create, Upsert, Delete, DeletePrefix, UpdateUri
  <2>4. r.op = "upsert" => Len(r.points) \in Nat
    BY RequestFields, LenProperties
  <2>5. Local(l)
    BY <2>2, <2>3, <2>4, EmptyMaps DEF Local, Steps
  <2>6. GoodLocal(l)
    BY <2>2, <2>5, FS_EmptySet DEF GoodLocal
  <2>7. TasksInv'
    BY <1>2, <2>1, <2>6, TaskGood DEF l
  <2>8. issued' \in 0..MaxRequests
    <3>1. issued \in 0..MaxRequests /\ issued < MaxRequests /\ issued' = issued + 1
      BY <1>3 DEF Call, TypeInv
    <3>2. QED
      BY <3>1, StoreAssumption
  <2>9. QED
    BY <1>1, <2>7, <2>8 DEF TypeInv
<1>4. CASE Refuse(t)
  BY <1>1, <1>2, <1>4, ReturnGood DEF Refuse, TypeInv
<1>5. CASE NoCollectionYet(t)
  <2>1. "create" \in Steps[task[t].req.op]
    BY <1>5 DEF NoCollectionYet, At, Steps
  <2>2. QED
    BY <1>1, <1>2, <1>5, <2>1, GotoGood DEF NoCollectionYet, TypeInv
<1>6. CASE LoadMeta(t)
  <2> DEFINE l == [task[t] EXCEPT !.pc = FirstStep[task[t].req.op],
                                  !.base = kv.count, !.target = kv.count]
  <2>1. task' = [task EXCEPT ![t] = l]
    BY <1>6 DEF LoadMeta
  <2>2. /\ task[t].pc = "meta" /\ task[t].req.op # "create"
        /\ task[t].req \in Requests \cup {NoRequest}
        /\ task[t].pc \in Steps[task[t].req.op]
        /\ kv.count \in Nat
    BY <1>2, <1>6 DEF LoadMeta, GoodLocal, Local, GoodDatabase, Database
  <2>3. FirstStep[task[t].req.op] \in Steps[task[t].req.op]
    BY <2>2, RequestFields DEF Steps, FirstStep
  <2> DEFINE next == FirstStep[task[t].req.op]
             m == [task[t] EXCEPT !.pc = next]
             o == [m EXCEPT !.base = kv.count]
  <2>a. task[t] = [pc |-> task[t].pc, req |-> task[t].req, base |-> task[t].base,
                   target |-> task[t].target, at |-> task[t].at, seen |-> task[t].seen]
    BY <1>2 DEF GoodLocal, Local
  <2> HIDE DEF next
  <2>b. m = [pc |-> next, req |-> task[t].req, base |-> task[t].base,
             target |-> task[t].target, at |-> task[t].at, seen |-> task[t].seen]
    BY <2>a
  <2>c. l = [o EXCEPT !.target = kv.count]
    BY DEF next
  <2> HIDE DEF m, l
  <2>d. o = [pc |-> next, req |-> task[t].req, base |-> kv.count,
             target |-> task[t].target, at |-> task[t].at, seen |-> task[t].seen]
    BY <2>b
  <2> HIDE DEF o
  <2>e. l = [pc |-> next, req |-> task[t].req, base |-> kv.count,
             target |-> kv.count, at |-> task[t].at, seen |-> task[t].seen]
    BY <2>c, <2>d
  <2>4. GoodLocal(l)
    BY <1>2, <2>2, <2>3, <2>e DEF GoodLocal, Local, next
  <2>5. TasksInv'
    BY <1>2, <2>1, <2>4, TaskGood
  <2>6. QED
    BY <1>1, <1>6, <2>5 DEF LoadMeta, TypeInv
<1>7. QED
  BY <1>3, <1>4, <1>5, <1>6

\* A lookup or a scan leaves a good record if what it found has the right type.
LEMMA RememberGood ==
  ASSUME TypeInv, NEW t \in Task, NEW found, NEW target \in Nat,
         NEW next \in Steps[task[t].req.op], Remember(t, found, target, next),
         IF task[t].req.op = "deletePrefix" THEN MapsTo(found, UriString, Id)
                                            ELSE MapsTo(found, Id, Point),
         task[t].req.op = "updateUri" => IsFiniteSet(DOMAIN found)
  PROVE  TasksInv'
<1> DEFINE m == [task[t] EXCEPT !.seen = found]
           o == [m EXCEPT !.target = target]
           l == [o EXCEPT !.pc = next]
<1>1. task[t] = [pc |-> task[t].pc, req |-> task[t].req, base |-> task[t].base,
                 target |-> task[t].target, at |-> task[t].at, seen |-> task[t].seen]
  BY CurrentGood DEF GoodLocal, Local
<1>2. m = [pc |-> task[t].pc, req |-> task[t].req, base |-> task[t].base,
           target |-> task[t].target, at |-> task[t].at, seen |-> found]
  BY <1>1
<1>3. task' = [task EXCEPT ![t] = l]
  BY DEF Remember
<1> HIDE DEF m
<1>4. o = [pc |-> task[t].pc, req |-> task[t].req, base |-> task[t].base,
           target |-> target, at |-> task[t].at, seen |-> found]
  BY <1>2
<1> HIDE DEF o
<1>5. l = [pc |-> next, req |-> task[t].req, base |-> task[t].base,
           target |-> target, at |-> task[t].at, seen |-> found]
  BY <1>4
<1> HIDE DEF l
<1>6. GoodLocal(l)
  BY <1>5, CurrentGood DEF GoodLocal, Local
<1>7. QED
  BY <1>3, <1>6, TaskGood DEF TypeInv

\* The guard of the subtraction keeps the count a number.
LEMMA LessType == ASSUME NEW n \in Nat, NEW gone \in Nat PROVE Less(n, gone) \in Nat
  BY DEF Less

\* The count is the last write of the operations that have one.
LEMMA WriteCountOrReturnGood ==
  ASSUME TypeInv, NEW t \in Task, "count" \in Steps[task[t].req.op], WriteCountOrReturn(t)
  PROVE  TasksInv'
  BY GotoGood, ReturnGood DEF WriteCountOrReturn, TypeInv

\* The meta key is written by create_collection and by the second write of
\* upsert, delete and delete_by_uri_prefix.
LEMMA CountGood ==
  ASSUME TypeInv, NEW t \in Task, PutMeta(t) \/ PutCount(t)
  PROVE  TypeInv'
<1>1. PICK n \in Nat : Put([kv EXCEPT !.exists = TRUE, !.count = n])
  BY CurrentGood DEF PutMeta, PutCount, GoodLocal, Local
<1>2. GoodDatabase([kv EXCEPT !.exists = TRUE, !.count = n])
  BY CurrentGood, NewMeta
<1>3. StoreInv'
  BY <1>1, <1>2, WriteGood DEF TypeInv
<1>4. TasksInv'
  BY ReturnGood DEF PutMeta, PutCount, TypeInv
<1>5. QED
  BY <1>3, <1>4 DEF TypeInv, PutMeta, PutCount

\* upsert: its gets change the task only, its batch writes points and ids.
LEMMA UpsertGood ==
  ASSUME TypeInv, NEW t \in Task, CheckPoint(t) \/ RejectPoint(t) \/ CommitUpsert(t)
  PROVE  TypeInv'
<1>1. GoodDatabase(kv) /\ GoodLocal(task[t]) /\ TasksInv /\ StoreInv
  BY CurrentGood DEF TypeInv
<1>2. task[t].req.op = "upsert" /\ task[t].req.points \in Seq(Point)
  BY CurrentGood, RequestFields DEF CheckPoint, RejectPoint, CommitUpsert, At
<1>3. CASE CheckPoint(t)
  <2> DEFINE n == task[t].target + (IF NextPoint(t).id \in DOMAIN kv.data THEN 0 ELSE 1)
             m == [task[t] EXCEPT !.at = task[t].at + 1]
             l == [m EXCEPT !.target = n]
  <2>1. task' = [task EXCEPT ![t] = l]
    BY <1>3 DEF CheckPoint
  <2>2. n \in Nat /\ task[t].at + 1 \in Nat /\ task[t].at + 1 <= Len(task[t].req.points)
    <3>1. task[t].target \in Nat /\ task[t].at \in Nat /\ task[t].at < Len(task[t].req.points)
      BY <1>1, <1>3 DEF GoodLocal, Local, CheckPoint
    <3>2. Len(task[t].req.points) \in Nat
      BY <1>2, LenProperties
    <3>3. QED
      BY <3>1, <3>2
  <2>3. task[t] = [pc |-> task[t].pc, req |-> task[t].req, base |-> task[t].base,
                   target |-> task[t].target, at |-> task[t].at, seen |-> task[t].seen]
    BY <1>1 DEF GoodLocal, Local
  <2> HIDE DEF n
  <2>4. m = [pc |-> task[t].pc, req |-> task[t].req, base |-> task[t].base,
             target |-> task[t].target, at |-> task[t].at + 1, seen |-> task[t].seen]
    BY <2>3
  <2> HIDE DEF m
  <2>5. l = [pc |-> task[t].pc, req |-> task[t].req, base |-> task[t].base,
             target |-> n, at |-> task[t].at + 1, seen |-> task[t].seen]
    BY <2>4
  <2> HIDE DEF l
  <2>6. GoodLocal(l)
    BY <1>1, <2>2, <2>5 DEF GoodLocal, Local
  <2>7. TasksInv'
    BY <1>1, <2>1, <2>6, TaskGood
  <2>8. QED
    BY <1>3, <2>7, ReadGood DEF TypeInv, CheckPoint
<1>4. CASE RejectPoint(t)
  BY <1>4, ReturnGood, ReadGood DEF TypeInv, RejectPoint
<1>5. CASE CommitUpsert(t)
  <2> DEFINE data == Overlay(ById(task[t].req.points), kv.data)
             uris == Overlay(UriPuts(task[t].req.points), kv.uris)
  <2>1. Commit([kv EXCEPT !.data = data, !.uris = uris])
    BY <1>5 DEF CommitUpsert
  <2>2. MapsTo(data, Id, Point) /\ IsFiniteSet(DOMAIN data)
    BY <1>1, <1>2, ByIdType, OverlayMaps, OverlayFinite DEF GoodDatabase, Database, Finite
  <2>3. MapsTo(uris, UriString, Id) /\ IsFiniteSet(DOMAIN uris)
    BY <1>1, <1>2, UriPutsType, OverlayMaps, OverlayFinite DEF GoodDatabase, Database, Finite
  <2> HIDE DEF data, uris
  <2>4. StoreInv'
    BY <1>1, <2>1, <2>2, <2>3, NewDatabase, WriteGood
  <2>5. TasksInv'
    BY <1>2, <1>5, WriteCountOrReturnGood DEF CommitUpsert, Steps
  <2>6. QED
    BY <1>5, <2>4, <2>5 DEF TypeInv, CommitUpsert
<1>6. QED
  BY <1>3, <1>4, <1>5

\* delete: the lookup keeps one point, the two writes remove keys.
LEMMA DeleteGood ==
  ASSUME TypeInv, NEW t \in Task, Lookup(t) \/ DeleteUri(t) \/ DeleteData(t)
  PROVE  TypeInv'
<1>1. GoodDatabase(kv) /\ GoodLocal(task[t]) /\ TasksInv /\ StoreInv
  BY CurrentGood DEF TypeInv
<1>2. task[t].req.op = "delete"
  BY DEF Lookup, DeleteUri, DeleteData, At
<1>3. CASE Lookup(t)
  <2> DEFINE found == Only(kv.data, {task[t].req.id})
             target == Less(task[t].target, Cardinality(DOMAIN found))
             next == IF \E i \in DOMAIN found : found[i].uri # NoUri THEN "unindex" ELSE "remove"
  <2>1. Remember(t, found, target, next)
    BY <1>3 DEF Lookup
  <2>2. MapsTo(found, Id, Point) /\ IsFiniteSet(DOMAIN found)
    BY <1>1, OnlyMaps, OnlyFinite DEF GoodDatabase, Database, Finite
  <2>3. target \in Nat
    <3> HIDE DEF found
    <3>1. QED
      BY <1>1, <2>2, FS_CardinalityType, LessType DEF GoodLocal, Local
  <2>4. next \in Steps[task[t].req.op]
    BY <1>2 DEF Steps
  <2> HIDE DEF found, target, next
  <2>5. TasksInv'
    BY <1>2, <2>1, <2>2, <2>3, <2>4, RememberGood
  <2>6. QED
    BY <1>3, <2>5, ReadGood DEF TypeInv, Lookup
<1>4. CASE DeleteUri(t)
  <2> DEFINE uris == Without(kv.uris, {p.uri : p \in Range(task[t].seen)})
  <2>1. Put([kv EXCEPT !.uris = uris])
    BY <1>4 DEF DeleteUri
  <2>2. MapsTo(uris, UriString, Id) /\ IsFiniteSet(DOMAIN uris)
    BY <1>1, WithoutMaps, WithoutFinite DEF GoodDatabase, Database, Finite
  <2> HIDE DEF uris
  <2>3. GoodDatabase([kv EXCEPT !.uris = uris])
    BY <1>1, <2>2 DEF GoodDatabase, Database, Finite
  <2>4. StoreInv'
    BY <1>1, <2>1, <2>3, WriteGood
  <2>5. TasksInv'
    BY <1>1, <1>2, <1>4, GotoGood DEF DeleteUri, Steps
  <2>6. QED
    BY <1>4, <2>4, <2>5 DEF TypeInv, DeleteUri
<1>5. CASE DeleteData(t)
  <2> DEFINE data == Without(kv.data, {task[t].req.id})
  <2>1. Put([kv EXCEPT !.data = data])
    BY <1>5 DEF DeleteData
  <2>2. MapsTo(data, Id, Point) /\ IsFiniteSet(DOMAIN data)
    BY <1>1, WithoutMaps, WithoutFinite DEF GoodDatabase, Database, Finite
  <2> HIDE DEF data
  <2>3. GoodDatabase([kv EXCEPT !.data = data])
    BY <1>1, <2>2 DEF GoodDatabase, Database, Finite
  <2>4. StoreInv'
    BY <1>1, <2>1, <2>3, WriteGood
  <2>5. TasksInv'
    BY <1>2, <1>5, WriteCountOrReturnGood DEF DeleteData, Steps
  <2>6. QED
    BY <1>5, <2>4, <2>5 DEF TypeInv, DeleteData
<1>6. QED
  BY <1>3, <1>4, <1>5

\* delete_by_uri_prefix: what the scan found is finite, so the new count is a
\* number; the batch only removes keys.
LEMMA DeletePrefixGood ==
  ASSUME TypeInv, NEW t \in Task, ScanIndex(t) \/ CommitDelete(t)
  PROVE  TypeInv'
<1>1. GoodDatabase(kv) /\ GoodLocal(task[t]) /\ TasksInv /\ StoreInv
  BY CurrentGood DEF TypeInv
<1>2. task[t].req.op = "deletePrefix"
  BY DEF ScanIndex, CommitDelete, At
<1>3. CASE ScanIndex(t)
  <2> DEFINE found == ScanPrefix(task[t].req.prefix)
             target == Less(task[t].target, Cardinality(DOMAIN found))
  <2>1. Remember(t, found, target, "commit")
    BY <1>3 DEF ScanIndex
  <2>2. MapsTo(found, UriString, Id) /\ IsFiniteSet(DOMAIN found)
    BY <1>1, OnlyMaps, OnlyFinite DEF GoodDatabase, Database, Finite, ScanPrefix
  <2> HIDE DEF found
  <2>4. target \in Nat
    BY <1>1, <2>2, FS_CardinalityType, LessType DEF GoodLocal, Local
  <2> HIDE DEF target
  <2>5. TasksInv'
    BY <1>2, <2>1, <2>2, <2>4, RememberGood DEF Steps
  <2>6. QED
    BY <1>3, <2>5, ReadGood DEF TypeInv, ScanIndex
<1>4. CASE CommitDelete(t)
  <2> DEFINE data == Without(kv.data, Range(task[t].seen))
             uris == Without(kv.uris, DOMAIN task[t].seen)
  <2>1. Commit([kv EXCEPT !.data = data, !.uris = uris])
    BY <1>4 DEF CommitDelete
  <2>2. MapsTo(data, Id, Point) /\ IsFiniteSet(DOMAIN data)
    BY <1>1, WithoutMaps, WithoutFinite DEF GoodDatabase, Database, Finite
  <2>3. MapsTo(uris, UriString, Id) /\ IsFiniteSet(DOMAIN uris)
    BY <1>1, WithoutMaps, WithoutFinite DEF GoodDatabase, Database, Finite
  <2> HIDE DEF data, uris
  <2>4. StoreInv'
    BY <1>1, <2>1, <2>2, <2>3, NewDatabase, WriteGood
  <2>5. TasksInv'
    BY <1>2, <1>4, WriteCountOrReturnGood DEF CommitDelete, Steps
  <2>6. QED
    BY <1>4, <2>4, <2>5 DEF TypeInv, CommitDelete
<1>5. QED
  BY <1>3, <1>4

\* The vectors update_uri rewrites stay points under their ids.
LEMMA MovedType ==
  ASSUME NEW found, MapsTo(found, Id, Point), NEW r, r.old \in UriString, r.new \in UriString
  PROVE  MapsTo(Moved(found, r), Id, Point) /\ DOMAIN Moved(found, r) \subseteq DOMAIN found
<1>1. \A i \in DOMAIN found : RebasePoint(found[i], r.old, r.new) \in Point
  BY RebasePointType DEF MapsTo
<1>2. QED
  BY <1>1 DEF Moved, MapsTo

\* update_uri: the scan is a snapshot of all vectors, the batch writes back
\* rewritten points and index entries that name some of their ids.
LEMMA MoveGood ==
  ASSUME TypeInv, NEW t \in Task, ScanData(t) \/ CommitMove(t)
  PROVE  TypeInv'
<1>1. GoodDatabase(kv) /\ GoodLocal(task[t]) /\ TasksInv /\ StoreInv
  BY CurrentGood DEF TypeInv
<1>2. task[t].req.op = "updateUri"
  BY DEF ScanData, CommitMove, At
<1>3. CASE ScanData(t)
  <2>1. MapsTo(kv.data, Id, Point) /\ IsFiniteSet(DOMAIN kv.data) /\ task[t].target \in Nat
    BY <1>1 DEF GoodDatabase, Database, Finite, GoodLocal, Local
  <2>2. TasksInv'
    BY <1>2, <1>3, <2>1, RememberGood DEF ScanData, Steps
  <2>3. QED
    BY <1>3, <2>2, ReadGood DEF TypeInv, ScanData
<1>4. CASE CommitMove(t)
  <2> DEFINE found == task[t].seen
             moved == Moved(found, task[t].req)
             decided == (UNION {Entries(found, moved, i) : i \in DOMAIN moved}) \ {NoUri}
             puts == {i \in DOMAIN moved : Decides(found, moved, i, moved[i].uri)}
             named == {moved[i].uri : i \in puts} \ {NoUri}
             names == [u \in named |-> CHOOSE i \in puts : moved[i].uri = u]
             data == Overlay(moved, kv.data)
             uris == Overlay(names, Without(kv.uris, decided))
  <2>1. Commit([kv EXCEPT !.data = data, !.uris = uris])
    BY <1>4 DEF CommitMove
  <2>2. /\ MapsTo(found, Id, Point) /\ IsFiniteSet(DOMAIN found)
        /\ task[t].req.old \in UriString /\ task[t].req.new \in UriString
    BY <1>1, <1>2, CurrentGood, RequestFields DEF GoodLocal, Local
  <2> HIDE DEF found
  <2>3. MapsTo(moved, Id, Point) /\ DOMAIN moved \subseteq DOMAIN found
    BY <2>2, MovedType
  <2>4. IsFiniteSet(DOMAIN moved)
    BY <2>2, <2>3, FS_Subset
  <2> HIDE DEF moved
  <2>5. MapsTo(data, Id, Point) /\ IsFiniteSet(DOMAIN data)
    BY <1>1, <2>3, <2>4, OverlayMaps, OverlayFinite DEF GoodDatabase, Database, Finite
  <2>6. \A i \in puts : i \in Id /\ moved[i].uri \in UriString \cup {NoUri}
    BY <2>3 DEF MapsTo, Point
  <2>7. MapsTo(names, UriString, Id)
    <3>1. \A u \in named : names[u] \in puts
      OBVIOUS
    <3> HIDE DEF puts
    <3>2. named \subseteq UriString
      BY <2>6
    <3>3. names \in [named -> Id] /\ DOMAIN names = named
      BY <3>1, <2>6
    <3> HIDE DEF named, names
    <3>4. QED
      BY <3>2, <3>3 DEF MapsTo
  <2>8. IsFiniteSet(DOMAIN names)
    <3> DEFINE uriOf == [i \in DOMAIN moved |-> moved[i].uri]
    <3>1. \A u \in DOMAIN names : \E i \in DOMAIN moved : u = uriOf[i]
      OBVIOUS
    <3> HIDE DEF uriOf, names
    <3>2. QED
      BY <2>4, <3>1, ImageFinite
  <2> HIDE DEF names, decided
  <2>9. MapsTo(uris, UriString, Id) /\ IsFiniteSet(DOMAIN uris)
    BY <1>1, <2>7, <2>8, WithoutMaps, WithoutFinite, OverlayMaps, OverlayFinite
       DEF GoodDatabase, Database, Finite
  <2> HIDE DEF data, uris
  <2>10. StoreInv'
    BY <1>1, <2>1, <2>5, <2>9, NewDatabase, WriteGood
  <2>11. TasksInv'
    BY <1>1, <1>4, ReturnGood DEF CommitMove
  <2>12. QED
    BY <1>4, <2>10, <2>11 DEF TypeInv, CommitMove
<1>5. QED
  BY <1>3, <1>4

\* The death of the process resets the tasks; a loss of power also leaves one
\* of the databases that were good already.
LEMMA CrashGood ==
  ASSUME TypeInv, Crash \/ PowerLoss
  PROVE  TypeInv'
<1>1. TasksInv'
  <2>1. task' = [t \in Task |-> Fresh]
    BY DEF Crash, PowerLoss
  <2>2. QED
    BY <2>1, FreshGood DEF TasksInv
<1>2. StoreInv'
  BY DEF Crash, PowerLoss, TypeInv, StoreInv
<1>3. QED
  BY <1>1, <1>2 DEF TypeInv, Crash, PowerLoss

(***************************************************************************)
(* Type correctness.                                                        *)
(***************************************************************************)
\* The store starts empty and idle.
LEMMA InitGood == Init => TypeInv
<1> SUFFICES ASSUME Init PROVE TypeInv
  OBVIOUS
<1>1. PICK e \in BOOLEAN : kv = [exists |-> e, count |-> 0, data |-> <<>>, uris |-> <<>>]
  BY DEF Init
<1>2. IsFiniteSet(DOMAIN <<>>)
  BY FS_EmptySet
<1>3. GoodDatabase(kv)
  BY <1>1, <1>2, EmptyMaps DEF GoodDatabase, Database, Finite
<1>4. StoreInv
  BY <1>3 DEF Init, StoreInv
<1>5. TasksInv
  BY FreshGood DEF Init, TasksInv
<1>6. QED
  BY <1>4, <1>5, StoreAssumption DEF Init, TypeInv

\* Every step of a task, a crash and a loss of power keep the invariant.
LEMMA NextGood == TypeInv /\ [Next]_vars => TypeInv'
<1> SUFFICES ASSUME TypeInv, [Next]_vars PROVE TypeInv'
  OBVIOUS
<1>1. CASE UNCHANGED vars
  <2>1. StoreInv'
    BY <1>1, ReadGood DEF vars, ReadOnly, TypeInv
  <2>2. TasksInv'
    BY <1>1 DEF vars, TypeInv, TasksInv
  <2>3. QED
    BY <1>1, <2>1, <2>2 DEF vars, TypeInv
<1>2. CASE Crash \/ PowerLoss
  BY <1>2, CrashGood
<1>3. CASE Serve
  <2>1. PICK t \in Task : Step(t)
    BY <1>3 DEF Serve
  <2>2. QED
    BY <2>1, MetaGood, CountGood, UpsertGood, DeleteGood, DeletePrefixGood, MoveGood DEF Step, Proceed
<1>4. QED
  BY <1>1, <1>2, <1>3 DEF Next

\* The inductive invariant holds throughout, and with it the type invariant.
LEMMA TypeInvHolds == Spec => []TypeInv
  BY InitGood, NextGood, PTL DEF Spec

\* Whatever calls any number of tasks make and wherever the process or the
\* machine dies, the database and every database a loss of power could leave
\* map ids to points and URIs to ids, and every task is at a step of the call
\* it was given (rocks.rs 276-658).
THEOREM TypeCorrect == Spec => []TypeOK
<1>1. TypeInv => TypeOK
  BY DEF TypeInv, TypeOK, StoreInv, TasksInv, GoodDatabase, GoodLocal
<1>2. QED
  BY <1>1, TypeInvHolds, PTL

(***************************************************************************)
(* The inductive invariant.  IndexInverse alone is not inductive: a batch   *)
(* commits what a scan found several steps ago.  It stays right because an  *)
(* index entry can only ever name the hash of its URI, so what the scan     *)
(* found of an entry is still true of it if it is still there, whoever      *)
(* deleted it and wrote it again in between.                                *)
(***************************************************************************)
Paired(data, uris) ==
  /\ \A u \in DOMAIN uris : u \in Uri /\ uris[u] = IdOf[u] /\ IdOf[u] \in DOMAIN data
  /\ \A i \in DOMAIN data :
       HashedPoint(data[i]) /\ data[i].id = i /\ data[i].uri \in DOMAIN uris

\* What a removal's scan found.
FoundPaired(l) ==
  l.req.op = "deletePrefix" =>
    \A u \in DOMAIN l.seen : u \in Uri /\ l.seen[u] = IdOf[u] /\ Under(u, l.req.prefix)

SyncInv ==
  /\ TypeInv
  /\ \A s \in durable : Paired(s.data, s.uris)
  /\ CommittedSurvives
  /\ \A t \in Task : FoundPaired(task[t])

\* The ids are hashes without collisions.
LEMMA Injective == \A u, v \in Uri : IdOf[u] = IdOf[v] => u = v
  BY SyncAssumption

\* Paired databases have an exact inverse index.
LEMMA PairedAgrees ==
  ASSUME NEW s, Paired(s.data, s.uris)
  PROVE  IndexAgrees(s)
  BY Injective DEF Paired, IndexAgrees, HashedPoint

\* A batch of hashed points writes a data key for every uri key and the reverse:
\* of several points with one id, which have one URI, both keep the last.
LEMMA BatchPaired ==
  ASSUME NEW ps \in Seq(Point), \A j \in DOMAIN ps : HashedPoint(ps[j])
  PROVE  Paired(ById(ps), UriPuts(ps))
<1>1. /\ DOMAIN ps = 1..Len(ps)
      /\ \A j \in 1..Len(ps) : HashedPoint(ps[j]) /\ ps[j].uri # NoUri
  BY LenProperties, PointsAssumption, SyncAssumption DEF HashedPoint
<1>2. LastById(ps) = LastByUri(ps)
  <2>1. \A j, k \in 1..Len(ps) : ps[j].id = ps[k].id <=> ps[j].uri = ps[k].uri
    BY <1>1, Injective DEF HashedPoint
  <2>2. \A j \in 1..Len(ps) : j+1..Len(ps) \subseteq 1..Len(ps)
    BY LenProperties
  <2>3. \A j \in 1..Len(ps) :
          (\A k \in j+1..Len(ps) : ps[k].id # ps[j].id)
            <=> (ps[j].uri # NoUri /\ \A k \in j+1..Len(ps) : ps[k].uri # ps[j].uri)
    BY <1>1, <2>1, <2>2
  <2>4. QED
    BY <2>3 DEF LastById, LastByUri
<1>3. \A p \in LastById(ps) : HashedPoint(p)
  BY <1>1 DEF LastById
<1>4. \A i \in DOMAIN ById(ps) : ById(ps)[i] \in LastById(ps) /\ ById(ps)[i].id = i
  BY DEF ById
<1>5. \A u \in DOMAIN UriPuts(ps) :
        \E p \in LastByUri(ps) : p.uri = u /\ UriPuts(ps)[u] = p.id
  BY DEF UriPuts
<1>6. \A p \in LastById(ps) : p.id \in DOMAIN ById(ps) /\ p.uri \in DOMAIN UriPuts(ps)
  BY <1>2 DEF ById, UriPuts
<1>7. QED
  BY <1>2, <1>3, <1>4, <1>5, <1>6 DEF Paired, HashedPoint

\* Writing paired keys over paired keys pairs them.
LEMMA OverlayPaired ==
  ASSUME NEW d, NEW u, NEW data, NEW uris, Paired(d, u), Paired(data, uris)
  PROVE  Paired(Overlay(d, data), Overlay(u, uris))
  BY Injective DEF Paired, Overlay, HashedPoint

\* Removing index entries together with the ids they hash to keeps the rest paired.
LEMMA WithoutPaired ==
  ASSUME NEW data, NEW uris, Paired(data, uris), NEW found,
         \A v \in DOMAIN found : v \in Uri /\ found[v] = IdOf[v]
  PROVE  Paired(Without(data, Range(found)), Without(uris, DOMAIN found))
<1>1. \A v \in Uri : IdOf[v] \in Range(found) <=> v \in DOMAIN found
  BY Injective DEF Range
<1>2. QED
  BY <1>1 DEF Paired, Without, HashedPoint

\* An index scan returns entries that were paired when it read them.
LEMMA ScanPaired ==
  ASSUME NEW data, NEW uris, Paired(data, uris), NEW prefix,
         NEW found, found = Only(uris, {v \in DOMAIN uris : Under(v, prefix)})
  PROVE  \A v \in DOMAIN found : v \in Uri /\ found[v] = IdOf[v] /\ Under(v, prefix)
  BY DEF Paired, Only

\* Under NothingMoves, calls are of three kinds.
LEMMA OnlySyncCalls ==
  ASSUME NothingMoves, TypeInv, NEW t \in Task
  PROVE  /\ task[t].req.op \in {"none", "create", "upsert", "deletePrefix"}
         /\ task[t].req.op = "upsert" =>
              \A j \in DOMAIN task[t].req.points : HashedPoint(task[t].req.points[j])
<1>1. task[t].req \in Requests \cup {NoRequest}
  BY CurrentGood
<1>2. CASE task[t].req = NoRequest
  BY <1>2 DEF NoRequest
<1>3. CASE task[t].req \in Requests
  BY <1>3 DEF NothingMoves
<1>4. QED
  BY <1>1, <1>2, <1>3

\* What one task's step does to the database, seen from the data and uri keys:
\* nothing, or a batch that leaves them paired and is synced to disk.
LEMMA StepWrites ==
  ASSUME NothingMoves, SyncInv, NEW t \in Task, Step(t)
  PROVE  \/ \A s \in durable' : s.data = kv.data /\ s.uris = kv.uris
         \/ \A s \in durable' : s = kv' /\ Paired(s.data, s.uris)
<1>1. TypeInv /\ Paired(kv.data, kv.uris) /\ CommittedSurvives
  BY DEF SyncInv, TypeInv, StoreInv
<1>2. task[t].req.op \notin {"delete", "updateUri"}
  BY <1>1, OnlySyncCalls
<1>3. kv = [exists |-> kv.exists, count |-> kv.count, data |-> kv.data, uris |-> kv.uris]
  BY <1>1, CurrentGood DEF GoodDatabase, Database
<1>4. CASE ReadOnly
  BY <1>1, <1>4 DEF ReadOnly, CommittedSurvives
<1>5. CASE PutMeta(t) \/ PutCount(t)
  <2>1. PICK n : Put([kv EXCEPT !.exists = TRUE, !.count = n])
    BY <1>5 DEF PutMeta, PutCount
  <2> DEFINE new == [kv EXCEPT !.exists = TRUE, !.count = n]
  <2>2. new.data = kv.data /\ new.uris = kv.uris
    BY <1>3
  <2>3. durable' = durable \cup {new}
    BY <2>1 DEF Put
  <2> HIDE DEF new
  <2>4. QED
    BY <1>1, <2>2, <2>3 DEF CommittedSurvives
<1>6. ASSUME NEW data, NEW uris, Paired(data, uris),
             Commit([kv EXCEPT !.data = data, !.uris = uris])
      PROVE  \A s \in durable' : s = kv' /\ Paired(s.data, s.uris)
  <2> DEFINE new == [kv EXCEPT !.data = data, !.uris = uris]
  <2>1. new.data = data /\ new.uris = uris
    BY <1>3
  <2>2. durable' = {new} /\ kv' = new
    BY <1>6 DEF Commit
  <2> HIDE DEF new
  <2>3. QED
    BY <1>6, <2>1, <2>2
<1>7. CASE CommitUpsert(t)
  <2>1. /\ task[t].req.points \in Seq(Point)
        /\ \A j \in DOMAIN task[t].req.points : HashedPoint(task[t].req.points[j])
    BY <1>1, <1>7, CurrentGood, RequestFields, OnlySyncCalls DEF CommitUpsert, At
  <2> DEFINE data == Overlay(ById(task[t].req.points), kv.data)
             uris == Overlay(UriPuts(task[t].req.points), kv.uris)
  <2>2. Paired(data, uris)
    BY <1>1, <2>1, BatchPaired, OverlayPaired
  <2>3. Commit([kv EXCEPT !.data = data, !.uris = uris])
    BY <1>7 DEF CommitUpsert
  <2> HIDE DEF data, uris
  <2>4. QED
    BY <1>6, <2>2, <2>3
<1>8. CASE CommitDelete(t)
  <2> DEFINE found == task[t].seen
             data == Without(kv.data, Range(found))
             uris == Without(kv.uris, DOMAIN found)
  <2>1. \A v \in DOMAIN found : v \in Uri /\ found[v] = IdOf[v]
    BY <1>8 DEF CommitDelete, At, SyncInv, FoundPaired
  <2>2. Paired(data, uris)
    BY <1>1, <2>1, WithoutPaired
  <2>3. Commit([kv EXCEPT !.data = data, !.uris = uris])
    BY <1>8 DEF CommitDelete
  <2> HIDE DEF data, uris
  <2>4. QED
    BY <1>6, <2>2, <2>3
<1>9. QED
  BY <1>2, <1>4, <1>5, <1>7, <1>8
     DEF Step, Proceed, Call, Refuse, NoCollectionYet, LoadMeta, CheckPoint, RejectPoint, Lookup,
         DeleteUri, DeleteData, ScanIndex, ScanData, CommitMove, At

\* A task's scan results stay good: only ScanIndex fills them.
LEMMA StepFinds ==
  ASSUME NothingMoves, SyncInv, NEW t \in Task, Step(t)
  PROVE  \A u \in Task : FoundPaired(task'[u])
<1>1. TypeInv /\ Paired(kv.data, kv.uris) /\ task = [u \in Task |-> task[u]]
  BY DEF SyncInv, TypeInv, StoreInv, TasksInv
<1>2. \A u \in Task : FoundPaired(task[u])
  BY DEF SyncInv
<1>3. \A l : l.req.op # "deletePrefix" => FoundPaired(l)
  BY DEF FoundPaired
<1>4. task[t].req.op \notin {"delete", "updateUri"}
  BY <1>1, OnlySyncCalls
<1>5. ASSUME NEW l, FoundPaired(l), task' = [task EXCEPT ![t] = l]
      PROVE  \A u \in Task : FoundPaired(task'[u])
  <2>1. task' = [u \in Task |-> IF u = t THEN l ELSE task[u]]
    BY <1>1, <1>5
  <2>2. QED
    BY <1>2, <1>5, <2>1
<1>6. task[t] = [pc |-> task[t].pc, req |-> task[t].req, base |-> task[t].base,
                 target |-> task[t].target, at |-> task[t].at, seen |-> task[t].seen]
  BY <1>1, CurrentGood DEF GoodLocal, Local
<1>7. CASE \E l : l.seen = <<>> /\ task' = [task EXCEPT ![t] = l]
  <2>1. \A l : l.seen = <<>> => FoundPaired(l)
    BY DEF FoundPaired
  <2>2. QED
    BY <1>5, <1>7, <2>1
<1>8. CASE \E l : /\ l.seen = task[t].seen /\ l.req = task[t].req
                 /\ task' = [task EXCEPT ![t] = l]
  <2>1. PICK l : /\ l.seen = task[t].seen /\ l.req = task[t].req
                 /\ task' = [task EXCEPT ![t] = l]
    BY <1>8
  <2>2. FoundPaired(l)
    BY <1>2, <2>1 DEF FoundPaired
  <2>3. QED
    BY <1>5, <2>1, <2>2
<1>9. CASE Return(t)
  BY <1>7, <1>9 DEF Return, Fresh
<1>10. ASSUME NEW next, Goto(t, next) PROVE \A u \in Task : FoundPaired(task'[u])
  <2> DEFINE l == [task[t] EXCEPT !.pc = next]
  <2>1. l.seen = task[t].seen /\ l.req = task[t].req
    BY <1>6
  <2>2. task' = [task EXCEPT ![t] = l]
    BY <1>10 DEF Goto
  <2> HIDE DEF l
  <2>3. QED
    BY <1>8, <2>1, <2>2
<1>11. CASE Call(t)
  <2>1. PICK r \in Requests :
          task' = [task EXCEPT ![t] = [Fresh EXCEPT !.pc = "meta", !.req = r]]
    BY <1>11 DEF Call
  <2> DEFINE l == [Fresh EXCEPT !.pc = "meta", !.req = r]
  <2>2. l.seen = <<>>
    BY DEF Fresh
  <2> HIDE DEF l
  <2>3. QED
    BY <1>7, <2>1, <2>2 DEF l
<1>12. CASE LoadMeta(t)
  <2> DEFINE l == [task[t] EXCEPT !.pc = FirstStep[task[t].req.op],
                                  !.base = kv.count, !.target = kv.count]
  <2>1. l.seen = task[t].seen /\ l.req = task[t].req
    BY <1>6
  <2>2. task' = [task EXCEPT ![t] = l]
    BY <1>12 DEF LoadMeta
  <2> HIDE DEF l
  <2>3. QED
    BY <1>8, <2>1, <2>2
<1>13. CASE CheckPoint(t)
  <2> DEFINE n == task[t].target + (IF NextPoint(t).id \in DOMAIN kv.data THEN 0 ELSE 1)
             l == [task[t] EXCEPT !.at = task[t].at + 1, !.target = n]
  <2>1. task' = [task EXCEPT ![t] = l]
    BY <1>13 DEF CheckPoint
  <2> HIDE DEF n
  <2>2. l.seen = task[t].seen /\ l.req = task[t].req
    BY <1>6
  <2> HIDE DEF l
  <2>3. QED
    BY <1>8, <2>1, <2>2
<1>14. CASE ScanIndex(t)
  <2> DEFINE found == ScanPrefix(task[t].req.prefix)
  <2>1. PICK target, next : Remember(t, found, target, next)
    BY <1>14 DEF ScanIndex
  <2>2. \A v \in DOMAIN found : v \in Uri /\ found[v] = IdOf[v] /\ Under(v, task[t].req.prefix)
    BY <1>1, ScanPaired DEF ScanPrefix
  <2> DEFINE l == [task[t] EXCEPT !.seen = found, !.target = target, !.pc = next]
  <2>3. task' = [task EXCEPT ![t] = l]
    BY <2>1 DEF Remember
  <2> HIDE DEF found
  <2>4. l.seen = found /\ l.req = task[t].req
    BY <1>6
  <2> HIDE DEF l
  <2>5. FoundPaired(l)
    BY <2>2, <2>4 DEF FoundPaired
  <2>6. QED
    BY <1>5, <2>3, <2>5
<1>15. ASSUME WriteCountOrReturn(t) PROVE \A u \in Task : FoundPaired(task'[u])
  BY <1>9, <1>10, <1>15 DEF WriteCountOrReturn
<1>16. QED
  BY <1>4, <1>9, <1>10, <1>11, <1>12, <1>13, <1>14, <1>15
     DEF Step, Proceed, Refuse, NoCollectionYet, PutMeta, PutCount, RejectPoint, CommitUpsert,
         Lookup, DeleteUri, DeleteData, CommitDelete, ScanData, CommitMove, At

(***************************************************************************)
(* The invariant and the properties.                                        *)
(***************************************************************************)
\* The store starts without a vector.
LEMMA InitSync == Init => SyncInv
<1> SUFFICES ASSUME Init PROVE SyncInv
  OBVIOUS
<1>1. PICK e \in BOOLEAN : kv = [exists |-> e, count |-> 0, data |-> <<>>, uris |-> <<>>]
  BY DEF Init
<1>2. durable = {kv} /\ kv.data = <<>> /\ kv.uris = <<>>
  BY <1>1 DEF Init
<1>3. Paired(<<>>, <<>>)
  BY DEF Paired
<1>4. \A t \in Task : FoundPaired(task[t])
  BY DEF Init, FoundPaired, Fresh
<1>5. QED
  BY <1>2, <1>3, <1>4, InitGood DEF SyncInv, CommittedSurvives

\* Every step keeps the keys paired, and the synced database up to date.
LEMMA NextSync ==
  ASSUME NothingMoves, SyncInv, [Next]_vars
  PROVE  SyncInv'
<1>1. TypeInv'
  BY NextGood DEF SyncInv
<1>2. kv' \in durable'
  BY <1>1 DEF TypeInv, StoreInv
<1>3. Paired(kv.data, kv.uris) /\ CommittedSurvives
  BY DEF SyncInv, TypeInv, StoreInv
<1>4. CASE UNCHANGED vars
  BY <1>1, <1>4 DEF vars, SyncInv, CommittedSurvives
<1>5. CASE Crash \/ PowerLoss
  <2>1. durable' \subseteq durable
    BY <1>5 DEF Crash, PowerLoss
  <2>2. \A t \in Task : FoundPaired(task'[t])
    BY <1>5 DEF Crash, PowerLoss, FoundPaired, Fresh
  <2>3. \A s \in durable' : Paired(s.data, s.uris) /\ s.data = kv.data /\ s.uris = kv.uris
    BY <1>3, <2>1 DEF SyncInv, CommittedSurvives
  <2>4. QED
    BY <1>1, <1>2, <2>2, <2>3 DEF SyncInv, CommittedSurvives
<1>6. CASE Serve
  <2>1. PICK t \in Task : Step(t)
    BY <1>6 DEF Serve
  <2>2. \A u \in Task : FoundPaired(task'[u])
    BY <2>1, StepFinds
  <2>3. CASE \A s \in durable' : s.data = kv.data /\ s.uris = kv.uris
    BY <1>1, <1>2, <1>3, <2>2, <2>3 DEF SyncInv, CommittedSurvives
  <2>4. CASE \A s \in durable' : s = kv' /\ Paired(s.data, s.uris)
    BY <1>1, <2>2, <2>4 DEF SyncInv, CommittedSurvives
  <2>5. QED
    BY <2>1, <2>3, <2>4, StepWrites
<1>7. QED
  BY <1>4, <1>5, <1>6 DEF Next

\* The inductive invariant holds throughout.
LEMMA SyncInvHolds == ASSUME NothingMoves PROVE Spec => []SyncInv
<1>1. SyncInv /\ [Next]_vars => SyncInv'
  BY NextSync
<1>2. QED
  BY InitSync, <1>1, PTL DEF Spec

\* While nothing moves, the URI index is the exact inverse of the vectors in the
\* database and in every database a loss of power could leave, whatever
\* writes and removals interleave (rocks.rs 316-379, 525-577).
THEOREM IndexStaysInverse == ASSUME NothingMoves PROVE Spec => []IndexInverse
<1>1. SyncInv => IndexInverse
  BY PairedAgrees DEF SyncInv, IndexInverse
<1>2. QED
  BY <1>1, SyncInvHolds, PTL

\* While nothing moves, a loss of power undoes no committed write or removal of
\* a vector (rocks.rs 362-372, rocks_kv.rs 39-43 and 109-116).
THEOREM CommitsSurvive == ASSUME NothingMoves PROVE Spec => []CommittedSurvives
<1>1. SyncInv => CommittedSurvives
  BY DEF SyncInv
<1>2. QED
  BY <1>1, SyncInvHolds, PTL

\* The step that removes a vector is the commit of a removal above its URI.
LEMMA RemovalStep ==
  ASSUME NothingMoves, SyncInv, [Next]_vars, NEW i \in DOMAIN kv.data, i \notin DOMAIN kv'.data
  PROVE  \E t \in Task : /\ At(t, "commit", "deletePrefix")
                        /\ Under(kv.data[i].uri, task[t].req.prefix)
<1>1. TypeInv /\ Paired(kv.data, kv.uris) /\ CommittedSurvives
  BY DEF SyncInv, TypeInv, StoreInv
<1>2. kv = [exists |-> kv.exists, count |-> kv.count, data |-> kv.data, uris |-> kv.uris]
  BY <1>1 DEF TypeInv, StoreInv, GoodDatabase, Database
<1>3. kv' # kv
  OBVIOUS
<1>4. ~PowerLoss
  BY <1>1 DEF PowerLoss, CommittedSurvives
<1>5. PICK t \in Task : Step(t)
  BY <1>3, <1>4 DEF Next, Serve, Crash, vars
<1>6. task[t].req.op \notin {"delete", "updateUri"}
  BY <1>1, OnlySyncCalls
<1>7. ~PutMeta(t) /\ ~PutCount(t)
  <2>1. \A n : [kv EXCEPT !.exists = TRUE, !.count = n].data = kv.data
    BY <1>2
  <2>2. QED
    BY <2>1 DEF PutMeta, PutCount, Put
<1>8. ~CommitUpsert(t)
  <2>1. SUFFICES ASSUME CommitUpsert(t) PROVE FALSE
    OBVIOUS
  <2> DEFINE d == ById(task[t].req.points)
             data == Overlay(d, kv.data)
             uris == Overlay(UriPuts(task[t].req.points), kv.uris)
  <2>2. kv' = [kv EXCEPT !.data = data, !.uris = uris]
    BY <2>1 DEF CommitUpsert, Commit
  <2>3. i \in DOMAIN data
    BY DEF Overlay
  <2> HIDE DEF data, uris
  <2>4. kv'.data = data
    BY <1>2, <2>2
  <2>5. QED
    BY <2>3, <2>4
<1>9. CASE CommitDelete(t)
  <2> DEFINE found == task[t].seen
             data == Without(kv.data, Range(found))
             uris == Without(kv.uris, DOMAIN found)
  <2>1. kv' = [kv EXCEPT !.data = data, !.uris = uris]
    BY <1>9 DEF CommitDelete, Commit
  <2>2. \A k \in DOMAIN kv.data \ Range(found) : k \in DOMAIN data
    BY DEF Without
  <2> HIDE DEF data, uris
  <2>3. kv'.data = data
    BY <1>2, <2>1
  <2>4. i \in Range(found)
    BY <2>2, <2>3
  <2>5. PICK u \in DOMAIN found : i = found[u]
    BY <2>4 DEF Range
  <2>6. u \in Uri /\ i = IdOf[u] /\ Under(u, task[t].req.prefix)
    BY <1>9, <2>5 DEF SyncInv, FoundPaired, CommitDelete, At
  <2>7. kv.data[i].uri = u
    BY <1>1, <2>6, Injective DEF Paired, HashedPoint
  <2>8. QED
    BY <1>9, <2>6, <2>7 DEF CommitDelete
<1>10. QED
  BY <1>3, <1>5, <1>6, <1>7, <1>8, <1>9
     DEF Step, Proceed, Call, Refuse, NoCollectionYet, LoadMeta, CheckPoint, RejectPoint, Lookup,
         DeleteUri, DeleteData, ScanIndex, ScanData, CommitMove, At, ReadOnly

\* While nothing moves, a vector disappears only by the commit of a removal of a
\* prefix of its URI, however stale that removal's scan is by then (rocks.rs
\* 525-577).
THEOREM RemovalsOnlyMatch == ASSUME NothingMoves PROVE Spec => RemovalsMatch
<1>1. SyncInv /\ [Next]_vars => [RemovalMatched]_vars
  BY RemovalStep DEF RemovalMatched
<1>2. QED
  BY <1>1, SyncInvHolds, PTL DEF Spec, RemovalsMatch

(***************************************************************************)
(* One task.  Calls no longer overlap, so that a scan or a lookup is still  *)
(* true when its batch commits, and the store does what the memory store    *)
(* does: any calls, moves and removals by id included, for any number of    *)
(* calls, ids and URIs.                                                     *)
(***************************************************************************)
OneTask == \E t : Task = {t}

\* Two points of a batch have two ids.
BatchesDistinct ==
  \A r \in Requests : r.op = "upsert" =>
    \A j, k \in DOMAIN r.points : r.points[j].id = r.points[k].id => j = k

\* The index entries below a prefix.
Below(uris, prefix) == Only(uris, {u \in DOMAIN uris : Under(u, prefix)})

\* What a call under way knows of the database.
Current(l, s) ==
  /\ l.pc \notin {"idle", "meta", "create"} => s.exists
  /\ l.pc = "create" => ~s.exists
  /\ l.pc = "meta" => l.at = 0
  /\ ~s.exists => s.data = <<>>
  /\ l.pc = "check" => \A j \in 1..l.at : l.req.points[j].vec \in Fits
  /\ l.req.op = "deletePrefix" /\ l.pc \in {"meta", "scan", "commit"} => IndexAgrees(s)
  /\ l.req.op = "deletePrefix" /\ l.pc = "commit" =>
       l.seen = Below(s.uris, l.req.prefix)
  /\ l.req.op = "updateUri" /\ l.pc = "commit" => l.seen = s.data

SerialInv == TypeInv /\ \A t \in Task : Current(task[t], kv)

(***************************************************************************)
(* Records, field by field.                                                 *)
(***************************************************************************)
TaskRecord(pc, req, base, target, at, seen) ==
  [pc |-> pc, req |-> req, base |-> base, target |-> target, at |-> at, seen |-> seen]

DbRecord(exists, count, data, uris) ==
  [exists |-> exists, count |-> count, data |-> data, uris |-> uris]

\* A task's record is made of its six fields, whichever of them are rewritten.
LEMMA PcRewritten ==
  ASSUME NEW l, Local(l), NEW pc
  PROVE  [l EXCEPT !.pc = pc] = TaskRecord(pc, l.req, l.base, l.target, l.at, l.seen)
<1>1. l = TaskRecord(l.pc, l.req, l.base, l.target, l.at, l.seen)
  BY DEF Local, TaskRecord
<1>2. QED
  BY <1>1 DEF TaskRecord

\* (See PcRewritten.)
LEMMA MetaRewritten ==
  ASSUME NEW l, Local(l), NEW pc, NEW n
  PROVE  [l EXCEPT !.pc = pc, !.base = n, !.target = n]
           = TaskRecord(pc, l.req, n, n, l.at, l.seen)
<1> DEFINE p == [l EXCEPT !.pc = pc]
           b == [p EXCEPT !.base = n]
<1>1. p = TaskRecord(pc, l.req, l.base, l.target, l.at, l.seen)
  BY PcRewritten
<1> HIDE DEF p
<1>2. b = TaskRecord(pc, l.req, n, l.target, l.at, l.seen)
  BY <1>1 DEF TaskRecord
<1> HIDE DEF b
<1>3. [b EXCEPT !.target = n] = TaskRecord(pc, l.req, n, n, l.at, l.seen)
  BY <1>2 DEF TaskRecord
<1>4. QED
  BY <1>3 DEF p, b

\* (See PcRewritten.)
LEMMA CheckRewritten ==
  ASSUME NEW l, Local(l), NEW target, NEW at
  PROVE  [l EXCEPT !.at = at, !.target = target]
           = TaskRecord(l.pc, l.req, l.base, target, at, l.seen)
<1> DEFINE a == [l EXCEPT !.at = at]
<1>1. l = TaskRecord(l.pc, l.req, l.base, l.target, l.at, l.seen)
  BY DEF Local, TaskRecord
<1>2. a = TaskRecord(l.pc, l.req, l.base, l.target, at, l.seen)
  BY <1>1 DEF TaskRecord
<1> HIDE DEF a
<1>3. [a EXCEPT !.target = target] = TaskRecord(l.pc, l.req, l.base, target, at, l.seen)
  BY <1>2 DEF TaskRecord
<1>4. QED
  BY <1>3 DEF a

\* A database is made of its four fields, whichever two of them are rewritten.
LEMMA CountRewritten ==
  ASSUME Database(kv), NEW exists, NEW count
  PROVE  [kv EXCEPT !.exists = exists, !.count = count]
           = DbRecord(exists, count, kv.data, kv.uris)
<1> DEFINE e == [kv EXCEPT !.exists = exists]
<1>1. kv = DbRecord(kv.exists, kv.count, kv.data, kv.uris)
  BY DEF Database, DbRecord
<1>2. e = DbRecord(exists, kv.count, kv.data, kv.uris)
  BY <1>1 DEF DbRecord
<1> HIDE DEF e
<1>3. [e EXCEPT !.count = count] = DbRecord(exists, count, kv.data, kv.uris)
  BY <1>2 DEF DbRecord
<1>4. QED
  BY <1>3 DEF e

\* (See CountRewritten.)
LEMMA DataRewritten ==
  ASSUME Database(kv), NEW data
  PROVE  [kv EXCEPT !.data = data] = DbRecord(kv.exists, kv.count, data, kv.uris)
<1>1. kv = DbRecord(kv.exists, kv.count, kv.data, kv.uris)
  BY DEF Database, DbRecord
<1>2. QED
  BY <1>1 DEF DbRecord

\* (See CountRewritten.)
LEMMA UrisRewritten ==
  ASSUME Database(kv), NEW uris
  PROVE  [kv EXCEPT !.uris = uris] = DbRecord(kv.exists, kv.count, kv.data, uris)
<1>1. kv = DbRecord(kv.exists, kv.count, kv.data, kv.uris)
  BY DEF Database, DbRecord
<1>2. QED
  BY <1>1 DEF DbRecord

\* (See CountRewritten.)
LEMMA BatchRewritten ==
  ASSUME Database(kv), NEW data, NEW uris
  PROVE  [kv EXCEPT !.data = data, !.uris = uris] = DbRecord(kv.exists, kv.count, data, uris)
<1> DEFINE d == [kv EXCEPT !.data = data]
<1>1. d = DbRecord(kv.exists, kv.count, data, kv.uris)
  BY DataRewritten
<1> HIDE DEF d
<1>2. [d EXCEPT !.uris = uris] = DbRecord(kv.exists, kv.count, data, uris)
  BY <1>1 DEF DbRecord
<1>3. QED
  BY <1>2 DEF d

(***************************************************************************)
(* One lemma per group of actions.                                          *)
(***************************************************************************)
\* The record of the task that takes a step.
LEMMA OwnRecord ==
  ASSUME TypeInv, NEW t \in Task, NEW l, task' = [task EXCEPT ![t] = l]
  PROVE  task'[t] = l
  BY DEF TypeInv, TasksInv

\* What Current says of a record by its fields.
LEMMA Fields ==
  ASSUME NEW pc, NEW req, NEW base, NEW target, NEW at, NEW seen
  PROVE  LET l == TaskRecord(pc, req, base, target, at, seen)
         IN /\ l.pc = pc /\ l.req = req /\ l.base = base
            /\ l.target = target /\ l.at = at /\ l.seen = seen
  BY DEF TaskRecord

\* (See Fields.)
LEMMA DbFields ==
  ASSUME NEW exists, NEW count, NEW data, NEW uris
  PROVE  LET s == DbRecord(exists, count, data, uris)
         IN s.exists = exists /\ s.count = count /\ s.data = data /\ s.uris = uris
  BY DEF DbRecord

\* A task at rest knows nothing.
LEMMA CurrentFresh ==
  ASSUME NEW s, ~s.exists => s.data = <<>>
  PROVE  Current(Fresh, s)
  BY DEF Current, Fresh, NoRequest

\* (See CurrentFresh.)
LEMMA CurrentReturn ==
  ASSUME TypeInv, NEW t \in Task, Return(t), ~(kv'.exists) => kv'.data = <<>>
  PROVE  Current(task'[t], kv')
<1>1. task'[t] = Fresh
  BY OwnRecord DEF Return
<1>2. QED
  BY <1>1, CurrentFresh

\* The count knows nothing but that the collection is there.
LEMMA CurrentCount ==
  ASSUME TypeInv, NEW t \in Task, WriteCountOrReturn(t), kv'.exists
  PROVE  Current(task'[t], kv')
<1>1. CASE Return(t)
  BY <1>1, CurrentReturn
<1>2. CASE Goto(t, "count")
  <2> DEFINE l == [task[t] EXCEPT !.pc = "count"]
  <2>1. task'[t] = l
    BY <1>2, OwnRecord DEF Goto
  <2>2. l = TaskRecord("count", task[t].req, task[t].base, task[t].target, task[t].at, task[t].seen)
    BY CurrentGood, PcRewritten DEF GoodLocal
  <2> HIDE DEF l
  <2>3. l.pc = "count"
    BY <2>2, Fields
  <2>4. QED
    BY <2>1, <2>3 DEF Current
<1>3. QED
  BY <1>1, <1>2 DEF WriteCountOrReturn

\* A call begins, is refused, or reads the meta key.
LEMMA CurrentMeta ==
  ASSUME SerialInv, NEW t \in Task,
         CallIndexed(t) \/ Refuse(t) \/ NoCollectionYet(t) \/ LoadMeta(t)
  PROVE  Current(task'[t], kv')
<1>1. Current(task[t], kv) /\ TypeInv /\ Local(task[t]) /\ kv' = kv
  BY CurrentGood
     DEF SerialInv, GoodLocal, CallIndexed, Call, Refuse, NoCollectionYet, LoadMeta, ReadOnly
<1>2. CASE CallIndexed(t)
  <2>1. PICK r \in Requests : task' = [task EXCEPT ![t] = [Fresh EXCEPT !.pc = "meta", !.req = r]]
    BY <1>2 DEF CallIndexed, Call
  <2> DEFINE l == [Fresh EXCEPT !.pc = "meta", !.req = r]
  <2>2. l.pc = "meta" /\ l.req = r /\ l.at = 0
    BY DEF Fresh
  <2>3. task'[t] = l
    BY <1>1, <2>1, OwnRecord
  <2> HIDE DEF l
  <2>4. task'[t].pc = "meta" /\ task'[t].at = 0 /\ (task'[t].req.op = "deletePrefix" => IndexAgrees(kv))
    BY <1>2, <2>2, <2>3 DEF CallIndexed
  <2>5. QED
    BY <1>1, <2>4 DEF Current
<1>3. CASE Refuse(t)
  BY <1>1, <1>3, CurrentReturn DEF Refuse, Current
<1>4. CASE NoCollectionYet(t)
  <2> DEFINE l == [task[t] EXCEPT !.pc = "create"]
  <2>1. task'[t] = l
    BY <1>1, <1>4, OwnRecord DEF NoCollectionYet, Goto
  <2>2. l = TaskRecord("create", task[t].req, task[t].base, task[t].target, task[t].at, task[t].seen)
    BY <1>1, PcRewritten
  <2> HIDE DEF l
  <2>3. l.pc = "create" /\ ~kv.exists
    BY <1>4, <2>2, Fields DEF NoCollectionYet
  <2>4. QED
    BY <1>1, <2>1, <2>3 DEF Current
<1>5. CASE LoadMeta(t)
  <2> DEFINE first == FirstStep[task[t].req.op]
             n == kv.count
             l == [task[t] EXCEPT !.pc = first, !.base = n, !.target = n]
  <2>1. task'[t] = l
    BY <1>1, <1>5, OwnRecord DEF LoadMeta
  <2> HIDE DEF first, n
  <2>2. l = TaskRecord(first, task[t].req, n, n, task[t].at, task[t].seen)
    BY <1>1, MetaRewritten
  <2> HIDE DEF l
  <2>3. l.pc = FirstStep[task[t].req.op] /\ l.req = task[t].req /\ l.at = task[t].at
    BY <2>2, Fields DEF first
  <2>4. task[t].req.op \in {"upsert", "delete", "deletePrefix", "updateUri"}
    BY <1>1, <1>5, CurrentGood, RequestFields DEF LoadMeta, Steps, Local, NoRequest
  <2>5. l.pc \in {"check", "lookup", "scan"} /\ (l.pc = "check" => task[t].req.op = "upsert")
    BY <2>3, <2>4 DEF FirstStep
  <2>6. l.pc = "check" => \A j \in 1..l.at : l.req.points[j].vec \in Fits
    BY <1>1, <1>5, <2>3 DEF Current, LoadMeta
  <2>7. kv.exists
    BY <1>5 DEF LoadMeta
  <2>8. QED
    BY <1>1, <1>5, <2>1, <2>3, <2>5, <2>6, <2>7 DEF Current, LoadMeta
<1>6. QED
  BY <1>2, <1>3, <1>4, <1>5

(***************************************************************************)
(* What the actions past the first do, field by field.                      *)
(***************************************************************************)
Written(exists, count, data, uris) ==
  kv'.exists = exists /\ kv'.count = count /\ kv'.data = data /\ kv'.uris = uris

\* The writes.
LEMMA Writes ==
  ASSUME TypeInv, NEW t \in Task
  PROVE  /\ PutMeta(t) => Written(TRUE, 0, kv.data, kv.uris)
         /\ PutCount(t) => Written(TRUE, task[t].target, kv.data, kv.uris)
         /\ CommitUpsert(t) =>
              Written(kv.exists, kv.count, Overlay(ById(task[t].req.points), kv.data),
                      Overlay(UriPuts(task[t].req.points), kv.uris))
         /\ DeleteUri(t) =>
              Written(kv.exists, kv.count, kv.data,
                      Without(kv.uris, {p.uri : p \in Range(task[t].seen)}))
         /\ DeleteData(t) =>
              Written(kv.exists, kv.count, Without(kv.data, {task[t].req.id}), kv.uris)
         /\ CommitDelete(t) =>
              Written(kv.exists, kv.count, Without(kv.data, Range(task[t].seen)),
                      Without(kv.uris, DOMAIN task[t].seen))
         /\ CommitMove(t) => \E uris :
              Written(kv.exists, kv.count,
                      Overlay(Moved(task[t].seen, task[t].req), kv.data), uris)
<1>1. Database(kv)
  BY CurrentGood DEF GoodDatabase
<1>2. ASSUME NEW a, NEW b, NEW c, NEW d, kv' = DbRecord(a, b, c, d)
      PROVE  Written(a, b, c, d)
  BY <1>2 DEF DbRecord, Written
<1>3. PutMeta(t) => Written(TRUE, 0, kv.data, kv.uris)
  BY <1>1, <1>2, CountRewritten DEF PutMeta, Put
<1>4. PutCount(t) => Written(TRUE, task[t].target, kv.data, kv.uris)
  BY <1>1, <1>2, CountRewritten DEF PutCount, Put
<1>5. CommitUpsert(t) =>
        Written(kv.exists, kv.count, Overlay(ById(task[t].req.points), kv.data),
                Overlay(UriPuts(task[t].req.points), kv.uris))
  BY <1>1, <1>2, BatchRewritten DEF CommitUpsert, Commit
<1>6. DeleteUri(t) =>
        Written(kv.exists, kv.count, kv.data,
                Without(kv.uris, {p.uri : p \in Range(task[t].seen)}))
  BY <1>1, <1>2, UrisRewritten DEF DeleteUri, Put
<1>7. DeleteData(t) =>
        Written(kv.exists, kv.count, Without(kv.data, {task[t].req.id}), kv.uris)
  BY <1>1, <1>2, DataRewritten DEF DeleteData, Put
<1>8. CommitDelete(t) =>
        Written(kv.exists, kv.count, Without(kv.data, Range(task[t].seen)),
                Without(kv.uris, DOMAIN task[t].seen))
  BY <1>1, <1>2, BatchRewritten DEF CommitDelete, Commit
<1>9. ASSUME CommitMove(t)
      PROVE  \E uris : Written(kv.exists, kv.count,
                               Overlay(Moved(task[t].seen, task[t].req), kv.data), uris)
  <2> DEFINE data == Overlay(Moved(task[t].seen, task[t].req), kv.data)
  <2>1. \E uris : kv' = [kv EXCEPT !.data = data, !.uris = uris]
    BY <1>9 DEF CommitMove, Commit
  <2> HIDE DEF data
  <2>2. PICK uris : kv' = [kv EXCEPT !.data = data, !.uris = uris]
    BY <2>1
  <2>3. Written(kv.exists, kv.count, data, uris)
    BY <1>1, <1>2, <2>2, BatchRewritten
  <2>4. QED
    BY <2>3 DEF data
<1>10. QED
  BY <1>3, <1>4, <1>5, <1>6, <1>7, <1>8, <1>9

\* The reads.
LEMMA Reads ==
  ASSUME NEW t, CheckPoint(t) \/ RejectPoint(t) \/ Lookup(t) \/ ScanIndex(t) \/ ScanData(t)
  PROVE  kv' = kv
  BY DEF CheckPoint, RejectPoint, Lookup, ScanIndex, ScanData, ReadOnly

\* What a task remembers.
Remembers(t, pc, target, at, seen) ==
  /\ task'[t].pc = pc /\ task'[t].req = task[t].req /\ task'[t].base = task[t].base
  /\ task'[t].target = target /\ task'[t].at = at /\ task'[t].seen = seen

\* The task that goes on with its call.
LEMMA Remembered ==
  ASSUME TypeInv, NEW t \in Task
  PROVE  /\ CheckPoint(t) =>
              Remembers(t, "check",
                task[t].target + (IF NextPoint(t).id \in DOMAIN kv.data THEN 0 ELSE 1),
                task[t].at + 1, task[t].seen)
         /\ \A found, target, next : Remember(t, found, target, next) =>
              Remembers(t, next, target, task[t].at, found)
         /\ \A pc : Goto(t, pc) =>
              Remembers(t, pc, task[t].target, task[t].at, task[t].seen)
<1>1. Local(task[t])
  BY CurrentGood DEF GoodLocal
<1>2. ASSUME NEW pc, NEW target, NEW at, NEW seen,
             task'[t] = TaskRecord(pc, task[t].req, task[t].base, target, at, seen)
      PROVE  Remembers(t, pc, target, at, seen)
  BY <1>2 DEF TaskRecord, Remembers
<1>3. CheckPoint(t) =>
        Remembers(t, "check",
          task[t].target + (IF NextPoint(t).id \in DOMAIN kv.data THEN 0 ELSE 1),
          task[t].at + 1, task[t].seen)
  <2> DEFINE n == task[t].target + (IF NextPoint(t).id \in DOMAIN kv.data THEN 0 ELSE 1)
             m == task[t].at + 1
             l == [task[t] EXCEPT !.at = m, !.target = n]
  <2> SUFFICES ASSUME CheckPoint(t) PROVE Remembers(t, "check", n, m, task[t].seen)
    OBVIOUS
  <2>1. task'[t] = l
    BY OwnRecord DEF CheckPoint
  <2> HIDE DEF n, m
  <2>2. l = TaskRecord(task[t].pc, task[t].req, task[t].base, n, m, task[t].seen)
    BY <1>1, CheckRewritten
  <2>3. task[t].pc = "check"
    BY DEF CheckPoint, At
  <2>4. QED
    BY <1>2, <2>1, <2>2, <2>3
<1>4. ASSUME NEW found, NEW target, NEW next, Remember(t, found, target, next)
      PROVE  Remembers(t, next, target, task[t].at, found)
  <2> DEFINE l == [task[t] EXCEPT !.seen = found, !.target = target, !.pc = next]
  <2>1. task'[t] = l
    BY <1>4, OwnRecord DEF Remember
  <2>2. l = TaskRecord(next, task[t].req, task[t].base, target, task[t].at, found)
    <3> DEFINE s == [task[t] EXCEPT !.seen = found]
               n == [s EXCEPT !.target = target]
    <3>1. task[t] = TaskRecord(task[t].pc, task[t].req, task[t].base, task[t].target,
                               task[t].at, task[t].seen)
      BY <1>1 DEF Local, TaskRecord
    <3>2. s = TaskRecord(task[t].pc, task[t].req, task[t].base, task[t].target, task[t].at, found)
      BY <3>1 DEF TaskRecord
    <3> HIDE DEF s
    <3>3. n = TaskRecord(task[t].pc, task[t].req, task[t].base, target, task[t].at, found)
      BY <3>2 DEF TaskRecord
    <3> HIDE DEF n
    <3>4. [n EXCEPT !.pc = next] = TaskRecord(next, task[t].req, task[t].base, target,
                                              task[t].at, found)
      BY <3>3 DEF TaskRecord
    <3>5. QED
      BY <3>4 DEF s, n
  <2>3. QED
    BY <1>2, <2>1, <2>2
<1>5. ASSUME NEW pc, Goto(t, pc)
      PROVE  Remembers(t, pc, task[t].target, task[t].at, task[t].seen)
  <2> DEFINE l == [task[t] EXCEPT !.pc = pc]
  <2>1. task'[t] = l
    BY <1>5, OwnRecord DEF Goto
  <2>2. l = TaskRecord(pc, task[t].req, task[t].base, task[t].target, task[t].at, task[t].seen)
    BY <1>1, PcRewritten
  <2>3. QED
    BY <1>2, <2>1, <2>2
<1>6. QED
  BY <1>3, <1>4, <1>5

\* The collection is there once the meta key is written, whatever it held.
LEMMA CurrentMetaKey ==
  ASSUME SerialInv, NEW t \in Task, PutMeta(t) \/ PutCount(t)
  PROVE  Current(task'[t], kv')
<1>1. kv'.exists /\ Return(t) /\ TypeInv
  BY Writes DEF SerialInv, PutMeta, PutCount, Written
<1>2. QED
  BY <1>1, CurrentReturn

\* upsert: the points checked so far have the right dimension.
LEMMA CurrentUpsert ==
  ASSUME SerialInv, NEW t \in Task, CheckPoint(t) \/ RejectPoint(t) \/ CommitUpsert(t)
  PROVE  Current(task'[t], kv')
<1>1. /\ Current(task[t], kv) /\ TypeInv /\ task[t].pc = "check" /\ task[t].req.op = "upsert"
      /\ kv.exists
  BY DEF SerialInv, CheckPoint, RejectPoint, CommitUpsert, At, Current
<1>2. CASE CheckPoint(t)
  <2>1. kv' = kv /\ task'[t].pc = "check" /\ task'[t].req = task[t].req /\ task'[t].at = task[t].at + 1
    BY <1>1, <1>2, Reads, Remembered DEF Remembers
  <2>2. task[t].at \in Nat
    BY <1>1, CurrentGood DEF GoodLocal, Local
  <2>3. 1..task[t].at + 1 = 1..task[t].at \cup {task[t].at + 1}
    BY <2>2
  <2>4. \A j \in 1..task[t].at + 1 : task[t].req.points[j].vec \in Fits
    BY <1>1, <1>2, <2>3 DEF CheckPoint, NextPoint, Current
  <2>5. QED
    BY <1>1, <2>1, <2>4 DEF Current
<1>3. CASE RejectPoint(t)
  BY <1>1, <1>3, Reads, CurrentReturn DEF RejectPoint
<1>4. CASE CommitUpsert(t)
  <2>1. kv'.exists /\ WriteCountOrReturn(t)
    BY <1>1, <1>4, Writes DEF CommitUpsert, Written
  <2>2. QED
    BY <1>1, <2>1, CurrentCount
<1>5. QED
  BY <1>2, <1>3, <1>4

\* delete: nothing but that the collection is there.
LEMMA CurrentDelete ==
  ASSUME SerialInv, NEW t \in Task, Lookup(t) \/ DeleteUri(t) \/ DeleteData(t)
  PROVE  Current(task'[t], kv')
<1>1. Current(task[t], kv) /\ TypeInv /\ kv.exists /\ task[t].req.op = "delete"
  BY DEF SerialInv, Lookup, DeleteUri, DeleteData, At, Current
<1>2. CASE Lookup(t)
  <2> DEFINE found == Only(kv.data, {task[t].req.id})
             target == Less(task[t].target, Cardinality(DOMAIN found))
             next == IF \E i \in DOMAIN found : found[i].uri # NoUri THEN "unindex" ELSE "remove"
  <2>1. Remember(t, found, target, next) /\ next \in {"unindex", "remove"}
    BY <1>2 DEF Lookup
  <2> HIDE DEF found, target, next
  <2>2. kv' = kv /\ task'[t].pc \in {"unindex", "remove"} /\ task'[t].req = task[t].req
    BY <1>1, <1>2, <2>1, Reads, Remembered DEF Remembers
  <2>3. QED
    BY <1>1, <2>2 DEF Current
<1>3. CASE DeleteUri(t)
  <2>1. kv'.exists /\ task'[t].pc = "remove" /\ task'[t].req = task[t].req
    BY <1>1, <1>3, Writes, Remembered DEF DeleteUri, Remembers, Written
  <2>2. QED
    BY <1>1, <2>1 DEF Current
<1>4. CASE DeleteData(t)
  <2>1. kv'.exists /\ WriteCountOrReturn(t)
    BY <1>1, <1>4, Writes DEF DeleteData, Written
  <2>2. QED
    BY <1>1, <2>1, CurrentCount
<1>5. QED
  BY <1>2, <1>3, <1>4

\* delete_by_uri_prefix and update_uri: what the scan found is there.
LEMMA CurrentScan ==
  ASSUME SerialInv, NEW t \in Task,
         ScanIndex(t) \/ CommitDelete(t) \/ ScanData(t) \/ CommitMove(t)
  PROVE  Current(task'[t], kv')
<1>1. Current(task[t], kv) /\ TypeInv /\ kv.exists
  BY DEF SerialInv, ScanIndex, CommitDelete, ScanData, CommitMove, At, Current
<1>2. CASE ScanIndex(t)
  <2>1. PICK target : Remember(t, ScanPrefix(task[t].req.prefix), target, "commit")
    BY <1>2 DEF ScanIndex
  <2>2. /\ kv' = kv /\ task'[t].pc = "commit" /\ task'[t].req = task[t].req
        /\ task'[t].seen = ScanPrefix(task[t].req.prefix)
    BY <1>1, <1>2, <2>1, Reads, Remembered DEF Remembers
  <2>3. task[t].req.op = "deletePrefix" /\ task[t].pc = "scan"
    BY <1>2 DEF ScanIndex, At
  <2>4. QED
    BY <1>1, <2>2, <2>3 DEF Current, ScanPrefix, Below
<1>3. CASE CommitDelete(t)
  <2>1. kv'.exists /\ WriteCountOrReturn(t)
    BY <1>1, <1>3, Writes DEF CommitDelete, Written
  <2>2. QED
    BY <1>1, <2>1, CurrentCount
<1>4. CASE ScanData(t)
  <2>1. /\ kv' = kv /\ task'[t].pc = "commit" /\ task'[t].req = task[t].req
        /\ task'[t].seen = kv.data
    BY <1>1, <1>4, Reads, Remembered DEF ScanData, Remembers
  <2>2. task[t].req.op = "updateUri"
    BY <1>4 DEF ScanData, At
  <2>3. QED
    BY <1>1, <2>1, <2>2 DEF Current
<1>5. CASE CommitMove(t)
  <2>1. kv'.exists /\ Return(t)
    BY <1>1, <1>5, Writes DEF CommitMove, Written
  <2>2. QED
    BY <1>1, <2>1, CurrentReturn
<1>6. QED
  BY <1>2, <1>3, <1>4, <1>5

\* A call begun where index and vectors agree, and one that goes on, are steps
\* of the store.
LEMMA IndexedSteps == ServeIndexed => Serve
  BY DEF ServeIndexed, CallIndexed, Serve, Step

\* Current is inductive: what a call knows of the database only it can change.
LEMMA SerialStep ==
  ASSUME OneTask, SerialInv, [ServeIndexed]_vars
  PROVE  SerialInv'
<1>1. TypeInv'
  BY IndexedSteps, NextGood DEF SerialInv, Next
<1>2. CASE UNCHANGED vars
  <2>1. kv' = kv /\ task' = task
    BY <1>2 DEF vars
  <2>2. \A t \in Task : Current(task[t], kv)'
    BY <2>1 DEF SerialInv
  <2>3. QED
    BY <1>1, <2>2 DEF SerialInv
<1>3. CASE ServeIndexed
  <2>1. PICK t \in Task : CallIndexed(t) \/ Proceed(t)
    BY <1>3 DEF ServeIndexed
  <2>2. Current(task'[t], kv')
    BY <2>1, CurrentMeta, CurrentMetaKey, CurrentUpsert, CurrentDelete, CurrentScan DEF Proceed
  <2>3. \A u \in Task : Current(task[u], kv)'
    BY <2>2 DEF OneTask
  <2>4. QED
    BY <1>1, <2>3 DEF SerialInv
<1>4. QED
  BY <1>2, <1>3

\* (See SerialStep.)
LEMMA SerialInitially == Init => SerialInv
<1> SUFFICES ASSUME Init PROVE SerialInv
  OBVIOUS
<1>1. TypeInv /\ \A t \in Task : task[t] = Fresh
  BY InitGood DEF Init
<1>2. kv.data = <<>>
  BY DEF Init
<1>3. QED
  BY <1>1, <1>2, CurrentFresh DEF SerialInv

(***************************************************************************)
(* The step that takes effect.                                              *)
(***************************************************************************)
\* The operators on maps and points are the same in both stores.
LEMMA SameOperators ==
  /\ \A m, n : Memory!Overlay(m, n) = Overlay(m, n)
  /\ \A m, n : Memory!Without(m, n) = Without(m, n)
  /\ \A ps : Memory!ById(ps) = ById(ps)
  /\ \A u, v : Memory!Under(u, v) = Under(u, v)
  /\ \A p, u, v : Memory!RebasePoint(p, u, v) = RebasePoint(p, u, v)
<1>1. \A m, n : Memory!Overlay(m, n) = Overlay(m, n)
  BY DEF Overlay, Memory!Overlay
<1>2. \A m, n : Memory!Without(m, n) = Without(m, n)
  BY DEF Without, Memory!Without
<1>3. \A ps : Memory!LastById(ps) = LastById(ps)
  BY DEF LastById, Memory!LastById
<1>4. \A ps : Memory!ById(ps) = ById(ps)
  BY <1>3 DEF ById, Memory!ById
<1>5. \A u, v : Memory!Under(u, v) = Under(u, v)
  BY DEF Under, Memory!Under, IsPrefix, Memory!IsPrefix
<1>6. \A u, v, w : Memory!Rebase(u, v, w) = Rebase(u, v, w)
  BY <1>5 DEF Rebase, Memory!Rebase
<1>7. \A p, u, v : Memory!RebasePoint(p, u, v) = RebasePoint(p, u, v)
  BY <1>6 DEF RebasePoint, Memory!RebasePoint
<1>8. QED
  BY <1>1, <1>2, <1>4, <1>5, <1>7

\* A batch that was checked to its end goes in as a whole.
LEMMA AllAccepted ==
  ASSUME NEW ps \in Seq(Point), \A j \in 1..Len(ps) : ps[j].vec \in Fits
  PROVE  Memory!Accepted(ps) = ps
<1>1. Len(ps) \in Nat
  BY LenProperties
<1>2. {Len(ps)} \cup {j - 1 : j \in {i \in 1..Len(ps) : ps[i].vec \notin Fits}} = {Len(ps)}
  OBVIOUS
<1>3. Memory!Min({Len(ps)}) = Len(ps)
  BY <1>1 DEF Memory!Min
<1>4. SubSeq(ps, 1, Len(ps)) = ps
  BY <1>1
<1>5. QED
  BY <1>2, <1>3, <1>4 DEF Memory!Accepted

\* The vectors the index finds below a prefix are those below it.
LEMMA FoundBelow ==
  ASSUME NEW s, IndexAgrees(s), NEW prefix
  PROVE  /\ Range(Below(s.uris, prefix)) = {i \in DOMAIN s.data : Under(s.data[i].uri, prefix)}
         /\ \A u, v \in DOMAIN Below(s.uris, prefix) :
              Below(s.uris, prefix)[u] = Below(s.uris, prefix)[v] => u = v
<1> DEFINE found == Below(s.uris, prefix)
<1>1. \A u \in DOMAIN found : /\ u \in DOMAIN s.uris /\ Under(u, prefix) /\ found[u] = s.uris[u]
  BY DEF Only, Below
<1>2. \A u \in DOMAIN s.uris : Under(u, prefix) => u \in DOMAIN found
  BY DEF Only, Below
<1> HIDE DEF found
<1>3. /\ Range(found) = {i \in DOMAIN s.data : Under(s.data[i].uri, prefix)}
      /\ \A u, v \in DOMAIN found : found[u] = found[v] => u = v
  BY <1>1, <1>2 DEF IndexAgrees, Range
<1>4. QED
  BY <1>3 DEF found

\* Each call does to the vectors what the memory store does for it.
LEMMA EffectAsAsked ==
  ASSUME SerialInv, NEW t \in Task, TakesEffect(t)
  PROVE  Memory!Handle(task[t].req) /\ task[t].req \in Requests
<1>1. Current(task[t], kv) /\ TypeInv /\ Local(task[t]) /\ Database(kv)
  BY CurrentGood DEF SerialInv, GoodLocal, GoodDatabase
<1>2. task[t].req.op # "none" => task[t].req \in Requests
  BY <1>1 DEF Local, NoRequest
<1>3. CASE PutMeta(t)
  <2>1. task[t].pc = "create" /\ task[t].req.op = "create"
    BY <1>1, <1>2, <1>3, RequestFields DEF PutMeta, Local, Steps, NoRequest
  <2>2. ~kv.exists /\ kv.data = <<>> /\ kv'.exists = TRUE /\ kv'.data = <<>>
    BY <1>1, <1>3, <2>1, Writes DEF Current, Written
  <2>3. QED
    BY <1>2, <2>1, <2>2 DEF Memory!Handle, Memory!CreateCollection
<1>4. CASE CommitUpsert(t)
  <2>1. /\ task[t].pc = "check" /\ task[t].req.op = "upsert" /\ task[t].req.points \in Seq(Point)
        /\ task[t].at = Len(task[t].req.points)
    BY <1>1, <1>2, <1>4, RequestFields DEF CommitUpsert, At
  <2>2. Memory!Accepted(task[t].req.points) = task[t].req.points
    BY <1>1, <2>1, AllAccepted DEF Current
  <2>3. kv.exists /\ kv'.exists = kv.exists /\ kv'.data = Overlay(ById(task[t].req.points), kv.data)
    BY <1>1, <1>4, <2>1, Writes DEF Current, Written
  <2>4. QED
    BY <1>2, <2>1, <2>2, <2>3, SameOperators DEF Memory!Handle, Memory!InsertPoints
<1>5. CASE DeleteData(t)
  <2>1. task[t].pc = "remove" /\ task[t].req.op = "delete"
    BY <1>5 DEF DeleteData, At
  <2>2. kv.exists /\ kv'.exists = kv.exists /\ kv'.data = Without(kv.data, {task[t].req.id})
    BY <1>1, <1>5, <2>1, Writes DEF Current, Written
  <2>3. QED
    BY <1>2, <2>1, <2>2, SameOperators DEF Memory!Handle, Memory!DeletePoint
<1>6. CASE CommitDelete(t)
  <2>1. task[t].pc = "commit" /\ task[t].req.op = "deletePrefix"
    BY <1>6 DEF CommitDelete, At
  <2>2. kv.exists /\ kv'.exists = kv.exists /\ kv'.data = Without(kv.data, Range(task[t].seen))
    BY <1>1, <1>6, <2>1, Writes DEF Current, Written
  <2>3. Range(task[t].seen) = {i \in DOMAIN kv.data : Under(kv.data[i].uri, task[t].req.prefix)}
    <3>1. IndexAgrees(kv)
      BY <1>1, <2>1 DEF Current
    <3>2. task[t].seen = Below(kv.uris, task[t].req.prefix)
      BY <1>1, <2>1 DEF Current
    <3>3. QED
      BY <3>1, <3>2, FoundBelow
  <2>4. QED
    BY <1>2, <2>1, <2>2, <2>3, SameOperators DEF Memory!Handle, Memory!DeleteUnder
<1>7. CASE CommitMove(t)
  <2> DEFINE r == task[t].req
             moved == Moved(kv.data, r)
  <2>1. task[t].pc = "commit" /\ r.op = "updateUri"
    BY <1>7 DEF CommitMove, At
  <2>2. kv.exists /\ kv'.exists = kv.exists /\ kv'.data = Overlay(moved, kv.data)
    BY <1>1, <1>7, <2>1, Writes DEF Current, Written
  <2>3. \A i \in DOMAIN kv.data :
          kv.data[i] = [id |-> kv.data[i].id, uri |-> kv.data[i].uri,
                        parent |-> kv.data[i].parent, vec |-> kv.data[i].vec]
    BY <1>1 DEF Database, MapsTo, Point
  <2>4. ASSUME NEW i \in DOMAIN kv.data, ~Touches(kv.data[i], r.old)
        PROVE  RebasePoint(kv.data[i], r.old, r.new) = kv.data[i]
    <3> DEFINE p == kv.data[i]
               n == [p EXCEPT !.uri = p.uri]
    <3>1. Rebase(p.uri, r.old, r.new) = p.uri /\ Rebase(p.parent, r.old, r.new) = p.parent
      BY <2>4 DEF Touches, Rebase
    <3>2. p = [id |-> p.id, uri |-> p.uri, parent |-> p.parent, vec |-> p.vec]
      BY <2>3
    <3>3. RebasePoint(p, r.old, r.new) = [n EXCEPT !.parent = p.parent]
      BY <3>1 DEF RebasePoint
    <3> HIDE DEF p
    <3>4. n = p
      BY <3>2
    <3> HIDE DEF n
    <3>5. [n EXCEPT !.parent = p.parent] = p
      BY <3>2, <3>4
    <3>6. QED
      BY <3>3, <3>5 DEF p
  <2>5. Overlay(moved, kv.data) = [i \in DOMAIN kv.data |-> RebasePoint(kv.data[i], r.old, r.new)]
    BY <2>4 DEF Overlay, Moved
  <2>6. QED
    BY <1>2, <2>1, <2>2, <2>5, SameOperators DEF Memory!Handle, Memory!MoveUnder
<1>8. QED
  BY <1>3, <1>4, <1>5, <1>6, <1>7 DEF TakesEffect

\* The other steps leave the vectors alone.
LEMMA NoEffect ==
  ASSUME SerialInv, NEW t \in Task, CallIndexed(t) \/ Proceed(t), ~TakesEffect(t)
  PROVE  kv'.exists = kv.exists /\ kv'.data = kv.data
<1>1. TypeInv /\ Current(task[t], kv)
  BY DEF SerialInv
<1>2. CASE PutCount(t)
  <2>1. kv.exists
    BY <1>1, <1>2 DEF PutCount, Current
  <2>2. QED
    BY <1>1, <1>2, <2>1, Writes, CurrentGood DEF Written, GoodDatabase, Database
<1>3. CASE DeleteUri(t)
  BY <1>1, <1>3, Writes DEF Written
<1>4. CASE CallIndexed(t) \/ Refuse(t) \/ NoCollectionYet(t) \/ LoadMeta(t)
  BY <1>4 DEF CallIndexed, Call, Refuse, NoCollectionYet, LoadMeta, ReadOnly
<1>5. QED
  BY <1>2, <1>3, <1>4, Reads DEF Proceed, TakesEffect

\* (See SerialStep.)
LEMMA SerialHolds == ASSUME OneTask PROVE IndexedSpec => []SerialInv
  BY SerialInitially, SerialStep, PTL DEF IndexedSpec

\* One call at a time, the RocksDB store is the memory store: every step is an
\* operation of that one on the vectors, or leaves them alone (traits.rs 19-48).
THEOREM ImplementsMemory == ASSUME OneTask PROVE IndexedSpec => ActsLikeMemory
<1>1. Init => Memory!Init
  BY DEF Init, Memory!Init
<1>2. SerialInv /\ [ServeIndexed]_vars => [Memory!Next]_(Memory!collection)
  <2> SUFFICES ASSUME SerialInv, [ServeIndexed]_vars
               PROVE  [Memory!Next]_(Memory!collection)
    OBVIOUS
  <2>1. CASE UNCHANGED vars
    BY <2>1 DEF vars, Memory!collection
  <2>2. CASE ServeIndexed
    <3>1. PICK t \in Task : CallIndexed(t) \/ Proceed(t)
      BY <2>2 DEF ServeIndexed
    <3>2. CASE TakesEffect(t)
      BY <3>2, EffectAsAsked DEF Memory!Next
    <3>3. CASE ~TakesEffect(t)
      BY <3>1, <3>3, NoEffect DEF Memory!collection
    <3>4. QED
      BY <3>2, <3>3
  <2>3. QED
    BY <2>1, <2>2
<1>3. QED
  BY <1>1, <1>2, SerialHolds, PTL DEF IndexedSpec, ActsLikeMemory, Memory!Spec

\* More than that, the step by which a call takes effect does what the memory
\* store does for that very call (rocks.rs 276-658, memory.rs 100-260).
THEOREM EachCallAsAsked == ASSUME OneTask PROVE IndexedSpec => ServesAsAsked
<1>1. SerialInv => \A t \in Task : TakesEffect(t) => Memory!Handle(task[t].req)
  BY EffectAsAsked
<1>2. QED
  BY <1>1, SerialHolds, PTL DEF ServesAsAsked

(***************************************************************************)
(* The count.  A call computes the new one from what it read and scanned,   *)
(* and writes it after its batch; with one task nothing comes in between.   *)
(***************************************************************************)
\* The ids of the points checked so far.
Checked(l) == {l.req.points[j].id : j \in 1..l.at}

Counted(l, s) ==
  /\ l.pc # "count" => s.count = Cardinality(DOMAIN s.data)
  /\ l.pc = "count" => l.target = Cardinality(DOMAIN s.data)
  /\ l.pc \notin {"idle", "meta", "create", "count"} => l.base = s.count
  /\ l.pc = "check" => l.target = Cardinality(DOMAIN s.data \cup Checked(l))
  /\ l.pc \in {"lookup", "scan"} \/ (l.pc = "commit" /\ l.req.op = "updateUri") =>
       l.target = s.count
  /\ l.pc = "commit" /\ l.req.op = "deletePrefix" =>
       l.target = Less(s.count, Cardinality(DOMAIN l.seen))
  /\ l.pc \in {"unindex", "remove"} =>
       /\ l.target = Less(s.count, Cardinality(DOMAIN l.seen))
       /\ l.seen = Only(s.data, {l.req.id})

CountInv == \A t \in Task : Counted(task[t], kv)

\* A task at rest: the count is that of the vectors.
LEMMA CountedReturn ==
  ASSUME TypeInv, NEW t \in Task, Return(t), kv'.count = Cardinality(DOMAIN kv'.data)
  PROVE  Counted(task'[t], kv')
<1>1. task'[t] = Fresh
  BY OwnRecord DEF Return
<1>2. Fresh.pc = "idle"
  BY DEF Fresh
<1>3. QED
  BY <1>1, <1>2 DEF Counted

\* After a batch the count is written, or is right already.
LEMMA CountedBatch ==
  ASSUME TypeInv, NEW t \in Task, WriteCountOrReturn(t), task[t].base = kv'.count,
         task[t].target = Cardinality(DOMAIN kv'.data)
  PROVE  Counted(task'[t], kv')
<1>1. CASE task[t].target = task[t].base
  BY <1>1, CountedReturn DEF WriteCountOrReturn
<1>2. CASE task[t].target # task[t].base
  <2>1. task'[t].pc = "count" /\ task'[t].target = task[t].target
    BY <1>2, Remembered DEF WriteCountOrReturn, Remembers
  <2>2. QED
    BY <2>1 DEF Counted
<1>3. QED
  BY <1>1, <1>2

\* A call begins, is refused, reads the meta key or creates the collection.
LEMMA CountedMeta ==
  ASSUME SerialInv, CountInv, NEW t \in Task,
         CallIndexed(t) \/ Refuse(t) \/ NoCollectionYet(t) \/ LoadMeta(t)
  PROVE  Counted(task'[t], kv')
<1>1. /\ Counted(task[t], kv) /\ Current(task[t], kv) /\ TypeInv /\ kv' = kv
      /\ task[t].pc \in {"idle", "meta"}
  BY DEF CountInv, SerialInv, CallIndexed, Call, Refuse, NoCollectionYet, LoadMeta, ReadOnly, At
<1>2. kv.count = Cardinality(DOMAIN kv.data)
  BY <1>1 DEF Counted
<1>3. CASE CallIndexed(t)
  <2>1. PICK r \in Requests : task' = [task EXCEPT ![t] = [Fresh EXCEPT !.pc = "meta", !.req = r]]
    BY <1>3 DEF CallIndexed, Call
  <2> DEFINE l == [Fresh EXCEPT !.pc = "meta", !.req = r]
  <2>2. l.pc = "meta"
    BY DEF Fresh
  <2>3. task'[t] = l
    BY <1>1, <2>1, OwnRecord
  <2> HIDE DEF l
  <2>4. QED
    BY <1>1, <1>2, <2>2, <2>3 DEF Counted
<1>4. CASE Refuse(t)
  BY <1>1, <1>2, <1>4, CountedReturn DEF Refuse
<1>5. CASE NoCollectionYet(t)
  <2>1. task'[t].pc = "create"
    BY <1>1, <1>5, Remembered DEF NoCollectionYet, Remembers
  <2>2. QED
    BY <1>1, <1>2, <2>1 DEF Counted
<1>6. CASE LoadMeta(t)
  <2> DEFINE first == FirstStep[task[t].req.op]
             n == kv.count
             l == [task[t] EXCEPT !.pc = first, !.base = n, !.target = n]
  <2>1. task'[t] = l
    BY <1>1, <1>6, OwnRecord DEF LoadMeta
  <2> HIDE DEF first, n
  <2>2. l = TaskRecord(first, task[t].req, n, n, task[t].at, task[t].seen)
    BY <1>1, CurrentGood, MetaRewritten DEF GoodLocal
  <2> HIDE DEF l
  <2>3. /\ l.pc = FirstStep[task[t].req.op] /\ l.req = task[t].req /\ l.at = 0
        /\ l.base = kv.count /\ l.target = kv.count
    <3>1. task[t].at = 0
      BY <1>1, <1>6 DEF Current, LoadMeta
    <3>2. QED
      BY <2>2, <3>1, Fields DEF first, n
  <2>4. task[t].req.op \in {"upsert", "delete", "deletePrefix", "updateUri"}
    <3>1. task[t].req.op # "none"
      <4>1. task[t].pc = "meta" /\ task[t].pc \in Steps[task[t].req.op]
        BY <1>1, <1>6, CurrentGood DEF LoadMeta, GoodLocal, Local
      <4>2. Steps["none"] = {"idle"}
        BY DEF Steps
      <4>3. QED
        BY <4>1, <4>2
    <3>2. QED
      BY <1>1, <1>6, <3>1, CurrentGood, RequestFields DEF LoadMeta
  <2>5. l.pc \in {"check", "lookup", "scan"}
    BY <2>3, <2>4 DEF FirstStep
  <2>6. Checked(l) = {}
    BY <2>3 DEF Checked
  <2>7. DOMAIN kv.data \cup Checked(l) = DOMAIN kv.data
    BY <2>6
  <2>8. QED
    BY <1>1, <1>2, <2>1, <2>3, <2>5, <2>7 DEF Counted
<1>7. QED
  BY <1>3, <1>4, <1>5, <1>6

\* (See CountedMeta.)
LEMMA CountedMetaKey ==
  ASSUME SerialInv, CountInv, NEW t \in Task, PutMeta(t) \/ PutCount(t)
  PROVE  Counted(task'[t], kv')
<1>1. /\ Counted(task[t], kv) /\ Current(task[t], kv) /\ TypeInv /\ Return(t)
  BY DEF CountInv, SerialInv, PutMeta, PutCount
<1>2. CASE PutMeta(t)
  <2>1. kv.data = <<>>
    BY <1>1, <1>2 DEF PutMeta, Current
  <2>2. kv'.count = 0 /\ kv'.data = kv.data
    BY <1>1, <1>2, Writes DEF Written
  <2>3. Cardinality(DOMAIN kv'.data) = 0
    BY <2>1, <2>2, FS_EmptySet, DOMAIN <<>> = {}
  <2>4. QED
    BY <1>1, <2>2, <2>3, CountedReturn
<1>3. CASE PutCount(t)
  <2>1. kv'.count = task[t].target /\ kv'.data = kv.data
    BY <1>1, <1>3, Writes DEF Written
  <2>2. task[t].target = Cardinality(DOMAIN kv.data)
    BY <1>1, <1>3 DEF PutCount, Counted
  <2>3. QED
    BY <1>1, <2>1, <2>2, CountedReturn
<1>4. QED
  BY <1>2, <1>3

\* Of points with ids of their own, each keeps its place in the batch.
LEMMA BatchIds ==
  ASSUME NEW ps \in Seq(Point), \A j, k \in DOMAIN ps : ps[j].id = ps[k].id => j = k
  PROVE  DOMAIN ById(ps) = {ps[j].id : j \in 1..Len(ps)}
<1>1. Len(ps) \in Nat /\ DOMAIN ps = 1..Len(ps)
  BY LenProperties
<1>2. \A j \in 1..Len(ps) : \A k \in j+1..Len(ps) : k \in 1..Len(ps) /\ k # j
  BY <1>1
<1>3. \A j \in 1..Len(ps) : ps[j] \in LastById(ps)
  BY <1>1, <1>2 DEF LastById
<1>4. QED
  BY <1>3 DEF ById, LastById

\* upsert counts the points whose ids it does not find.
LEMMA CountedUpsert ==
  ASSUME BatchesDistinct, SerialInv, CountInv, NEW t \in Task,
         CheckPoint(t) \/ RejectPoint(t) \/ CommitUpsert(t)
  PROVE  Counted(task'[t], kv')
<1> DEFINE ps == task[t].req.points
<1>1. /\ Counted(task[t], kv) /\ TypeInv /\ task[t].pc = "check" /\ task[t].req.op = "upsert"
      /\ task[t].at \in Nat /\ task[t].at <= Len(ps) /\ IsFiniteSet(DOMAIN kv.data)
  BY CurrentGood
     DEF CountInv, SerialInv, CheckPoint, RejectPoint, CommitUpsert, At, GoodLocal, Local,
         GoodDatabase, Finite
<1>2. /\ kv.count = Cardinality(DOMAIN kv.data) /\ task[t].base = kv.count
      /\ task[t].target = Cardinality(DOMAIN kv.data \cup Checked(task[t]))
  BY <1>1 DEF Counted
<1>3. /\ ps \in Seq(Point) /\ Len(ps) \in Nat /\ DOMAIN ps = 1..Len(ps)
      /\ \A j, k \in DOMAIN ps : ps[j].id = ps[k].id => j = k
  <2>1. task[t].req \in Requests /\ ps \in Seq(Point)
    BY <1>1, CurrentGood, RequestFields DEF NoRequest
  <2>2. QED
    BY <1>1, <2>1, LenProperties DEF BatchesDistinct
<1>4. CASE CheckPoint(t)
  <2> DEFINE at == task[t].at
             id == NextPoint(t).id
             X == DOMAIN kv.data \cup Checked(task[t])
  <2>1. id = ps[at + 1].id /\ at + 1 \in 1..Len(ps)
    BY <1>1, <1>3, <1>4 DEF CheckPoint, NextPoint
  <2>2. 1..at + 1 = 1..at \cup {at + 1} /\ at + 1 \notin 1..at /\ 1..at \subseteq 1..Len(ps)
    BY <1>1, <1>3
  <2>3. id \in X <=> id \in DOMAIN kv.data
    <3>1. \A j \in 1..at : ps[j].id # id
      <4>1. \A j \in 1..at : j \in DOMAIN ps /\ j # at + 1
        BY <1>3, <2>2
      <4>2. QED
        BY <1>3, <2>1, <4>1
    <3>2. id \notin Checked(task[t])
      BY <3>1 DEF Checked
    <3>3. QED
      BY <3>2
  <2>4. IsFiniteSet(X)
    <3> DEFINE f == [j \in 1..at |-> ps[j].id]
    <3>1. IsFiniteSet(1..at)
      BY <1>1, FS_Interval
    <3>2. \A x \in Checked(task[t]) : \E j \in 1..at : x = f[j]
      BY DEF Checked
    <3> HIDE DEF f
    <3>3. IsFiniteSet(Checked(task[t]))
      BY <3>1, <3>2, ImageFinite
    <3>4. QED
      BY <1>1, <3>3, FS_Union
  <2>5. Cardinality(X \cup {id}) = Cardinality(X) + (IF id \in X THEN 0 ELSE 1)
    <3>1. Cardinality(X) \in Nat
      BY <2>4, FS_CardinalityType
    <3> HIDE DEF X, id
    <3>2. Cardinality(X \cup {id}) = IF id \in X THEN Cardinality(X) ELSE Cardinality(X) + 1
      BY <2>4, FS_AddElement
    <3>3. QED
      BY <3>1, <3>2
  <2>6. /\ kv' = kv /\ task'[t].pc = "check" /\ task'[t].req = task[t].req
        /\ task'[t].base = task[t].base /\ task'[t].at = at + 1
        /\ task'[t].target = task[t].target + (IF id \in DOMAIN kv.data THEN 0 ELSE 1)
    BY <1>1, <1>4, Reads, Remembered DEF Remembers
  <2>7. Checked(task'[t]) = Checked(task[t]) \cup {id}
    BY <2>1, <2>2, <2>6 DEF Checked
  <2>8. DOMAIN kv.data \cup Checked(task'[t]) = X \cup {id}
    BY <2>7
  <2>9. task'[t].target = Cardinality(X \cup {id})
    BY <1>2, <2>3, <2>5, <2>6
  <2> HIDE DEF X, id, at
  <2>10. QED
    BY <1>2, <2>6, <2>8, <2>9 DEF Counted
<1>5. CASE RejectPoint(t)
  BY <1>1, <1>2, <1>5, Reads, CountedReturn DEF RejectPoint
<1>6. CASE CommitUpsert(t)
  <2>1. kv'.count = kv.count /\ kv'.data = Overlay(ById(ps), kv.data)
    BY <1>1, <1>6, Writes DEF Written
  <2>2. DOMAIN kv'.data = DOMAIN ById(ps) \cup DOMAIN kv.data
    BY <2>1 DEF Overlay
  <2>3. DOMAIN ById(ps) = Checked(task[t])
    BY <1>3, <1>6, BatchIds DEF CommitUpsert, Checked
  <2>4. DOMAIN kv'.data = DOMAIN kv.data \cup Checked(task[t])
    BY <2>2, <2>3
  <2>5. QED
    BY <1>1, <1>2, <1>6, <2>1, <2>4, CountedBatch DEF CommitUpsert
<1>7. QED
  BY <1>4, <1>5, <1>6

\* What is found is taken off the count once it is removed.
LEMMA LessRemoved ==
  ASSUME NEW D, IsFiniteSet(D), NEW R \in SUBSET D
  PROVE  Less(Cardinality(D), Cardinality(R)) = Cardinality(D \ R)
<1>1. IsFiniteSet(R) /\ IsFiniteSet(D \ R)
  BY FS_Subset
<1>2. (D \ R) \cup R = D /\ (D \ R) \cap R = {}
  OBVIOUS
<1>3. Cardinality(D) = Cardinality(D \ R) + Cardinality(R) - Cardinality({})
  BY <1>1, <1>2, FS_Union
<1>4. Cardinality(R) \in Nat /\ Cardinality(D \ R) \in Nat /\ Cardinality({}) = 0
  BY <1>1, FS_CardinalityType, FS_EmptySet
<1>5. QED
  BY <1>3, <1>4 DEF Less

\* delete takes one off the count if it finds the point.
LEMMA CountedDelete ==
  ASSUME SerialInv, CountInv, NEW t \in Task, Lookup(t) \/ DeleteUri(t) \/ DeleteData(t)
  PROVE  Counted(task'[t], kv')
<1>1. /\ Counted(task[t], kv) /\ TypeInv /\ IsFiniteSet(DOMAIN kv.data)
      /\ task[t].pc \in {"lookup", "unindex", "remove"}
  BY CurrentGood DEF CountInv, SerialInv, Lookup, DeleteUri, DeleteData, At, GoodDatabase, Finite
<1>2. kv.count = Cardinality(DOMAIN kv.data) /\ task[t].base = kv.count
  BY <1>1 DEF Counted
<1>3. CASE Lookup(t)
  <2> DEFINE found == Only(kv.data, {task[t].req.id})
             target == Less(task[t].target, Cardinality(DOMAIN found))
             next == IF \E i \in DOMAIN found : found[i].uri # NoUri THEN "unindex" ELSE "remove"
  <2>1. Remember(t, found, target, next) /\ next \in {"unindex", "remove"}
    BY <1>3 DEF Lookup
  <2>2. task[t].target = kv.count
    BY <1>1, <1>3 DEF Lookup, At, Counted
  <2> HIDE DEF next
  <2>3. /\ kv' = kv /\ task'[t].pc \in {"unindex", "remove"} /\ task'[t].req = task[t].req
        /\ task'[t].base = task[t].base /\ task'[t].seen = found /\ task'[t].target = target
    BY <1>1, <1>3, <2>1, Reads, Remembered DEF Remembers
  <2>4. QED
    BY <1>2, <2>2, <2>3 DEF Counted
<1>4. CASE DeleteUri(t)
  <2>1. kv'.count = kv.count /\ kv'.data = kv.data
    BY <1>1, <1>4, Writes DEF Written
  <2>2. /\ task'[t].pc = "remove" /\ task'[t].req = task[t].req /\ task'[t].base = task[t].base
        /\ task'[t].seen = task[t].seen /\ task'[t].target = task[t].target
    BY <1>1, <1>4, Remembered DEF DeleteUri, Remembers
  <2>3. QED
    BY <1>1, <1>2, <1>4, <2>1, <2>2 DEF Counted, DeleteUri, At
<1>5. CASE DeleteData(t)
  <2> DEFINE R == DOMAIN Only(kv.data, {task[t].req.id})
  <2>1. kv'.count = kv.count /\ DOMAIN kv'.data = DOMAIN kv.data \ R
    <3>1. kv'.count = kv.count /\ kv'.data = Without(kv.data, {task[t].req.id})
      BY <1>1, <1>5, Writes DEF Written
    <3>2. QED
      BY <3>1 DEF Without, Only
  <2>2. R \in SUBSET DOMAIN kv.data
    BY DEF Only
  <2>3. task[t].target = Less(kv.count, Cardinality(R))
    BY <1>1, <1>5 DEF DeleteData, At, Counted
  <2> HIDE DEF R
  <2>4. task[t].target = Cardinality(DOMAIN kv'.data)
    BY <1>1, <1>2, <2>1, <2>2, <2>3, LessRemoved
  <2>5. QED
    BY <1>1, <1>2, <1>5, <2>1, <2>4, CountedBatch DEF DeleteData
<1>6. QED
  BY <1>3, <1>4, <1>5

\* delete_by_uri_prefix takes off the count what it finds; update_uri moves
\* vectors and leaves their number alone.
LEMMA CountedScan ==
  ASSUME SerialInv, CountInv, NEW t \in Task,
         ScanIndex(t) \/ CommitDelete(t) \/ ScanData(t) \/ CommitMove(t)
  PROVE  Counted(task'[t], kv')
<1>1. /\ Counted(task[t], kv) /\ Current(task[t], kv) /\ TypeInv /\ IsFiniteSet(DOMAIN kv.data)
      /\ IsFiniteSet(DOMAIN kv.uris) /\ task[t].pc \in {"scan", "commit"}
  BY CurrentGood
     DEF CountInv, SerialInv, ScanIndex, CommitDelete, ScanData, CommitMove, At, GoodDatabase, Finite
<1>2. kv.count = Cardinality(DOMAIN kv.data) /\ task[t].base = kv.count
  BY <1>1 DEF Counted
<1>3. CASE ScanIndex(t)
  <2> DEFINE found == ScanPrefix(task[t].req.prefix)
             target == Less(task[t].target, Cardinality(DOMAIN found))
  <2>1. Remember(t, found, target, "commit") /\ task[t].req.op = "deletePrefix"
    BY <1>3 DEF ScanIndex, At
  <2>2. task[t].target = kv.count
    BY <1>1, <1>3 DEF ScanIndex, At, Counted
  <2>3. /\ kv' = kv /\ task'[t].pc = "commit" /\ task'[t].req = task[t].req
        /\ task'[t].base = task[t].base /\ task'[t].seen = found /\ task'[t].target = target
    BY <1>1, <1>3, <2>1, Reads, Remembered DEF Remembers
  <2>4. QED
    BY <1>2, <2>1, <2>2, <2>3 DEF Counted
<1>4. CASE CommitDelete(t)
  <2> DEFINE found == Below(kv.uris, task[t].req.prefix)
             R == Range(found)
  <2>1. task[t].req.op = "deletePrefix" /\ task[t].pc = "commit"
    BY <1>4 DEF CommitDelete, At
  <2>2. IndexAgrees(kv) /\ task[t].seen = found
    BY <1>1, <2>1 DEF Current
  <2>3. R = {i \in DOMAIN kv.data : Under(kv.data[i].uri, task[t].req.prefix)}
        /\ \A u, v \in DOMAIN found : found[u] = found[v] => u = v
    BY <2>2, FoundBelow
  <2>4. R \in SUBSET DOMAIN kv.data
    BY <2>3
  <2>5. Cardinality(R) = Cardinality(DOMAIN found)
    <3>1. IsFiniteSet(DOMAIN found)
      BY <1>1, OnlyFinite DEF Below
    <3>2. found \in [DOMAIN found -> R] /\ \A x \in R : \E u \in DOMAIN found : found[u] = x
      BY DEF Range, Below, Only
    <3> HIDE DEF found, R
    <3>3. found \in Bijection(DOMAIN found, R)
      BY <2>3, <3>2 DEF Bijection, Injection, Surjection, IsInjective
    <3>4. QED
      BY <3>1, <3>3, FS_Bijection DEF ExistsBijection
  <2>6. kv'.count = kv.count /\ DOMAIN kv'.data = DOMAIN kv.data \ R
    <3>1. kv'.count = kv.count /\ kv'.data = Without(kv.data, R)
      BY <1>1, <1>4, <2>2, Writes DEF Written
    <3>2. QED
      BY <3>1 DEF Without
  <2>7. task[t].target = Less(kv.count, Cardinality(DOMAIN found))
    BY <1>1, <2>1, <2>2 DEF Counted
  <2> HIDE DEF R, found
  <2>8. task[t].target = Cardinality(DOMAIN kv'.data)
    BY <1>1, <1>2, <2>4, <2>5, <2>6, <2>7, LessRemoved
  <2>9. QED
    BY <1>1, <1>2, <1>4, <2>6, <2>8, CountedBatch DEF CommitDelete
<1>5. CASE ScanData(t)
  <2>1. /\ kv' = kv /\ task'[t].pc = "commit" /\ task'[t].req = task[t].req
        /\ task'[t].base = task[t].base /\ task'[t].target = task[t].target
    BY <1>1, <1>5, Reads, Remembered DEF ScanData, Remembers
  <2>2. task[t].target = kv.count /\ task[t].req.op = "updateUri"
    BY <1>1, <1>5 DEF ScanData, At, Counted
  <2>3. QED
    BY <1>2, <2>1, <2>2 DEF Counted
<1>6. CASE CommitMove(t)
  <2>1. task[t].seen = kv.data
    BY <1>1, <1>6 DEF CommitMove, At, Current
  <2>2. kv'.count = kv.count /\ kv'.data = Overlay(Moved(kv.data, task[t].req), kv.data)
    BY <1>1, <1>6, <2>1, Writes DEF Written
  <2>3. DOMAIN kv'.data = DOMAIN kv.data
    BY <2>2 DEF Overlay, Moved
  <2>4. QED
    BY <1>1, <1>2, <1>6, <2>2, <2>3, CountedReturn DEF CommitMove
<1>7. QED
  BY <1>3, <1>4, <1>5, <1>6

\* Counted is inductive: the count a call will write is that of the vectors
\* its batch leaves.
LEMMA CountStep ==
  ASSUME OneTask, BatchesDistinct, SerialInv, CountInv, [ServeIndexed]_vars
  PROVE  CountInv'
<1>1. CASE UNCHANGED vars
  BY <1>1 DEF CountInv, vars
<1>2. CASE ServeIndexed
  <2>1. PICK t \in Task : CallIndexed(t) \/ Proceed(t)
    BY <1>2 DEF ServeIndexed
  <2>2. Counted(task'[t], kv')
    BY <2>1, CountedMeta, CountedMetaKey, CountedUpsert, CountedDelete, CountedScan DEF Proceed
  <2>3. QED
    BY <2>2 DEF OneTask, CountInv
<1>3. QED
  BY <1>1, <1>2

\* (See CountStep.)
LEMMA CountInitially == Init => CountInv
<1> SUFFICES ASSUME Init PROVE CountInv
  OBVIOUS
<1>1. kv.count = 0 /\ kv.data = <<>> /\ \A t \in Task : task[t] = Fresh
  BY DEF Init
<1>2. kv.count = Cardinality(DOMAIN kv.data)
  BY <1>1, FS_EmptySet, DOMAIN <<>> = {}
<1>3. Fresh.pc = "idle"
  BY DEF Fresh
<1>4. QED
  BY <1>1, <1>2, <1>3 DEF CountInv, Counted

\* One call at a time and the ids of a batch distinct, collection_info reports
\* the number of vectors between calls (rocks.rs 362-372 and 660-682).
THEOREM CountStaysExact == ASSUME OneTask, BatchesDistinct PROVE IndexedSpec => []CountExact
<1>1. OneTask /\ CountInv => CountExact
  <2> SUFFICES ASSUME OneTask, CountInv, Quiet PROVE CollectionInfo.count = Cardinality(DOMAIN kv.data)
    BY DEF CountExact
  <2>1. PICK t \in Task : task[t] = Fresh
    BY DEF OneTask, Quiet
  <2>2. Fresh.pc = "idle"
    BY DEF Fresh
  <2>3. kv.count = Cardinality(DOMAIN kv.data)
    BY <2>1, <2>2 DEF CountInv, Counted
  <2>4. QED
    BY <2>3 DEF CollectionInfo
<1>2. QED
  BY <1>1, CountInitially, CountStep, SerialHolds, PTL DEF IndexedSpec

(***************************************************************************)
(* Keys in order.                                                           *)
(***************************************************************************)
StrictOrder(keys, order) ==
  /\ \A k \in keys : <<k, k>> \notin order
  /\ \A k, l, m \in keys : <<k, l>> \in order /\ <<l, m>> \in order => <<k, m>> \in order
  /\ \A k, l \in keys : k = l \/ <<k, l>> \in order \/ <<l, k>> \in order

\* Each key comes once: the numbers of keys before each are all numbers up to
\* that of the keys.
LEMMA SortedAll ==
  ASSUME NEW keys, IsFiniteSet(keys), NEW order, StrictOrder(keys, order)
  PROVE  /\ Cardinality(keys) \in Nat
         /\ Sorted(keys, order) \in [1..Cardinality(keys) -> keys]
         /\ \A k \in keys : \E j \in 1..Cardinality(keys) : Sorted(keys, order)[j] = k
         /\ \A i, j \in 1..Cardinality(keys) :
              i < j => <<Sorted(keys, order)[i], Sorted(keys, order)[j]>> \in order
<1> DEFINE n == Cardinality(keys)
           Before(k) == {l \in keys : <<l, k>> \in order}
           rank == [k \in keys |-> Cardinality(Before(k))]
<1>1. n \in Nat
  BY FS_CardinalityType
<1>2. ASSUME NEW k \in keys
      PROVE  IsFiniteSet(Before(k)) /\ rank[k] \in 0..n - 1
  <2>1. Before(k) \in SUBSET (keys \ {k})
    BY DEF StrictOrder
  <2>2. IsFiniteSet(keys \ {k}) /\ Cardinality(keys \ {k}) = n - 1
    BY FS_RemoveElement
  <2> HIDE DEF Before
  <2>3. IsFiniteSet(Before(k)) /\ Cardinality(Before(k)) <= n - 1
    BY <2>1, <2>2, FS_Subset
  <2>4. Cardinality(Before(k)) \in Nat
    BY <2>3, FS_CardinalityType
  <2>5. QED
    BY <1>1, <2>3, <2>4
<1>3. ASSUME NEW k \in keys, NEW l \in keys, <<k, l>> \in order
      PROVE  rank[k] < rank[l]
  <2>1. Before(k) \in SUBSET Before(l) /\ k \in Before(l) /\ k \notin Before(k)
    BY <1>3 DEF StrictOrder
  <2>2. Before(k) # Before(l)
    BY <2>1
  <2>3. IsFiniteSet(Before(l))
    BY <1>2
  <2>4. rank[k] <= rank[l] /\ rank[k] # rank[l]
    <3> HIDE DEF Before
    <3>1. QED
      BY <2>1, <2>2, <2>3, FS_Subset
  <2>5. rank[k] \in 0..n - 1 /\ rank[l] \in 0..n - 1
    <3> HIDE DEF rank, n
    <3>1. QED
      BY <1>2
  <2> HIDE DEF rank
  <2>6. QED
    BY <2>4, <2>5
<1> HIDE DEF Before
<1>4. rank \in Injection(keys, 0..n - 1)
  <2>1. rank \in [keys -> 0..n - 1]
    BY <1>2
  <2>2. \A k, l \in keys : rank[k] = rank[l] => k = l
    <3> SUFFICES ASSUME NEW k \in keys, NEW l \in keys, rank[k] = rank[l], k # l PROVE FALSE
      OBVIOUS
    <3>1. <<k, l>> \in order \/ <<l, k>> \in order
      BY DEF StrictOrder
    <3>2. rank[k] < rank[l] \/ rank[l] < rank[k]
      <4> HIDE DEF rank
      <4>1. QED
        BY <1>3, <3>1
    <3>3. rank[k] \in 0..n - 1
      <4> HIDE DEF rank, n
      <4>1. QED
        BY <1>2
    <3> HIDE DEF rank
    <3>4. QED
      BY <1>1, <3>2, <3>3
  <2> HIDE DEF rank, n
  <2>3. QED
    BY <2>1, <2>2 DEF Injection, IsInjective
<1> HIDE DEF rank
<1>5. rank \in Surjection(keys, 0..n - 1)
  <2>1. IsFiniteSet(0..n - 1) /\ Cardinality(0..n - 1) = n
    BY <1>1, FS_Interval
  <2>2. QED
    BY <1>4, <2>1, FS_Injection
<1>6. /\ \A i \in 0..n - 1 : \E k \in keys : rank[k] = i
      /\ \A k, l \in keys : rank[k] = rank[l] => k = l
      /\ \A k \in keys : rank[k] \in 0..n - 1
  BY <1>4, <1>5 DEF Injection, Surjection, IsInjective
<1> DEFINE sorted == [j \in 1..n |-> CHOOSE k \in keys : Cardinality({l \in keys : <<l, k>> \in order}) = j - 1]
<1>7. Sorted(keys, order) = sorted
  BY DEF Sorted
<1>8. \A j \in 1..n : sorted[j] \in keys /\ rank[sorted[j]] = j - 1
  <2>1. ASSUME NEW j \in 1..n PROVE sorted[j] \in keys /\ rank[sorted[j]] = j - 1
    <3>1. j - 1 \in 0..n - 1
      BY <1>1
    <3>2. \E k \in keys : Cardinality({l \in keys : <<l, k>> \in order}) = j - 1
      BY <1>6, <3>1 DEF rank, Before
    <3>3. sorted[j] \in keys /\ Cardinality({l \in keys : <<l, sorted[j]>> \in order}) = j - 1
      BY <3>2
    <3>4. QED
      BY <3>3 DEF rank, Before
  <2>2. QED
    BY <2>1
<1>9. sorted \in [1..n -> keys]
  BY <1>8
<1> HIDE DEF sorted
<1>10. ASSUME NEW k \in keys PROVE \E j \in 1..n : sorted[j] = k
  <2>1. rank[k] + 1 \in 1..n /\ (rank[k] + 1) - 1 = rank[k]
    BY <1>1, <1>6
  <2>2. QED
    BY <1>6, <1>8, <2>1
<1>11. ASSUME NEW i \in 1..n, NEW j \in 1..n, i < j PROVE <<sorted[i], sorted[j]>> \in order
  <2>1. sorted[i] \in keys /\ sorted[j] \in keys /\ rank[sorted[i]] = i - 1 /\ rank[sorted[j]] = j - 1
    BY <1>8
  <2>2. sorted[i] # sorted[j] /\ ~(rank[sorted[j]] < rank[sorted[i]])
    BY <1>1, <1>11, <2>1
  <2>3. QED
    BY <1>3, <2>1, <2>2 DEF StrictOrder
<1>12. QED
  BY <1>1, <1>7, <1>9, <1>10, <1>11

(***************************************************************************)
(* Hits in order.                                                           *)
(***************************************************************************)
Hits == [id : Id, score : Nat]

\* Each hit once.
Distinct(hits) == \A i, j \in DOMAIN hits : hits[i] = hits[j] => i = j

\* (See SortHits.)
LEMMA RankingOrders ==
  ASSUME NEW hits \in Seq(Hits), NEW S \in SUBSET DOMAIN hits
  PROVE  StrictOrder(S, Ranking(hits))
<1>1. \A i \in S : i \in Int /\ i \in DOMAIN hits /\ hits[i].score \in Int
  <2>1. \A i \in DOMAIN hits : i \in 1..Len(hits) /\ hits[i] \in Hits
    BY ElementOfSeq, LenProperties
  <2>2. QED
    BY <2>1 DEF Hits
<1>2. ASSUME NEW i \in S, NEW j \in S
      PROVE  <<i, j>> \in Ranking(hits) <=>
               hits[i].score < hits[j].score \/ (~(hits[j].score < hits[i].score) /\ i < j)
  BY <1>1 DEF Ranking, Precedes, Nearer
<1>3. \A i \in S : <<i, i>> \notin Ranking(hits)
  BY <1>1, <1>2
<1>4. \A i, j \in S : i = j \/ <<i, j>> \in Ranking(hits) \/ <<j, i>> \in Ranking(hits)
  <2> SUFFICES ASSUME NEW i \in S, NEW j \in S, i # j
               PROVE  <<i, j>> \in Ranking(hits) \/ <<j, i>> \in Ranking(hits)
    OBVIOUS
  <2>1. i < j \/ j < i
    BY <1>1
  <2>2. QED
    BY <1>1, <1>2, <2>1
<1>5. ASSUME NEW i \in S, NEW j \in S, NEW l \in S, <<i, j>> \in Ranking(hits), <<j, l>> \in Ranking(hits)
      PROVE  <<i, l>> \in Ranking(hits)
  BY <1>1, <1>2, <1>5
<1>6. QED
  BY <1>3, <1>4, <1>5 DEF StrictOrder

\* The hits sorted are the hits, each as often, nearest first.
LEMMA SortHitsIs ==
  ASSUME NEW hits \in Seq(Hits), Distinct(hits)
  PROVE  /\ SortHits(hits) \in Seq(Hits) /\ Len(SortHits(hits)) = Len(hits)
         /\ Distinct(SortHits(hits))
         /\ Range(SortHits(hits)) = Range(hits)
         /\ \A i, j \in 1..Len(hits) : i < j => ~Nearer(SortHits(hits)[j], SortHits(hits)[i])
<1> DEFINE n == Len(hits)
           places == Sorted(DOMAIN hits, Ranking(hits))
<1>1. n \in Nat /\ DOMAIN hits = 1..n /\ \A i \in 1..n : hits[i] \in Hits
  BY LenProperties, ElementOfSeq
<1>2. IsFiniteSet(DOMAIN hits) /\ Cardinality(DOMAIN hits) = n
  <2>1. IsFiniteSet(1..n) /\ Cardinality(1..n) = n
    <3> HIDE DEF n
    <3>1. QED
      BY <1>1, FS_Interval
  <2>2. QED
    BY <1>1, <2>1
<1>3. StrictOrder(DOMAIN hits, Ranking(hits))
  BY RankingOrders
<1>4. /\ places \in [1..n -> 1..n]
      /\ \A k \in 1..n : \E j \in 1..n : places[j] = k
      /\ \A i, j \in 1..n : i < j => <<places[i], places[j]>> \in Ranking(hits)
  BY <1>1, <1>2, <1>3, SortedAll
<1>5. SortHits(hits) = [j \in 1..n |-> hits[places[j]]]
  <2>1. DOMAIN places = 1..n
    BY <1>4
  <2>2. QED
    BY <2>1 DEF SortHits
<1> HIDE DEF places
<1> DEFINE s == SortHits(hits)
<1>6. s \in Seq(Hits) /\ Len(s) = n /\ DOMAIN s = 1..n /\ \A j \in 1..n : s[j] = hits[places[j]]
  <2>1. [j \in 1..n |-> hits[places[j]]] \in [1..n -> Hits]
    BY <1>1, <1>4
  <2>2. s \in [1..n -> Hits]
    BY <1>5, <2>1
  <2>3. s \in Seq(Hits)
    BY <1>1, <2>2, SeqDef
  <2>4. Len(s) = n
    BY <1>1, <2>2, <2>3, LenProperties
  <2>5. QED
    BY <1>5, <2>2, <2>3, <2>4
<1> HIDE DEF s
<1>7. \A i, j \in 1..n : places[i] = places[j] => i = j
  <2>1. \A i \in 1..n : <<places[i], places[i]>> \notin Ranking(hits)
    BY <1>1, <1>3, <1>4 DEF StrictOrder
  <2>2. ASSUME NEW i \in 1..n, NEW j \in 1..n, places[i] = places[j], i # j PROVE FALSE
    <3>1. i < j \/ j < i
      BY <2>2
    <3>2. <<places[i], places[j]>> \in Ranking(hits) \/ <<places[j], places[i]>> \in Ranking(hits)
      BY <1>4, <3>1
    <3>3. QED
      BY <2>1, <2>2, <3>2
  <2>3. QED
    BY <2>2
<1>8. Distinct(s)
  <2> SUFFICES ASSUME NEW i \in 1..n, NEW j \in 1..n, s[i] = s[j] PROVE i = j
    BY <1>6 DEF Distinct
  <2>1. places[i] \in DOMAIN hits /\ places[j] \in DOMAIN hits /\ hits[places[i]] = hits[places[j]]
    BY <1>1, <1>4, <1>6
  <2>2. places[i] = places[j]
    BY <2>1 DEF Distinct
  <2>3. QED
    BY <1>7, <2>2
<1>9. Range(s) = Range(hits)
  <2>1. Range(s) = {s[j] : j \in 1..n} /\ Range(hits) = {hits[j] : j \in 1..n}
    BY <1>1, <1>6 DEF Range
  <2>2. \A j \in 1..n : \E i \in 1..n : s[j] = hits[i]
    BY <1>4, <1>6
  <2>3. \A i \in 1..n : \E j \in 1..n : hits[i] = s[j]
    BY <1>4, <1>6
  <2> HIDE DEF n
  <2>4. QED
    BY <2>1, <2>2, <2>3
<1>10. ASSUME NEW i \in 1..n, NEW j \in 1..n, i < j PROVE ~Nearer(s[j], s[i])
  <2>1. <<places[i], places[j]>> \in Ranking(hits) /\ places[i] \in 1..n /\ places[j] \in 1..n
    BY <1>4, <1>10
  <2>2. Precedes(hits, places[i], places[j])
    BY <2>1 DEF Ranking
  <2>3. hits[places[i]].score \in Int /\ hits[places[j]].score \in Int
    BY <1>1, <2>1 DEF Hits
  <2>4. QED
    BY <1>6, <2>2, <2>3 DEF Precedes, Nearer
<1>11. QED
  BY <1>6, <1>8, <1>9, <1>10 DEF s

(***************************************************************************)
(* What either search returns of the hits.                                  *)
(***************************************************************************)
Best(result, hits, k) ==
  /\ result \in Seq(Hits) /\ Distinct(result)
  /\ Len(result) = IF k <= Len(hits) THEN k ELSE Len(hits)
  /\ Range(result) \subseteq Range(hits)
  /\ \A i, j \in 1..Len(result) : i < j => ~Nearer(result[j], result[i])
  /\ \A h \in Range(hits) \ Range(result), r \in Range(result) : ~Nearer(h, r)

\* The lesser of two numbers.
LEMMA MinIs == ASSUME NEW k \in Nat, NEW n \in Nat PROVE Min({k, n}) = IF k <= n THEN k ELSE n
<1> DEFINE m == IF k <= n THEN k ELSE n
<1>1. m \in {k, n} /\ \A y \in {k, n} : m <= y
  OBVIOUS
<1>2. \A x \in {k, n} : (\A y \in {k, n} : x <= y) => x = m
  OBVIOUS
<1> HIDE DEF m
<1>3. Min({k, n}) = m
  BY <1>1, <1>2 DEF Min
<1>4. QED
  BY <1>3 DEF m

\* Sequences of distinct hits have as many members as places.
LEMMA CountDistinct ==
  ASSUME NEW s \in Seq(Hits), Distinct(s)
  PROVE  IsFiniteSet(Range(s)) /\ Cardinality(Range(s)) = Len(s)
<1> DEFINE n == Len(s)
<1>1. n \in Nat /\ DOMAIN s = 1..n
  BY LenProperties
<1>2. s \in Bijection(1..n, Range(s))
  <2>1. s = [j \in 1..n |-> s[j]]
    BY <1>1, LenProperties
  <2>2. Range(s) = {s[j] : j \in 1..n}
    BY <1>1 DEF Range
  <2> HIDE DEF n
  <2>3. s \in [1..n -> Range(s)]
    BY <2>1, <2>2
  <2>4. \A h \in Range(s) : \E j \in 1..n : s[j] = h
    BY <2>2
  <2>5. \A i, j \in 1..n : s[i] = s[j] => i = j
    BY <1>1 DEF Distinct
  <2>6. QED
    BY <2>3, <2>4, <2>5 DEF Bijection, Injection, Surjection, IsInjective
<1>3. ExistsBijection(1..n, Range(s))
  BY <1>2 DEF ExistsBijection
<1> HIDE DEF n
<1>4. IsFiniteSet(Range(s))
  BY <1>1, <1>3, FS_NatBijection
<1>5. Cardinality(Range(s)) = n
  BY <1>1, <1>3, FS_CountingElements
<1>6. QED
  BY <1>4, <1>5 DEF n

\* The first of the sorted hits are the best.
LEMMA FirstBest ==
  ASSUME NEW hits \in Seq(Hits), Distinct(hits), NEW k \in Nat
  PROVE  Best(FirstK(SortHits(hits), k), hits, k)
<1> DEFINE s == SortHits(hits)
           n == Len(hits)
           m == IF k <= n THEN k ELSE n
           r == SubSeq(s, 1, m)
<1>1. n \in Nat /\ m \in Nat /\ m <= n
  BY LenProperties
<1>2. /\ s \in Seq(Hits) /\ Len(s) = n /\ Distinct(s) /\ Range(s) = Range(hits)
      /\ \A i, j \in 1..n : i < j => ~Nearer(s[j], s[i])
  BY SortHitsIs
<1> HIDE DEF s
<1>3. FirstK(s, k) = r
  BY <1>1, <1>2, MinIs DEF FirstK
<1> HIDE DEF m, n
<1>4. DOMAIN s = 1..n /\ \A i \in 1..n : s[i] \in Hits
  BY <1>1, <1>2, LenProperties, ElementOfSeq
<1>5. r \in Seq(Hits) /\ Len(r) = m /\ DOMAIN r = 1..m /\ \A i \in 1..m : r[i] = s[i]
  <2>1. \A i \in 1..m : s[i] \in Hits
    BY <1>1, <1>4
  <2>2. 1 \in Int /\ m \in Int /\ m - 1 + 1 = m /\ (IF 1 <= m THEN m - 1 + 1 ELSE 0) = m /\ \A i \in 1..m : 1 + i - 1 = i
    BY <1>1
  <2>3. r \in Seq(Hits) /\ Len(r) = m /\ \A i \in 1..m : r[i] = s[1 + i - 1]
    BY <2>1, <2>2, SubSeqProperties
  <2> HIDE DEF r
  <2>4. QED
    BY <2>2, <2>3, LenProperties
<1> HIDE DEF r
<1>6. \A i \in 1..m : i \in 1..n
  BY <1>1
<1>7. Distinct(r)
  BY <1>2, <1>4, <1>5, <1>6 DEF Distinct
<1>8. Range(r) = {s[i] : i \in 1..m} /\ Range(s) = {s[i] : i \in 1..n}
  <2>1. Range(r) = {r[i] : i \in 1..m} /\ Range(s) = {s[i] : i \in 1..n}
    BY <1>4, <1>5 DEF Range
  <2>2. QED
    BY <1>5, <2>1
<1>9. Range(r) \subseteq Range(hits)
  BY <1>2, <1>6, <1>8
<1>10. \A i, j \in 1..m : i < j => ~Nearer(r[j], r[i])
  BY <1>2, <1>5, <1>6
<1>11. ASSUME NEW h \in Range(hits) \ Range(r), NEW x \in Range(r) PROVE ~Nearer(h, x)
  <2>1. PICK j \in 1..n : h = s[j]
    BY <1>2, <1>8
  <2>2. PICK i \in 1..m : x = s[i]
    BY <1>8
  <2>3. j \notin 1..m
    BY <2>1, <1>8
  <2>4. i < j
    BY <1>1, <2>3
  <2>5. QED
    BY <1>2, <1>6, <2>1, <2>2, <2>4
<1>12. Best(r, hits, k)
  BY <1>5, <1>7, <1>9, <1>10, <1>11 DEF Best, m, n
<1>13. QED
  BY <1>3, <1>12 DEF s

(***************************************************************************)
(* The heap.                                                                *)
(***************************************************************************)
\* Of finitely many hits one is the farthest.
LEMMA LargestIs ==
  ASSUME NEW hits \in Seq(Hits), NEW S \in SUBSET DOMAIN hits, IsFiniteSet(S), S # {}
  PROVE  /\ Largest(hits, S) \in S
         /\ \A l \in S : hits[l].score <= hits[Largest(hits, S)].score
<1> DEFINE n == Cardinality(S)
           s == Sorted(S, Ranking(hits))
<1>1. /\ n \in Nat /\ s \in [1..n -> S]
      /\ \A k \in S : \E j \in 1..n : s[j] = k
      /\ \A i, j \in 1..n : i < j => <<s[i], s[j]>> \in Ranking(hits)
  BY RankingOrders, SortedAll
<1>2. n # 0
  BY FS_EmptySet
<1> HIDE DEF n, s
<1>3. n \in 1..n /\ s[n] \in S
  BY <1>1, <1>2
<1>4. \A l \in S : hits[l].score \in Int
  <2>1. \A l \in DOMAIN hits : hits[l] \in Hits
    BY LenProperties, ElementOfSeq
  <2>2. QED
    BY <2>1 DEF Hits
<1>5. ASSUME NEW l \in S PROVE hits[l].score <= hits[s[n]].score
  <2>1. PICK j \in 1..n : s[j] = l
    BY <1>1
  <2>2. CASE j = n
    BY <1>4, <2>1, <2>2
  <2>3. CASE j # n
    <3>1. <<l, s[n]>> \in Ranking(hits)
      BY <1>1, <1>3, <2>1, <2>3
    <3>2. Precedes(hits, l, s[n])
      BY <3>1 DEF Ranking
    <3>3. QED
      BY <3>2, <1>3, <1>4 DEF Precedes, Nearer
  <2>4. QED
    BY <2>2, <2>3
<1>6. \E i \in S : \A l \in S : hits[l].score <= hits[i].score
  BY <1>3, <1>5
<1>7. QED
  BY <1>6 DEF Largest

LEMMA LeastExists ==
  ASSUME NEW S \in SUBSET Nat, S # {}
  PROVE  \E x \in S : \A y \in S : x <= y
<1> DEFINE R == OpToRel(<, Nat)
<1>1. PICK x \in S : \A y \in S : <<y, x>> \notin R
  BY NatLessThanWellFounded, WFMin
<1>2. \A z, y \in Nat : y < z => <<y, z>> \in R
  BY DEF OpToRel
<1> HIDE DEF R
<1>3. \A y \in S : ~(y < x)
  BY <1>1, <1>2
<1>4. QED
  BY <1>1, <1>3

\* What the heap is after each of the first hits.
IsHeap(heap, hits, k, m) ==
  heap = [n \in 0..m |->
            IF n = 0 THEN {}
            ELSE LET h == heap[n - 1] \cup {n}
                 IN IF Cardinality(h) <= k THEN h ELSE h \ {Largest(hits, h)}]

\* (See Kept.)
LEMMA HeapExists == ASSUME NEW hits, NEW k, NEW n \in Nat PROVE \E f : IsHeap(f, hits, k, n)
<1> DEFINE Can(m) == \E f : IsHeap(f, hits, k, m)
           S == {m \in 0..n : ~Can(m)}
<1> HIDE DEF Can
<1> SUFFICES ASSUME S # {} PROVE FALSE
  <2>1. n \in 0..n
    OBVIOUS
  <2>2. S = {} => Can(n)
    BY <2>1
  <2>3. QED
    BY <2>2 DEF Can
<1>1. PICK m \in S : \A y \in S : m <= y
  <2>1. S \in SUBSET Nat
    OBVIOUS
  <2> HIDE DEF S
  <2>2. QED
    BY <2>1, LeastExists
<1>2. m \in 0..n /\ ~\E f : IsHeap(f, hits, k, m)
  BY <1>1 DEF Can
<1>3. m # 0
  <2> DEFINE f == [i \in 0..0 |-> {}]
  <2>1. f = [i \in 0..0 |-> IF i = 0 THEN {}
                            ELSE LET h == f[i - 1] \cup {i}
                                 IN IF Cardinality(h) <= k THEN h ELSE h \ {Largest(hits, h)}]
    OBVIOUS
  <2>2. IsHeap(f, hits, k, 0)
    BY <2>1 DEF IsHeap
  <2>3. QED
    BY <1>2, <2>2
<1>4. m - 1 \in 0..n /\ m - 1 \notin S
  <2> HIDE DEF S
  <2>1. QED
    BY <1>1, <1>2, <1>3
<1>5. PICK f : IsHeap(f, hits, k, m - 1)
  BY <1>4 DEF Can
<1> DEFINE step(n_, h) == IF Cardinality(h) <= k THEN h ELSE h \ {Largest(hits, h)}
           g == [i \in 0..m |-> IF i = m THEN step(m, f[m - 1] \cup {m}) ELSE f[i]]
<1>6. ASSUME NEW i \in 0..m PROVE g[i] = IF i = 0 THEN {} ELSE step(i, g[i - 1] \cup {i})
  <2> HIDE DEF step
  <2>1. CASE i = m
    <3>1. m - 1 \in 0..m /\ m - 1 # m
      BY <1>2, <1>3
    <3>2. QED
      BY <1>3, <2>1, <3>1
  <2>2. CASE i # m
    <3>1. i \in 0..m - 1 /\ g[i] = f[i]
      BY <1>2, <2>2
    <3>2. f[i] = IF i = 0 THEN {} ELSE step(i, f[i - 1] \cup {i})
      BY <1>5, <3>1 DEF IsHeap, step
    <3>3. i # 0 => i - 1 \in 0..m /\ i - 1 # m
      BY <1>2, <3>1
    <3>4. QED
      BY <3>1, <3>2, <3>3
  <2>3. QED
    BY <2>1, <2>2
<1>7. g = [i \in 0..m |-> g[i]]
  OBVIOUS
<1> HIDE DEF g
<1>8. g = [i \in 0..m |-> IF i = 0 THEN {} ELSE step(i, g[i - 1] \cup {i})]
  BY <1>6, <1>7
<1>9. IsHeap(g, hits, k, m)
  BY <1>8 DEF IsHeap, step
<1>10. QED
  BY <1>2, <1>9

\* The heap has as many as it may, and none that is farther than one it gave up.
LEMMA KeptIs ==
  ASSUME NEW hits \in Seq(Hits), NEW k \in Nat
  PROVE  /\ Kept(hits, k) \in SUBSET (1..Len(hits)) /\ IsFiniteSet(Kept(hits, k))
         /\ Cardinality(Kept(hits, k)) = IF k <= Len(hits) THEN k ELSE Len(hits)
         /\ \A i \in (1..Len(hits)) \ Kept(hits, k), j \in Kept(hits, k) :
              hits[j].score <= hits[i].score
<1> DEFINE n == Len(hits)
           heap == CHOOSE f : IsHeap(f, hits, k, n)
<1>1. n \in Nat /\ DOMAIN hits = 1..n /\ \A i \in 1..n : hits[i].score \in Nat
  <2>1. n \in Nat /\ DOMAIN hits = 1..n /\ \A i \in 1..n : hits[i] \in Hits
    BY LenProperties, ElementOfSeq
  <2>2. QED
    BY <2>1 DEF Hits
<1> HIDE DEF n
<1>2. IsHeap(heap, hits, k, n)
  BY <1>1, HeapExists
<1>3. Kept(hits, k) = heap[n]
  BY DEF Kept, IsHeap, n
<1> HIDE DEF heap
<1> DEFINE Good(m) ==
      /\ heap[m] \in SUBSET (1..m) /\ IsFiniteSet(heap[m])
      /\ Cardinality(heap[m]) = IF k <= m THEN k ELSE m
      /\ \A i \in (1..m) \ heap[m], j \in heap[m] : hits[j].score <= hits[i].score
<1>4. Good(0)
  <2>1. heap[0] = {}
    BY <1>1, <1>2 DEF IsHeap
  <2>2. QED
    BY <2>1, FS_EmptySet
<1>5. ASSUME NEW m \in 1..n, Good(m - 1) PROVE Good(m)
  <2> DEFINE old == heap[m - 1]
             h == old \cup {m}
  <2>1. heap[m] = IF Cardinality(h) <= k THEN h ELSE h \ {Largest(hits, h)}
    <3>1. \A i \in 0..n : heap[i] = IF i = 0 THEN {}
                                  ELSE LET g == heap[i - 1] \cup {i}
                                       IN IF Cardinality(g) <= k THEN g ELSE g \ {Largest(hits, g)}
      BY <1>2 DEF IsHeap
    <3>2. m \in 0..n /\ m # 0
      BY <1>1
    <3>3. QED
      BY <3>1, <3>2
  <2>2. /\ old \in SUBSET (1..m - 1) /\ IsFiniteSet(old)
        /\ Cardinality(old) = IF k <= m - 1 THEN k ELSE m - 1
        /\ \A i \in (1..m - 1) \ old, j \in old : hits[j].score <= hits[i].score
    BY <1>5
  <2> HIDE DEF old
  <2>3. h \in SUBSET (1..m) /\ m \notin old /\ h \in SUBSET DOMAIN hits
    BY <1>1, <2>2
  <2>4. IsFiniteSet(h) /\ Cardinality(h) = Cardinality(old) + 1
    BY <2>2, <2>3, FS_AddElement
  <2>5. CASE Cardinality(h) <= k
    <3>1. Cardinality(old) = m - 1 /\ Cardinality(h) = m /\ m <= k
      BY <1>1, <2>2, <2>4, <2>5
    <3>2. IsFiniteSet(1..m - 1) /\ Cardinality(1..m - 1) = m - 1
      <4>1. m - 1 \in Int /\ 1 \in Int /\ (IF 1 > m - 1 THEN 0 ELSE m - 1 - 1 + 1) = m - 1
        BY <1>1
      <4>2. QED
        BY <4>1, FS_Interval
    <3>3. old = 1..m - 1
      BY <2>2, <3>1, <3>2, FS_Subset
    <3>4. h = 1..m
      BY <1>1, <3>3
    <3>5. heap[m] = h /\ Cardinality(h) = IF k <= m THEN k ELSE m
      BY <1>1, <2>1, <2>5, <3>1
    <3> HIDE DEF h
    <3>6. QED
      BY <2>3, <2>4, <3>4, <3>5
  <2>6. CASE ~(Cardinality(h) <= k)
    <3> DEFINE x == Largest(hits, h)
    <3>1. Cardinality(old) = k /\ Cardinality(h) = k + 1 /\ k <= m - 1
      BY <1>1, <2>2, <2>4, <2>6
    <3>2. x \in h /\ \A l \in h : hits[l].score <= hits[x].score
      BY <2>3, <2>4, LargestIs
    <3> HIDE DEF x
    <3>3. heap[m] = h \ {x}
      BY <2>1, <2>6 DEF x
    <3>4. IsFiniteSet(h \ {x}) /\ Cardinality(h \ {x}) = k
      <4> HIDE DEF h
      <4>1. IsFiniteSet(h \ {x}) /\ Cardinality(h \ {x}) = Cardinality(h) - 1
        BY <2>4, <3>2, FS_RemoveElement
      <4>2. QED
        BY <3>1, <4>1
    <3>5. ASSUME NEW i \in (1..m) \ (h \ {x}), NEW j \in h \ {x} PROVE hits[j].score <= hits[i].score
      <4>1. CASE i = x
        BY <3>2, <4>1
      <4>2. CASE i # x
        <5>1. i \in (1..m - 1) \ old
          BY <1>1, <4>2
        <5>2. CASE j \in old
          BY <2>2, <5>1, <5>2
        <5>3. CASE j \notin old
          <6>1. j = m /\ x \in old
            BY <3>2, <5>3
          <6>2. hits[x].score <= hits[i].score /\ hits[j].score <= hits[x].score
            BY <2>2, <3>2, <5>1, <6>1
          <6>3. i \in 1..n /\ j \in 1..n /\ x \in 1..n
            BY <1>1, <2>3, <3>2
          <6>4. QED
            BY <1>1, <6>2, <6>3
        <5>4. QED
          BY <5>2, <5>3
      <4>3. QED
        BY <4>1, <4>2
    <3>6. k = IF k <= m THEN k ELSE m
      BY <1>1, <3>1
    <3> HIDE DEF h
    <3>7. QED
      BY <2>3, <3>3, <3>4, <3>5, <3>6
  <2>7. QED
    BY <2>5, <2>6
<1> HIDE DEF Good
<1>6. Good(n)
  <2> DEFINE S == {m \in 0..n : ~Good(m)}
  <2>1. S \in SUBSET Nat
    BY <1>1
  <2>2. S = {} => Good(n)
    BY <1>1
  <2> SUFFICES ASSUME S # {} PROVE FALSE
    BY <2>2
  <2>3. PICK m \in S : \A y \in S : m <= y
    <3> HIDE DEF S
    <3>1. QED
      BY <2>1, LeastExists
  <2>4. m \in 1..n /\ ~Good(m)
    BY <1>1, <1>4, <2>3
  <2>5. m - 1 \in 0..n /\ m - 1 \notin S
    <3> HIDE DEF S
    <3>1. QED
      BY <1>1, <2>3, <2>4
  <2>6. QED
    BY <1>5, <2>4, <2>5
<1>7. QED
  BY <1>3, <1>6 DEF Good, n

\* What the parallel search finds of the hits is the best.
LEMMA TopKBest ==
  ASSUME NEW hits \in Seq(Hits), Distinct(hits), NEW k \in Nat
  PROVE  Best(TopKSmallest(hits, k), hits, k)
<1> DEFINE n == Len(hits)
           K == Kept(hits, k)
           c == Cardinality(K)
           kept == SetToSeq(K)
           q == [j \in DOMAIN kept |-> hits[kept[j]]]
<1>1. n \in Nat /\ DOMAIN hits = 1..n /\ \A i \in 1..n : hits[i] \in Hits
  BY LenProperties, ElementOfSeq
<1>2. /\ K \in SUBSET (1..n) /\ IsFiniteSet(K) /\ c = IF k <= n THEN k ELSE n
      /\ \A i \in (1..n) \ K, j \in K : hits[j].score <= hits[i].score
  BY KeptIs
<1>3. TopKSmallest(hits, k) = SortHits(q)
  BY DEF TopKSmallest
<1> HIDE DEF K
<1>4. /\ c \in Nat /\ kept \in [1..c -> K]
      /\ \A i, j \in 1..c : kept[i] = kept[j] => i = j
      /\ \A i \in K : \E j \in 1..c : kept[j] = i
  <2>1. c \in Nat /\ \E f : f \in Bijection(1..c, K)
    BY <1>2, FS_CardinalityType DEF ExistsBijection
  <2>2. \E f \in [1..c -> K] : IsInjective(f)
    BY <2>1 DEF Bijection, Injection, IsInjective
  <2>3. kept \in [1..c -> K] /\ IsInjective(kept)
    BY <2>2 DEF SetToSeq
  <2> HIDE DEF kept
  <2>4. kept \in Injection(1..c, K)
    BY <2>3 DEF Injection, IsInjective
  <2>5. IsFiniteSet(1..c) /\ Cardinality(1..c) = c
    <3>1. (IF 1 > c THEN 0 ELSE c - 1 + 1) = c /\ c \in Int /\ 1 \in Int
      BY <2>1
    <3> HIDE DEF c
    <3>2. QED
      BY <3>1, FS_Interval
  <2>6. kept \in Surjection(1..c, K)
    BY <1>2, <2>4, <2>5, FS_Injection
  <2>7. QED
    BY <2>1, <2>3, <2>6 DEF IsInjective, Surjection
<1> HIDE DEF kept, c
<1>5. q \in Seq(Hits) /\ Len(q) = c /\ DOMAIN q = 1..c /\ \A j \in 1..c : q[j] = hits[kept[j]]
  <2>1. q \in [1..c -> Hits]
    BY <1>1, <1>2, <1>4
  <2>2. \A j \in 1..c : q[j] = hits[kept[j]]
    BY <1>4
  <2> HIDE DEF q
  <2>3. q \in Seq(Hits)
    BY <1>4, <2>1, SeqDef
  <2>4. Len(q) = c
    BY <1>4, <2>1, <2>3, LenProperties
  <2>5. QED
    BY <2>1, <2>2, <2>3, <2>4
<1> HIDE DEF q
<1>6. Distinct(q)
  <2> SUFFICES ASSUME NEW i \in 1..c, NEW j \in 1..c, q[i] = q[j] PROVE i = j
    BY <1>5 DEF Distinct
  <2>1. kept[i] \in 1..n /\ kept[j] \in 1..n /\ hits[kept[i]] = hits[kept[j]]
    BY <1>2, <1>4, <1>5
  <2>2. kept[i] = kept[j]
    BY <1>1, <2>1 DEF Distinct
  <2>3. QED
    BY <1>4, <2>2
<1> DEFINE s == SortHits(q)
<1>7. /\ s \in Seq(Hits) /\ Len(s) = c /\ Distinct(s) /\ Range(s) = Range(q)
      /\ \A i, j \in 1..c : i < j => ~Nearer(s[j], s[i])
  BY <1>5, <1>6, SortHitsIs
<1> HIDE DEF s
<1>8. Range(q) = {hits[i] : i \in K} /\ Range(hits) = {hits[i] : i \in 1..n}
  <2>1. Range(q) = {q[j] : j \in 1..c} /\ Range(hits) = {hits[i] : i \in 1..n}
    BY <1>1, <1>5 DEF Range
  <2>2. \A j \in 1..c : \E i \in K : q[j] = hits[i]
    BY <1>4, <1>5
  <2>3. \A i \in K : \E j \in 1..c : hits[i] = q[j]
    BY <1>4, <1>5
  <2>4. QED
    BY <2>1, <2>2, <2>3
<1>9. Range(s) \subseteq Range(hits)
  BY <1>2, <1>7, <1>8
<1>10. ASSUME NEW h \in Range(hits) \ Range(s), NEW r \in Range(s) PROVE ~Nearer(h, r)
  <2>1. PICK i \in 1..n : h = hits[i]
    BY <1>8
  <2>2. PICK j \in K : r = hits[j]
    BY <1>7, <1>8
  <2>3. i \notin K
    BY <1>7, <1>8, <2>1
  <2>4. hits[j].score <= hits[i].score /\ hits[j].score \in Int /\ hits[i].score \in Int
    <3>1. hits[i] \in Hits /\ hits[j] \in Hits
      BY <1>1, <1>2
    <3>2. QED
      BY <1>2, <2>3, <3>1 DEF Hits
  <2>5. QED
    BY <2>1, <2>2, <2>4 DEF Nearer
<1>11. Best(s, hits, k)
  BY <1>2, <1>7, <1>9, <1>10 DEF Best, n
<1>12. QED
  BY <1>3, <1>11 DEF s

(***************************************************************************)
(* Searches of the points.                                                  *)
(***************************************************************************)
\* Numbers in order.
LEMMA AscendingIs ==
  ASSUME NEW S \in SUBSET Nat, IsFiniteSet(S)
  PROVE  /\ Cardinality(S) \in Nat
         /\ Ascending(S) \in [1..Cardinality(S) -> S]
         /\ \A k \in S : \E j \in 1..Cardinality(S) : Ascending(S)[j] = k
         /\ \A i, j \in 1..Cardinality(S) : Ascending(S)[i] = Ascending(S)[j] => i = j
<1> DEFINE order == {pair \in S \X S : pair[1] < pair[2]}
<1>1. \A k, l \in S : <<k, l>> \in order <=> k < l
  OBVIOUS
<1> HIDE DEF order
<1>2. StrictOrder(S, order)
  BY <1>1 DEF StrictOrder
<1>3. Ascending(S) = Sorted(S, order)
  BY DEF Ascending, order
<1>4. /\ Cardinality(S) \in Nat
      /\ Ascending(S) \in [1..Cardinality(S) -> S]
      /\ \A k \in S : \E j \in 1..Cardinality(S) : Ascending(S)[j] = k
      /\ \A i, j \in 1..Cardinality(S) : i < j => <<Ascending(S)[i], Ascending(S)[j]>> \in order
  BY <1>2, <1>3, SortedAll
<1>5. ASSUME NEW i \in 1..Cardinality(S), NEW j \in 1..Cardinality(S), Ascending(S)[i] = Ascending(S)[j]
      PROVE  i = j
  <2>1. Ascending(S)[i] \in S /\ Ascending(S)[j] \in S
    BY <1>4
  <2>2. ~(i < j) /\ ~(j < i)
    <3> DEFINE x == Ascending(S)[i]
    <3>1. x \in S
      BY <2>1
    <3>2. Ascending(S)[j] = x
      BY <1>5
    <3> HIDE DEF x
    <3>3. <<x, x>> \notin order
      BY <1>1, <3>1
    <3>4. <<Ascending(S)[i], Ascending(S)[j]>> \notin order /\ <<Ascending(S)[j], Ascending(S)[i]>> \notin order
      BY <3>2, <3>3 DEF x
    <3>5. QED
      BY <1>4, <3>4
  <2>3. QED
    BY <2>2
<1>6. QED
  BY <1>4, <1>5

\* Each point once.
Apart(ps) == \A i, j \in DOMAIN ps : ps[i].id = ps[j].id => i = j

\* The matching points' hits, each once.
LEMMA MatchingIs ==
  ASSUME NEW ps \in Seq(Point), Apart(ps), NEW flt
  PROVE  /\ Matching(ps, flt) \in Seq(Hits) /\ Distinct(Matching(ps, flt))
         /\ Range(Matching(ps, flt)) = {Hit(p) : p \in {q \in Range(ps) : MatchesFilter(q, flt)}}
<1> DEFINE n == Len(ps)
           F == {i \in DOMAIN ps : MatchesFilter(ps[i], flt)}
           c == Cardinality(F)
           found == Ascending(F)
           m == Matching(ps, flt)
<1>1. n \in Nat /\ DOMAIN ps = 1..n /\ \A i \in 1..n : ps[i] \in Point
  BY LenProperties, ElementOfSeq
<1>2. F \in SUBSET Nat /\ IsFiniteSet(F)
  <2>1. IsFiniteSet(1..n)
    BY <1>1, FS_Interval
  <2>2. F \in SUBSET (1..n)
    BY <1>1
  <2> HIDE DEF F, n
  <2>3. QED
    <3>1. IsFiniteSet(F)
      BY <2>1, <2>2, FS_Subset
    <3>2. QED
      BY <2>2, <3>1
<1>3. \A i \in F : i \in 1..n /\ MatchesFilter(ps[i], flt)
  BY <1>1
<1>4. \A i \in 1..n : MatchesFilter(ps[i], flt) => i \in F
  BY <1>1
<1>5. m = [j \in DOMAIN found |-> Hit(ps[found[j]])]
  BY DEF Matching
<1> HIDE DEF F, m
<1>6. /\ c \in Nat /\ found \in [1..c -> F]
      /\ \A k \in F : \E j \in 1..c : found[j] = k
      /\ \A i, j \in 1..c : found[i] = found[j] => i = j
  BY <1>2, AscendingIs
<1> HIDE DEF found, c
<1>7. ASSUME NEW p \in Point PROVE Hit(p) \in Hits /\ Hit(p).id = p.id
  BY SearchAssumption DEF Hit, Hits, Point
<1>8. m \in Seq(Hits) /\ DOMAIN m = 1..c /\ \A j \in 1..c : m[j] = Hit(ps[found[j]])
  <2>1. DOMAIN found = 1..c
    BY <1>6
  <2>2. \A j \in 1..c : Hit(ps[found[j]]) \in Hits
    BY <1>1, <1>3, <1>6, <1>7
  <2>3. m \in [1..c -> Hits] /\ \A j \in 1..c : m[j] = Hit(ps[found[j]])
    BY <1>5, <2>1, <2>2
  <2>4. m \in Seq(Hits)
    BY <1>6, <2>3, SeqDef
  <2>5. QED
    BY <2>3, <2>4
<1>9. Distinct(m)
  <2> SUFFICES ASSUME NEW i \in 1..c, NEW j \in 1..c, m[i] = m[j] PROVE i = j
    BY <1>8 DEF Distinct
  <2>1. found[i] \in 1..n /\ found[j] \in 1..n
    BY <1>3, <1>6
  <2>2. ps[found[i]].id = ps[found[j]].id
    BY <1>1, <1>7, <1>8, <2>1
  <2>3. found[i] = found[j]
    BY <1>1, <2>1, <2>2 DEF Apart
  <2>4. QED
    BY <1>6, <2>3
<1>10. Range(m) = {Hit(p) : p \in {q \in Range(ps) : MatchesFilter(q, flt)}}
  <2>1. Range(m) = {m[j] : j \in 1..c} /\ Range(ps) = {ps[i] : i \in 1..n}
    BY <1>1, <1>8 DEF Range
  <2>2. ASSUME NEW j \in 1..c PROVE \E p \in Range(ps) : MatchesFilter(p, flt) /\ m[j] = Hit(p)
    <3>1. found[j] \in 1..n /\ MatchesFilter(ps[found[j]], flt) /\ m[j] = Hit(ps[found[j]])
      BY <1>3, <1>6, <1>8
    <3>2. QED
      BY <2>1, <3>1
  <2>3. ASSUME NEW p \in Range(ps), MatchesFilter(p, flt) PROVE \E j \in 1..c : m[j] = Hit(p)
    <3>1. PICK i \in 1..n : p = ps[i]
      BY <2>1
    <3>2. i \in F
      BY <1>4, <2>3, <3>1
    <3>3. QED
      BY <1>6, <1>8, <3>1, <3>2
  <2>4. QED
    BY <2>1, <2>2, <2>3
<1>11. QED
  BY <1>8, <1>9, <1>10 DEF m

\* A search of any points, each with an id of its own, returns the nearest that
\* match, one by one or in parallel (rocks.rs 171-258, memory.rs 281-368).
LEMMA SearchBest ==
  ASSUME NEW ps \in Seq(Point), Apart(ps), NEW k \in Nat, NEW flt, NEW threshold
  PROVE  IsBest(Search(ps, k, flt, threshold), ps, k, flt)
<1> DEFINE hits == Matching(ps, flt)
           r == Search(ps, k, flt, threshold)
           matching == {Hit(p) : p \in {q \in Range(ps) : MatchesFilter(q, flt)}}
<1>1. hits \in Seq(Hits) /\ Distinct(hits) /\ Range(hits) = matching
  BY MatchingIs
<1> HIDE DEF hits, matching
<1>2. r = TopKSmallest(hits, k) \/ r = FirstK(SortHits(hits), k)
  BY DEF Search, SearchParallel, SearchSequential, hits
<1> HIDE DEF r
<1>3. Best(r, hits, k)
  BY <1>1, <1>2, TopKBest, FirstBest
<1>4. Cardinality(matching) = Len(hits) /\ Len(hits) \in Nat /\ Cardinality(Range(r)) = Len(r)
  BY <1>1, <1>3, CountDistinct, LenProperties DEF Best
<1>5. Len(r) = Min({k, Cardinality(matching)}) /\ Len(r) \in Nat
  BY <1>3, <1>4, MinIs DEF Best
<1>6. \A j \in 2..Len(r) : ~Nearer(r[j], r[j - 1])
  <2> SUFFICES ASSUME NEW j \in 2..Len(r) PROVE ~Nearer(r[j], r[j - 1])
    OBVIOUS
  <2>1. j - 1 \in 1..Len(r) /\ j \in 1..Len(r) /\ j - 1 < j
    BY <1>5
  <2>2. QED
    BY <1>3, <2>1 DEF Best
<1>7. QED
  BY <1>1, <1>3, <1>4, <1>5, <1>6 DEF IsBest, Best, r, matching

(***************************************************************************)
(* Every point is under its id, in memory of a scan too.                    *)
(***************************************************************************)
Keyed(points) == \A i \in DOMAIN points : points[i].id = i

KeyedTask(l) == l.req.op = "updateUri" => Keyed(l.seen)

KeyedInv == (\A s \in durable : Keyed(s.data)) /\ \A t \in Task : KeyedTask(task[t])

\* A rewritten point keeps its id.
LEMMA RebaseId ==
  ASSUME NEW p \in Point, NEW old, NEW new
  PROVE  RebasePoint(p, old, new).id = p.id
<1> DEFINE q == [p EXCEPT !.uri = Rebase(@, old, new)]
<1>1. DOMAIN p = {"id", "uri", "parent", "vec"}
  BY DEF Point
<1>2. q.id = p.id /\ DOMAIN q = DOMAIN p
  BY <1>1
<1> HIDE DEF q
<1>3. [q EXCEPT !.parent = Rebase(@, old, new)].id = q.id
  BY <1>1, <1>2
<1>4. RebasePoint(p, old, new) = [q EXCEPT !.parent = Rebase(@, old, new)]
  BY DEF RebasePoint, q
<1>5. QED
  BY <1>2, <1>3, <1>4

\* What each step writes under an id has that id.
LEMMA KeyedWrites ==
  ASSUME TypeInv, KeyedInv, NEW t \in Task, Step(t)
  PROVE  Keyed(kv'.data)
<1>1. kv \in durable /\ Keyed(kv.data) /\ KeyedTask(task[t])
  BY DEF TypeInv, StoreInv, KeyedInv
<1>2. CASE ReadOnly
  BY <1>1, <1>2 DEF ReadOnly
<1>3. CASE PutMeta(t) \/ PutCount(t) \/ DeleteUri(t)
  BY <1>1, <1>3, Writes DEF Written
<1>4. CASE CommitUpsert(t)
  <2>1. \A i \in DOMAIN ById(task[t].req.points) : ById(task[t].req.points)[i].id = i
    BY DEF ById
  <2>2. kv'.data = Overlay(ById(task[t].req.points), kv.data)
    BY <1>4, Writes DEF Written
  <2>3. QED
    BY <1>1, <2>1, <2>2 DEF Overlay, Keyed
<1>5. CASE DeleteData(t) \/ CommitDelete(t)
  <2>1. \E ks : kv'.data = Without(kv.data, ks)
    BY <1>5, Writes DEF Written
  <2>2. QED
    BY <1>1, <2>1 DEF Without, Keyed
<1>6. CASE CommitMove(t)
  <2> DEFINE found == task[t].seen
             moved == Moved(found, task[t].req)
  <2>1. task[t].req.op = "updateUri" /\ Keyed(found)
    BY <1>1, <1>6 DEF CommitMove, At, KeyedTask
  <2>2. MapsTo(found, Id, Point)
    BY <2>1, CurrentGood DEF GoodLocal, Local
  <2>3. kv'.data = Overlay(moved, kv.data)
    BY <1>6, Writes DEF Written
  <2>4. \A i \in DOMAIN moved : i \in DOMAIN found /\ moved[i].id = found[i].id
    BY <2>2, RebaseId DEF Moved, MapsTo
  <2> HIDE DEF moved, found
  <2>5. QED
    BY <1>1, <2>1, <2>3, <2>4 DEF Overlay, Keyed
<1>7. QED
  BY <1>2, <1>3, <1>4, <1>5, <1>6
     DEF Step, Proceed, Call, Refuse, NoCollectionYet, LoadMeta, CheckPoint, RejectPoint, Lookup,
         ScanIndex, ScanData

\* What each task has seen, it has seen under its id.
LEMMA KeyedScans ==
  ASSUME TypeInv, KeyedInv, NEW t \in Task, Step(t)
  PROVE  \A u \in Task : KeyedTask(task'[u])
<1>1. /\ Keyed(kv.data) /\ KeyedTask(task[t]) /\ Local(task[t])
      /\ task = [u \in Task |-> task[u]] /\ \A u \in Task : KeyedTask(task[u])
  BY CurrentGood DEF TypeInv, StoreInv, TasksInv, KeyedInv, GoodLocal
<1>2. SUFFICES KeyedTask(task'[t])
  <2>1. ASSUME NEW u \in Task, u # t PROVE task'[u] = task[u]
    BY <1>1, <2>1
       DEF Step, Proceed, Call, Refuse, NoCollectionYet, LoadMeta, PutMeta, PutCount, CheckPoint,
           RejectPoint, CommitUpsert, Lookup, DeleteUri, DeleteData, ScanIndex, CommitDelete,
           ScanData, CommitMove, Return, Goto, WriteCountOrReturn, Remember
  <2>2. QED
    BY <1>1, <2>1
<1>3. ASSUME task'[t].seen = <<>> PROVE KeyedTask(task'[t])
  BY <1>3 DEF KeyedTask, Keyed
<1>4. ASSUME task'[t].seen = task[t].seen, task'[t].req = task[t].req PROVE KeyedTask(task'[t])
  BY <1>1, <1>4 DEF KeyedTask
<1>5. CASE Return(t)
  <2>1. task'[t] = Fresh
    BY <1>1, <1>5 DEF Return
  <2>2. QED
    BY <1>3, <2>1 DEF Fresh
<1>6. CASE \E pc : Goto(t, pc)
  BY <1>4, <1>6, Remembered DEF Remembers
<1>7. CASE CheckPoint(t)
  BY <1>4, <1>7, Remembered DEF Remembers
<1>8. CASE Call(t)
  <2>1. PICK r \in Requests :
          task' = [task EXCEPT ![t] = [Fresh EXCEPT !.pc = "meta", !.req = r]]
    BY <1>8 DEF Call
  <2> DEFINE l == [Fresh EXCEPT !.pc = "meta", !.req = r]
  <2>2. l.seen = <<>>
    BY DEF Fresh
  <2> HIDE DEF l
  <2>3. task'[t] = l
    BY <1>1, <2>1 DEF l
  <2>4. QED
    BY <1>3, <2>2, <2>3
<1>9. CASE LoadMeta(t)
  <2> DEFINE pc == FirstStep[task[t].req.op]
             l == [task[t] EXCEPT !.pc = pc, !.base = kv.count, !.target = kv.count]
  <2>1. task'[t] = l
    BY <1>1, <1>9 DEF LoadMeta
  <2>2. l = TaskRecord(pc, task[t].req, kv.count, kv.count, task[t].at, task[t].seen)
    BY <1>1, MetaRewritten
  <2> HIDE DEF l
  <2>3. QED
    BY <1>4, <2>1, <2>2 DEF TaskRecord
<1>10. CASE Lookup(t) \/ ScanIndex(t)
  <2>1. task[t].req.op # "updateUri" /\ \E found, target, next : Remember(t, found, target, next)
    BY <1>10 DEF Lookup, ScanIndex, At
  <2>2. task'[t].req = task[t].req
    BY <2>1, Remembered DEF Remembers
  <2>3. QED
    BY <2>1, <2>2 DEF KeyedTask
<1>11. CASE ScanData(t)
  <2>1. task'[t].seen = kv.data
    BY <1>11, Remembered DEF ScanData, Remembers
  <2>2. QED
    BY <1>1, <2>1 DEF KeyedTask
<1>12. QED
  BY <1>5, <1>6, <1>7, <1>8, <1>9, <1>10, <1>11
     DEF Step, Proceed, Refuse, NoCollectionYet, PutMeta, PutCount,
         RejectPoint, CommitUpsert, DeleteUri, DeleteData, CommitDelete,
         CommitMove, WriteCountOrReturn

\* Every step of a task, a crash and a loss of power keep points under their ids.
LEMMA NextKeyed == TypeInv /\ KeyedInv /\ [Next]_vars => KeyedInv'
<1> SUFFICES ASSUME TypeInv, KeyedInv, [Next]_vars PROVE KeyedInv'
  OBVIOUS
<1>1. CASE UNCHANGED vars
  BY <1>1 DEF vars, KeyedInv, KeyedTask, Keyed
<1>2. CASE Crash \/ PowerLoss
  <2>1. \A s \in durable' : s \in durable
    BY <1>2 DEF Crash, PowerLoss
  <2>2. \A t \in Task : task'[t] = Fresh
    BY <1>2 DEF Crash, PowerLoss
  <2>3. KeyedTask(Fresh)
    BY DEF KeyedTask, Fresh, NoRequest
  <2>4. QED
    BY <2>1, <2>2, <2>3 DEF KeyedInv
<1>3. CASE Serve
  <2>1. PICK t \in Task : Step(t)
    BY <1>3 DEF Serve
  <2>2. \A s \in durable' : s \in durable \/ s = kv'
    <3>1. ReadOnly \/ \E new : Put(new) \/ Commit(new)
      BY <2>1
         DEF Step, Proceed, Call, Refuse, NoCollectionYet, LoadMeta, PutMeta, PutCount, CheckPoint,
             RejectPoint, CommitUpsert, Lookup, DeleteUri, DeleteData, ScanIndex, CommitDelete,
             ScanData, CommitMove
    <3>2. QED
      BY <3>1 DEF ReadOnly, Put, Commit
  <2>3. Keyed(kv'.data) /\ \A u \in Task : KeyedTask(task'[u])
    BY <2>1, KeyedWrites, KeyedScans
  <2>4. QED
    BY <2>2, <2>3 DEF KeyedInv
<1>4. QED
  BY <1>1, <1>2, <1>3 DEF Next

\* The points in key order, or in the reverse order, are points each with an id
\* of its own.
LEMMA InKeyOrderIs ==
  ASSUME NEW points, MapsTo(points, Id, Point), IsFiniteSet(DOMAIN points), Keyed(points)
  PROVE  /\ InKeyOrder(points) \in Seq(Point) /\ Apart(InKeyOrder(points))
         /\ Reverse(InKeyOrder(points)) \in Seq(Point) /\ Apart(Reverse(InKeyOrder(points)))
<1> DEFINE n == Cardinality(DOMAIN points)
           ids == Ascending(DOMAIN points)
           ps == InKeyOrder(points)
           back == Reverse(ps)
<1>1. DOMAIN points \in SUBSET Nat
  BY PointsAssumption DEF MapsTo
<1>2. /\ n \in Nat /\ ids \in [1..n -> DOMAIN points]
      /\ \A i, j \in 1..n : ids[i] = ids[j] => i = j
  BY <1>1, AscendingIs
<1> HIDE DEF ids, n
<1>3. \A i \in DOMAIN points : points[i] \in Point /\ points[i].id = i
  BY DEF MapsTo, Keyed
<1>4. ps = [j \in 1..n |-> points[ids[j]]]
  BY <1>2 DEF InKeyOrder, ids
<1> HIDE DEF ps
<1>5. ps \in [1..n -> Point]
  BY <1>2, <1>3, <1>4
<1>6. ps \in Seq(Point) /\ Len(ps) = n /\ DOMAIN ps = 1..n
  <2>1. ps \in Seq(Point)
    BY <1>2, <1>5, SeqDef
  <2>2. QED
    BY <1>2, <1>5, <2>1, LenProperties
<1>7. \A i, j \in 1..n : ps[i].id = ps[j].id => i = j
  BY <1>2, <1>3, <1>4
<1>8. back = [i \in 1..n |-> ps[(n - i) + 1]]
  BY <1>6 DEF Reverse
<1> HIDE DEF back
<1>9. \A i \in 1..n : (n - i) + 1 \in 1..n
  BY <1>2
<1>10. back \in [1..n -> Point]
  BY <1>5, <1>8, <1>9
<1>11. back \in Seq(Point) /\ DOMAIN back = 1..n
  BY <1>2, <1>10, SeqDef
<1>12. ASSUME NEW i \in 1..n, NEW j \in 1..n, back[i].id = back[j].id PROVE i = j
  <2>1. (n - i) + 1 = (n - j) + 1
    BY <1>7, <1>8, <1>9, <1>12
  <2>2. QED
    BY <1>2, <2>1
<1>13. QED
  BY <1>6, <1>7, <1>11, <1>12 DEF Apart, ps, back

\* A search returns the nearest matching points whether it is made one by one
\* or in parallel, and whichever order the store keeps its points in: the keys'
\* or a hash map's (rocks.rs 171-258, memory.rs 281-368, simd.rs 430-452).
THEOREM SearchesAlwaysAgree == Spec => []SearchesAgree
<1>1. Init => KeyedInv
  <2> SUFFICES ASSUME Init PROVE KeyedInv
    OBVIOUS
  <2>1. \A s \in durable : s.data = <<>>
    BY DEF Init
  <2>2. \A t \in Task : KeyedTask(task[t])
    BY DEF Init, Fresh, NoRequest, KeyedTask
  <2>3. QED
    BY <2>1, <2>2 DEF KeyedInv, Keyed
<1>2. TypeInv /\ KeyedInv => SearchesAgree
  <2> SUFFICES ASSUME TypeInv, KeyedInv PROVE SearchesAgree
    OBVIOUS
  <2>1. GoodDatabase(kv) /\ Keyed(kv.data)
    BY DEF TypeInv, StoreInv, KeyedInv
  <2>2. MapsTo(kv.data, Id, Point) /\ IsFiniteSet(DOMAIN kv.data)
    BY <2>1 DEF GoodDatabase, Database, Finite
  <2>3. \A ps \in {InKeyOrder(kv.data), Reverse(InKeyOrder(kv.data))} : ps \in Seq(Point) /\ Apart(ps)
    BY <2>1, <2>2, InKeyOrderIs
  <2>4. ASSUME NEW ps \in {InKeyOrder(kv.data), Reverse(InKeyOrder(kv.data))}, NEW k \in 1..2,
               NEW flt \in Filters, NEW threshold \in {0, Len(ps) + 1}
        PROVE  IsBest(Search(ps, k, flt, threshold), ps, k, flt)
    <3>1. k \in Nat
      OBVIOUS
    <3>2. QED
      BY <2>3, <3>1, SearchBest
  <2>5. QED
    BY <2>4 DEF SearchesAgree
<1>3. QED
  BY <1>1, <1>2, NextKeyed, TypeInvHolds, PTL DEF Spec
=============================================================================
