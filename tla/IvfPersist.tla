----------------------------- MODULE IvfPersist -----------------------------
(***************************************************************************)
(* IvfIndexPersister (index/ivf_persist.rs) beside the index it saves.      *)
(*                                                                          *)
(* The path holds a key per centroid, "ivf:cen:<p>", and two per vector,    *)
(* "ivf:vec:<p>:<id>" and "ivf:meta:<id>", the second naming the partition. *)
(* persist_index, persist_vector and delete_vector are sequences of single  *)
(* writes.  restore_index reads the centroids in the order of their keys,   *)
(* which are strings, and inserts every vector anew.                        *)
(*                                                                          *)
(* Covered: the three of them beside inserts, deletes and training, process *)
(* death at any step, and the restart, which loads what the path holds.     *)
(* Not covered: loss of power, and two persisters on one path.              *)
(***************************************************************************)
EXTENDS IvfIndex

CONSTANTS
  UpkeepCalls,  \* the calls made on the persister
  MaxUpkeep     \* bound on their number in a behaviour

SaveIndex == [op : {"save"}]
PersistVector == [op : {"persist"}, partition : 1..Partitions, entry : Entry]
DeleteVector == [op : {"erase"}, id : Id]

\* A vector of the wrong dimension at the path makes every load fail, as does a
\* path without a configuration; callers put vectors of the index there.
ASSUME PersistAssumption ==
  /\ UpkeepCalls \subseteq SaveIndex \cup PersistVector \cup DeleteVector
  /\ \A call \in UpkeepCalls : call.op = "persist" => call.entry.vec \in Fits
  /\ MaxUpkeep \in Nat
  /\ 2 \in Level

VARIABLES
  db,           \* the keys at the path, by family
  upkeep,       \* the call on the persister under way
  begun,        \* number of those calls begun so far
  covered,      \* history: what the save under way found and no call removed since
  kept,         \* history: the same of the saves that have finished
  orderly       \* history: has the path been kept in step with the index so far?

history == <<covered, kept, orderly>>
vars == <<index, thread, made, db, upkeep, begun, history>>

Families == {"config", "centroid", "vector", "meta"}

NoUpkeep == [call |-> NoCall, stage |-> "done", todo |-> <<>>]

PersistInit ==
  /\ Init
  /\ db = [f \in Families |-> <<>>]
  /\ upkeep = NoUpkeep
  /\ begun = 0
  /\ covered = {} /\ kept = {}
  /\ orderly = TRUE

(***************************************************************************)
(* The writes of a call, one key each.                                      *)
(***************************************************************************)
Put(family, key, value) == [family |-> family, sets |-> [k \in {key} |-> value], drops |-> {}]

Drop(family, key) == [family |-> family, sets |-> <<>>, drops |-> {key}]

\* Mutant: the metadata is not put.
EntryPuts_NoMeta(p, e) == <<Put("vector", <<p, e.id>>, e.vec)>>

EntryPuts(p, e) ==
  <<Put("vector", <<p, e.id>>, e.vec),
    Put("meta", e.id, [partition |-> p, level |-> e.level])>>

CentroidPuts == [p \in DOMAIN centroids |-> Put("centroid", p, centroids[p])]

\* Mutant: the last partition is left out.
VectorPuts_ButLast ==
  FlattenSeq([p \in 1..Partitions - 1 |->
    FlattenSeq([j \in DOMAIN partitions[p] |-> EntryPuts(p, partitions[p][j])])])

VectorPuts ==
  FlattenSeq([p \in 1..Partitions |->
    FlattenSeq([j \in DOMAIN partitions[p] |-> EntryPuts(p, partitions[p][j])])])

\* Mutant: the metadata of the vector stays.
Erasure_VectorOnly(id) ==
  IF id \in DOMAIN db["meta"] THEN <<Drop("vector", <<db["meta"][id].partition, id>>)>> ELSE <<>>

Erasure(id) ==
  IF id \in DOMAIN db["meta"]
  THEN <<Drop("vector", <<db["meta"][id].partition, id>>), Drop("meta", id)>>
  ELSE <<>>

(***************************************************************************)
(* A call on the persister.  A save copies the centroids once it has put    *)
(* the configuration, and the vectors once it has put the centroids.        *)
(***************************************************************************)
Busy == upkeep.call # NoCall

FirstWrites(call) ==
  CASE call.op = "save" -> <<Put("config", 1, trained)>>
    [] call.op = "persist" -> EntryPuts(call.partition, call.entry)
    [] call.op = "erase" -> Erasure(call.id)

Doomed ==
  {thread[t].call.id : t \in {u \in Thread : thread[u].call.op = "delete"}}
    \cup (IF upkeep.call.op = "erase" THEN {upkeep.call.id} ELSE {})

Entries == UNION {Range(partitions[p]) : p \in DOMAIN partitions}

Contents == {[id |-> e.id, vec |-> e.vec] : e \in Entries}

\* What the calls under way bring.
Offered ==
  (UNION {Range(thread[t].call.entries) : t \in {u \in Thread : thread[u].call.op = "insert"}})
    \cup (IF upkeep.call.op = "persist" THEN {upkeep.call.entry} ELSE {})

\* A call takes the vector away, or its id has another one too.
Overtaken(e) ==
  e.id \in Doomed \/ \E f \in Entries \cup Offered : f.id = e.id /\ f.vec # e.vec

(***************************************************************************)
(* Orderly use: saves and calls keep apart, no save is cut short, training  *)
(* comes before the first insert, an id has one vector at a time, no key    *)
(* of it is left on the path when it leaves the index, and none is put      *)
(* there that is not in its partition or before the centroids it was        *)
(* placed by.                                                               *)
(* delete_vector leaves a key behind if a load has changed the partition    *)
(* and a save has put another: to delete that vector is not orderly.        *)
(***************************************************************************)
TrainedFirst ==
  \A t \in Thread : thread[t].call.op = "train" =>
    Entries = {} /\ \A u \in Thread : thread[u].call.op # "insert"

Uniform == \A e, f \in Entries \cup Offered : e.id = f.id => e = f

OffThePath ==
  \A t \in Thread : thread[t].call.op = "delete" =>
    \A k \in DOMAIN db["vector"] : k[2] # thread[t].call.id

Proper(call) ==
  call.op = "persist" =>
    db["centroid"] = centroids /\ call.entry \in Range(partitions[call.partition])

BeginUpkeep ==
  /\ ~Busy
  /\ begun < MaxUpkeep
  /\ \E call \in UpkeepCalls :
       /\ upkeep' = [call |-> call, todo |-> FirstWrites(call),
                     stage |-> IF call.op = "save" THEN "centroids" ELSE "done"]
       /\ covered' = IF call.op = "save" THEN {e \in Contents : ~Overtaken(e)} ELSE {}
       /\ orderly' = (orderly /\ Quiet /\ Proper(call))
  /\ begun' = begun + 1
  /\ UNCHANGED <<index, thread, made, db>>
  /\ kept' = {e \in kept : ~Overtaken(e)'}

WriteOne ==
  /\ upkeep.todo # <<>>
  /\ LET w == Head(upkeep.todo)
     IN db' = [db EXCEPT ![w.family] = Overlay(w.sets, Without(@, w.drops))]
  /\ upkeep' = [upkeep EXCEPT !.todo = Tail(@)]
  /\ UNCHANGED <<index, thread, made, begun, history>>

CopyCentroids ==
  /\ upkeep.todo = <<>> /\ upkeep.stage = "centroids"
  /\ upkeep' = [upkeep EXCEPT !.todo = CentroidPuts, !.stage = "vectors"]
  /\ UNCHANGED <<index, thread, made, db, begun, history>>

CopyVectors ==
  /\ upkeep.todo = <<>> /\ upkeep.stage = "vectors"
  /\ upkeep' = [upkeep EXCEPT !.todo = VectorPuts, !.stage = "done"]
  /\ UNCHANGED <<index, thread, made, db, begun, history>>

EndUpkeep ==
  /\ Busy /\ upkeep.todo = <<>> /\ upkeep.stage = "done"
  /\ upkeep' = NoUpkeep
  /\ kept' = kept \cup covered
  /\ covered' = {}
  /\ UNCHANGED <<index, thread, made, db, begun, orderly>>

(***************************************************************************)
(* The process dies, and the next one loads the path.  Keys that end in a   *)
(* number are in the order of its decimal digits; partitions count from 0.  *)
(***************************************************************************)
Digits[n \in Nat] == IF n < 10 THEN <<n>> ELSE Append(Digits[n \div 10], n % 10)

KeyBefore(m, n) ==
  LET d == Digits[m]
      e == Digits[n]
  IN \/ IsStrictPrefix(d, e)
     \/ \E j \in DOMAIN d \cap DOMAIN e : d[j] < e[j] /\ \A i \in 1..j-1 : d[i] = e[i]

CentroidOrder ==
  UNION {{p} \X {q \in 1..Partitions : KeyBefore(p - 1, q - 1)} : p \in 1..Partitions}

\* The vectors come partition by partition, each by the order of its ids.
VectorBefore(k, l) == k[1] < l[1] \/ (k[1] = l[1] /\ KeyBefore(k[2], l[2]))

VectorOrder ==
  {pair \in (DOMAIN db["vector"]) \X (DOMAIN db["vector"]) : VectorBefore(pair[1], pair[2])}

RestoredCentroids ==
  LET keys == Sorted(DOMAIN db["centroid"], CentroidOrder)
  IN [j \in DOMAIN keys |-> db["centroid"][keys[j]]]

RestoredEntry(key) ==
  [id |-> key[2], vec |-> db["vector"][key],
   level |-> IF key[2] \in DOMAIN db["meta"] THEN db["meta"][key[2]].level ELSE 2]

\* Every vector is inserted anew, in the order of the keys.
RestoredPartitions(cs) ==
  LET homes == {<<k, Nearest(db["vector"][k], cs)>> : k \in DOMAIN db["vector"]}
  IN [p \in 1..Partitions |->
        LET keys == Sorted({k \in DOMAIN db["vector"] : <<k, p>> \in homes}, VectorOrder)
        IN [j \in DOMAIN keys |-> RestoredEntry(keys[j])]]

\* Without a configuration the load fails and a new index takes its place.
Restart ==
  /\ IF db["config"] = <<>>
       THEN /\ centroids' = [p \in 1..Partitions |-> Zero]
            /\ partitions' = Empty /\ trained' = FALSE
       ELSE /\ centroids' = RestoredCentroids
            /\ partitions' = RestoredPartitions(centroids') /\ trained' = db["config"][1]
  /\ thread' = [t \in Thread |-> Resting]
  /\ upkeep' = NoUpkeep
  /\ covered' = {}
  /\ orderly' = (orderly /\ ~Busy)
  /\ kept' = {e \in kept : ~Overtaken(e)'}
  /\ UNCHANGED <<made, db, begun>>

ServeBesideUpkeep ==
  /\ Serve
  /\ UNCHANGED <<db, upkeep, begun>>
  /\ orderly' = (orderly /\ ~Busy /\ TrainedFirst' /\ Uniform' /\ OffThePath')
  /\ covered' = {e \in covered : ~Overtaken(e)'}
  /\ kept' = {e \in kept : ~Overtaken(e)'}

Next ==
  \/ ServeBesideUpkeep
  \/ BeginUpkeep \/ WriteOne \/ CopyCentroids \/ CopyVectors \/ EndUpkeep
  \/ Restart

Spec == PersistInit /\ [][Next]_vars

(***************************************************************************)
(* The type invariant.                                                      *)
(***************************************************************************)
StepsOf == [none |-> {"idle"}, insert |-> {"place", "push"}, delete |-> {"delete"}, train |-> {"train"}]

\* Entries are well formed and of the right dimension in memory and on the
\* path, no partition is out of range, each thread is at a step of its call.
TypesFit ==
  /\ centroids \in Seq(Centroid) /\ Len(centroids) <= Partitions
  /\ DOMAIN partitions = 1..Partitions
  /\ \A e \in Entries : e \in Entry /\ e.vec \in Fits
  /\ trained \in BOOLEAN
  /\ MapsTo(db["centroid"], 1..Partitions, Centroid)
  /\ MapsTo(db["vector"], (1..Partitions) \X Id, Vec)
  /\ MapsTo(db["meta"], Id, [partition : 1..Partitions, level : Level])
  /\ \A t \in Thread :
       /\ thread[t].call \in CallsOf[t] \cup {NoCall}
       /\ thread[t].pc \in StepsOf[thread[t].call.op]
  /\ made \in 0..MaxCalls /\ begun \in 0..MaxUpkeep

(***************************************************************************)
(* The index.                                                               *)
(***************************************************************************)
\* In orderly use a search for a vector the index holds looks where that vector
\* is, after any restart too (ivf_pq.rs 175-181 and 214-227 choose alike).
SelfFound ==
  orderly => \A p \in DOMAIN partitions : \A e \in Range(partitions[p]) : p \in Probed(e.vec)

\* A vector that a finished save found stays in the index, restarts included,
\* until a call deletes it or gives its id another (ivf_persist.rs 71-123).
KeptHeld == kept \subseteq Contents

(***************************************************************************)
(* The path.                                                                *)
(***************************************************************************)
\* "Partition ID where the vector belongs" (ivf_persist.rs 42): what is in
\* memory and on the path is well formed, and in orderly use, between calls,
\* metadata lead to a key of their vector, and a key has a vector that the index
\* holds under its id.  Beyond ten partitions there may be two keys of a vector:
\* a load changes its partition, and the next save leaves the old key there.
KeysPaired ==
  /\ TypesFit
  /\ orderly /\ ~Busy =>
       /\ \A id \in DOMAIN db["meta"] : <<db["meta"][id].partition, id>> \in DOMAIN db["vector"]
       /\ \A k \in DOMAIN db["vector"] : [id |-> k[2], vec |-> db["vector"][k]] \in Contents

\* In orderly use a load after a finished save gives back the entries, each with
\* its level, and the centroids (index_test.rs 124-161), whichever places these
\* come to: the order of their keys is not that of their numbers beyond ten
\* partitions, where ivf_persist.rs 213 has them "retrieved in partition_id order".
SaveExact ==
  [][EndUpkeep /\ upkeep.call.op = "save" /\ orderly =>
       /\ Len(RestoredCentroids) = Partitions /\ Range(RestoredCentroids) = Range(centroids)
       /\ UNION {Range(RestoredPartitions(RestoredCentroids)[p]) : p \in 1..Partitions} = Entries]_vars
=============================================================================
