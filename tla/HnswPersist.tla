---------------------------- MODULE HnswPersist ----------------------------
(***************************************************************************)
(* HnswIndexPersister (index/hnsw_persist.rs) beside the index it saves.    *)
(*                                                                          *)
(* persist_index copies one map of the index at a time, each under its own  *)
(* lock, and puts the entries of each copy one by one; the next internal id *)
(* is read and put last.  Nothing is ever deleted from the database.        *)
(* restore_index gives the vectors it finds new numbers in the order of     *)
(* their old ones and then sets the next internal id to the saved one.      *)
(*                                                                          *)
(* Covered: saves beside inserts and deletes, process death at any step,    *)
(* and the restart, which loads what the path holds.  Not covered: loss of  *)
(* power (puts are not synced), and two indexes saved to one path.          *)
(***************************************************************************)
EXTENDS HnswIndex

CONSTANT MaxSaves     \* bound on the number of saves in a behaviour

ASSUME PersistAssumption == MaxSaves \in Nat /\ 2 \in Level

VARIABLES
  db,           \* the keys at the path, by family; the configuration is first
  saver,        \* how far the save under way is
  saves,        \* number of saves begun so far
  covered,      \* history: what the save under way found and no call deleted since
  kept,         \* history: the same of the saves that have finished
  torn,         \* history: has the process died while it saved?
  mixed         \* history: has a call gone on beside a save?

history == <<covered, kept, torn, mixed>>
vars == <<index, thread, made, db, saver, saves, history>>

Families == {"map", "reverse", "levels", "vectors", "next"}

NoSave == [busy |-> FALSE, stage |-> 0, todo |-> <<>>]

PersistInit ==
  /\ Init
  /\ db = [f \in Families |-> <<>>]
  /\ saver = NoSave
  /\ saves = 0
  /\ covered = <<>> /\ kept = <<>>
  /\ torn = FALSE /\ mixed = FALSE

(***************************************************************************)
(* The ids a call is about, and those no call under way is.                 *)
(***************************************************************************)
Named(call) ==
  CASE call.op = "none" -> {}
    [] call.op = "insert" -> {call.entries[j].id : j \in DOMAIN call.entries}
    [] call.op = "delete" -> {call.id}

Settled(id) == \A t \in Thread : id \notin Named(thread[t].call)

Doomed == UNION {Named(thread[t].call) : t \in {u \in Thread : thread[u].call.op = "delete"}}

Held == {id \in DOMAIN idMap : Settled(id)}

(***************************************************************************)
(* Saving.  Each stage copies one map, todo is what is left to put of it.   *)
(***************************************************************************)
\* Mutant: the next internal id is saved before the maps are copied.
Stages_NextFirst == <<"next", "map", "reverse", "levels", "vectors">>

\* Mutant: the vectors are put before their levels.
Stages_LevelsLast == <<"map", "reverse", "vectors", "levels", "next">>

\* Mutant: the levels are not saved.
Stages_NoLevels == <<"map", "reverse", "vectors", "next">>

Stages == <<"map", "reverse", "levels", "vectors", "next">>

Content(family) ==
  CASE family = "map" -> idMap
    [] family = "reverse" -> reverseMap
    [] family = "levels" -> levels
    [] family = "vectors" -> vectors
    [] family = "next" -> <<nextId>>

BeginSave ==
  /\ ~saver.busy
  /\ saves < MaxSaves
  /\ saver' = [NoSave EXCEPT !.busy = TRUE]
  /\ saves' = saves + 1
  /\ covered' = [id \in Held |-> [vec |-> vectors[id], level |-> levels[id]]]
  /\ mixed' = (mixed \/ ~Quiet)
  /\ UNCHANGED <<index, thread, made, db, kept, torn>>

CopyNext ==
  LET family == Stages[saver.stage + 1] IN
  /\ saver.busy /\ saver.todo = <<>> /\ saver.stage < Len(Stages)
  /\ family = "map" => ~IdMapLocked
  /\ saver' = [saver EXCEPT !.stage = @ + 1, !.todo = Content(family)]
  /\ UNCHANGED <<index, thread, made, db, saves, history>>

\* The order of a hash map's entries is any.
PutOne ==
  /\ saver.busy
  /\ \E k \in DOMAIN saver.todo :
       /\ db' = [db EXCEPT ![Stages[saver.stage]] = Overlay(Only(saver.todo, {k}), @)]
       /\ saver' = [saver EXCEPT !.todo = Without(@, {k})]
  /\ UNCHANGED <<index, thread, made, saves, history>>

EndSave ==
  /\ saver.busy /\ saver.todo = <<>> /\ saver.stage = Len(Stages)
  /\ saver' = NoSave
  /\ kept' = Overlay(covered, kept)
  /\ covered' = <<>>
  /\ UNCHANGED <<index, thread, made, db, saves, torn, mixed>>

(***************************************************************************)
(* The process dies, and the next one loads the path.                       *)
(***************************************************************************)
Restorable == DOMAIN db["map"] \cap DOMAIN db["vectors"]

\* Old numbers decide the order; of two ids with one number either is first.
Numberings ==
  {rank \in [Restorable -> 0..Cardinality(Restorable) - 1] :
     \A i, j \in Restorable : i # j =>
       /\ rank[i] # rank[j]
       /\ db["map"][i] < db["map"][j] => rank[i] < rank[j]}

RestoreIndex ==
  \E rank \in Numberings :
    /\ idMap' = rank
    /\ reverseMap' = [n \in {rank[id] : id \in Restorable} |->
                        CHOOSE id \in Restorable : rank[id] = n]
    /\ levels' = [id \in Restorable |-> IF id \in DOMAIN db["levels"] THEN db["levels"][id] ELSE 2]
    /\ vectors' = Only(db["vectors"], Restorable)
    /\ graph' = {[node |-> rank[id], vec |-> Prepared[db["vectors"][id]]] : id \in Restorable}
    /\ nextId' = IF db["next"] = <<>> THEN 0 ELSE db["next"][1]

Restart ==
  /\ RestoreIndex
  /\ thread' = [t \in Thread |-> Resting]
  /\ saver' = NoSave
  /\ covered' = <<>>
  /\ torn' = (torn \/ saver.busy)
  /\ UNCHANGED <<made, db, saves, kept, mixed>>

ServeBesideSaves ==
  /\ Serve
  /\ covered' = Without(covered, Doomed')
  /\ kept' = Without(kept, Doomed')
  /\ mixed' = (mixed \/ saver.busy)
  /\ UNCHANGED <<db, saver, saves, torn>>

Next == ServeBesideSaves \/ BeginSave \/ CopyNext \/ PutOne \/ EndSave \/ Restart

Spec == PersistInit /\ [][Next]_vars

(***************************************************************************)
(* The type invariant.                                                      *)
(***************************************************************************)
StepsOf ==
  [none |-> {"idle"},
   insert |-> {"check", "number", "map", "reverse", "level", "vector", "graph"},
   delete |-> {"unmap", "unreverse", "unlevel", "unvector"}]

\* The maps hold what they are for, one thread at most holds the lock of
\* id_map, and each thread is at a step of its call.
TypesFit ==
  /\ MapsTo(idMap, Id, Nat) /\ MapsTo(reverseMap, Nat, Id)
  /\ MapsTo(levels, Id, Level) /\ MapsTo(vectors, Id, Fits)
  /\ \A g \in graph : g.node \in Nat /\ g.vec \in Vec
  /\ \A t \in Thread :
       /\ thread[t].call \in CallsOf[t] \cup {NoCall}
       /\ thread[t].pc \in StepsOf[thread[t].call.op]
       /\ \A u \in Thread \ {t} :
            ~({thread[t].pc, thread[u].pc} \subseteq {"unreverse", "unlevel", "unvector"})
  /\ made \in 0..MaxCalls /\ saves \in 0..MaxSaves

(***************************************************************************)
(* The index between calls.                                                 *)
(***************************************************************************)
\* "Mapping from external ID to internal ID", "Reverse mapping" (hnsw.rs
\* 38-41): the maps hold what they are for, at rest an id has a level and a
\* vector exactly while it is mapped, and, unless a save was cut short, the two
\* maps are inverse to each other.
MapsInverse ==
  /\ TypesFit
  /\ Held = {id \in DOMAIN levels : Settled(id)} /\ Held = {id \in DOMAIN vectors : Settled(id)}
  /\ ~torn =>
       /\ \A id \in Held : idMap[id] \in DOMAIN reverseMap /\ reverseMap[idMap[id]] = id
       /\ \A n \in DOMAIN reverseMap :
            (reverseMap[n] \in DOMAIN idMap /\ idMap[reverseMap[n]] = n) \/ ~Settled(reverseMap[n])

\* A vector the index holds is found by a search: exactly one live node is
\* reported under its id, and it stands where that vector belongs (hnsw.rs
\* 115-174), however often ids were deleted and inserted again and whatever
\* went on beside the saves.
Searchable ==
  ~torn => \A id \in Held : ReportedAs(id) = {[node |-> idMap[id], vec |-> Prepared[vectors[id]]]}

(***************************************************************************)
(* The index across saves and restarts.                                     *)
(***************************************************************************)
\* "Set next_id to the correct value" (hnsw_persist.rs 138): unless a save was
\* cut short, the next number is above every number in use, so no insert takes
\* a node that is another vector's, whatever went on beside the saves.
FreshNodes ==
  ~torn =>
    /\ \A id \in DOMAIN idMap : idMap[id] < nextId
    /\ \A g \in graph : g.node < nextId

\* What a finished save found stays in the index, restarts included, until a
\* call deletes it, with the vector and the level it had (hnsw_persist.rs
\* 67-142).
KeptHeld ==
  \A id \in DOMAIN kept : id \in DOMAIN idMap /\ vectors[id] = kept[id].vec /\ levels[id] = kept[id].level

\* The entries calls insert, and those with one id.
Given ==
  LET Inserts == {c \in UNION {CallsOf[t] : t \in Thread} : c.op = "insert"}
  IN UNION {{c.entries[j] : j \in DOMAIN c.entries} : c \in Inserts}

GivenTo(id) == {e \in Given : e.id = id}

\* Where saves have the index to themselves, a vector has a level it was
\* inserted with, even if a restart put it together from saves cut short, and
\* if none was cut short it is the vector that came with that level
\* (hnsw_persist.rs 121-136, "unwrap_or(2)").
LevelsAsGiven ==
  ~mixed => \A id \in Held : \E e \in GivenTo(id) : e.level = levels[id] /\ (~torn => e.vec = vectors[id])
=============================================================================
