----------------------------- MODULE HnswIndex -----------------------------
(***************************************************************************)
(* HnswIndex (index/hnsw.rs): the vectors of one index, behind six locks.   *)
(*                                                                          *)
(* insert takes one lock after the other and holds none from one step to    *)
(* the next, so a step here is one access.  delete removes the id inside an *)
(* "if let" whose temporary, the write guard of id_map, lives to the end of *)
(* the block: it holds id_map while it takes the other locks in turn.       *)
(*                                                                          *)
(* The graph is hnsw_rs's: a set of nodes that only grows.  An approximate  *)
(* search may report any of them, so what a search can answer is described  *)
(* by the nodes alone.  Internal ids are the numbers 0, 1, 2, ...; ids that *)
(* clients choose are numbers of the same kind, because a node without an   *)
(* entry in the reverse map is reported under its own number.               *)
(***************************************************************************)
EXTENDS PartialMaps, Sequences, FiniteSets, Integers

CONSTANTS
  Thread,       \* callers that share the index
  Id,           \* ids that clients give to vectors
  Vec,          \* vectors
  Fits,         \* those of the index's dimension
  Prepared,     \* prepare_vector: what the graph stores for a vector
  Level,        \* L0, L1, L2
  CallsOf,      \* the calls each thread may make
  MaxCalls      \* bound on the number of calls in a behaviour

Entry == [id : Id, vec : Vec, level : Level]

InsertBatch == [op : {"insert"}, entries : Seq(Entry) \ {<<>>}]
DeleteId == [op : {"delete"}, id : Id]

ASSUME IndexAssumption ==
  /\ Id \subseteq Nat
  /\ Fits \subseteq Vec
  /\ Prepared \in [Vec -> Vec]
  /\ CallsOf \in [Thread -> SUBSET (InsertBatch \cup DeleteId)]
  /\ MaxCalls \in Nat

VARIABLES
  idMap,        \* id to internal id
  reverseMap,   \* internal id to id
  levels,       \* id to level
  vectors,      \* id to vector
  nextId,       \* the next internal id
  graph,        \* the nodes of the hnsw_rs graph
  thread,       \* what each thread is doing
  made          \* number of calls made so far

maps == <<idMap, reverseMap, levels, vectors>>
index == <<maps, nextId, graph>>

NoCall == [op |-> "none"]

Resting == [pc |-> "idle", call |-> NoCall, at |-> 1, node |-> 0]

NewIndex ==
  /\ idMap = <<>> /\ reverseMap = <<>> /\ levels = <<>> /\ vectors = <<>>
  /\ nextId = 0
  /\ graph = {}

Init ==
  /\ NewIndex
  /\ thread = [t \in Thread |-> Resting]
  /\ made = 0

(***************************************************************************)
(* Where a thread is.                                                       *)
(***************************************************************************)
At(t, pc) == thread[t].pc = pc

Goto(t, pc) == thread' = [thread EXCEPT ![t].pc = pc]

Return(t) == thread' = [thread EXCEPT ![t] = Resting]

Quiet == \A t \in Thread : At(t, "idle")

\* A delete under way holds the write lock of id_map.
IdMapLocked == \E t \in Thread : thread[t].pc \in {"unreverse", "unlevel", "unvector"}

\* The entry a thread inserts, and the id a thread deletes.
Current(t) == thread[t].call.entries[thread[t].at]

Victim(t) == thread[t].call.id

Call(t) ==
  /\ At(t, "idle")
  /\ made < MaxCalls
  /\ \E c \in CallsOf[t] :
       LET first == IF c.op = "insert" THEN "check" ELSE "unmap"
       IN thread' = [thread EXCEPT ![t] = [Resting EXCEPT !.pc = first, !.call = c]]
  /\ made' = made + 1
  /\ UNCHANGED index

(***************************************************************************)
(* insert, and insert_batch, which ends with its first failing insert.      *)
(***************************************************************************)
RejectVector(t) ==
  /\ At(t, "check")
  /\ Current(t).vec \notin Fits
  /\ Return(t)
  /\ UNCHANGED <<index, made>>

CheckId(t) ==
  /\ At(t, "check")
  /\ Current(t).vec \in Fits
  /\ ~IdMapLocked
  /\ IF Current(t).id \in DOMAIN idMap THEN Return(t) ELSE Goto(t, "number")
  /\ UNCHANGED <<index, made>>

\* Mutant: the number of vectors is the next internal id.
GetNextId_Count(t) ==
  /\ At(t, "number")
  /\ thread' = [thread EXCEPT ![t].pc = "map", ![t].node = Cardinality(DOMAIN idMap)]
  /\ nextId' = nextId + 1
  /\ UNCHANGED <<maps, graph, made>>

GetNextId(t) ==
  /\ At(t, "number")
  /\ thread' = [thread EXCEPT ![t].pc = "map", ![t].node = nextId]
  /\ nextId' = nextId + 1
  /\ UNCHANGED <<maps, graph, made>>

MapId(t) ==
  /\ At(t, "map")
  /\ ~IdMapLocked
  /\ idMap' = Overlay([i \in {Current(t).id} |-> thread[t].node], idMap)
  /\ Goto(t, "reverse")
  /\ UNCHANGED <<reverseMap, levels, vectors, nextId, graph, made>>

MapBack(t) ==
  /\ At(t, "reverse")
  /\ reverseMap' = Overlay([n \in {thread[t].node} |-> Current(t).id], reverseMap)
  /\ Goto(t, "level")
  /\ UNCHANGED <<idMap, levels, vectors, nextId, graph, made>>

StoreLevel(t) ==
  /\ At(t, "level")
  /\ levels' = Overlay([i \in {Current(t).id} |-> Current(t).level], levels)
  /\ Goto(t, "vector")
  /\ UNCHANGED <<idMap, reverseMap, vectors, nextId, graph, made>>

StoreVector(t) ==
  /\ At(t, "vector")
  /\ vectors' = Overlay([i \in {Current(t).id} |-> Current(t).vec], vectors)
  /\ Goto(t, "graph")
  /\ UNCHANGED <<idMap, reverseMap, levels, nextId, graph, made>>

\* insert_slice ends an insert; a batch goes on with its next entry.
Link(t) ==
  /\ At(t, "graph")
  /\ graph' = graph \cup {[node |-> thread[t].node, vec |-> Prepared[Current(t).vec]]}
  /\ IF thread[t].at = Len(thread[t].call.entries)
       THEN Return(t)
       ELSE thread' = [thread EXCEPT ![t].pc = "check", ![t].at = @ + 1]
  /\ UNCHANGED <<maps, nextId, made>>

(***************************************************************************)
(* delete.  The node stays in the graph.                                    *)
(***************************************************************************)
Unmap(t) ==
  /\ At(t, "unmap")
  /\ ~IdMapLocked
  /\ IF Victim(t) \in DOMAIN idMap
       THEN /\ thread' = [thread EXCEPT ![t].pc = "unreverse", ![t].node = idMap[Victim(t)]]
            /\ idMap' = Without(idMap, {Victim(t)})
       ELSE Return(t) /\ UNCHANGED idMap
  /\ UNCHANGED <<reverseMap, levels, vectors, nextId, graph, made>>

\* Mutant: the reverse entry stays.
Unreverse_Kept(t) == At(t, "unreverse") /\ Goto(t, "unlevel") /\ UNCHANGED <<index, made>>

Unreverse(t) ==
  /\ At(t, "unreverse")
  /\ reverseMap' = Without(reverseMap, {thread[t].node})
  /\ Goto(t, "unlevel")
  /\ UNCHANGED <<idMap, levels, vectors, nextId, graph, made>>

Unlevel(t) ==
  /\ At(t, "unlevel")
  /\ levels' = Without(levels, {Victim(t)})
  /\ Goto(t, "unvector")
  /\ UNCHANGED <<idMap, reverseMap, vectors, nextId, graph, made>>

Unvector(t) ==
  /\ At(t, "unvector")
  /\ vectors' = Without(vectors, {Victim(t)})
  /\ Return(t)
  /\ UNCHANGED <<idMap, reverseMap, levels, nextId, graph, made>>

Step(t) ==
  \/ Call(t)
  \/ RejectVector(t) \/ CheckId(t) \/ GetNextId(t) \/ MapId(t) \/ MapBack(t)
  \/ StoreLevel(t) \/ StoreVector(t) \/ Link(t)
  \/ Unmap(t) \/ Unreverse(t) \/ Unlevel(t) \/ Unvector(t)

Serve == \E t \in Thread : Step(t)

(***************************************************************************)
(* What a search can answer: a node the reverse map does not know, that of  *)
(* a deleted vector, is reported under its own number.                      *)
(***************************************************************************)
ExternalId(n) == IF n \in DOMAIN reverseMap THEN reverseMap[n] ELSE n

Live == {g \in graph : g.node \in DOMAIN reverseMap}

ReportedAs(id) == {g \in Live : ExternalId(g.node) = id}
=============================================================================
