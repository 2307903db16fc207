------------------------------ MODULE IvfIndex ------------------------------
(***************************************************************************)
(* IvfIndex (index/ivf_pq.rs): vectors in partitions, each the neighbourhood *)
(* of a centroid.                                                           *)
(*                                                                          *)
(* insert reads the centroids under one lock, releases it and pushes under  *)
(* another, so a training may come between; train, delete and the snapshots *)
(* a save takes are atomic.  Nothing checks that an id is new, and training *)
(* leaves the vectors where they are.  A partition is a sequence, because a *)
(* vector may be in it twice.                                               *)
(*                                                                          *)
(* Distances are a table, and what k-means makes of a sample is another:    *)
(* both are arithmetic on floats.                                           *)
(***************************************************************************)
EXTENDS SequencesExt, PartialMaps

CONSTANTS
  Thread,       \* callers that share the index
  Id, Vec, Fits, Level,
  Centroid,     \* the points centroids may be
  Zero,         \* the one they all are before training
  Distance,     \* the distance of a vector from a centroid
  Sample,       \* what the index may be trained with
  Means,        \* the centroids of a sample, none for an empty one
  Partitions,   \* num_partitions
  CallsOf,      \* the calls each thread may make
  MaxCalls      \* bound on the number of calls in a behaviour

Entry == [id : Id, vec : Vec, level : Level]

InsertBatch == [op : {"insert"}, entries : Seq(Entry) \ {<<>>}]
DeleteId == [op : {"delete"}, id : Id]
TrainOn == [op : {"train"}, sample : Sample]

ASSUME IndexAssumption ==
  /\ Id \subseteq Nat /\ Fits \subseteq Vec /\ Zero \in Centroid
  /\ Partitions \in Nat \ {0}
  /\ Distance \in [Vec \X Centroid -> Nat]
  /\ \A s \in Sample : Means[s] = <<>> \/ Means[s] \in [1..Partitions -> Centroid]
  /\ CallsOf \in [Thread -> SUBSET (InsertBatch \cup DeleteId \cup TrainOn)]
  /\ MaxCalls \in Nat

VARIABLES
  centroids,    \* partition p is around centroids[p]
  partitions,   \* the entries of each partition
  trained,      \* the flag train sets; only a save reads it
  thread,       \* what each thread is doing
  made          \* number of calls made so far

index == <<centroids, partitions, trained>>

NoCall == [op |-> "none"]

Resting == [pc |-> "idle", call |-> NoCall, at |-> 1, partition |-> 1]

Empty == [p \in 1..Partitions |-> <<>>]

Init ==
  /\ centroids = [p \in 1..Partitions |-> Zero]
  /\ partitions = Empty
  /\ trained = FALSE
  /\ thread = [t \in Thread |-> Resting]
  /\ made = 0

(***************************************************************************)
(* Where a vector belongs: the first of the nearest centroids.              *)
(***************************************************************************)
\* Mutant: the last of the nearest.
Nearest_Last(vec, cs) ==
  IF cs = <<>> THEN 1
  ELSE CHOOSE p \in DOMAIN cs : \A q \in DOMAIN cs :
         IF q > p THEN Distance[vec, cs[p]] < Distance[vec, cs[q]]
                  ELSE Distance[vec, cs[p]] <= Distance[vec, cs[q]]

Nearest(vec, cs) ==
  IF cs = <<>> THEN 1
  ELSE CHOOSE p \in DOMAIN cs : \A q \in DOMAIN cs :
         IF q < p THEN Distance[vec, cs[p]] < Distance[vec, cs[q]]
                  ELSE Distance[vec, cs[p]] <= Distance[vec, cs[q]]

Pushed(parts, p, e) == [parts EXCEPT ![p] = Append(@, e)]

\* The tenth of the partitions, at least one, whose centroids are nearest; a
\* stable sort puts the first of two equally near ones first.
Probed(query) ==
  {p \in DOMAIN centroids :
     Cardinality({q \in DOMAIN centroids :
       \/ Distance[query, centroids[q]] < Distance[query, centroids[p]]
       \/ (q < p /\ Distance[query, centroids[q]] = Distance[query, centroids[p]])})
     < Max({1, Partitions \div 10})}

(***************************************************************************)
(* The calls.                                                               *)
(***************************************************************************)
At(t, pc) == thread[t].pc = pc

Return(t) == thread' = [thread EXCEPT ![t] = Resting]

Quiet == \A t \in Thread : At(t, "idle")

Current(t) == thread[t].call.entries[thread[t].at]

FirstPc == [insert |-> "place", delete |-> "delete", train |-> "train"]

Call(t) ==
  /\ At(t, "idle")
  /\ made < MaxCalls
  /\ \E c \in CallsOf[t] :
       thread' = [thread EXCEPT ![t] = [Resting EXCEPT !.pc = FirstPc[c.op], !.call = c]]
  /\ made' = made + 1
  /\ UNCHANGED index

RejectVector(t) ==
  /\ At(t, "place")
  /\ Current(t).vec \notin Fits
  /\ Return(t)
  /\ UNCHANGED <<index, made>>

\* insert finds the partition ...
Place(t) ==
  /\ At(t, "place")
  /\ Current(t).vec \in Fits
  /\ thread' = [thread EXCEPT ![t].pc = "push", ![t].partition = Nearest(Current(t).vec, centroids)]
  /\ UNCHANGED <<index, made>>

\* ... and pushes under another lock; a batch goes on with its next entry.
Push(t) ==
  /\ At(t, "push")
  /\ partitions' = Pushed(partitions, thread[t].partition, Current(t))
  /\ IF thread[t].at = Len(thread[t].call.entries)
       THEN Return(t)
       ELSE thread' = [thread EXCEPT ![t].pc = "place", ![t].at = @ + 1]
  /\ UNCHANGED <<centroids, trained, made>>

Train(t) ==
  LET means == Means[thread[t].call.sample] IN
  /\ At(t, "train")
  /\ IF means = <<>> THEN UNCHANGED <<centroids, trained>>
                     ELSE centroids' = means /\ trained' = TRUE
  /\ Return(t)
  /\ UNCHANGED <<partitions, made>>

\* swap_remove: the last entry takes the place of the removed one.
SwapRemove(part, j) ==
  LET n == Len(part) IN SubSeq([part EXCEPT ![j] = part[n]], 1, n - 1)

\* Of several vectors with the id, the first of the first partition goes.
Delete(t) ==
  LET id == thread[t].call.id
      holders == {p \in DOMAIN partitions : \E e \in Range(partitions[p]) : e.id = id}
      places(p) == {j \in DOMAIN partitions[p] : partitions[p][j].id = id}
  IN
  /\ At(t, "delete")
  /\ IF holders = {} THEN UNCHANGED partitions
     ELSE partitions' = [partitions EXCEPT ![Min(holders)] = SwapRemove(@, Min(places(Min(holders))))]
  /\ Return(t)
  /\ UNCHANGED <<centroids, trained, made>>

Step(t) == Call(t) \/ RejectVector(t) \/ Place(t) \/ Push(t) \/ Train(t) \/ Delete(t)

Serve == \E t \in Thread : Step(t)
=============================================================================
