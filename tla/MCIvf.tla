------------------------------- MODULE MCIvf -------------------------------
(***************************************************************************)
(* Instances of IvfPersist.  "u" and "v" are vectors at either end of the   *)
(* space, "x" has the wrong dimension.  Centroids are numbers, 0 at the end *)
(* of "u", and a sample is trained to one of them per partition.            *)
(* With eleven partitions the one numbered 10 comes back third.             *)
(***************************************************************************)
EXTENDS IvfPersist, TLC

CONSTANTS t1, t2

MCCentroid == 0..Partitions

MCDistance ==
  [d \in {"u", "v", "x"} \X Centroid |-> IF d[1] = "v" THEN Partitions - d[2] ELSE d[2]]

MCMeans == [none |-> <<>>, spread |-> [p \in 1..Partitions |-> p], back |-> [p \in 1..Partitions |-> Partitions + 1 - p]]

Of(id, vec, level) == [id |-> id, vec |-> vec, level |-> level]
Insert(id, vec, level) == [op |-> "insert", entries |-> <<Of(id, vec, level)>>]
Batch(e, f) == [op |-> "insert", entries |-> <<e, f>>]
Unload(id) == [op |-> "delete", id |-> id]
TrainWith(s) == [op |-> "train", sample |-> s]

Save == [op |-> "save"]
Erase(id) == [op |-> "erase", id |-> id]
Persist(p, e) == [op |-> "persist", partition |-> p, entry |-> e]

\* Vectors come and go, the index is trained one way, the other or not at all.
ChangingCalls ==
  (t1 :> {TrainWith("spread"), TrainWith("back"), TrainWith("none"), Insert(1, "u", 0), Unload(1)})
    @@ (t2 :> {Batch(Of(2, "v", 1), Of(3, "x", 1)), Unload(2)})
ChangingUpkeep == {Save, Erase(1), Persist(1, Of(1, "u", 0))}
=============================================================================
