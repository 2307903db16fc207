------------------------------- MODULE MCHnsw -------------------------------
(***************************************************************************)
(* Instances of HnswPersist.  Ids are small numbers, as internal ids are;   *)
(* "w" and "W" are a vector and its normalised form, "x" has the wrong      *)
(* dimension.                                                               *)
(***************************************************************************)
EXTENDS HnswPersist, TLC

CONSTANTS t1, t2

MCPrepared == [v |-> "v", w |-> "W", W |-> "W", x |-> "x"]

Insert(id, vec, level) == [op |-> "insert", entries |-> <<[id |-> id, vec |-> vec, level |-> level]>>]
Batch(e, f) == [op |-> "insert", entries |-> <<e, f>>]
Remove(id) == [op |-> "delete", id |-> id]

Of(id, vec, level) == [id |-> id, vec |-> vec, level |-> level]

\* Each thread has ids of its own, and reuses them.
OwnedCalls ==
  (t1 :> {Insert(1, "v", 0), Insert(1, "w", 2), Remove(1)})
    @@ (t2 :> {Batch(Of(0, "w", 1), Of(2, "x", 0)), Remove(0)})
\* Bound: four calls without a save, three beside one, two beside two.
CallsAndSaves == made + saves <= 4
=============================================================================
