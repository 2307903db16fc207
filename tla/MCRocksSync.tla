----------------------------- MODULE MCRocksSync -----------------------------
(***************************************************************************)
(* Instances of RocksSync: three paths, of which "/a" is a string prefix of *)
(* both the file "/a/f" inside it and the unrelated "/ab".  The ids are     *)
(* those paths' hashes, so their order has nothing to do with the paths'.   *)
(***************************************************************************)
EXTENDS RocksSync

a  == <<"/", "a">>
af == <<"/", "a", "/", "f">>
ab == <<"/", "a", "b">>
c  == <<"/", "c">>

MCUri == {a, af, ab, c}
MCIdOf == (af :> 1) @@ (ab :> 2) @@ (c :> 3) @@ (a :> 4)

Tasks == Permutations(Task)

MCDistance == [v |-> 1, w |-> 2, bad |-> 3]

CreateIt == [op |-> "create"]
Write(u) == OnFileCreated(u, NoUri, "v")
Batch(us) == [op |-> "upsert", points |-> FlattenSeq([k \in DOMAIN us |-> Write(us[k]).points])]
DeleteId(u) == [op |-> "delete", id |-> MCIdOf[u]]

\* A write whose embedding has another dimension than the collection.
Misfit(u) == OnFileCreated(u, NoUri, "bad")

\* A batch in which only the last point does not fit.
HalfFit(us) == [op |-> "upsert", points |-> Batch(Front(us)).points \o Misfit(Last(us)).points]

SyncCalls ==
  {CreateIt, Write(af), Write(ab), Misfit(ab), OnFileDeleted(a), OnFileDeleted(ab)}

SerialCalls ==
  {CreateIt, OnFileCreated(af, a, "w"), Batch(<<ab, c>>), HalfFit(<<ab, c>>), OnFileDeleted(a),
   OnFileDeleted(ab), DeleteId(ab), OnFileMoved(a, c), OnFileMoved(c, ab), OnFileMoved(c, a)}
=============================================================================
