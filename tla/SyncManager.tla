----------------------------- MODULE SyncManager -----------------------------
(***************************************************************************)
(* VectorSyncManager (vector_store/sync.rs): the calls it makes on the      *)
(* vector store for a file that was created, deleted or moved.              *)
(***************************************************************************)
EXTENDS VectorPoints

CONSTANTS
  Uri,      \* the URIs clients name
  IdOf      \* generate_id: a 64-bit hash of the URI, taken to be injective

ASSUME SyncAssumption ==
  /\ Uri \subseteq UriString
  /\ IdOf \in [Uri -> Id]
  /\ \A u, v \in Uri : IdOf[u] = IdOf[v] => u = v

OnFileCreated(u, parent, v) ==
  [op |-> "upsert",
   points |-> << [id |-> IdOf[u], uri |-> u, parent |-> parent, vec |-> v] >>]

OnFileDeleted(u) == [op |-> "deletePrefix", prefix |-> u]

OnFileMoved(from, to) == [op |-> "updateUri", old |-> from, new |-> to]
=============================================================================
