---------------------------- MODULE VectorPoints ----------------------------
(***************************************************************************)
(* What the vector stores (vector_store/types.rs, traits.rs) have in common: *)
(* points, the calls of the VectorStore trait that change a collection, and *)
(* URIs as both stores handle them.                                         *)
(*                                                                          *)
(* A URI is a string, here a sequence of characters.  The stores match and  *)
(* rewrite URIs with str::starts_with and str::strip_prefix, which know     *)
(* nothing of the "/" that separates path segments: "/a" is a prefix of     *)
(* "/ab" as much as of "/a/b".                                              *)
(***************************************************************************)
EXTENDS SequencesExt, PartialMaps

CONSTANTS
  NoUri,        \* a payload without a string at that field
  Id,           \* point ids: naturals, in the byte order of their keys
  Vec,          \* embeddings
  Fits,         \* those of the collection's dimension
  Requests      \* the calls clients may make

UriString == Seq(STRING) \ {<<>>}

Point ==
  [id : Id, uri : UriString \cup {NoUri}, parent : UriString \cup {NoUri}, vec : Vec]

Create == [op : {"create"}]
Upsert == [op : {"upsert"}, points : Seq(Point)]
Delete == [op : {"delete"}, id : Id]
DeletePrefix == [op : {"deletePrefix"}, prefix : UriString]
UpdateUri == [op : {"updateUri"}, old : UriString, new : UriString]

Request == Create \cup Upsert \cup Delete \cup DeletePrefix \cup UpdateUri

NoRequest == [op |-> "none"]

ASSUME PointsAssumption ==
  /\ Id \subseteq Nat
  /\ Fits \subseteq Vec
  /\ Requests \subseteq Request
  /\ NoUri \notin UriString

(***************************************************************************)
(* starts_with and strip_prefix on a payload field that may be missing.     *)
(***************************************************************************)
Under(u, prefix) == u # NoUri /\ IsPrefix(prefix, u)

Rebase(u, old, new) ==
  IF Under(u, old) THEN new \o SubSeq(u, Len(old) + 1, Len(u)) ELSE u

Touches(p, old) == Under(p.uri, old) \/ Under(p.parent, old)

\* update_uri rewrites the two URI fields and touches nothing else.
RebasePoint(p, old, new) ==
  [p EXCEPT !.uri = Rebase(@, old, new), !.parent = Rebase(@, old, new)]

(***************************************************************************)
(* Batches.                                                                 *)
(***************************************************************************)
\* A batch inserts its points in order: of two with one id the later stays.
LastById(ps) ==
  {ps[j] : j \in {i \in 1..Len(ps) : \A k \in i+1..Len(ps) : ps[k].id # ps[i].id}}

ById(ps) ==
  [i \in {p.id : p \in LastById(ps)} |-> CHOOSE p \in LastById(ps) : p.id = i]
=============================================================================
