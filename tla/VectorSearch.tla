----------------------------- MODULE VectorSearch -----------------------------
(***************************************************************************)
(* Reading a collection: filters and the k nearest points.  The memory and  *)
(* the RocksDB store have the same code for it; Qdrant compiles the filter   *)
(* and searches itself.  A query is known by its distance to every vector.  *)
(***************************************************************************)
EXTENDS VectorPoints

CONSTANT Distance     \* of a vector from the query

ASSUME SearchAssumption == Distance \in [Vec -> Nat]

\* The payload's fields; VectorSyncManager stores every file at level 0.
Field(p, f) == IF f = "uri" THEN p.uri ELSE 0

Eq(f, v) == [kind |-> "eq", field |-> f, value |-> v]
In(f, vs) == [kind |-> "in", field |-> f, values |-> vs]
And(a, b) == [kind |-> "and", parts |-> {a, b}]

\* All but Eq and In let every point through.
MatchesFilter(p, flt) ==
  CASE flt.kind = "eq" -> Field(p, flt.field) = flt.value
    [] flt.kind = "in" -> Field(p, flt.field) \in flt.values
    [] OTHER -> TRUE

\* Mutant: every value becomes a string.
CompiledSimply_Keyword(p, flt) ==
  CASE flt.kind = "eq" -> flt.field = "uri" /\ p.uri = flt.value
    [] flt.kind = "in" -> flt.field = "uri" /\ p.uri \in flt.values
    [] OTHER -> TRUE

\* compile_filter: the values of an In become strings, which match no number.
CompiledSimply(p, flt) ==
  CASE flt.kind = "eq" -> Field(p, flt.field) = flt.value
    [] flt.kind = "in" -> flt.field = "uri" /\ p.uri \in flt.values
    [] OTHER -> TRUE

Compiled(p, flt) ==
  CASE flt.kind = "and" -> \A part \in flt.parts : CompiledSimply(p, part)
    [] flt.kind = "or" -> \E part \in flt.parts : CompiledSimply(p, part)
    [] OTHER -> CompiledSimply(p, flt)

\* VikingFS::find: the filter of a target, a level, both or neither.
NoLevel == -1

FindFilter(target, level) ==
  CASE target # NoUri /\ level # NoLevel -> And(In("uri", {target}), Eq("level", level))
    [] target # NoUri /\ level = NoLevel -> In("uri", {target})
    [] target = NoUri /\ level # NoLevel -> Eq("level", level)
    [] OTHER -> [kind |-> "none"]

(***************************************************************************)
(* Ranking.                                                                 *)
(***************************************************************************)
Hit(p) == [id |-> p.id, score |-> Distance[p.vec]]

Nearer(a, b) == a.score < b.score

Largest(hits, h) == CHOOSE i \in h : \A l \in h : hits[l].score <= hits[i].score

FirstK(s, k) == SubSeq(s, 1, Min({k, Len(s)}))

Ascending(S) == Sorted(S, {pair \in S \X S : pair[1] < pair[2]})

\* Hits of the points that match, in the points' order.
Matching(ps, flt) ==
  LET found == Ascending({i \in DOMAIN ps : MatchesFilter(ps[i], flt)})
  IN [j \in DOMAIN found |-> Hit(ps[found[j]])]

\* sort_by leaves what has the same score in its order.
Precedes(hits, i, j) ==
  Nearer(hits[i], hits[j]) \/ (~Nearer(hits[j], hits[i]) /\ i < j)

Ranking(hits) ==
  {pair \in (DOMAIN hits) \X (DOMAIN hits) : Precedes(hits, pair[1], pair[2])}

SortHits(hits) ==
  LET places == Sorted(DOMAIN hits, Ranking(hits)) IN [j \in DOMAIN places |-> hits[places[j]]]

\* Collect, sort, truncate.
SearchSequential(ps, k, flt) == FirstK(SortHits(Matching(ps, flt)), k)

\* Mutant: the heap gives one up before it is over full.
Kept_Short(hits, k) ==
  LET heap[n \in 0..Len(hits)] ==
        IF n = 0 THEN {}
        ELSE LET h == heap[n - 1] \cup {n}
             IN IF Cardinality(h) < k THEN h ELSE h \ {Largest(hits, h)}
  IN heap[Len(hits)]

\* top_k_smallest: a heap of indices that gives up its largest value when it
\* holds more than k, then sorted.
Kept(hits, k) ==
  LET heap[n \in 0..Len(hits)] ==
        IF n = 0 THEN {}
        ELSE LET h == heap[n - 1] \cup {n}
             IN IF Cardinality(h) <= k THEN h ELSE h \ {Largest(hits, h)}
  IN heap[Len(hits)]

TopKSmallest(hits, k) ==
  LET kept == SetToSeq(Kept(hits, k))
  IN SortHits([j \in DOMAIN kept |-> hits[kept[j]]])

SearchParallel(ps, k, flt) == TopKSmallest(Matching(ps, flt), k)

\* Large collections are searched in parallel.
Search(ps, k, flt, threshold) ==
  IF Len(ps) >= threshold THEN SearchParallel(ps, k, flt) ELSE SearchSequential(ps, k, flt)

(***************************************************************************)
(* What a search must return, whichever way it goes: matching points, each  *)
(* once, nearest first, and none left out that is nearer than one returned. *)
(***************************************************************************)
IsBest(result, ps, k, flt) ==
  LET matching == {Hit(p) : p \in {q \in Range(ps) : MatchesFilter(q, flt)}} IN
  /\ Range(result) \subseteq matching
  /\ Len(result) = Min({k, Cardinality(matching)})
  /\ Cardinality(Range(result)) = Len(result)
  /\ \A j \in 2..Len(result) : ~Nearer(result[j], result[j - 1])
  /\ \A h \in matching \ Range(result), r \in Range(result) : ~Nearer(h, r)
=============================================================================
