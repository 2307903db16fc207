---------------------------- MODULE QdrantProofs ----------------------------
(***************************************************************************)
(* The Qdrant store keeps what its calls returned, whatever the network     *)
(* loses or delays: for any number of clients, calls, ids and URIs.         *)
(***************************************************************************)
EXTENDS Qdrant, SequenceTheorems, FiniteSetTheorems, WellFoundedInduction, TLAPS

(***************************************************************************)
(* The log, replayed.                                                       *)
(***************************************************************************)
\* A nonempty set of numbers has a least one.
LEMMA MinExists ==
  ASSUME NEW S \in SUBSET Nat, S # {}
  PROVE  Min(S) \in S /\ \A y \in S : Min(S) <= y
<1> DEFINE R == OpToRel(<, Nat)
<1>1. \E x \in S : \A y \in S : <<y, x>> \notin R
  BY NatLessThanWellFounded, WFMin
<1>2. \A x, y \in Nat : y < x => <<y, x>> \in R
  BY DEF OpToRel
<1>3. PICK x \in S : \A y \in S : <<y, x>> \notin R
  BY <1>1
<1> HIDE DEF R
<1>4. \A y \in S : ~(y < x)
  BY <1>2, <1>3
<1>5. \E k \in S : \A y \in S : k =< y
  BY <1>3, <1>4
<1>6. QED
  BY <1>5 DEF Min

Follows(f, msgs, k) == \A n \in 1..k : f[n] = Apply(f[n - 1], msgs[n].act)

\* Applying one message after the other to the same points comes to the same.
LEMMA ReplayUnique ==
  ASSUME NEW k \in Nat, NEW msgs, NEW f, NEW g, f[0] = g[0], Follows(f, msgs, k), Follows(g, msgs, k)
  PROVE  \A n \in 0..k : f[n] = g[n]
<1> DEFINE S == {n \in 0..k : f[n] # g[n]}
<1> SUFFICES ASSUME S # {} PROVE FALSE
  OBVIOUS
<1>1. Min(S) \in S /\ \A y \in S : Min(S) <= y
  BY MinExists
<1> DEFINE n == Min(S)
<1>2. n \in 1..k
  BY <1>1
<1>3. n - 1 \notin S
  BY <1>1, <1>2
<1>4. f[n - 1] = g[n - 1]
  BY <1>2, <1>3
<1>5. f[n] = g[n]
  BY <1>2, <1>4 DEF Follows
<1>6. QED
  BY <1>1, <1>5

IsReplay(f, ps, msgs, k) == f = [n \in 0..k |-> IF n = 0 THEN ps ELSE Apply(f[n - 1], msgs[n].act)]

\* It can be done, however many there are.
LEMMA ReplayExists ==
  ASSUME NEW k \in Nat, NEW msgs, NEW ps
  PROVE  \E f : IsReplay(f, ps, msgs, k)
<1> DEFINE Is(f, n) == f = [j \in 0..n |-> IF j = 0 THEN ps ELSE Apply(f[j - 1], msgs[j].act)]
           Can(n) == \E f : Is(f, n)
           S == {n \in 0..k : ~Can(n)}
<1> HIDE DEF Can
<1> SUFFICES ASSUME S # {} PROVE FALSE
  <2>1. k \in 0..k
    OBVIOUS
  <2>2. S = {} => Can(k)
    BY <2>1
  <2>3. QED
    BY <2>2 DEF Can, IsReplay
<1> DEFINE n == Min(S)
<1>1. n \in S /\ \A y \in S : n <= y
  <2>1. S \in SUBSET Nat
    OBVIOUS
  <2> HIDE DEF S
  <2>2. QED
    BY <2>1, MinExists
<1> HIDE DEF n
<1>2. n \in 0..k /\ ~\E f : Is(f, n)
  BY <1>1 DEF Can
<1>3. n # 0
  <2> DEFINE f == [j \in 0..0 |-> ps]
  <2>1. Is(f, 0)
    OBVIOUS
  <2>2. QED
    BY <1>2, <2>1
<1>4. n - 1 \in 0..k /\ n - 1 \notin S
  <2> HIDE DEF S
  <2>1. QED
    BY <1>1, <1>2, <1>3
<1>5. PICK f : Is(f, n - 1)
  BY <1>4 DEF Can
<1> DEFINE g == [j \in 0..n |-> IF j = n THEN Apply(f[n - 1], msgs[n].act) ELSE f[j]]
<1>6. \A j \in 0..n : g[j] = IF j = 0 THEN ps ELSE Apply(g[j - 1], msgs[j].act)
  <2>1. ASSUME NEW j \in 0..n PROVE g[j] = IF j = 0 THEN ps ELSE Apply(g[j - 1], msgs[j].act)
    <3>1. CASE j = n
      <4>1. g[j] = Apply(f[n - 1], msgs[n].act) /\ g[n - 1] = f[n - 1]
        BY <1>2, <1>3, <3>1
      <4>2. QED
        BY <1>3, <3>1, <4>1
    <3>2. CASE j # n
      <4>1. j \in 0..n - 1 /\ g[j] = f[j]
        BY <1>2, <3>2
      <4>2. f[j] = IF j = 0 THEN ps ELSE Apply(f[j - 1], msgs[j].act)
        BY <1>5, <4>1
      <4>3. j # 0 => g[j - 1] = f[j - 1]
        BY <1>2, <4>1
      <4>4. QED
        BY <4>1, <4>2, <4>3
    <3>3. QED
      BY <3>1, <3>2
  <2>2. QED
    BY <2>1
<1>7. g = [j \in 0..n |-> g[j]]
  OBVIOUS
<1> HIDE DEF g
<1>8. Is(g, n)
  BY <1>6, <1>7
<1>9. QED
  BY <1>2, <1>8

\* The first points are those given, each next what a message makes of the last.
LEMMA ReplayedIs ==
  ASSUME NEW ps, NEW msgs, Len(msgs) \in Nat
  PROVE  Replayed(ps, msgs)[0] = ps /\ Follows(Replayed(ps, msgs), msgs, Len(msgs))
<1> DEFINE k == Len(msgs)
           r == Replayed(ps, msgs)
<1>1. k \in Nat
  OBVIOUS
<1>2. r = CHOOSE f : f = [n \in 0..k |-> IF n = 0 THEN ps ELSE Apply(f[n - 1], msgs[n].act)]
  BY DEF Replayed
<1> HIDE DEF r, k
<1>3. \E f : IsReplay(f, ps, msgs, k)
  BY <1>1, ReplayExists
<1>4. IsReplay(r, ps, msgs, k)
  BY <1>2, <1>3 DEF IsReplay
<1>5. r[0] = ps /\ Follows(r, msgs, k)
  BY <1>1, <1>4 DEF IsReplay, Follows
<1>6. QED
  BY <1>5 DEF r, k

\* What comes to the log comes last; what was there is replayed as before.
LEMMA ReplayedLonger ==
  ASSUME NEW ps, NEW msgs, NEW more, Len(msgs) \in Nat, Len(more) = Len(msgs) + 1,
         \A n \in 1..Len(msgs) : more[n].act = msgs[n].act
  PROVE  /\ \A n \in 0..Len(msgs) : Replayed(ps, more)[n] = Replayed(ps, msgs)[n]
         /\ Replayed(ps, more)[Len(more)] = Apply(Replayed(ps, msgs)[Len(msgs)], more[Len(more)].act)
<1> DEFINE f == Replayed(ps, more)
           g == Replayed(ps, msgs)
           k == Len(msgs)
<1>1. f[0] = ps /\ Follows(f, more, k + 1)
  BY ReplayedIs
<1>2. g[0] = ps /\ Follows(g, msgs, k)
  BY ReplayedIs
<1> HIDE DEF f, g
<1>3. Follows(f, msgs, k)
  BY <1>1 DEF Follows
<1>4. \A n \in 0..k : f[n] = g[n]
  <2>1. k \in Nat
    OBVIOUS
  <2> HIDE DEF k
  <2>2. QED
    BY <1>1, <1>2, <1>3, <2>1, ReplayUnique
<1>5. f[k + 1] = Apply(g[k], more[k + 1].act)
  <2>1. k + 1 \in 1..k + 1 /\ k + 1 - 1 = k /\ k \in 0..k
    OBVIOUS
  <2>2. f[k + 1] = Apply(f[k], more[k + 1].act)
    BY <1>1, <2>1 DEF Follows
  <2>3. QED
    BY <1>4, <2>1, <2>2
<1>6. QED
  BY <1>4, <1>5 DEF f, g

\* The first message applied, the rest is replayed as before.
LEMMA ReplayedRest ==
  ASSUME NEW ps, NEW msgs, NEW rest, Len(msgs) \in Nat, Len(msgs) >= 1, Len(rest) = Len(msgs) - 1,
         \A n \in 1..Len(rest) : rest[n].act = msgs[n + 1].act
  PROVE  \A n \in 0..Len(rest) : Replayed(Apply(ps, msgs[1].act), rest)[n] = Replayed(ps, msgs)[n + 1]
<1> DEFINE k == Len(rest)
           r == Replayed(ps, msgs)
           f == Replayed(Apply(ps, msgs[1].act), rest)
           g == [n \in 0..k |-> r[n + 1]]
<1>1. r[0] = ps /\ Follows(r, msgs, k + 1)
  BY ReplayedIs
<1>2. f[0] = Apply(ps, msgs[1].act) /\ Follows(f, rest, k)
  BY ReplayedIs
<1> HIDE DEF r, f
<1>3. k \in Nat
  OBVIOUS
<1>4. g[0] = f[0]
  <2>1. r[1] = Apply(r[0], msgs[1].act)
    <3>1. 1 \in 1..k + 1 /\ 1 - 1 = 0
      BY <1>3
    <3>2. QED
      BY <1>1, <3>1 DEF Follows
  <2>2. QED
    BY <1>1, <1>2, <1>3, <2>1
<1>5. ASSUME NEW n \in 1..k PROVE g[n] = Apply(g[n - 1], rest[n].act)
  <2>1. n + 1 \in 1..k + 1 /\ n + 1 - 1 = n /\ n \in 0..k /\ n - 1 \in 0..k /\ n - 1 + 1 = n
    BY <1>3
  <2>2. r[n + 1] = Apply(r[n], msgs[n + 1].act)
    BY <1>1, <2>1 DEF Follows
  <2>3. g[n] = r[n + 1] /\ g[n - 1] = r[n]
    BY <2>1
  <2> HIDE DEF g
  <2>4. QED
    BY <2>2, <2>3
<1> HIDE DEF g
<1>6. Follows(g, rest, k)
  BY <1>5 DEF Follows
<1>7. \A n \in 0..k : f[n] = g[n]
  <2> HIDE DEF k
  <2>1. QED
    BY <1>2, <1>3, <1>4, <1>6, ReplayUnique
<1>8. QED
  BY <1>7 DEF f, g, r

\* The log is what its messages are about.
LEMMA ReplayedSame ==
  ASSUME NEW ps, NEW msgs, NEW same, Len(msgs) \in Nat, Len(same) = Len(msgs),
         \A n \in 1..Len(msgs) : same[n].act = msgs[n].act
  PROVE  \A n \in 0..Len(msgs) : Replayed(ps, same)[n] = Replayed(ps, msgs)[n]
<1> DEFINE f == Replayed(ps, same)
           g == Replayed(ps, msgs)
           k == Len(msgs)
<1>1. f[0] = ps /\ Follows(f, same, k)
  BY ReplayedIs
<1>2. g[0] = ps /\ Follows(g, msgs, k)
  BY ReplayedIs
<1> HIDE DEF f, g
<1>3. Follows(f, msgs, k)
  BY <1>1 DEF Follows
<1>4. \A n \in 0..k : f[n] = g[n]
  <2>1. k \in Nat
    OBVIOUS
  <2> HIDE DEF k
  <2>2. QED
    BY <1>1, <1>2, <1>3, <2>1, ReplayUnique
<1>5. QED
  BY <1>4 DEF f, g

(***************************************************************************)
(* What a message makes of the points.                                      *)
(***************************************************************************)
GoodPoints(ps) == MapsTo(ps, Usable, Point) /\ \A i \in DOMAIN ps : ps[i].vec \in Fits

\* What the server can be asked to do.
Act ==
  Create \cup Upsert \cup Delete \cup [op : {"deleteAt"}, uri : UriString] \cup [op : {"scroll"}, uri : UriString]
    \cup [op : {"setUri"}, id : Id, uri : UriString]

\* What it can be made to do.
Storable(act) ==
  /\ act \in Act /\ act.op \in {"upsert", "delete", "deleteAt", "setUri"}
  /\ act.op = "upsert" => \A j \in DOMAIN act.points : act.points[j].id \in Usable /\ act.points[j].vec \in Fits

\* The URIs a message gives to points.
Gives(act) ==
  CASE act.op = "upsert" -> {ById(act.points)[i].uri : i \in DOMAIN ById(act.points)}
    [] act.op = "setUri" -> {act.uri}
    [] OTHER -> {}

\* The shape of what is asked.
LEMMA ActShape ==
  ASSUME NEW act \in Act
  PROVE  /\ act.op \in {"create", "upsert", "delete", "deleteAt", "scroll", "setUri"}
         /\ act.op = "upsert" => act.points \in Seq(Point)
         /\ act.op = "delete" => act.id \in Id
         /\ act.op \in {"deleteAt", "scroll", "setUri"} => act.uri \in UriString
         /\ act.op = "setUri" => act.id \in Id
  BY DEF Act, Create, Upsert, Delete

\* What a batch stores are its points, each under its id.
LEMMA ByIdType ==
  ASSUME NEW ps \in Seq(Point)
  PROVE  /\ \A i \in DOMAIN ById(ps) : ById(ps)[i] \in Point /\ ById(ps)[i].id = i /\ \E j \in DOMAIN ps : ById(ps)[i] = ps[j]
         /\ ById(ps) = [i \in DOMAIN ById(ps) |-> ById(ps)[i]]
<1>1. Len(ps) \in Nat /\ DOMAIN ps = 1..Len(ps) /\ \A j \in 1..Len(ps) : ps[j] \in Point
  BY ElementOfSeq, LenProperties
<1>2. \A i \in DOMAIN ById(ps) : ById(ps)[i] \in LastById(ps) /\ ById(ps)[i].id = i
  BY DEF ById
<1>3. \A p \in LastById(ps) : p \in Point /\ \E j \in DOMAIN ps : p = ps[j]
  BY <1>1 DEF LastById
<1>4. ById(ps) = [i \in DOMAIN ById(ps) |-> ById(ps)[i]]
  BY DEF ById
<1>5. QED
  BY <1>2, <1>3, <1>4

\* What an upsert stores the collection can hold.
LEMMA UpsertedGood ==
  ASSUME NEW act, Storable(act), act.op = "upsert"
  PROVE  GoodPoints(ById(act.points))
<1> DEFINE ps == act.points
<1>1. ps \in Seq(Point) /\ \A j \in DOMAIN ps : ps[j].id \in Usable /\ ps[j].vec \in Fits
  BY ActShape DEF Storable
<1> HIDE DEF ps
<1>2. /\ \A i \in DOMAIN ById(ps) : ById(ps)[i] \in Point /\ ById(ps)[i].id = i /\ \E j \in DOMAIN ps : ById(ps)[i] = ps[j]
      /\ ById(ps) = [i \in DOMAIN ById(ps) |-> ById(ps)[i]]
  BY <1>1, ByIdType
<1>3. \A i \in DOMAIN ById(ps) : i \in Usable /\ ById(ps)[i].vec \in Fits
  BY <1>1, <1>2
<1>4. QED
  BY <1>2, <1>3 DEF GoodPoints, MapsTo, ps

\* A message leaves points that the collection can hold.
LEMMA ApplyGood ==
  ASSUME NEW ps, GoodPoints(ps), NEW act, Storable(act)
  PROVE  GoodPoints(Apply(ps, act))
<1>1. act.op \in {"upsert", "delete", "deleteAt", "setUri"}
  BY DEF Storable
<1>2. CASE act.op = "upsert"
  <2>1. GoodPoints(ById(act.points))
    BY <1>2, UpsertedGood
  <2>2. Apply(ps, act) = Overlay(ById(act.points), ps)
    BY <1>2 DEF Apply
  <2>3. GoodPoints(Overlay(ById(act.points), ps))
    BY <2>1 DEF GoodPoints, Overlay, MapsTo
  <2>4. QED
    BY <2>2, <2>3
<1>3. ASSUME NEW ids PROVE GoodPoints(Without(ps, ids))
  BY DEF GoodPoints, Without, MapsTo
<1>4. CASE act.op \in {"delete", "deleteAt"}
  BY <1>3, <1>4 DEF Apply
<1>5. CASE act.op = "setUri"
  <2> DEFINE g == [i \in DOMAIN ps |-> IF i = act.id THEN [ps[i] EXCEPT !.uri = act.uri] ELSE ps[i]]
  <2>1. Apply(ps, act) = g
    BY <1>5 DEF Apply
  <2>2. act.uri \in UriString
    BY <1>5, ActShape DEF Storable
  <2>3. \A i \in DOMAIN ps : ps[i] \in Point
    BY DEF GoodPoints, MapsTo
  <2>4. ASSUME NEW p \in Point PROVE [p EXCEPT !.uri = act.uri] \in Point /\ [p EXCEPT !.uri = act.uri].vec = p.vec
    BY <2>2 DEF Point
  <2>5. \A i \in DOMAIN ps : g[i] \in Point /\ g[i].vec = ps[i].vec
    BY <2>3, <2>4
  <2>6. DOMAIN g = DOMAIN ps /\ g = [i \in DOMAIN g |-> g[i]]
    OBVIOUS
  <2> HIDE DEF g
  <2>7. QED
    BY <2>1, <2>5, <2>6 DEF GoodPoints, MapsTo
<1>6. QED
  BY <1>1, <1>2, <1>4, <1>5

\* A URI that a message does not give has no more points than before.
LEMMA NotGiven ==
  ASSUME NEW ps, GoodPoints(ps), NEW act, Storable(act), NEW u, u \notin Gives(act)
  PROVE  At(Apply(ps, act), u) \subseteq At(ps, u)
<1>1. act.op \in {"upsert", "delete", "deleteAt", "setUri"}
  BY DEF Storable
<1>2. CASE act.op = "upsert"
  <2>1. Apply(ps, act) = Overlay(ById(act.points), ps)
    BY <1>2 DEF Apply
  <2>2. \A i \in DOMAIN ById(act.points) : ById(act.points)[i].uri # u
    BY <1>2 DEF Gives
  <2>3. QED
    BY <2>1, <2>2 DEF At, Overlay
<1>3. CASE act.op \in {"delete", "deleteAt"}
  BY <1>3 DEF Apply, At, Without
<1>4. CASE act.op = "setUri"
  <2> DEFINE g == [i \in DOMAIN ps |-> IF i = act.id THEN [ps[i] EXCEPT !.uri = act.uri] ELSE ps[i]]
  <2>1. Apply(ps, act) = g
    BY <1>4 DEF Apply
  <2>2. act.uri # u
    BY <1>4 DEF Gives
  <2>3. ASSUME NEW p \in Point PROVE [p EXCEPT !.uri = act.uri].uri = act.uri
    BY <2>2 DEF Point
  <2>4. \A i \in DOMAIN ps : g[i].uri = u => ps[i].uri = u
    BY <2>2, <2>3 DEF GoodPoints, MapsTo
  <2>5. DOMAIN g = DOMAIN ps
    OBVIOUS
  <2> HIDE DEF g
  <2>6. QED
    BY <2>1, <2>4, <2>5 DEF At
<1>5. QED
  BY <1>1, <1>2, <1>3, <1>4

\* A point that is at a URI afterwards and is not one a message gave it was
\* there before; what a removal names and what is renamed is at it no more.
LEMMA TakenAway ==
  ASSUME NEW ps, GoodPoints(ps), NEW act, Storable(act)
  PROVE  /\ act.op = "deleteAt" => At(Apply(ps, act), act.uri) = {}
         /\ \A u : act.op = "setUri" /\ u # act.uri => act.id \notin At(Apply(ps, act), u)
<1>1. CASE act.op = "deleteAt"
  BY <1>1 DEF Apply, At, Without
<1>2. ASSUME NEW u, act.op = "setUri", u # act.uri PROVE act.id \notin At(Apply(ps, act), u)
  <2> DEFINE g == [i \in DOMAIN ps |-> IF i = act.id THEN [ps[i] EXCEPT !.uri = act.uri] ELSE ps[i]]
  <2>1. Apply(ps, act) = g
    BY <1>2 DEF Apply
  <2>2. ASSUME NEW p \in Point PROVE [p EXCEPT !.uri = act.uri].uri = act.uri
    BY DEF Point
  <2>3. act.id \in DOMAIN ps => g[act.id].uri = act.uri
    BY <2>2 DEF GoodPoints, MapsTo
  <2>4. DOMAIN g = DOMAIN ps
    OBVIOUS
  <2> HIDE DEF g
  <2>5. QED
    BY <1>2, <2>1, <2>3, <2>4 DEF At
<1>3. QED
  BY <1>1, <1>2

\* A message that does not affect a URI leaves its points as they will be.
LEMMA NotAffected ==
  ASSUME GoodPoints(View), NEW act, Storable(act), NEW u \in Uri, u \notin Affects(act)
  PROVE  /\ u \notin Gives(act)
         /\ \A i \in At(View, u) : i \in At(Apply(View, act), u) /\ Apply(View, act)[i] = View[i]
<1> DEFINE v == View
<1>1. act.op \in {"upsert", "delete", "deleteAt", "setUri"}
  BY DEF Storable
<1>2. CASE act.op = "upsert"
  <2> DEFINE ps == ById(act.points)
  <2>1. u \notin UrisOf(ps, DOMAIN ps) /\ u \notin UrisOf(v, DOMAIN ps)
    BY <1>2 DEF Affects
  <2>2. Apply(v, act) = Overlay(ps, v) /\ Gives(act) = {ps[i].uri : i \in DOMAIN ps}
    BY <1>2 DEF Apply, Gives
  <2> HIDE DEF ps, v
  <2>3. \A i \in DOMAIN ps : ps[i].uri # u
    BY <2>1 DEF UrisOf
  <2>4. \A i \in DOMAIN ps \cap DOMAIN v : v[i].uri # u
    BY <2>1 DEF UrisOf
  <2>5. u \notin Gives(act)
    BY <2>2, <2>3
  <2>6. ASSUME NEW i \in At(v, u) PROVE i \in At(Overlay(ps, v), u) /\ Overlay(ps, v)[i] = v[i]
    BY <2>4 DEF At, Overlay
  <2>7. QED
    BY <2>2, <2>5, <2>6 DEF v
<1>3. CASE act.op = "delete"
  <2>1. u \notin UrisOf(v, {act.id}) /\ Apply(v, act) = Without(v, {act.id}) /\ u \notin Gives(act)
    BY <1>3 DEF Affects, Apply, Gives
  <2> HIDE DEF v
  <2>2. act.id \notin At(v, u)
    BY <2>1 DEF UrisOf, At
  <2>3. ASSUME NEW i \in At(v, u) PROVE i \in At(Without(v, {act.id}), u) /\ Without(v, {act.id})[i] = v[i]
    BY <2>2 DEF At, Without
  <2>4. QED
    BY <2>1, <2>3 DEF v
<1>4. CASE act.op = "deleteAt"
  <2> DEFINE ids == At(v, act.uri)
  <2>1. u # act.uri /\ Apply(v, act) = Without(v, ids) /\ u \notin Gives(act)
    <3>1. u # NoUri /\ Under(u, u)
      BY PointsAssumption, SyncAssumption DEF Under, IsPrefix
    <3>2. u \notin {x \in Uri : Under(x, act.uri)}
      BY <1>4 DEF Affects
    <3>3. QED
      BY <1>4, <3>1, <3>2 DEF Apply, Gives
  <2>2. \A i \in ids : v[i].uri # u
    BY <2>1 DEF At
  <2> HIDE DEF v, ids
  <2>3. ASSUME NEW i \in At(v, u) PROVE i \in At(Without(v, ids), u) /\ Without(v, ids)[i] = v[i]
    BY <2>2 DEF At, Without
  <2>4. QED
    BY <2>1, <2>3 DEF v
<1>5. CASE act.op = "setUri"
  <2> DEFINE g == [i \in DOMAIN v |-> IF i = act.id THEN [v[i] EXCEPT !.uri = act.uri] ELSE v[i]]
  <2>1. u # act.uri /\ u \notin UrisOf(v, {act.id}) /\ Apply(v, act) = g /\ u \notin Gives(act)
    BY <1>5 DEF Affects, Apply, Gives
  <2> HIDE DEF v
  <2>2. act.id \notin At(v, u)
    BY <2>1 DEF UrisOf, At
  <2>3. ASSUME NEW i \in At(v, u) PROVE i \in At(g, u) /\ g[i] = v[i]
    BY <2>2 DEF At
  <2> HIDE DEF g
  <2>4. QED
    BY <2>1, <2>3 DEF v
<1>6. QED
  BY <1>1, <1>2, <1>3, <1>4, <1>5

(***************************************************************************)
(* Messages and the clients that wait for them.                             *)
(***************************************************************************)
Message == [of : Client \cup {NoClient}, act : Act]

TaskType ==
  [pc : {"idle", "waiting", "answered", "refused"}, req : Request \cup {NoRequest}, todo : SUBSET Id, beyond : SUBSET Id,
   sure : BOOLEAN]

Outcome == [says : Vec \cup {"unknown", "absent"}, left : SUBSET Id]

\* A message of a client is the first of its call or one of those that move.
Carries(k, act) ==
  \/ k.req # NoRequest /\ act = FirstMessage(k.req)
  \/ act.op = "setUri" /\ k.req.op = "updateUri" /\ act.uri = k.req.new

TypeInv ==
  /\ exists \in BOOLEAN /\ GoodPoints(points)
  /\ wire \subseteq Message
  /\ log \in Seq(Message) /\ \A j \in 1..Len(log) : Storable(log[j].act)
  /\ task \in [Client -> TaskType]
  /\ \A t \in Client : /\ task[t].req \in CallsOf[t] \cup {NoRequest}
                       /\ task[t].pc = "idle" => task[t].todo = {} /\ task[t].req = NoRequest
                       /\ task[t].todo # {} => task[t].req.op = "updateUri"
                       /\ task[t].beyond # {} => task[t].req.op = "updateUri"
  /\ after \in [Uri -> Outcome]

\* A client waits for one message, and only then is there one.
SoleInv ==
  /\ \A m, n \in wire : m.of = n.of /\ m.of \in Client => m = n
  /\ \A i, j \in 1..Len(log) : log[i].of = log[j].of /\ log[i].of \in Client => i = j
  /\ \A m \in wire : \A j \in 1..Len(log) : m.of \in Client => m.of # log[j].of
  /\ \A m \in wire : m.of \in Client => task[m.of].pc = "waiting" /\ Carries(task[m.of], m.act)
  /\ \A j \in 1..Len(log) : log[j].of \in Client => task[log[j].of].pc = "waiting" /\ Carries(task[log[j].of], log[j].act)

\* What a client may call.
LEMMA RequestShape ==
  ASSUME NEW r \in Request
  PROVE  /\ r.op \in {"create", "upsert", "delete", "deletePrefix", "updateUri"} /\ r # NoRequest
         /\ r.op = "upsert" => r.points \in Seq(Point)
         /\ r.op = "deletePrefix" => r.prefix \in UriString
         /\ r.op = "updateUri" => r.old \in UriString /\ r.new \in UriString
         /\ FirstMessage(r) \in Act
         /\ FirstMessage(r).op = (IF r.op = "deletePrefix" THEN "deleteAt" ELSE IF r.op = "updateUri" THEN "scroll" ELSE r.op)
         /\ r.op = "deletePrefix" => FirstMessage(r).uri = r.prefix
         /\ r.op = "updateUri" => FirstMessage(r).uri = r.old
         /\ r.op \in {"create", "upsert", "delete"} => FirstMessage(r) = r
<1>1. CASE r \in Create \cup Upsert \cup Delete
  <2>1. r.op \in {"create", "upsert", "delete"} /\ r # NoRequest /\ (r.op = "upsert" => r.points \in Seq(Point))
    BY <1>1 DEF Create, Upsert, Delete, NoRequest
  <2>2. FirstMessage(r) = r
    BY <2>1 DEF FirstMessage
  <2>3. r \in Act
    BY <1>1 DEF Act
  <2>4. QED
    BY <2>1, <2>2, <2>3
<1>2. CASE r \in DeletePrefix
  <2>1. r.op = "deletePrefix" /\ r.prefix \in UriString
    BY <1>2 DEF DeletePrefix
  <2>2. FirstMessage(r) = [op |-> "deleteAt", uri |-> r.prefix]
    BY <2>1 DEF FirstMessage
  <2>3. FirstMessage(r) \in Act
    BY <2>1, <2>2 DEF Act
  <2>4. QED
    BY <2>1, <2>2, <2>3 DEF NoRequest
<1>3. CASE r \in UpdateUri
  <2>1. r.op = "updateUri" /\ r.old \in UriString /\ r.new \in UriString
    BY <1>3 DEF UpdateUri
  <2>2. FirstMessage(r) = [op |-> "scroll", uri |-> r.old]
    BY <2>1 DEF FirstMessage
  <2>3. FirstMessage(r) \in Act
    BY <2>1, <2>2 DEF Act
  <2>4. QED
    BY <2>1, <2>2, <2>3 DEF NoRequest
<1>4. QED
  BY <1>1, <1>2, <1>3 DEF Request

\* A client's call.
LEMMA CallShape ==
  ASSUME TypeInv, NEW t \in Client
  PROVE  /\ task[t] \in TaskType /\ task[t].req \in Request \cup {NoRequest}
         /\ \A r \in CallsOf[t] : r \in Request
         /\ NoRequest.op = "none"
  BY QdrantAssumption DEF TypeInv, TaskType, NoRequest

\* The call that a message belongs to.
LEMMA CarriesShape ==
  ASSUME TypeInv, NEW t \in Client, NEW act, Carries(task[t], act)
  PROVE  /\ act \in Act => act.op \in {"create", "upsert", "delete", "deleteAt", "scroll", "setUri"}
         /\ act.op \in {"create", "upsert", "delete"} => task[t].req = act
         /\ act.op = "deleteAt" => task[t].req.op = "deletePrefix" /\ task[t].req.prefix = act.uri
         /\ act.op = "scroll" => task[t].req.op = "updateUri" /\ task[t].req.old = act.uri
         /\ act.op = "setUri" => task[t].req.op = "updateUri" /\ task[t].req.new = act.uri
<1> DEFINE r == task[t].req
<1>1. r \in Request \cup {NoRequest}
  BY CallShape
<1> HIDE DEF r
<1>2. act \in Act => act.op \in {"create", "upsert", "delete", "deleteAt", "scroll", "setUri"}
  BY ActShape
<1>3. CASE r # NoRequest /\ act = FirstMessage(r)
  BY <1>1, <1>2, <1>3, RequestShape DEF r
<1>4. CASE act.op = "setUri" /\ r.op = "updateUri" /\ act.uri = r.new
  BY <1>2, <1>4 DEF r
<1>5. QED
  BY <1>3, <1>4 DEF Carries, r

\* What the answer to a message makes of the clients.
LEMMA AnswerIs ==
  ASSUME TypeInv, NEW m, NEW pc \in {"waiting", "answered", "refused"}, Answer(m, pc)
  PROVE  /\ task' \in [Client -> TaskType]
         /\ \A t \in Client : task'[t].req = task[t].req /\ task'[t].todo = task[t].todo /\ task'[t].beyond = task[t].beyond
         /\ m.of \in Client => task'[m.of].pc = pc /\ task'[m.of].sure = (m.act.op = "setUri" => task[m.of].sure)
         /\ \A t \in Client \ {m.of} :
              task'[t].pc = task[t].pc /\ (task'[t].sure => task[t].sure /\ Names(task[t].req) \cap Affects(m.act) = {})
<1> DEFINE own(t) == [task[t] EXCEPT !.pc = pc, !.sure = m.act.op = "setUri" => @]
           other(t) == [task[t] EXCEPT !.sure = @ /\ Names(task[t].req) \cap Affects(m.act) = {}]
           spared(t) == Names(task[t].req) \cap Affects(m.act) = {}
<1>1. task' = [t \in Client |-> IF t = m.of THEN own(t) ELSE other(t)]
  BY DEF Answer
<1>2. \A t \in Client : task[t] \in TaskType
  BY CallShape
<1>3. ASSUME NEW k \in TaskType, NEW b \in BOOLEAN
      PROVE  /\ [k EXCEPT !.sure = b] \in TaskType /\ [k EXCEPT !.sure = b].req = k.req /\ [k EXCEPT !.sure = b].todo = k.todo /\ [k EXCEPT !.sure = b].beyond = k.beyond
             /\ [k EXCEPT !.sure = b].pc = k.pc /\ [k EXCEPT !.sure = b].sure = b
  BY DEF TaskType
<1>4. ASSUME NEW k \in TaskType
      PROVE  /\ [k EXCEPT !.pc = pc] \in TaskType /\ [k EXCEPT !.pc = pc].req = k.req /\ [k EXCEPT !.pc = pc].todo = k.todo /\ [k EXCEPT !.pc = pc].beyond = k.beyond
             /\ [k EXCEPT !.pc = pc].pc = pc /\ [k EXCEPT !.pc = pc].sure = k.sure
  BY DEF TaskType
<1>5. ASSUME NEW t \in Client
      PROVE  /\ own(t) \in TaskType /\ own(t).req = task[t].req /\ own(t).todo = task[t].todo /\ own(t).beyond = task[t].beyond
             /\ own(t).pc = pc /\ own(t).sure = (m.act.op = "setUri" => task[t].sure)
  <2> DEFINE k == task[t]
             j == [k EXCEPT !.pc = pc]
             b == m.act.op = "setUri" => k.sure
  <2>1. k \in TaskType /\ k.sure \in BOOLEAN
    BY <1>2 DEF TaskType
  <2>2. own(t) = [j EXCEPT !.sure = b]
    BY <2>1 DEF TaskType
  <2>3. j \in TaskType /\ j.req = k.req /\ j.todo = k.todo /\ j.beyond = k.beyond /\ j.pc = pc /\ b \in BOOLEAN
    BY <1>4, <2>1
  <2> HIDE DEF b, own, j
  <2>4. /\ own(t) \in TaskType /\ own(t).req = k.req /\ own(t).todo = k.todo /\ own(t).beyond = k.beyond
        /\ own(t).pc = pc /\ own(t).sure = b
    BY <1>3, <2>1, <2>2, <2>3
  <2>5. QED
    BY <2>4 DEF b
<1>6. ASSUME NEW t \in Client
      PROVE  /\ other(t) \in TaskType /\ other(t).req = task[t].req /\ other(t).todo = task[t].todo /\ other(t).beyond = task[t].beyond
             /\ other(t).pc = task[t].pc /\ other(t).sure = (task[t].sure /\ spared(t))
  <2> DEFINE k == task[t]
             b == k.sure /\ spared(t)
  <2>1. k \in TaskType /\ b \in BOOLEAN
    BY <1>2
  <2>2. other(t) = [k EXCEPT !.sure = b]
    BY <2>1 DEF TaskType
  <2> HIDE DEF b, other
  <2>3. /\ other(t) \in TaskType /\ other(t).req = k.req /\ other(t).todo = k.todo /\ other(t).beyond = k.beyond
        /\ other(t).pc = k.pc /\ other(t).sure = b
    BY <1>3, <2>1, <2>2
  <2>4. QED
    BY <2>3 DEF b
<1>7. \A t \in Client : t = m.of => task'[t] = own(t)
  BY <1>1
<1>8. \A t \in Client : t # m.of => task'[t] = other(t)
  BY <1>1
<1>9. task' \in [Client -> TaskType]
  <2> HIDE DEF own, other
  <2>1. QED
    BY <1>1, <1>5, <1>6
<1> HIDE DEF own, other
<1>10. QED
  BY <1>5, <1>6, <1>7, <1>8, <1>9

\* The log's messages.
LEMMA LogShape ==
  ASSUME TypeInv
  PROVE  /\ Len(log) \in Nat /\ DOMAIN log = 1..Len(log)
         /\ \A j \in 1..Len(log) : /\ log[j] \in Message /\ log[j].act \in Act /\ log[j].of \in Client \cup {NoClient}
                                   /\ Storable(log[j].act)
<1>1. log \in Seq(Message) /\ \A j \in 1..Len(log) : Storable(log[j].act)
  BY DEF TypeInv
<1>2. Len(log) \in Nat /\ DOMAIN log = 1..Len(log)
  BY <1>1, LenProperties
<1>3. \A j \in 1..Len(log) : log[j] \in Message
  BY <1>1, <1>2, ElementOfSeq
<1>4. \A m \in Message : m.of \in Client \cup {NoClient} /\ m.act \in Act
  BY DEF Message
<1>5. QED
  BY <1>1, <1>2, <1>3, <1>4

\* A message in the hands of nobody.
LEMMA AbandonedIs ==
  ASSUME NEW m \in Message
  PROVE  Abandoned(m) \in Message /\ Abandoned(m).of = NoClient /\ Abandoned(m).act = m.act
  BY DEF Abandoned, Message

\* A request sent is the client's only message.
LEMMA SendKeeps ==
  ASSUME TypeInv, SoleInv, NEW t \in Client, task[t].pc # "waiting", NEW act \in Act, NEW k \in TaskType, Carries(k, act),
         k.req \in CallsOf[t] \cup {NoRequest}, k.req # NoRequest,
         k.todo # {} => k.req.op = "updateUri", k.beyond # {} => k.req.op = "updateUri",
         Send(t, act, k), exists' = exists, points' = points, log' = log, after' = after
  PROVE  /\ TypeInv' /\ SoleInv'
         /\ task'[t].sure = k.sure /\ task'[t].req = k.req /\ task'[t].todo = k.todo /\ task'[t].beyond = k.beyond /\ task'[t].pc = "waiting"
<1> DEFINE j == [k EXCEPT !.pc = "waiting"]
           n == [of |-> t, act |-> act]
<1>1. j \in TaskType /\ j.pc = "waiting" /\ j.req = k.req /\ j.todo = k.todo /\ j.beyond = k.beyond /\ j.sure = k.sure
  BY DEF TaskType
<1>2. task \in [Client -> TaskType] /\ task' = [task EXCEPT ![t] = j]
  BY DEF TypeInv, Send
<1> HIDE DEF j
<1>3. task' \in [Client -> TaskType] /\ task'[t] = j /\ \A s \in Client \ {t} : task'[s] = task[s]
  BY <1>1, <1>2
<1>4. n \in Message /\ n.of = t /\ n.act = act /\ wire' = wire \cup {n}
  BY DEF Message, Send
<1>5. Carries(task'[t], act)
  BY <1>1, <1>3 DEF Carries
<1> HIDE DEF n
<1>6. TypeInv'
  BY <1>1, <1>3, <1>4 DEF TypeInv
<1>7. \A m \in wire : m.of # t
  BY DEF SoleInv
<1>8. \A i \in 1..Len(log) : log[i].of # t
  BY DEF SoleInv
<1>9. SoleInv'
  <2>1. \A m, o \in wire' : m.of = o.of /\ m.of \in Client => m = o
    BY <1>4, <1>7 DEF SoleInv
  <2>2. \A i, l \in 1..Len(log') : log'[i].of = log'[l].of /\ log'[i].of \in Client => i = l
    BY DEF SoleInv
  <2>3. \A m \in wire' : \A i \in 1..Len(log') : m.of \in Client => m.of # log'[i].of
    BY <1>4, <1>8 DEF SoleInv
  <2>4. \A m \in wire' : m.of \in Client => task'[m.of].pc = "waiting" /\ Carries(task'[m.of], m.act)
    BY <1>1, <1>3, <1>4, <1>5, <1>7 DEF SoleInv
  <2>5. \A i \in 1..Len(log') : log'[i].of \in Client => task'[log'[i].of].pc = "waiting" /\ Carries(task'[log'[i].of], log'[i].act)
    BY <1>3, <1>8 DEF SoleInv
  <2>6. QED
    BY <2>1, <2>2, <2>3, <2>4, <2>5 DEF SoleInv
<1>10. QED
  BY <1>1, <1>3, <1>6, <1>9

\* A message that leaves the wire, whoever it was of being answered or not.
LEMMA AnswerKeeps ==
  ASSUME TypeInv, SoleInv, NEW m \in wire, NEW pc \in {"answered", "refused"}, wire' = wire \ {m}, Answer(m, pc)
  PROVE  /\ wire' \subseteq Message
         /\ \A t \in Client : /\ task'[t].req \in CallsOf[t] \cup {NoRequest}
                              /\ task'[t].pc = "idle" => task'[t].todo = {} /\ task'[t].req = NoRequest
                              /\ task'[t].todo # {} => task'[t].req.op = "updateUri"
                              /\ task'[t].beyond # {} => task'[t].req.op = "updateUri"
         /\ \A o \in wire' : o.of \in Client => o.of # m.of /\ task'[o.of].pc = "waiting" /\ Carries(task'[o.of], o.act)
         /\ \A j \in 1..Len(log) : log[j].of \in Client =>
              log[j].of # m.of /\ task'[log[j].of].pc = "waiting" /\ Carries(task'[log[j].of], log[j].act)
<1>1. /\ \A t \in Client : task'[t].req = task[t].req /\ task'[t].todo = task[t].todo /\ task'[t].beyond = task[t].beyond
      /\ m.of \in Client => task'[m.of].pc = pc
      /\ \A t \in Client \ {m.of} : task'[t].pc = task[t].pc
  BY AnswerIs
<1>2. wire' \subseteq Message
  BY DEF TypeInv
<1>3. \A t \in Client : /\ task'[t].req \in CallsOf[t] \cup {NoRequest}
                        /\ task'[t].pc = "idle" => task'[t].todo = {} /\ task'[t].req = NoRequest
                        /\ task'[t].todo # {} => task'[t].req.op = "updateUri"
                        /\ task'[t].beyond # {} => task'[t].req.op = "updateUri"
  BY <1>1 DEF TypeInv
<1>4. \A t \in Client : \A act : Carries(task[t], act) => Carries(task'[t], act)
  BY <1>1 DEF Carries
<1>5. \A o \in wire' : o.of \in Client => o.of # m.of /\ task'[o.of].pc = "waiting" /\ Carries(task'[o.of], o.act)
  BY <1>1, <1>4 DEF SoleInv
<1>6. \A j \in 1..Len(log) : log[j].of \in Client =>
         log[j].of # m.of /\ task'[log[j].of].pc = "waiting" /\ Carries(task'[log[j].of], log[j].act)
  BY <1>1, <1>4 DEF SoleInv
<1>7. QED
  BY <1>2, <1>3, <1>5, <1>6

\* The client is idle, with what it had on the way in nobody's hands.
LEMMA GiveUpIs ==
  ASSUME TypeInv, SoleInv, NEW t \in Client, GiveUp(t)
  PROVE  /\ task' = [task EXCEPT ![t] = Resting] /\ task'[t] = Resting /\ \A s \in Client \ {t} : task'[s] = task[s]
         /\ \A n \in wire' : n \in Message /\ n.of # t /\ (n.of \in Client => n \in wire)
         /\ \A n \in wire : n.of \in Client \ {t} => n \in wire'
         /\ Len(log') = Len(log) /\ log' \in Seq(Message)
         /\ \A j \in 1..Len(log) : /\ log'[j].act = log[j].act /\ log'[j].of # t
                                   /\ log[j].of \in Client \ {t} => log'[j] = log[j]
                                   /\ log'[j].of \in Client => log'[j] = log[j]
<1> DEFINE given(m) == IF m.of = t THEN Abandoned(m) ELSE m
<1>1. /\ task' = [task EXCEPT ![t] = Resting]
      /\ wire' = {given(m) : m \in wire}
      /\ log' = [j \in DOMAIN log |-> given(log[j])]
  BY DEF GiveUp
<1>2. ASSUME NEW m \in Message
      PROVE  /\ given(m) \in Message /\ given(m).act = m.act /\ given(m).of # t
             /\ m.of \in Client \ {t} => given(m) = m
             /\ given(m).of \in Client => given(m) = m
  BY AbandonedIs, QdrantAssumption
<1> HIDE DEF given
<1>3. task'[t] = Resting /\ \A s \in Client \ {t} : task'[s] = task[s]
  BY <1>1 DEF TypeInv
<1>4. wire \subseteq Message
  BY DEF TypeInv
<1>5. \A n \in wire' : n \in Message /\ n.of # t /\ (n.of \in Client => n \in wire)
  BY <1>1, <1>2, <1>4
<1>6. \A n \in wire : n.of \in Client \ {t} => n \in wire'
  BY <1>1, <1>2, <1>4
<1>7. Len(log) \in Nat /\ DOMAIN log = 1..Len(log) /\ \A j \in 1..Len(log) : log[j] \in Message
  BY LogShape
<1>8. \A j \in 1..Len(log) : log'[j] = given(log[j])
  BY <1>1, <1>7
<1>9. Len(log') = Len(log) /\ log' \in Seq(Message)
  <2>1. log' \in [1..Len(log) -> Message]
    BY <1>1, <1>2, <1>7
  <2>2. DOMAIN log' = 1..Len(log)
    BY <1>1, <1>7
  <2> DEFINE k == Len(log)
  <2> HIDE DEF k
  <2>3. log' \in Seq(Message)
    BY <1>7, <2>1 DEF k
  <2>4. Len(log') \in Nat /\ DOMAIN log' = 1..Len(log')
    BY <2>3, LenProperties
  <2>5. QED
    BY <1>7, <2>2, <2>3, <2>4 DEF k
<1>10. \A j \in 1..Len(log) : /\ log'[j].act = log[j].act /\ log'[j].of # t
                              /\ log[j].of \in Client \ {t} => log'[j] = log[j]
                              /\ log'[j].of \in Client => log'[j] = log[j]
  BY <1>2, <1>7, <1>8
<1>11. QED
  BY <1>1, <1>3, <1>5, <1>6, <1>9, <1>10

\* The first message of the log is applied.
LEMMA ApplyNextIs ==
  ASSUME TypeInv, SoleInv, ApplyNext
  PROVE  /\ Len(log) >= 1 /\ points' = Apply(points, log[1].act)
         /\ Len(log') = Len(log) - 1 /\ log' \in Seq(Message) /\ \A j \in 1..Len(log') : log'[j] = log[j + 1]
         /\ \A t \in Client : /\ task'[t].req = task[t].req /\ task'[t].todo = task[t].todo /\ task'[t].beyond = task[t].beyond /\ task'[t].sure = task[t].sure
                              /\ task'[t] \in TaskType
                              /\ task'[t].pc = (IF t = log[1].of THEN "answered" ELSE task[t].pc)
         /\ task' \in [Client -> TaskType]
<1>1. log \in Seq(Message) /\ log # <<>> /\ Head(log) = log[1] /\ log' = Tail(log) /\ points' = Apply(points, Head(log).act)
  BY DEF ApplyNext, TypeInv
<1>2. Tail(log) \in Seq(Message) /\ Len(Tail(log)) = Len(log) - 1 /\ \A j \in 1..Len(log) - 1 : Tail(log)[j] = log[j + 1]
  BY <1>1
<1>3. Len(log) \in Nat /\ Len(log) >= 1
  BY <1>1
<1>4. log[1].of \in Client \cup {NoClient}
  BY <1>3, LogShape
<1>5. ASSUME NEW k \in TaskType
      PROVE  LET j == [k EXCEPT !.pc = "answered"]
             IN j \in TaskType /\ j.req = k.req /\ j.todo = k.todo /\ j.beyond = k.beyond /\ j.sure = k.sure /\ j.pc = "answered"
  BY DEF TaskType
<1>6. task' = IF log[1].of = NoClient THEN task ELSE [task EXCEPT ![log[1].of].pc = "answered"]
  BY <1>1 DEF ApplyNext
<1>7. task \in [Client -> TaskType] /\ NoClient \notin Client
  BY QdrantAssumption DEF TypeInv
<1>8. CASE log[1].of = NoClient
  BY <1>1, <1>2, <1>3, <1>6, <1>7, <1>8
<1>9. CASE log[1].of # NoClient
  <2> DEFINE c == log[1].of
             j == [task[c] EXCEPT !.pc = "answered"]
  <2>1. c \in Client /\ task[c] \in TaskType
    BY <1>4, <1>7, <1>9
  <2>2. j \in TaskType /\ j.req = task[c].req /\ j.todo = task[c].todo /\ j.beyond = task[c].beyond /\ j.sure = task[c].sure /\ j.pc = "answered"
    BY <1>5, <2>1
  <2>3. task' = [task EXCEPT ![c] = j]
    BY <1>6, <1>9
  <2> HIDE DEF j
  <2>4. task' \in [Client -> TaskType] /\ task'[c] = j /\ \A s \in Client \ {c} : task'[s] = task[s]
    BY <1>7, <2>1, <2>2, <2>3
  <2>5. \A t \in Client : /\ task'[t].req = task[t].req /\ task'[t].todo = task[t].todo /\ task'[t].beyond = task[t].beyond /\ task'[t].sure = task[t].sure
                          /\ task'[t] \in TaskType
                          /\ task'[t].pc = (IF t = c THEN "answered" ELSE task[t].pc)
    BY <1>7, <2>2, <2>4
  <2>6. QED
    BY <1>1, <1>2, <1>3, <2>4, <2>5
<1>10. QED
  BY <1>8, <1>9

\* The log has one message more, of the client if it waits for the change.
LEMMA AcceptIs ==
  ASSUME TypeInv, SoleInv, NEW m \in wire, Accept(m)
  PROVE  /\ Len(log') = Len(log) + 1 /\ log' \in Seq(Message) /\ Storable(m.act)
         /\ \A j \in 1..Len(log) : log'[j] = log[j]
         /\ log'[Len(log')].act = m.act /\ log'[Len(log')].of = (IF Waited(m.act) THEN m.of ELSE NoClient)
<1> DEFINE o == IF Waited(m.act) THEN m ELSE Abandoned(m)
<1>1. m \in Message /\ m.act \in Act
  BY DEF TypeInv, Message
<1>2. o \in Message /\ o.act = m.act /\ o.of = (IF Waited(m.act) THEN m.of ELSE NoClient)
  BY <1>1, AbandonedIs
<1>3. log' = Append(log, o)
  BY DEF Accept
<1> HIDE DEF o
<1>4. log \in Seq(Message) /\ Len(log) \in Nat
  BY LogShape DEF TypeInv
<1>5. log' \in Seq(Message) /\ Len(log') = Len(log) + 1 /\ (\A j \in 1..Len(log) : log'[j] = log[j]) /\ log'[Len(log) + 1] = o
  BY <1>2, <1>3, <1>4
<1>6. Storable(m.act)
  <2>1. m.act.op \in {"upsert", "delete", "deleteAt", "setUri"}
    BY <1>1, ActShape DEF Accept
  <2>2. m.act.op = "upsert" => \A j \in DOMAIN m.act.points : m.act.points[j].id \in Usable /\ m.act.points[j].vec \in Fits
    BY DEF Accept, Refuses
  <2>3. QED
    BY <1>1, <2>1, <2>2 DEF Storable
<1>7. QED
  BY <1>2, <1>5, <1>6

\* Nothing is stored that the collection cannot hold, no client has two
\* messages on the way, and each is one of its call.
LEMMA TypeKept ==
  ASSUME TypeInv, SoleInv, [Next]_vars
  PROVE  TypeInv' /\ SoleInv'
<1>1. ASSUME NEW t \in Client, Call(t) PROVE TypeInv' /\ SoleInv'
  <2>1. PICK r \in CallsOf[t] : Send(t, FirstMessage(r), [Resting EXCEPT !.req = r])
    BY <1>1 DEF Call
  <2> DEFINE k == [Resting EXCEPT !.req = r]
  <2>2. r \in Request /\ r # NoRequest /\ FirstMessage(r) \in Act
    BY CallShape, RequestShape
  <2>3. k \in TaskType /\ k.req = r /\ k.todo = {} /\ k.beyond = {}
    BY <2>2 DEF Resting, TaskType
  <2> HIDE DEF k
  <2>4. Carries(k, FirstMessage(r))
    BY <2>2, <2>3 DEF Carries
  <2>5. task[t].pc # "waiting"
    BY <1>1 DEF Call, Busy
  <2>6. Send(t, FirstMessage(r), k)
    BY <2>1 DEF k
  <2> DEFINE act == FirstMessage(r)
  <2>7. act \in Act
    BY <2>2
  <2> HIDE DEF act
  <2>8. QED
    BY <1>1, <2>2, <2>3, <2>4, <2>5, <2>6, <2>7, SendKeeps DEF Call, act
<1>2. ASSUME NEW t \in Client, Fail(t) PROVE TypeInv' /\ SoleInv'
  <2>1. Resting \in TaskType /\ Resting.req = NoRequest /\ Resting.todo = {} /\ Resting.beyond = {}
    BY DEF TaskType, Resting
  <2>2. task[t].pc = "refused" /\ task' = [task EXCEPT ![t] = Resting]
    BY <1>2 DEF Fail
  <2> HIDE DEF Resting
  <2>3. task' \in [Client -> TaskType] /\ task'[t] = Resting /\ \A s \in Client \ {t} : task'[s] = task[s]
    BY <2>1, <2>2 DEF TypeInv
  <2>4. \A m \in wire : m.of # t
    BY <2>2 DEF SoleInv
  <2>5. \A j \in 1..Len(log) : log[j].of # t
    BY <2>2 DEF SoleInv
  <2>6. TypeInv'
    BY <1>2, <2>1, <2>3 DEF TypeInv, Fail
  <2>7. SoleInv'
    BY <1>2, <2>3, <2>4, <2>5 DEF SoleInv, Fail
  <2>8. QED
    BY <2>6, <2>7
<1>3. ASSUME NEW t \in Client, MoveOne(t) PROVE TypeInv' /\ SoleInv'
  <2> DEFINE i == Min(task[t].todo)
             act == [op |-> "setUri", id |-> i, uri |-> task[t].req.new]
             k == [task[t] EXCEPT !.todo = @ \ {i}]
  <2>1. Send(t, act, k) /\ task[t].pc = "answered" /\ task[t].todo # {}
    BY <1>3 DEF MoveOne
  <2>2. task[t] \in TaskType /\ task[t].req \in Request \cup {NoRequest} /\ task[t].req.op = "updateUri"
    BY <2>1, CallShape DEF TypeInv
  <2>3. task[t].req # NoRequest /\ task[t].req.new \in UriString
    <3>1. task[t].req # NoRequest
      BY <2>2 DEF NoRequest
    <3>2. QED
      BY <2>2, <3>1, RequestShape
  <2>4. i \in task[t].todo /\ i \in Id
    <3>1. task[t].todo \subseteq Id /\ Id \subseteq Nat
      BY <2>2, PointsAssumption DEF TaskType
    <3>2. QED
      BY <2>1, <3>1, MinExists
  <2> HIDE DEF i
  <2>5. act \in Act /\ act.op = "setUri" /\ act.uri = task[t].req.new
    BY <2>3, <2>4 DEF Act
  <2>6. k \in TaskType /\ k.req = task[t].req /\ k.todo \subseteq task[t].todo /\ k.beyond = task[t].beyond
    BY <2>2 DEF TaskType
  <2> HIDE DEF act, k
  <2>7. Carries(k, act) /\ task[t].pc # "waiting"
    BY <2>1, <2>2, <2>5, <2>6 DEF Carries
  <2>8. k.req \in CallsOf[t] \cup {NoRequest}
    BY <2>6 DEF TypeInv
  <2>9. QED
    BY <1>3, <2>1, <2>2, <2>3, <2>5, <2>6, <2>7, <2>8, SendKeeps DEF MoveOne
<1>4. ASSUME NEW t \in Client, Return(t) PROVE TypeInv' /\ SoleInv'
  <2>1. Resting \in TaskType /\ Resting.req = NoRequest /\ Resting.todo = {} /\ Resting.beyond = {}
    BY DEF TaskType, Resting
  <2>2. task[t].pc = "answered" /\ task' = [task EXCEPT ![t] = Resting] /\ after' = Learned(t)
    BY <1>4 DEF Return
  <2> HIDE DEF Resting
  <2>3. task' \in [Client -> TaskType] /\ task'[t] = Resting /\ \A s \in Client \ {t} : task'[s] = task[s]
    BY <2>1, <2>2 DEF TypeInv
  <2>4. \A m \in wire : m.of # t
    BY <2>2 DEF SoleInv
  <2>5. \A j \in 1..Len(log) : log[j].of # t
    BY <2>2 DEF SoleInv
  <2>6. after' \in [Uri -> Outcome]
    <3> DEFINE r == task[t].req
               ps == ById(r.points)
    <3>1. after \in [Uri -> Outcome] /\ task[t].beyond \subseteq Id
      BY CallShape DEF TypeInv, TaskType
    <3>2. \A w \in Vec \cup {"unknown", "absent"} : \A ids \in SUBSET Id : Says(w, ids) \in Outcome
      BY DEF Says, Outcome
    <3>3. r \in Request \cup {NoRequest} /\ NoRequest.op = "none"
      BY CallShape
    <3>4. CASE ~task[t].sure
      <4>1. after' = after
        BY <2>2, <3>4, Zenon DEF Learned
      <4>2. QED
        BY <3>1, <4>1
    <3>5. CASE task[t].sure /\ r.op = "upsert"
      <4>1. r.points \in Seq(Point)
        BY <3>3, <3>5, RequestShape
      <4>2. \A i \in DOMAIN ps : ps[i].vec \in Vec
        BY <4>1, ByIdType DEF Point
      <4>3. after' = [u \in Uri |-> IF At(ps, u) # {} THEN Says(ps[CHOOSE i \in At(ps, u) : TRUE].vec, {}) ELSE after[u]]
        BY <2>2, <3>5 DEF Learned
      <4> HIDE DEF ps
      <4>4. \A u \in Uri : At(ps, u) # {} => (CHOOSE i \in At(ps, u) : TRUE) \in DOMAIN ps
        BY DEF At
      <4>5. QED
        BY <3>1, <3>2, <4>2, <4>3, <4>4
    <3>6. CASE task[t].sure /\ r.op = "deletePrefix"
      BY <2>2, <3>1, <3>6, <3>2 DEF Learned
    <3>7. CASE task[t].sure /\ r.op = "updateUri" /\ r.old # r.new
      BY <2>2, <3>1, <3>7, <3>2 DEF Learned
    <3>8. CASE task[t].sure /\ r.op \notin {"upsert", "deletePrefix"} /\ ~(r.op = "updateUri" /\ r.old # r.new)
      BY <2>2, <3>1, <3>8 DEF Learned
    <3>9. QED
      BY <3>4, <3>5, <3>6, <3>7, <3>8
  <2>7. TypeInv'
    BY <1>4, <2>1, <2>3, <2>6 DEF TypeInv, Return
  <2>8. SoleInv'
    BY <1>4, <2>3, <2>4, <2>5 DEF SoleInv, Return
  <2>9. QED
    BY <2>7, <2>8
<1>5. ASSUME NEW t \in Client, TimeOut(t) PROVE TypeInv' /\ SoleInv'
  <2>1. GiveUp(t) /\ UNCHANGED <<exists, points, made, after>>
    BY <1>5 DEF TimeOut, GiveUp
  <2>2. /\ task'[t] = Resting /\ \A s \in Client \ {t} : task'[s] = task[s]
        /\ \A n \in wire' : n \in Message /\ n.of # t /\ (n.of \in Client => n \in wire)
        /\ Len(log') = Len(log) /\ log' \in Seq(Message)
        /\ \A j \in 1..Len(log) : log'[j].act = log[j].act /\ log'[j].of # t /\ (log'[j].of \in Client => log'[j] = log[j])
    BY <2>1, GiveUpIs
  <2>3. task' = [task EXCEPT ![t] = Resting]
    BY <2>1, GiveUpIs
  <2>4. Resting \in TaskType /\ Resting.req = NoRequest /\ Resting.todo = {} /\ Resting.beyond = {}
    BY DEF TaskType, Resting
  <2> HIDE DEF Resting
  <2>5. task' \in [Client -> TaskType]
    BY <2>3, <2>4 DEF TypeInv
  <2>6. TypeInv'
    BY <2>1, <2>2, <2>4, <2>5 DEF TypeInv
  <2>7. SoleInv'
    <3>1. \A m, n \in wire' : m.of = n.of /\ m.of \in Client => m = n
      BY <2>2 DEF SoleInv
    <3>2. \A i, j \in 1..Len(log') : log'[i].of = log'[j].of /\ log'[i].of \in Client => i = j
      BY <2>2 DEF SoleInv
    <3>3. \A m \in wire' : \A j \in 1..Len(log') : m.of \in Client => m.of # log'[j].of
      BY <2>2 DEF SoleInv
    <3>4. \A m \in wire' : m.of \in Client => task'[m.of].pc = "waiting" /\ Carries(task'[m.of], m.act)
      BY <2>2 DEF SoleInv
    <3>5. \A j \in 1..Len(log') : log'[j].of \in Client => task'[log'[j].of].pc = "waiting" /\ Carries(task'[log'[j].of], log'[j].act)
      BY <2>2 DEF SoleInv
    <3>6. QED
      BY <3>1, <3>2, <3>3, <3>4, <3>5 DEF SoleInv
  <2>8. QED
    BY <2>6, <2>7
<1>6. ASSUME NEW m \in wire, Refuse(m) \/ CreateCollection(m) PROVE TypeInv' /\ SoleInv'
  <2>1. PICK pc \in {"answered", "refused"} : Answer(m, pc)
    BY <1>6 DEF Refuse, CreateCollection
  <2>2. wire' = wire \ {m} /\ exists' \in BOOLEAN /\ UNCHANGED <<points, log, after>>
    BY <1>6 DEF Refuse, CreateCollection, TypeInv
  <2>3. task' \in [Client -> TaskType]
    BY <2>1, AnswerIs
  <2>4. /\ wire' \subseteq Message
        /\ \A t \in Client : /\ task'[t].req \in CallsOf[t] \cup {NoRequest}
                             /\ task'[t].pc = "idle" => task'[t].todo = {} /\ task'[t].req = NoRequest
                             /\ task'[t].todo # {} => task'[t].req.op = "updateUri"
                             /\ task'[t].beyond # {} => task'[t].req.op = "updateUri"
        /\ \A o \in wire' : o.of \in Client => o.of # m.of /\ task'[o.of].pc = "waiting" /\ Carries(task'[o.of], o.act)
        /\ \A j \in 1..Len(log) : log[j].of \in Client =>
             log[j].of # m.of /\ task'[log[j].of].pc = "waiting" /\ Carries(task'[log[j].of], log[j].act)
    BY <2>1, <2>2, AnswerKeeps
  <2>5. TypeInv'
    BY <2>2, <2>3, <2>4 DEF TypeInv
  <2>6. SoleInv'
    BY <2>2, <2>4 DEF SoleInv
  <2>7. QED
    BY <2>5, <2>6
<1>7. ASSUME NEW m \in wire, Scroll(m) PROVE TypeInv' /\ SoleInv'
  <2>1. m.of \in Client \cup {NoClient} /\ m.act.op = "scroll" /\ wire' = wire \ {m} /\ UNCHANGED <<exists, points, log, made, after>>
    BY <1>7 DEF Scroll, TypeInv, Message
  <2>2. CASE m.of = NoClient
    <3>1. task' = task
      BY <1>7, <2>2 DEF Scroll
    <3>2. TypeInv'
      BY <2>1, <3>1 DEF TypeInv
    <3>3. SoleInv'
      BY <2>1, <3>1 DEF SoleInv
    <3>4. QED
      BY <3>2, <3>3
  <2>3. CASE m.of \in Client
    <3> DEFINE c == m.of
    <3> DEFINE found == At(points, m.act.uri)
               todo == FirstPage(found)
               beyond == found \ FirstPage(found)
               sure == \A l \in Range(log) : m.act.uri \notin Affects(l.act)
    <3>a. task' = [task EXCEPT ![c].pc = "answered", ![c].todo = todo, ![c].beyond = beyond, ![c].sure = sure]
      BY <1>7, <2>3, QdrantAssumption DEF Scroll
    <3>b. todo \subseteq DOMAIN points /\ beyond \subseteq DOMAIN points /\ sure \in BOOLEAN
      BY DEF FirstPage, At
    <3> HIDE DEF found, todo, beyond, sure
    <3>1. /\ task' = [task EXCEPT ![c].pc = "answered", ![c].todo = todo, ![c].beyond = beyond, ![c].sure = sure]
          /\ todo \subseteq DOMAIN points /\ beyond \subseteq DOMAIN points /\ sure \in BOOLEAN
      BY <3>a, <3>b
    <3> DEFINE j == [[[[task[c] EXCEPT !.pc = "answered"] EXCEPT !.todo = todo] EXCEPT !.beyond = beyond] EXCEPT !.sure = sure]
    <3>2. task[c] \in TaskType /\ c \in Client /\ task[c].pc = "waiting" /\ Carries(task[c], m.act)
      BY <2>3 DEF TypeInv, SoleInv
    <3>3. todo \in SUBSET Id /\ beyond \in SUBSET Id
      BY <3>1, QdrantAssumption DEF TypeInv, GoodPoints, MapsTo
    <3>4. j \in TaskType /\ j.pc = "answered" /\ j.req = task[c].req
      BY <3>1, <3>2, <3>3 DEF TaskType
    <3>5. task' = [task EXCEPT ![c] = j]
      BY <3>1, <3>2 DEF TypeInv, TaskType
    <3> HIDE DEF j
    <3>6. task' \in [Client -> TaskType] /\ task'[c] = j /\ \A s \in Client \ {c} : task'[s] = task[s]
      BY <3>2, <3>4, <3>5 DEF TypeInv
    <3>7. task[c].req.op = "updateUri"
      BY <2>1, <3>2, CarriesShape
    <3>8. TypeInv'
      BY <2>1, <3>2, <3>4, <3>6, <3>7 DEF TypeInv
    <3>9. (\A o \in wire' : o.of # c) /\ (\A i \in 1..Len(log) : log[i].of # c)
      BY <2>1, <3>2 DEF SoleInv
    <3>10. SoleInv'
      BY <2>1, <3>6, <3>9 DEF SoleInv
    <3>11. QED
      BY <3>8, <3>10
  <2>4. QED
    BY <2>1, <2>2, <2>3
<1>8. ASSUME NEW m \in wire, Accept(m) PROVE TypeInv' /\ SoleInv'
  <2> DEFINE pc == IF Waited(m.act) THEN "waiting" ELSE "answered"
             k == Len(log)
  <2>1. Answer(m, pc) /\ wire' = wire \ {m} /\ after' = Forget(Affects(m.act)) /\ UNCHANGED <<exists, points, made>>
    BY <1>8 DEF Accept
  <2>2. /\ Len(log') = k + 1 /\ log' \in Seq(Message) /\ Storable(m.act)
        /\ \A j \in 1..k : log'[j] = log[j]
        /\ log'[k + 1].act = m.act /\ log'[k + 1].of = (IF Waited(m.act) THEN m.of ELSE NoClient)
    BY <1>8, AcceptIs
  <2>3. k \in Nat
    BY LogShape
  <2>4. /\ task' \in [Client -> TaskType]
        /\ \A t \in Client : task'[t].req = task[t].req /\ task'[t].todo = task[t].todo /\ task'[t].beyond = task[t].beyond
        /\ m.of \in Client => task'[m.of].pc = pc
        /\ \A t \in Client \ {m.of} : task'[t].pc = task[t].pc
    <3>1. pc \in {"waiting", "answered", "refused"}
      OBVIOUS
    <3> HIDE DEF pc
    <3>2. QED
      BY <2>1, <3>1, AnswerIs
  <2>5. after' \in [Uri -> Outcome]
    <3>1. Unknown \in Outcome
      BY DEF Unknown, Says, Outcome
    <3>2. QED
      BY <2>1, <3>1 DEF Forget, TypeInv
  <2>6. \A t \in Client : \A act : Carries(task[t], act) => Carries(task'[t], act)
    BY <2>4 DEF Carries
  <2>7. \A j \in 1..Len(log') : Storable(log'[j].act)
    <3> SUFFICES ASSUME NEW j \in 1..k + 1 PROVE Storable(log'[j].act)
      BY <2>2
    <3>1. CASE j = k + 1
      BY <2>2, <3>1
    <3>2. CASE j # k + 1
      <4>1. j \in 1..k
        BY <2>3, <3>2
      <4>2. QED
        BY <2>2, <4>1, LogShape
    <3>3. QED
      BY <3>1, <3>2
  <2>8. TypeInv'
    <3>1. wire' \subseteq Message
      BY <2>1 DEF TypeInv
    <3>2. \A t \in Client : /\ task'[t].req \in CallsOf[t] \cup {NoRequest}
                            /\ task'[t].pc = "idle" => task'[t].todo = {} /\ task'[t].req = NoRequest
                            /\ task'[t].todo # {} => task'[t].req.op = "updateUri"
                            /\ task'[t].beyond # {} => task'[t].req.op = "updateUri"
      BY <2>4 DEF TypeInv
    <3>3. QED
      BY <2>1, <2>2, <2>4, <2>5, <2>7, <3>1, <3>2 DEF TypeInv
  <2>9. SoleInv'
    <3>1. m.of \in Client => (\A o \in wire' : o.of # m.of) /\ (\A i \in 1..k : log[i].of # m.of)
      BY <2>1 DEF SoleInv
    <3>2. NoClient \notin Client
      BY QdrantAssumption
    <3>3. \A j \in 1..k + 1 : j = k + 1 \/ j \in 1..k
      BY <2>3
    <3>4. m.of \in Client => Carries(task[m.of], m.act)
      BY DEF SoleInv
    <3> HIDE DEF k
    <3>5. \A o, n \in wire' : o.of = n.of /\ o.of \in Client => o = n
      BY <2>1 DEF SoleInv
    <3>6. \A i, j \in 1..Len(log') : log'[i].of = log'[j].of /\ log'[i].of \in Client => i = j
      BY <2>2, <3>1, <3>2, <3>3 DEF SoleInv, k
    <3>7. \A o \in wire' : \A j \in 1..Len(log') : o.of \in Client => o.of # log'[j].of
      BY <2>1, <2>2, <3>1, <3>2, <3>3 DEF SoleInv, k
    <3>8. \A o \in wire' : o.of \in Client => task'[o.of].pc = "waiting" /\ Carries(task'[o.of], o.act)
      BY <2>1, <2>4, <2>6, <3>1 DEF SoleInv
    <3>9. \A j \in 1..Len(log') : log'[j].of \in Client => task'[log'[j].of].pc = "waiting" /\ Carries(task'[log'[j].of], log'[j].act)
      <4> SUFFICES ASSUME NEW j \in 1..k + 1, log'[j].of \in Client
                   PROVE  task'[log'[j].of].pc = "waiting" /\ Carries(task'[log'[j].of], log'[j].act)
        BY <2>2
      <4>1. CASE j = k + 1
        BY <2>2, <2>4, <2>6, <3>2, <3>4, <4>1
      <4>2. CASE j \in 1..k
        <5>1. log'[j] = log[j]
          BY <2>2, <4>2
        <5>2. log[j].of # m.of /\ task[log[j].of].pc = "waiting" /\ Carries(task[log[j].of], log[j].act)
          BY <3>1, <4>2, <5>1 DEF SoleInv, k
        <5>3. QED
          BY <2>4, <2>6, <5>1, <5>2
      <4>3. QED
        BY <3>3, <4>1, <4>2
    <3>10. QED
      BY <3>5, <3>6, <3>7, <3>8, <3>9 DEF SoleInv
  <2>10. QED
    BY <2>8, <2>9
<1>9. ASSUME NEW m \in wire, Lose(m) PROVE TypeInv' /\ SoleInv'
  <2>1. TypeInv'
    BY <1>9 DEF TypeInv, Lose
  <2>2. SoleInv'
    BY <1>9 DEF SoleInv, Lose
  <2>3. QED
    BY <2>1, <2>2
<1>10. ASSUME ApplyNext PROVE TypeInv' /\ SoleInv'
  <2>1. /\ Len(log) >= 1 /\ points' = Apply(points, log[1].act)
        /\ Len(log') = Len(log) - 1 /\ log' \in Seq(Message) /\ \A j \in 1..Len(log') : log'[j] = log[j + 1]
        /\ \A t \in Client : /\ task'[t].req = task[t].req /\ task'[t].todo = task[t].todo /\ task'[t].beyond = task[t].beyond
                             /\ task'[t].pc = (IF t = log[1].of THEN "answered" ELSE task[t].pc)
        /\ task' \in [Client -> TaskType]
    BY <1>10, ApplyNextIs
  <2>2. UNCHANGED <<exists, wire, made, after>>
    BY <1>10 DEF ApplyNext
  <2>3. Len(log) \in Nat /\ \A j \in 1..Len(log') : j + 1 \in 1..Len(log) /\ j + 1 # 1
    BY <2>1, LogShape
  <2>4. 1 \in 1..Len(log)
    BY <2>1, <2>3
  <2>5. GoodPoints(points') /\ \A j \in 1..Len(log') : Storable(log'[j].act)
    <3>1. Storable(log[1].act) /\ GoodPoints(points)
      BY <2>4, LogShape DEF TypeInv
    <3>2. \A j \in 1..Len(log') : Storable(log'[j].act)
      BY <2>1, <2>3, LogShape
    <3>3. QED
      BY <2>1, <3>1, <3>2, ApplyGood
  <2>6. \A t \in Client : \A act : Carries(task[t], act) => Carries(task'[t], act)
    BY <2>1 DEF Carries
  <2>7. TypeInv'
    BY <2>1, <2>2, <2>5 DEF TypeInv
  <2>8. SoleInv'
    <3>1. log[1].of \in Client => (\A o \in wire : o.of # log[1].of) /\ (\A j \in 1..Len(log) : j # 1 => log[j].of # log[1].of)
      BY <2>4 DEF SoleInv
    <3>2. \A o, n \in wire' : o.of = n.of /\ o.of \in Client => o = n
      BY <2>2 DEF SoleInv
    <3>3. \A i, j \in 1..Len(log') : log'[i].of = log'[j].of /\ log'[i].of \in Client => i = j
      <4> SUFFICES ASSUME NEW i \in 1..Len(log'), NEW j \in 1..Len(log'), log'[i].of = log'[j].of, log'[i].of \in Client
                   PROVE  i = j
        OBVIOUS
      <4>1. i + 1 = j + 1
        BY <2>1, <2>3 DEF SoleInv
      <4>2. QED
        BY <4>1
    <3>4. \A o \in wire' : \A j \in 1..Len(log') : o.of \in Client => o.of # log'[j].of
      BY <2>1, <2>2, <2>3 DEF SoleInv
    <3>5. \A o \in wire' : o.of \in Client => task'[o.of].pc = "waiting" /\ Carries(task'[o.of], o.act)
      BY <2>1, <2>2, <2>6, <3>1 DEF SoleInv
    <3>6. \A j \in 1..Len(log') : log'[j].of \in Client => task'[log'[j].of].pc = "waiting" /\ Carries(task'[log'[j].of], log'[j].act)
      <4> SUFFICES ASSUME NEW j \in 1..Len(log'), log'[j].of \in Client
                   PROVE  task'[log'[j].of].pc = "waiting" /\ Carries(task'[log'[j].of], log'[j].act)
        OBVIOUS
      <4> DEFINE n == log[j + 1]
      <4>1. log'[j] = n /\ n.of # log[1].of
        BY <2>1, <2>3, <3>1
      <4>2. task[n.of].pc = "waiting" /\ Carries(task[n.of], n.act) /\ n.of \in Client
        BY <2>3, <4>1 DEF SoleInv
      <4> HIDE DEF n
      <4>3. QED
        BY <2>1, <2>6, <4>1, <4>2
    <3>7. QED
      BY <3>2, <3>3, <3>4, <3>5, <3>6 DEF SoleInv
  <2>9. QED
    BY <2>7, <2>8
<1>11. CASE UNCHANGED vars
  BY <1>11 DEF TypeInv, SoleInv, vars
<1>12. QED
  BY <1>1, <1>2, <1>3, <1>4, <1>5, <1>6, <1>7, <1>8, <1>9, <1>10, <1>11 DEF Next

(***************************************************************************)
(* What the points will be.                                                 *)
(***************************************************************************)
\* The points, as they are after any number of the log's messages, fit the collection.
LEMMA GoodViews ==
  ASSUME TypeInv
  PROVE  /\ Views[0] = points /\ Len(log) \in Nat
         /\ \A n \in 1..Len(log) : Views[n] = Apply(Views[n - 1], log[n].act)
         /\ \A n \in 0..Len(log) : GoodPoints(Views[n])
<1>1. Len(log) \in Nat /\ \A j \in 1..Len(log) : Storable(log[j].act)
  BY LogShape
<1>2. Views[0] = points /\ \A n \in 1..Len(log) : Views[n] = Apply(Views[n - 1], log[n].act)
  BY <1>1, ReplayedIs DEF Views, Follows
<1>3. GoodPoints(points)
  BY DEF TypeInv
<1> DEFINE S == {n \in 0..Len(log) : ~GoodPoints(Views[n])}
<1> SUFFICES ASSUME S # {} PROVE FALSE
  BY <1>1, <1>2
<1> DEFINE n == Min(S)
<1>4. n \in S /\ \A y \in S : n <= y
  <2>1. S \in SUBSET Nat
    BY <1>1
  <2> HIDE DEF S
  <2>2. QED
    BY <2>1, MinExists
<1> HIDE DEF n
<1>5. n \in 1..Len(log)
  BY <1>1, <1>2, <1>3, <1>4
<1>6. n - 1 \in 0..Len(log) /\ n - 1 \notin S
  BY <1>1, <1>4, <1>5
<1>7. GoodPoints(Views[n])
  BY <1>1, <1>2, <1>5, <1>6, ApplyGood
<1>8. QED
  BY <1>4, <1>7

\* A URI that no message of the log gives never has more points than it has.
LEMMA OnlyFewer ==
  ASSUME TypeInv, NEW u, \A j \in 1..Len(log) : u \notin Gives(log[j].act)
  PROVE  \A n \in 0..Len(log) : At(Views[n], u) \subseteq At(points, u)
<1>1. /\ Views[0] = points /\ Len(log) \in Nat
      /\ \A n \in 1..Len(log) : Views[n] = Apply(Views[n - 1], log[n].act)
      /\ \A n \in 0..Len(log) : GoodPoints(Views[n])
  BY GoodViews
<1> DEFINE S == {n \in 0..Len(log) : ~(At(Views[n], u) \subseteq At(points, u))}
<1> SUFFICES ASSUME S # {} PROVE FALSE
  OBVIOUS
<1> DEFINE n == Min(S)
<1>2. n \in S /\ \A y \in S : n <= y
  <2>1. S \in SUBSET Nat
    BY <1>1
  <2> HIDE DEF S
  <2>2. QED
    BY <2>1, MinExists
<1> HIDE DEF n
<1>3. n \in 1..Len(log)
  BY <1>1, <1>2
<1>4. n - 1 \in 0..Len(log) /\ n - 1 \notin S
  BY <1>1, <1>2, <1>3
<1>5. At(Views[n], u) \subseteq At(Views[n - 1], u)
  <2>1. GoodPoints(Views[n - 1]) /\ Storable(log[n].act) /\ u \notin Gives(log[n].act)
    BY <1>1, <1>3, <1>4, LogShape
  <2>2. Views[n] = Apply(Views[n - 1], log[n].act)
    BY <1>1, <1>3
  <2>3. QED
    BY <2>1, <2>2, NotGiven
<1>6. QED
  BY <1>2, <1>4, <1>5

\* The URIs that a message affects are among them those it gives.
LEMMA GivenAffected ==
  ASSUME NEW act, Storable(act)
  PROVE  Gives(act) \cap Uri \subseteq Affects(act)
<1>1. act.op \in {"upsert", "delete", "deleteAt", "setUri"}
  BY DEF Storable
<1>2. CASE act.op = "upsert"
  <2> DEFINE ps == ById(act.points)
  <2>1. UrisOf(ps, DOMAIN ps) \subseteq Affects(act) /\ Gives(act) = {ps[i].uri : i \in DOMAIN ps}
    BY <1>2 DEF Affects, Gives
  <2> HIDE DEF ps
  <2>2. QED
    BY <2>1 DEF UrisOf
<1>3. CASE act.op # "upsert"
  BY <1>1, <1>3 DEF Affects, Gives
<1>4. QED
  BY <1>2, <1>3

(***************************************************************************)
(* What the calls said, and what is so.                                     *)
(***************************************************************************)
\* A call that returns Ok leaves no point at this URI.
Takes(r, u) ==
  \/ r.op = "deletePrefix" /\ u = r.prefix
  \/ r.op = "updateUri" /\ r.old # r.new /\ u = r.old

\* A client that, as things are, will know what it did when it returns.
Sure(t) ==
  /\ task[t].sure
  /\ \/ task[t].pc = "answered"
     \/ \E m \in wire : m.of = t
     \/ \E j \in 1..Len(log) : log[j].of = t

\* The client still has to take the point away, after so many messages of the log.
Pending(t, n, i) ==
  \/ i \in task[t].todo \cup task[t].beyond
  \/ \E m \in wire : m.of = t /\ m.act.op = "setUri" /\ m.act.id = i
  \/ \E j \in n + 1..Len(log) : log[j].of = t /\ (log[j].act.op = "setUri" => log[j].act.id = i)

Taking(t) ==
  \A u \in Uri : Takes(task[t].req, u) => \A n \in 0..Len(log) : \A i \in At(Views[n], u) : Pending(t, n, i)

Stored(t) ==
  task[t].req.op = "upsert" =>
    \A i \in DOMAIN ById(task[t].req.points) :
      ById(task[t].req.points)[i].uri \in Uri => i \in DOMAIN View /\ View[i] = ById(task[t].req.points)[i]

\* What a call says is so, but for what it still has to take away.
Told == \A t \in Client : Sure(t) => Taking(t) /\ Stored(t)

\* What the calls that returned said is so, and was since.
Learnt ==
  \A u \in Uri :
    /\ after[u].says = "absent" => \A n \in 0..Len(log) : At(Views[n], u) \subseteq after[u].left
    /\ after[u].says \in Vec => \E i \in At(View, u) : View[i].vec = after[u].says

\* Nothing that the clients were told changes while the points and the log stay.
LEMMA FrameTold ==
  ASSUME TypeInv, NEW t \in Client, Sure(t) => Taking(t) /\ Stored(t),
         Len(log') = Len(log), \A n \in 0..Len(log) : Views'[n] = Views[n],
         task'[t].req = task[t].req, Sure(t)' => Sure(t),
         \A n \in 0..Len(log) : \A i : Pending(t, n, i) => Pending(t, n, i)'
  PROVE  Sure(t)' => Taking(t)' /\ Stored(t)'
<1> SUFFICES ASSUME Sure(t)' PROVE Taking(t)' /\ Stored(t)'
  OBVIOUS
<1>1. Taking(t) /\ Stored(t)
  OBVIOUS
<1>2. Len(log) \in 0..Len(log)
  BY LogShape
<1>3. View' = View
  BY <1>2 DEF View
<1>4. Taking(t)'
  BY <1>1 DEF Taking
<1>5. Stored(t)'
  BY <1>1, <1>3 DEF Stored
<1>6. QED
  BY <1>4, <1>5

\* What is not on its way any more is answered, or nobody waits for the answer.
LEMMA NotSure ==
  ASSUME SoleInv, NEW t \in Client, NEW m \in wire, m.of = t, wire' = wire \ {m}, log' = log, task'[t].pc # "answered"
  PROVE  ~Sure(t)'
<1>1. \A o \in wire' : o.of # t
  BY DEF SoleInv
<1>2. \A j \in 1..Len(log') : log'[j].of # t
  BY DEF SoleInv
<1>3. QED
  BY <1>1, <1>2 DEF Sure

\* Another's message leaves the wire.
LEMMA OthersTold ==
  ASSUME TypeInv, NEW t \in Client, Sure(t) => Taking(t) /\ Stored(t), NEW m \in wire, m.of # t, wire' = wire \ {m},
         points' = points, log' = log,
         task'[t].req = task[t].req, task'[t].todo = task[t].todo /\ task'[t].beyond = task[t].beyond, task'[t].pc = task[t].pc, task'[t].sure => task[t].sure
  PROVE  Sure(t)' => Taking(t)' /\ Stored(t)'
<1>1. Sure(t)' => Sure(t)
  BY DEF Sure
<1>2. Len(log') = Len(log) /\ \A n \in 0..Len(log) : Views'[n] = Views[n]
  BY DEF Views
<1>3. \A n \in 0..Len(log) : \A i : Pending(t, n, i) => Pending(t, n, i)'
  BY DEF Pending
<1>4. QED
  BY <1>1, <1>2, <1>3, FrameTold

\* A point that a message of the client will take away is awaited.
LEMMA AcceptTold ==
  ASSUME TypeInv, SoleInv, NEW m \in wire, Accept(m), NEW t \in Client, Sure(t) => Taking(t) /\ Stored(t)
  PROVE  Sure(t)' => Taking(t)' /\ Stored(t)'
<1> SUFFICES ASSUME Sure(t)' PROVE Taking(t)' /\ Stored(t)'
  OBVIOUS
<1> DEFINE k == Len(log)
           act == m.act
<1>1. /\ Len(log') = k + 1 /\ Storable(act)
      /\ \A j \in 1..k : log'[j] = log[j]
      /\ log'[k + 1].act = act /\ log'[k + 1].of = (IF Waited(act) THEN m.of ELSE NoClient)
  BY AcceptIs
<1>2. /\ Views[0] = points /\ k \in Nat
      /\ \A n \in 0..k : GoodPoints(Views[n])
  BY GoodViews
<1>3. wire' = wire \ {m} /\ points' = points /\ Answer(m, IF Waited(act) THEN "waiting" ELSE "answered")
  BY DEF Accept
<1>4. /\ task'[t].req = task[t].req /\ task'[t].todo = task[t].todo /\ task'[t].beyond = task[t].beyond
      /\ t = m.of => task'[t].sure = (act.op = "setUri" => task[t].sure)
      /\ t # m.of => task'[t].pc = task[t].pc /\ (task'[t].sure => task[t].sure /\ Names(task[t].req) \cap Affects(act) = {})
  <2> DEFINE pc == IF Waited(act) THEN "waiting" ELSE "answered"
  <2>1. pc \in {"waiting", "answered", "refused"} /\ Answer(m, pc)
    BY <1>3
  <2> HIDE DEF pc
  <2>2. /\ \A s \in Client : task'[s].req = task[s].req /\ task'[s].todo = task[s].todo /\ task'[s].beyond = task[s].beyond
        /\ m.of \in Client => task'[m.of].pc = pc /\ task'[m.of].sure = (m.act.op = "setUri" => task[m.of].sure)
        /\ \A s \in Client \ {m.of} :
             task'[s].pc = task[s].pc /\ (task'[s].sure => task[s].sure /\ Names(task[s].req) \cap Affects(m.act) = {})
    BY <2>1, AnswerIs
  <2>3. QED
    BY <2>2
<1>5. (\A n \in 0..k : Views'[n] = Views[n]) /\ View' = Apply(View, act)
  <2>1. k \in Nat /\ Len(log') = k + 1 /\ \A n \in 1..k : log'[n].act = log[n].act
    BY <1>1, <1>2
  <2>2. /\ \A n \in 0..k : Replayed(points, log')[n] = Replayed(points, log)[n]
        /\ Replayed(points, log')[k + 1] = Apply(Replayed(points, log)[k], act)
    <3> DEFINE lg == log'
    <3>1. Len(lg) = Len(log) + 1 /\ (\A n \in 1..Len(log) : lg[n].act = log[n].act) /\ Len(log) \in Nat /\ lg[k + 1].act = act
      BY <1>1, <2>1
    <3> HIDE DEF lg
    <3>2. /\ \A n \in 0..Len(log) : Replayed(points, lg)[n] = Replayed(points, log)[n]
          /\ Replayed(points, lg)[Len(lg)] = Apply(Replayed(points, log)[Len(log)], lg[Len(lg)].act)
      BY <3>1, ReplayedLonger
    <3>3. QED
      BY <3>1, <3>2 DEF lg
  <2>3. QED
    BY <1>1, <1>3, <2>2 DEF Views, View
<1>6. GoodPoints(View)
  BY <1>2 DEF View
<1>7. m.of = t => Carries(task[t], act) /\ (\A o \in wire : o.of = t => o = m) /\ (\A j \in 1..k : log[j].of # t)
  BY DEF SoleInv
<1>8. act.op = "setUri" /\ m.of = t => Sure(t)
  BY <1>4 DEF Sure
<1>9. m.of # t => Sure(t) /\ Names(task[t].req) \cap Affects(act) = {}
  <2> SUFFICES ASSUME m.of # t PROVE Sure(t) /\ Names(task[t].req) \cap Affects(act) = {}
    OBVIOUS
  <2>1. task'[t].sure
    BY DEF Sure
  <2>2. task[t].sure /\ Names(task[t].req) \cap Affects(act) = {} /\ task'[t].pc = task[t].pc
    BY <1>4, <2>1
  <2>3. \A j \in 1..k + 1 : log'[j].of = t => j \in 1..k
    BY <1>1, <1>2, QdrantAssumption
  <2>4. Sure(t)
    BY <1>1, <1>3, <2>2, <2>3 DEF Sure
  <2>5. QED
    BY <2>2, <2>4
<1>10. Taking(t)'
  <2> SUFFICES ASSUME NEW u \in Uri, Takes(task[t].req, u), NEW n \in 0..k + 1, NEW i \in At(Views'[n], u)
               PROVE  Pending(t, n, i)'
    BY <1>1, <1>4 DEF Taking
  <2>1. Sure(t) \/ (m.of = t /\ act.op # "setUri")
    BY <1>8, <1>9
  <2>2. task[t].req.op \in {"deletePrefix", "updateUri"} /\ u \in Names(task[t].req)
    BY DEF Takes, Names
  <2>3. CASE m.of = t /\ act.op # "setUri"
    <3>1. act.op = "deleteAt" /\ task[t].req.prefix = act.uri /\ task[t].req.op = "deletePrefix"
      BY <1>1, <1>7, <2>2, <2>3, CarriesShape DEF Storable
    <3>2. u = act.uri
      BY <3>1 DEF Takes
    <3>3. At(Apply(View, act), u) = {}
      BY <1>1, <1>6, <3>1, <3>2, TakenAway
    <3>4. n # k + 1
      BY <1>1, <1>5, <3>3 DEF View
    <3>5. k + 1 \in n + 1..k + 1 /\ log'[k + 1].of = t /\ log'[k + 1].act.op # "setUri"
      BY <1>1, <1>2, <2>3, <3>1, <3>4 DEF Waited
    <3>6. QED
      BY <1>1, <3>5 DEF Pending
  <2>4. CASE Sure(t)
    <3>1. Taking(t)
      BY <2>4
    <3>2. \A l \in 0..k : \A p \in At(Views[l], u) : Pending(t, l, p)
      BY <3>1 DEF Taking
    <3>3. u \notin Gives(act)
      <4>1. CASE m.of # t
        <5>1. u \notin Affects(act)
          BY <1>9, <2>2, <4>1
        <5>2. QED
          BY <1>1, <5>1, GivenAffected
      <4>2. CASE m.of = t
        <5>1. act.op \in {"upsert", "delete", "deleteAt", "setUri"}
          BY <1>1 DEF Storable
        <5>2. act.op = "setUri" => task[t].req.new = act.uri /\ task[t].req.op = "updateUri"
          BY <1>7, <4>2, CarriesShape
        <5>3. act.op = "setUri" => u # act.uri
          BY <5>2 DEF Takes
        <5>4. act.op # "upsert"
          BY <1>7, <2>2, <4>2, CarriesShape
        <5>5. QED
          BY <5>1, <5>3, <5>4 DEF Gives
      <4>3. QED
        BY <4>1, <4>2
    <3>4. CASE n \in 0..k
      <4>1. Pending(t, n, i)
        BY <1>5, <3>2, <3>4
      <4>2. CASE i \in task[t].todo \cup task[t].beyond
        BY <1>4, <4>2 DEF Pending
      <4>3. CASE \E o \in wire : o.of = t /\ o.act.op = "setUri" /\ o.act.id = i
        <5>1. PICK o \in wire : o.of = t /\ o.act.op = "setUri" /\ o.act.id = i
          BY <4>3
        <5>2. CASE o = m
          <6>1. k + 1 \in n + 1..Len(log') /\ log'[k + 1].of = t /\ log'[k + 1].act.id = i
            BY <1>1, <1>2, <3>4, <5>1, <5>2 DEF Waited
          <6>2. QED
            BY <6>1 DEF Pending
        <5>3. CASE o # m
          BY <1>3, <5>1, <5>3 DEF Pending
        <5>4. QED
          BY <5>2, <5>3
      <4>4. CASE \E j \in n + 1..k : log[j].of = t /\ (log[j].act.op = "setUri" => log[j].act.id = i)
        <5>1. PICK j \in n + 1..k : log[j].of = t /\ (log[j].act.op = "setUri" => log[j].act.id = i)
          BY <4>4
        <5>2. j \in 1..k /\ j \in n + 1..Len(log')
          BY <1>1, <1>2, <3>4
        <5>3. log'[j] = log[j]
          BY <1>1, <5>2
        <5>4. QED
          BY <5>1, <5>2, <5>3 DEF Pending
      <4>5. QED
        BY <4>1, <4>2, <4>3, <4>4 DEF Pending
    <3>5. CASE n = k + 1
      <4>1. i \in At(Apply(View, act), u)
        BY <1>1, <1>5, <3>5 DEF View
      <4>2. i \in At(View, u)
        BY <1>1, <1>6, <3>3, <4>1, NotGiven
      <4>3. Pending(t, k, i)
        BY <1>2, <3>2, <4>2 DEF View
      <4>4. i \in task[t].todo \cup task[t].beyond \/ \E o \in wire : o.of = t /\ o.act.op = "setUri" /\ o.act.id = i
        BY <1>2, <4>3 DEF Pending
      <4>5. CASE i \in task[t].todo \cup task[t].beyond
        BY <1>4, <4>5 DEF Pending
      <4>6. CASE \E o \in wire : o.of = t /\ o.act.op = "setUri" /\ o.act.id = i
        <5>1. PICK o \in wire : o.of = t /\ o.act.op = "setUri" /\ o.act.id = i
          BY <4>6
        <5>2. o # m
          <6> SUFFICES ASSUME o = m PROVE FALSE
            OBVIOUS
          <6>1. task[t].req.op = "updateUri" /\ task[t].req.new = act.uri
            BY <1>7, <5>1, CarriesShape
          <6>2. u # act.uri
            BY <6>1 DEF Takes
          <6>3. act.id \notin At(Apply(View, act), u)
            BY <1>1, <1>6, <5>1, <6>2, TakenAway
          <6>4. QED
            BY <4>1, <5>1, <6>3
        <5>3. QED
          BY <1>3, <5>1, <5>2 DEF Pending
      <4>7. QED
        BY <4>4, <4>5, <4>6
    <3>6. QED
      BY <1>2, <3>4, <3>5
  <2>5. QED
    BY <2>1, <2>3, <2>4
<1>11. Stored(t)'
  <2> DEFINE ps == ById(task[t].req.points)
  <2> SUFFICES ASSUME task[t].req.op = "upsert", NEW i \in DOMAIN ps, ps[i].uri \in Uri
               PROVE  i \in DOMAIN View' /\ View'[i] = ps[i]
    BY <1>4 DEF Stored
  <2>1. CASE m.of = t
    <3>1. task[t].req = act /\ act.op = "upsert"
      BY <1>1, <1>7, <2>1, CarriesShape DEF Storable
    <3>2. View' = Overlay(ps, View)
      BY <1>5, <3>1 DEF Apply
    <3> HIDE DEF ps
    <3>3. QED
      BY <3>2 DEF Overlay
  <2>2. CASE m.of # t
    <3>1. i \in DOMAIN View /\ View[i] = ps[i]
      BY <1>9, <2>2 DEF Stored
    <3> DEFINE u == ps[i].uri
    <3>2. u \in Names(task[t].req)
      <4>1. task[t].req.points \in Seq(Point)
        <5>1. task[t].req \in Request \cup {NoRequest} /\ NoRequest.op = "none"
          BY CallShape
        <5>2. QED
          BY <5>1, RequestShape
      <4>2. PICK j \in DOMAIN task[t].req.points : ps[i] = task[t].req.points[j]
        BY <4>1, ByIdType
      <4>3. Names(task[t].req) = {task[t].req.points[l].uri : l \in DOMAIN task[t].req.points}
        BY DEF Names
      <4>4. QED
        BY <4>2, <4>3
    <3>3. u \notin Affects(act) /\ u \in Uri
      BY <1>9, <2>2, <3>2
    <3>4. i \in At(View, u)
      BY <3>1 DEF At
    <3> HIDE DEF u
    <3>5. i \in At(Apply(View, act), u) /\ Apply(View, act)[i] = View[i]
      BY <1>1, <1>6, <3>3, <3>4, NotAffected
    <3>6. QED
      BY <1>5, <3>1, <3>5 DEF At
  <2>3. QED
    BY <2>1, <2>2
<1>12. QED
  BY <1>10, <1>11

\* What the clients are told stays so, and no point comes back.
LEMMA ToldKept ==
  ASSUME TypeInv, SoleInv, Told, [Next]_vars
  PROVE  Told'
<1> SUFFICES ASSUME NEW t \in Client PROVE Sure(t)' => Taking(t)' /\ Stored(t)'
  BY DEF Told
<1>1. Sure(t) => Taking(t) /\ Stored(t)
  BY DEF Told
<1>2. ASSUME points' = points, log' = log
      PROVE  Len(log') = Len(log) /\ \A n \in 0..Len(log) : Views'[n] = Views[n]
  BY <1>2 DEF Views
<1>3. \A s \in Client : task[s] \in TaskType /\ task \in [Client -> TaskType]
  BY DEF TypeInv
<1>4. ASSUME NEW c \in Client, Call(c) PROVE Sure(t)' => Taking(t)' /\ Stored(t)'
  <2>1. PICK r \in CallsOf[c] : Send(c, FirstMessage(r), [Resting EXCEPT !.req = r])
    BY <1>4 DEF Call
  <2> DEFINE act == FirstMessage(r)
             j == [[Resting EXCEPT !.req = r] EXCEPT !.pc = "waiting"]
  <2>2. task' = [task EXCEPT ![c] = j] /\ wire' = wire \cup {[of |-> c, act |-> act]}
    BY <2>1 DEF Send
  <2>3. ~j.sure
    BY DEF Resting
  <2> HIDE DEF act, j
  <2>4. task'[c] = j /\ \A s \in Client \ {c} : task'[s] = task[s]
    BY <1>3, <2>2
  <2>5. CASE t = c
    BY <2>3, <2>4, <2>5 DEF Sure
  <2>6. CASE t # c
    <3>1. task'[t] = task[t] /\ points' = points /\ log' = log
      BY <1>4, <2>4, <2>6 DEF Call
    <3>2. Sure(t)' => Sure(t)
      BY <2>2, <2>6, <3>1 DEF Sure
    <3>3. \A n \in 0..Len(log) : \A i : Pending(t, n, i) => Pending(t, n, i)'
      BY <2>2, <3>1 DEF Pending
    <3>4. QED
      BY <1>1, <1>2, <3>1, <3>2, <3>3, FrameTold
  <2>7. QED
    BY <2>5, <2>6
<1>5. ASSUME NEW c \in Client, MoveOne(c) PROVE Sure(t)' => Taking(t)' /\ Stored(t)'
  <2> DEFINE i == Min(task[c].todo)
             n == [of |-> c, act |-> [op |-> "setUri", id |-> i, uri |-> task[c].req.new]]
             j == [[task[c] EXCEPT !.todo = @ \ {i}] EXCEPT !.pc = "waiting"]
  <2>1. task' = [task EXCEPT ![c] = j] /\ wire' = wire \cup {n} /\ task[c].pc = "answered" /\ UNCHANGED <<points, log>>
    BY <1>5 DEF Send, MoveOne
  <2> HIDE DEF i
  <2>2. n.of = c /\ n.act.op = "setUri" /\ n.act.id = i
    OBVIOUS
  <2>3. j.req = task[c].req /\ j.sure = task[c].sure /\ j.todo = task[c].todo \ {i} /\ j.beyond = task[c].beyond /\ j.pc = "waiting"
    BY <1>3 DEF TaskType
  <2> HIDE DEF n, j
  <2>4. task'[c] = j /\ \A s \in Client \ {c} : task'[s] = task[s]
    BY <1>3, <2>1
  <2>5. CASE t = c
    <3>1. Sure(t)' => Sure(t)
      BY <2>1, <2>3, <2>4, <2>5 DEF Sure
    <3>2. \A l \in 0..Len(log) : \A p : Pending(t, l, p) => Pending(t, l, p)'
      BY <2>1, <2>2, <2>3, <2>4, <2>5 DEF Pending
    <3>3. task'[t].req = task[t].req
      BY <2>3, <2>4, <2>5
    <3>4. QED
      BY <1>1, <1>2, <2>1, <3>1, <3>2, <3>3, FrameTold
  <2>6. CASE t # c
    <3>1. task'[t] = task[t]
      BY <2>4, <2>6
    <3>2. Sure(t)' => Sure(t)
      BY <2>1, <2>2, <2>6, <3>1 DEF Sure
    <3>3. \A l \in 0..Len(log) : \A p : Pending(t, l, p) => Pending(t, l, p)'
      BY <2>1, <3>1 DEF Pending
    <3>4. QED
      BY <1>1, <1>2, <2>1, <3>1, <3>2, <3>3, FrameTold
  <2>7. QED
    BY <2>5, <2>6
<1>6. ASSUME NEW c \in Client, Fail(c) \/ Return(c) PROVE Sure(t)' => Taking(t)' /\ Stored(t)'
  <2>1. task' = [task EXCEPT ![c] = Resting] /\ UNCHANGED <<points, log, wire>>
    BY <1>6 DEF Fail, Return
  <2>2. task'[c] = Resting /\ ~Resting.sure /\ \A s \in Client \ {c} : task'[s] = task[s]
    BY <1>3, <2>1 DEF Resting
  <2>3. CASE t = c
    BY <2>2, <2>3 DEF Sure
  <2>4. CASE t # c
    <3>1. task'[t] = task[t]
      BY <2>2, <2>4
    <3>2. Sure(t)' => Sure(t)
      BY <2>1, <3>1 DEF Sure
    <3>3. \A l \in 0..Len(log) : \A p : Pending(t, l, p) => Pending(t, l, p)'
      BY <2>1, <3>1 DEF Pending
    <3>4. QED
      BY <1>1, <1>2, <2>1, <3>1, <3>2, <3>3, FrameTold
  <2>5. QED
    BY <2>3, <2>4
<1>7. ASSUME NEW c \in Client, TimeOut(c) PROVE Sure(t)' => Taking(t)' /\ Stored(t)'
  <2>1. GiveUp(c) /\ points' = points
    BY <1>7 DEF TimeOut, GiveUp
  <2>2. /\ task'[c] = Resting /\ \A s \in Client \ {c} : task'[s] = task[s]
        /\ \A n \in wire' : n.of # c /\ (n.of \in Client => n \in wire)
        /\ \A n \in wire : n.of \in Client \ {c} => n \in wire'
        /\ Len(log') = Len(log)
        /\ \A j \in 1..Len(log) : /\ log'[j].act = log[j].act
                                  /\ log[j].of \in Client \ {c} => log'[j] = log[j]
                                  /\ log'[j].of \in Client => log'[j] = log[j]
    BY <2>1, GiveUpIs
  <2>3. CASE t = c
    BY <2>2, <2>3 DEF Sure, Resting
  <2>4. CASE t # c
    <3>1. task'[t] = task[t] /\ Len(log) \in Nat
      BY <2>2, <2>4, LogShape
    <3>2. Sure(t)' => Sure(t)
      BY <2>2, <3>1 DEF Sure
    <3>3. \A l \in 0..Len(log) : \A p : Pending(t, l, p) => Pending(t, l, p)'
      <4> SUFFICES ASSUME NEW l \in 0..Len(log), NEW p, Pending(t, l, p) PROVE Pending(t, l, p)'
        OBVIOUS
      <4>1. CASE p \in task[t].todo \cup task[t].beyond
        BY <3>1, <4>1 DEF Pending
      <4>2. CASE \E m \in wire : m.of = t /\ m.act.op = "setUri" /\ m.act.id = p
        BY <2>2, <2>4, <4>2 DEF Pending
      <4>3. CASE \E j \in l + 1..Len(log) : log[j].of = t /\ (log[j].act.op = "setUri" => log[j].act.id = p)
        <5>1. PICK j \in l + 1..Len(log) : log[j].of = t /\ (log[j].act.op = "setUri" => log[j].act.id = p)
          BY <4>3
        <5>2. j \in 1..Len(log) /\ j \in l + 1..Len(log')
          BY <2>2, <3>1
        <5>3. log'[j] = log[j]
          BY <2>2, <2>4, <5>1, <5>2
        <5>4. QED
          BY <5>1, <5>2, <5>3 DEF Pending
      <4>4. QED
        BY <4>1, <4>2, <4>3 DEF Pending
    <3>4. \A n \in 0..Len(log) : Views'[n] = Views[n]
      <4> DEFINE lg == log'
      <4>1. Len(lg) = Len(log) /\ Len(log) \in Nat /\ \A j \in 1..Len(log) : lg[j].act = log[j].act
        BY <2>2, <3>1
      <4> HIDE DEF lg
      <4>2. \A n \in 0..Len(log) : Replayed(points, lg)[n] = Replayed(points, log)[n]
        BY <4>1, ReplayedSame
      <4>3. QED
        BY <2>1, <4>2 DEF Views, lg
    <3>5. QED
      BY <1>1, <2>2, <3>1, <3>2, <3>3, <3>4, FrameTold
  <2>5. QED
    BY <2>3, <2>4
<1>8. ASSUME NEW m \in wire, Refuse(m) \/ CreateCollection(m) PROVE Sure(t)' => Taking(t)' /\ Stored(t)'
  <2>1. PICK pc \in {"answered", "refused"} : Answer(m, pc) /\ (pc = "refused" \/ m.act.op = "create")
    BY <1>8 DEF Refuse, CreateCollection
  <2>2. wire' = wire \ {m} /\ UNCHANGED <<points, log>>
    BY <1>8 DEF Refuse, CreateCollection
  <2>3. /\ \A s \in Client : task'[s].req = task[s].req /\ task'[s].todo = task[s].todo /\ task'[s].beyond = task[s].beyond
        /\ m.of \in Client => task'[m.of].pc = pc
        /\ \A s \in Client \ {m.of} : task'[s].pc = task[s].pc /\ (task'[s].sure => task[s].sure)
    BY <2>1, AnswerIs
  <2>4. CASE m.of # t
    BY <1>1, <2>2, <2>3, <2>4, OthersTold
  <2>5. CASE m.of = t /\ pc = "refused"
    BY <2>2, <2>3, <2>5, NotSure
  <2>6. CASE m.of = t /\ m.act.op = "create"
    <3>1. Carries(task[t], m.act)
      BY <2>6 DEF SoleInv
    <3>2. task[t].req = m.act
      BY <2>6, <3>1, CarriesShape
    <3>3. task'[t].req.op = "create"
      BY <2>3, <2>6, <3>2
    <3>4. QED
      BY <3>3 DEF Taking, Takes, Stored
  <2>7. QED
    BY <2>1, <2>4, <2>5, <2>6
<1>9. ASSUME NEW m \in wire, Scroll(m) PROVE Sure(t)' => Taking(t)' /\ Stored(t)'
  <2>1. wire' = wire \ {m} /\ UNCHANGED <<points, log>> /\ m.act.op = "scroll"
    BY <1>9 DEF Scroll
  <2>2. CASE m.of # t
    <3>1. task'[t] = task[t]
      BY <1>3, <1>9, <2>2 DEF Scroll
    <3>2. QED
      BY <1>1, <2>1, <2>2, <3>1, OthersTold
  <2>3. CASE m.of = t
    <3> SUFFICES ASSUME Sure(t)' PROVE Taking(t)' /\ Stored(t)'
      OBVIOUS
    <3> DEFINE found == At(points, m.act.uri)
               todo == FirstPage(found)
               beyond == found \ FirstPage(found)
               sure == \A l \in Range(log) : m.act.uri \notin Affects(l.act)
               j == [[[[task[t] EXCEPT !.pc = "answered"] EXCEPT !.todo = todo] EXCEPT !.beyond = beyond] EXCEPT !.sure = sure]
    <3>1. task' = [task EXCEPT ![t].pc = "answered", ![t].todo = todo, ![t].beyond = beyond, ![t].sure = sure]
      BY <1>9, <2>3, QdrantAssumption DEF Scroll
    <3>2. sure \in BOOLEAN
      OBVIOUS
    <3> HIDE DEF found, todo, beyond, sure
    <3>3. j.req = task[t].req /\ j.todo = todo /\ j.beyond = beyond /\ j.sure = sure
      BY <1>3 DEF TaskType
    <3>4. task' = [task EXCEPT ![t] = j]
      BY <1>3, <3>1 DEF TaskType
    <3> HIDE DEF j
    <3>5. task'[t] = j
      BY <1>3, <3>4
    <3>6. sure
      BY <3>3, <3>5 DEF Sure
    <3>7. At(points, m.act.uri) \subseteq todo \cup beyond /\ \A l \in 1..Len(log) : m.act.uri \notin Affects(log[l].act)
      <4>1. DOMAIN log = 1..Len(log)
        BY LogShape
      <4>2. QED
        BY <3>6, <4>1 DEF sure, todo, beyond, found, Range
    <3>8. Carries(task[t], m.act)
      BY <2>3 DEF SoleInv
    <3>9. task[t].req.op = "updateUri" /\ task[t].req.old = m.act.uri
      BY <2>1, <3>8, CarriesShape
    <3>10. Stored(t)'
      BY <3>3, <3>5, <3>9 DEF Stored
    <3>11. Taking(t)'
      <4> SUFFICES ASSUME NEW u \in Uri, Takes(task[t].req, u), NEW n \in 0..Len(log), NEW i \in At(Views[n], u)
                   PROVE  i \in todo \cup beyond
        BY <1>2, <2>1, <3>3, <3>5 DEF Taking, Pending
      <4>1. u = m.act.uri
        BY <3>9 DEF Takes
      <4>2. \A l \in 1..Len(log) : u \notin Gives(log[l].act)
        BY <3>7, <4>1, LogShape, GivenAffected
      <4>3. i \in At(points, u)
        BY <4>2, OnlyFewer
      <4>4. QED
        BY <3>7, <4>1, <4>3
    <3>12. QED
      BY <3>10, <3>11
  <2>4. QED
    BY <2>2, <2>3
<1>10. ASSUME NEW m \in wire, Accept(m) PROVE Sure(t)' => Taking(t)' /\ Stored(t)'
  BY <1>1, <1>10, AcceptTold
<1>11. ASSUME NEW m \in wire, Lose(m) PROVE Sure(t)' => Taking(t)' /\ Stored(t)'
  <2>1. wire' = wire \ {m} /\ UNCHANGED <<points, log, task>>
    BY <1>11 DEF Lose
  <2>2. CASE m.of # t
    BY <1>1, <2>1, <2>2, OthersTold
  <2>3. CASE m.of = t
    <3>1. task'[t].pc = "waiting"
      BY <2>1, <2>3 DEF SoleInv
    <3>2. QED
      BY <2>1, <2>3, <3>1, NotSure
  <2>4. QED
    BY <2>2, <2>3
<1>12. ASSUME ApplyNext PROVE Sure(t)' => Taking(t)' /\ Stored(t)'
  <2> SUFFICES ASSUME Sure(t)' PROVE Taking(t)' /\ Stored(t)'
    OBVIOUS
  <2>1. /\ Len(log) >= 1 /\ points' = Apply(points, log[1].act)
        /\ Len(log') = Len(log) - 1 /\ \A j \in 1..Len(log') : log'[j] = log[j + 1]
        /\ task'[t].req = task[t].req /\ task'[t].todo = task[t].todo /\ task'[t].beyond = task[t].beyond /\ task'[t].sure = task[t].sure
        /\ task'[t].pc = (IF t = log[1].of THEN "answered" ELSE task[t].pc)
        /\ wire' = wire
    BY <1>12, ApplyNextIs DEF ApplyNext
  <2>2. Len(log) \in Nat
    BY LogShape
  <2>3. \A n \in 0..Len(log') : Views'[n] = Views[n + 1]
    <3> DEFINE rest == log'
    <3>1. Len(log) \in Nat /\ Len(log) >= 1 /\ Len(rest) = Len(log) - 1 /\ \A n \in 1..Len(rest) : rest[n].act = log[n + 1].act
      BY <2>1, <2>2
    <3> HIDE DEF rest
    <3>2. \A n \in 0..Len(rest) : Replayed(Apply(points, log[1].act), rest)[n] = Replayed(points, log)[n + 1]
      BY <3>1, ReplayedRest
    <3>3. QED
      BY <2>1, <3>2 DEF Views, rest
  <2>4. Sure(t)
    <3>1. task[t].sure
      BY <2>1 DEF Sure
    <3>2. CASE t = log[1].of
      <4>1. 1 \in 1..Len(log)
        BY <2>1, <2>2
      <4>2. QED
        BY <3>1, <3>2, <4>1 DEF Sure
    <3>3. CASE t # log[1].of
      <4>1. task'[t].pc = task[t].pc
        BY <2>1, <3>3
      <4>2. \A j \in 1..Len(log') : log'[j] = log[j + 1] /\ j + 1 \in 1..Len(log)
        BY <2>1, <2>2
      <4>3. QED
        BY <2>1, <3>1, <4>1, <4>2 DEF Sure
    <3>4. QED
      BY <3>2, <3>3
  <2>5. Taking(t) /\ Stored(t)
    BY <1>1, <2>4
  <2>6. Taking(t)'
    <3> SUFFICES ASSUME NEW u \in Uri, Takes(task[t].req, u), NEW n \in 0..Len(log'), NEW i \in At(Views'[n], u)
                 PROVE  Pending(t, n, i)'
      BY <2>1 DEF Taking
    <3>1. n + 1 \in 0..Len(log) /\ Views'[n] = Views[n + 1] /\ n \in Nat
      BY <2>1, <2>2, <2>3
    <3>2. Pending(t, n + 1, i)
      BY <2>5, <3>1 DEF Taking
    <3>3. CASE i \in task[t].todo \cup task[t].beyond \/ \E m \in wire : m.of = t /\ m.act.op = "setUri" /\ m.act.id = i
      BY <2>1, <3>3 DEF Pending
    <3>4. CASE \E j \in n + 1 + 1..Len(log) : log[j].of = t /\ (log[j].act.op = "setUri" => log[j].act.id = i)
      <4>1. PICK j \in n + 1 + 1..Len(log) : log[j].of = t /\ (log[j].act.op = "setUri" => log[j].act.id = i)
        BY <3>4
      <4>2. j - 1 \in n + 1..Len(log') /\ j - 1 \in 1..Len(log') /\ j - 1 + 1 = j
        BY <2>1, <2>2, <3>1
      <4>3. log'[j - 1] = log[j]
        BY <2>1, <4>2
      <4>4. QED
        BY <4>1, <4>2, <4>3 DEF Pending
    <3>5. QED
      BY <3>2, <3>3, <3>4 DEF Pending
  <2>7. Stored(t)'
    <3>1. View' = View
      BY <2>1, <2>2, <2>3 DEF View
    <3>2. QED
      BY <2>1, <2>5, <3>1 DEF Stored
  <2>8. QED
    BY <2>6, <2>7
<1>13. CASE UNCHANGED vars
  <2>1. Sure(t)' => Sure(t)
    BY <1>13 DEF Sure, vars
  <2>2. \A n \in 0..Len(log) : \A i : Pending(t, n, i) => Pending(t, n, i)'
    BY <1>13 DEF Pending, vars
  <2>3. points' = points /\ log' = log /\ task'[t].req = task[t].req
    BY <1>13 DEF vars
  <2>4. QED
    BY <1>1, <1>2, <2>1, <2>2, <2>3, FrameTold
<1>14. QED
  BY <1>4, <1>5, <1>6, <1>7, <1>8, <1>9, <1>10, <1>11, <1>12, <1>13 DEF Next

\* What a call that returned said of a URI stays so until a message changes it.
LEMMA LearntKept ==
  ASSUME TypeInv, SoleInv, Told, Learnt, [Next]_vars
  PROVE  Learnt'
<1>1. /\ Views[0] = points /\ Len(log) \in Nat
      /\ \A n \in 0..Len(log) : GoodPoints(Views[n])
  BY GoodViews
<1>2. ASSUME after' = after, Len(log') = Len(log), \A n \in 0..Len(log) : Views'[n] = Views[n]
      PROVE  Learnt'
  <2>1. View' = View
    BY <1>1, <1>2 DEF View
  <2>2. ASSUME NEW u \in Uri, after'[u].says = "absent" PROVE \A n \in 0..Len(log') : At(Views'[n], u) \subseteq after'[u].left
    BY <1>2, <2>2 DEF Learnt
  <2>3. ASSUME NEW u \in Uri, after'[u].says \in Vec PROVE \E i \in At(View', u) : View'[i].vec = after'[u].says
    BY <1>2, <2>1, <2>3 DEF Learnt
  <2>4. QED
    BY <2>2, <2>3 DEF Learnt
<1>3. ASSUME after' = after, points' = points, log' = log PROVE Learnt'
  BY <1>2, <1>3 DEF Views
<1>4. ASSUME NEW c \in Client, TimeOut(c) PROVE Learnt'
  <2>1. GiveUp(c) /\ points' = points /\ after' = after
    BY <1>4 DEF TimeOut, GiveUp
  <2> DEFINE lg == log'
  <2>2. Len(lg) = Len(log) /\ \A j \in 1..Len(log) : lg[j].act = log[j].act
    BY <2>1, GiveUpIs
  <2> HIDE DEF lg
  <2>3. \A n \in 0..Len(log) : Replayed(points, lg)[n] = Replayed(points, log)[n]
    BY <1>1, <2>2, ReplayedSame
  <2>4. QED
    BY <1>2, <2>1, <2>2, <2>3 DEF Views, lg
<1>5. ASSUME ApplyNext PROVE Learnt'
  <2>1. /\ Len(log) >= 1 /\ points' = Apply(points, log[1].act)
        /\ Len(log') = Len(log) - 1 /\ \A j \in 1..Len(log') : log'[j] = log[j + 1]
        /\ after' = after
    BY <1>5, ApplyNextIs DEF ApplyNext
  <2>2. \A n \in 0..Len(log') : Views'[n] = Views[n + 1]
    <3> DEFINE rest == log'
    <3>1. Len(log) \in Nat /\ Len(log) >= 1 /\ Len(rest) = Len(log) - 1 /\ \A n \in 1..Len(rest) : rest[n].act = log[n + 1].act
      BY <1>1, <2>1
    <3> HIDE DEF rest
    <3>2. \A n \in 0..Len(rest) : Replayed(Apply(points, log[1].act), rest)[n] = Replayed(points, log)[n + 1]
      BY <3>1, ReplayedRest
    <3>3. QED
      BY <2>1, <3>2 DEF Views, rest
  <2>3. View' = View
    BY <1>1, <2>1, <2>2 DEF View
  <2>4. ASSUME NEW u \in Uri, after'[u].says = "absent", NEW n \in 0..Len(log')
      PROVE  At(Views'[n], u) \subseteq after'[u].left
    <3>1. n + 1 \in 0..Len(log) /\ Views'[n] = Views[n + 1]
      BY <1>1, <2>1, <2>2
    <3>2. QED
      BY <2>1, <2>4, <3>1 DEF Learnt
  <2>5. ASSUME NEW u \in Uri, after'[u].says \in Vec PROVE \E i \in At(View', u) : View'[i].vec = after'[u].says
    BY <2>1, <2>3, <2>5 DEF Learnt
  <2>6. QED
    BY <2>4, <2>5 DEF Learnt
<1>6. ASSUME NEW m \in wire, Accept(m) PROVE Learnt'
  <2> DEFINE k == Len(log)
             act == m.act
  <2>1. /\ Len(log') = k + 1 /\ Storable(act)
        /\ \A j \in 1..k : log'[j] = log[j]
        /\ log'[k + 1].act = act
    BY <1>6, AcceptIs
  <2>2. points' = points /\ \A u \in Uri : after'[u] = IF u \in Affects(act) THEN Unknown ELSE after[u]
    BY <1>6 DEF Accept, Forget
  <2>3. (\A n \in 0..k : Views'[n] = Views[n]) /\ Views'[k + 1] = Apply(View, act)
    <3> DEFINE lg == log'
    <3>1. Len(lg) = Len(log) + 1 /\ (\A n \in 1..Len(log) : lg[n].act = log[n].act) /\ lg[k + 1].act = act
      BY <1>1, <2>1
    <3> HIDE DEF lg
    <3>2. /\ \A n \in 0..Len(log) : Replayed(points, lg)[n] = Replayed(points, log)[n]
          /\ Replayed(points, lg)[Len(lg)] = Apply(Replayed(points, log)[Len(log)], lg[Len(lg)].act)
      BY <1>1, <3>1, ReplayedLonger
    <3>3. QED
      BY <2>2, <3>1, <3>2 DEF Views, View, lg
  <2>4. GoodPoints(View) /\ View' = Apply(View, act)
    BY <1>1, <2>1, <2>3 DEF View
  <2>5. ASSUME NEW u \in Uri, after'[u].says = "absent", NEW n \in 0..Len(log')
      PROVE  At(Views'[n], u) \subseteq after'[u].left
    <3>1. u \notin Affects(act) /\ after[u].says = "absent" /\ after'[u] = after[u]
      BY <2>2, <2>5 DEF Unknown, Says
    <3>2. \A l \in 0..k : At(Views[l], u) \subseteq after[u].left
      BY <3>1 DEF Learnt
    <3>3. CASE n = k + 1
      <4>1. u \notin Gives(act)
        BY <2>1, <3>1, GivenAffected
      <4>2. At(View, u) \subseteq after[u].left
        BY <1>1, <3>2 DEF View
      <4>3. QED
        BY <2>1, <2>3, <2>4, <3>1, <3>3, <4>1, <4>2, NotGiven
    <3>4. CASE n \in 0..k
      BY <2>3, <3>1, <3>2, <3>4
    <3>5. QED
      BY <1>1, <2>1, <3>3, <3>4
  <2>6. ASSUME NEW u \in Uri, after'[u].says \in Vec PROVE \E i \in At(View', u) : View'[i].vec = after'[u].says
    <3>1. u \notin Affects(act) /\ after'[u] = after[u]
      BY <2>2, <2>6, QdrantAssumption DEF Unknown, Says
    <3>2. PICK i \in At(View, u) : View[i].vec = after[u].says
      BY <2>6, <3>1 DEF Learnt
    <3>3. i \in At(Apply(View, act), u) /\ Apply(View, act)[i] = View[i]
      BY <2>1, <2>4, <3>1, NotAffected
    <3>4. QED
      BY <2>4, <3>1, <3>2, <3>3
  <2>7. QED
    BY <2>5, <2>6 DEF Learnt
<1>7. ASSUME NEW t \in Client, Return(t) PROVE Learnt'
  <2> DEFINE r == task[t].req
             ps == ById(r.points)
  <2>1. /\ task[t].pc = "answered" /\ task[t].todo = {} /\ after' = Learned(t)
        /\ points' = points /\ log' = log
    BY <1>7 DEF Return
  <2>2. Len(log') = Len(log) /\ (\A n \in 0..Len(log) : Views'[n] = Views[n]) /\ View' = View
    BY <1>1, <2>1 DEF Views, View
  <2>3. CASE ~task[t].sure
    <3>1. after' = after
      BY <2>1, <2>3 DEF Learned
    <3>2. QED
      BY <1>3, <2>1, <3>1
  <2>4. CASE task[t].sure
    <3>1. Sure(t)
      BY <2>1, <2>4 DEF Sure
    <3>2. Taking(t) /\ Stored(t)
      BY <3>1 DEF Told
    <3>3. \A n, i : ~Pending(t, n, i) \/ n \notin 0..Len(log) \/ i \in task[t].beyond
      <4>1. (\A m \in wire : m.of # t) /\ \A j \in 1..Len(log) : log[j].of # t
        BY <2>1 DEF SoleInv
      <4>2. \A n \in 0..Len(log) : \A j \in n + 1..Len(log) : j \in 1..Len(log)
        BY <1>1
      <4>3. QED
        BY <2>1, <4>1, <4>2 DEF Pending
    <3>4. \A u \in Uri : Takes(r, u) => \A n \in 0..Len(log) : At(Views[n], u) \subseteq task[t].beyond
      BY <3>2, <3>3 DEF Taking
    <3>5. \A u \in Uri : \/ after'[u] = after[u]
                         \/ after'[u] = Says("absent", task[t].beyond) /\ Takes(r, u)
                         \/ r.op = "upsert" /\ \E i \in At(ps, u) : after'[u] = Says(ps[i].vec, {})
      <4> SUFFICES ASSUME NEW u \in Uri
                   PROVE  \/ after'[u] = after[u]
                          \/ after'[u] = Says("absent", task[t].beyond) /\ Takes(r, u)
                          \/ r.op = "upsert" /\ \E i \in At(ps, u) : after'[u] = Says(ps[i].vec, {})
        OBVIOUS
      <4>1. after \in [Uri -> Outcome]
        BY DEF TypeInv
      <4>2. CASE r.op = "upsert"
        <5>1. after' = [v \in Uri |-> IF At(ps, v) # {} THEN Says(ps[CHOOSE i \in At(ps, v) : TRUE].vec, {}) ELSE after[v]]
          BY <2>1, <2>4, <4>2 DEF Learned
        <5> HIDE DEF ps
        <5>2. At(ps, u) # {} => (CHOOSE i \in At(ps, u) : TRUE) \in At(ps, u)
          OBVIOUS
        <5>3. QED
          BY <4>2, <5>1, <5>2
      <4>3. CASE r.op = "deletePrefix"
        <5>1. task[t].beyond = {}
          BY <4>3 DEF TypeInv
        <5>2. after' = [after EXCEPT ![r.prefix] = Says("absent", task[t].beyond)]
          BY <2>1, <2>4, <4>3, <5>1 DEF Learned
        <5>3. QED
          BY <4>1, <4>3, <5>2 DEF Takes
      <4>4. CASE r.op = "updateUri" /\ r.old # r.new
        <5>1. after' = [after EXCEPT ![r.old] = Says("absent", task[t].beyond)]
          BY <2>1, <2>4, <4>4 DEF Learned
        <5>2. QED
          BY <4>1, <4>4, <5>1 DEF Takes
      <4>5. CASE r.op \notin {"upsert", "deletePrefix"} /\ ~(r.op = "updateUri" /\ r.old # r.new)
        BY <2>1, <2>4, <4>5 DEF Learned
      <4>6. QED
        BY <4>2, <4>3, <4>4, <4>5
    <3>6. ASSUME NEW u \in Uri, r.op = "upsert", NEW i \in At(ps, u), after'[u] = Says(ps[i].vec, {})
          PROVE  i \in At(View, u) /\ View[i].vec = after'[u].says /\ after'[u].says \in Vec
      <4>1. i \in DOMAIN ps /\ ps[i].uri = u
        BY DEF At
      <4>2. i \in DOMAIN View /\ View[i] = ps[i]
        BY <3>2, <3>6, <4>1 DEF Stored
      <4>3. r.points \in Seq(Point)
        <5>1. r \in Request \cup {NoRequest} /\ NoRequest.op = "none"
          BY CallShape
        <5>2. QED
          BY <3>6, <5>1, RequestShape
      <4>4. ps[i] \in Point
        BY <4>1, <4>3, ByIdType
      <4> HIDE DEF ps
      <4>5. QED
        BY <3>6, <4>1, <4>2, <4>4 DEF At, Point, Says
    <3>7. ASSUME NEW u \in Uri, after'[u].says = "absent" PROVE \A n \in 0..Len(log') : At(Views'[n], u) \subseteq after'[u].left
      <4>1. "absent" \notin Vec
        BY QdrantAssumption
      <4>2. after'[u] = after[u] \/ (after'[u] = Says("absent", task[t].beyond) /\ Takes(r, u))
        <5> HIDE DEF ps, r
        <5>1. QED
          BY <3>5, <3>6, <3>7, <4>1
      <4>3. CASE after'[u] = after[u]
        BY <2>2, <3>7, <4>3 DEF Learnt
      <4>4. CASE after'[u] = Says("absent", task[t].beyond) /\ Takes(r, u)
        BY <2>2, <3>4, <4>4 DEF Says
      <4>5. QED
        BY <4>2, <4>3, <4>4
    <3>8. ASSUME NEW u \in Uri, after'[u].says \in Vec PROVE \E i \in At(View', u) : View'[i].vec = after'[u].says
      <4>1. \/ after'[u] = after[u]
            \/ r.op = "upsert" /\ \E i \in At(ps, u) : after'[u] = Says(ps[i].vec, {})
        <5>1. "absent" \notin Vec
          BY QdrantAssumption
        <5>2. after'[u] # Says("absent", task[t].beyond)
          BY <3>8, <5>1 DEF Says
        <5> HIDE DEF ps, r
        <5>3. QED
          BY <3>5, <5>2
      <4>2. CASE after'[u] = after[u]
        BY <2>2, <3>8, <4>2 DEF Learnt
      <4>3. CASE r.op = "upsert" /\ \E i \in At(ps, u) : after'[u] = Says(ps[i].vec, {})
        BY <2>2, <3>6, <4>3
      <4>4. QED
        BY <4>1, <4>2, <4>3
    <3>9. QED
      BY <3>7, <3>8 DEF Learnt
  <2>5. QED
    BY <2>3, <2>4
<1>8. ASSUME NEW t \in Client, Call(t) \/ Fail(t) \/ MoveOne(t) PROVE Learnt'
  BY <1>3, <1>8 DEF Call, Fail, MoveOne
<1>9. ASSUME NEW m \in wire, Refuse(m) \/ CreateCollection(m) \/ Scroll(m) \/ Lose(m) PROVE Learnt'
  BY <1>3, <1>9 DEF Refuse, CreateCollection, Scroll, Lose
<1>10. CASE UNCHANGED vars
  BY <1>3, <1>10 DEF vars
<1>11. QED
  BY <1>4, <1>5, <1>6, <1>7, <1>8, <1>9, <1>10 DEF Next

(***************************************************************************)
(* The invariant and what it gives.                                         *)
(***************************************************************************)
QdrantInv == TypeInv /\ SoleInv /\ Told /\ Learnt

\* The points and the log fit the collection, no client has two messages on
\* their way, and what the calls are told and have said is so (qdrant.rs
\* 359-370, 421-506).
THEOREM Inductive == Spec => []QdrantInv
<1>1. Init => QdrantInv
  <2> SUFFICES ASSUME Init PROVE QdrantInv
    OBVIOUS
  <2>1. Resting \in TaskType /\ Resting.req = NoRequest /\ Resting.todo = {} /\ Resting.beyond = {} /\ Resting.pc = "idle" /\ ~Resting.sure
    BY DEF TaskType, Resting
  <2> HIDE DEF Resting
  <2>2. GoodPoints(points)
    <3>1. points = <<>> => GoodPoints(points)
      BY DEF GoodPoints, MapsTo
    <3>2. points \in Stock => GoodPoints(points)
      BY QdrantAssumption DEF GoodPoints
    <3>3. QED
      BY <3>1, <3>2 DEF Init
  <2>3. log \in Seq(Message) /\ Len(log) = 0 /\ wire = {} /\ task = [t \in Client |-> Resting]
    BY DEF Init
  <2>4. Unknown \in Outcome /\ Unknown.says = "unknown"
    BY DEF Unknown, Says, Outcome
  <2>5. TypeInv
    BY <2>1, <2>2, <2>3, <2>4 DEF Init, TypeInv
  <2>6. SoleInv
    BY <2>3 DEF SoleInv
  <2>7. Told
    BY <2>1, <2>3 DEF Told, Sure
  <2>8. Learnt
    BY <2>4, QdrantAssumption DEF Init, Learnt
  <2>9. QED
    BY <2>5, <2>6, <2>7, <2>8 DEF QdrantInv
<1>2. QdrantInv /\ [Next]_vars => QdrantInv'
  BY TypeKept, ToldKept, LearntKept DEF QdrantInv
<1>3. QED
  BY <1>1, <1>2, PTL DEF Spec

\* What a call that returned Ok did stays done: what was stored is in the
\* points or still logged, no point is left at exactly the URI that was removed,
\* and at one that was moved away none but those beyond the scroll's page; every
\* point is one Qdrant can hold (qdrant.rs 359-370, 421-506).
THEOREM ItsWordKept == Spec => []KeepsItsWord
<1>1. QdrantInv => KeepsItsWord
  <2> SUFFICES ASSUME QdrantInv PROVE KeepsItsWord
    OBVIOUS
  <2>1. TypeInv /\ SoleInv /\ Learnt
    BY DEF QdrantInv
  <2>2. exists \in BOOLEAN /\ MapsTo(points, Usable, Point) /\ (\A i \in DOMAIN points : points[i].vec \in Fits)
        /\ after \in [Uri -> Outcome]
    BY <2>1 DEF TypeInv, GoodPoints, Outcome
  <2>3. ASSUME NEW t \in Client
        PROVE  /\ task[t].pc \in {"idle", "waiting", "answered", "refused"}
               /\ task[t].req \in CallsOf[t] \cup {NoRequest}
               /\ task[t].todo \cup task[t].beyond \subseteq Id /\ task[t].sure \in BOOLEAN
               /\ Cardinality({m \in wire \cup Range(log) : m.of = t}) <= IF task[t].pc = "waiting" THEN 1 ELSE 0
    <3>1. task[t] \in TaskType /\ task[t].req \in CallsOf[t] \cup {NoRequest}
      BY <2>1 DEF TypeInv
    <3> DEFINE S == {m \in wire \cup Range(log) : m.of = t}
    <3>2. \A m \in S : m \in wire \/ \E j \in 1..Len(log) : m = log[j]
      BY <2>1, LogShape DEF Range
    <3>3. \A m \in S : m.of = t
      OBVIOUS
    <3> HIDE DEF S
    <3>4. \A m, n \in S : m = n
      BY <2>1, <3>2, <3>3 DEF SoleInv
    <3>5. S # {} => task[t].pc = "waiting"
      BY <2>1, <3>2, <3>3 DEF SoleInv
    <3>6. S = {} \/ \E m : S = {m}
      BY <3>4
    <3>7. Cardinality(S) = 0 \/ (Cardinality(S) = 1 /\ task[t].pc = "waiting")
      BY <3>5, <3>6, FS_EmptySet, FS_Singleton
    <3>8. QED
      BY <3>1, <3>7 DEF S, TaskType
  <2>4. TypesFit
    BY <2>2, <2>3 DEF TypesFit, Outcome
  <2>5. ASSUME NEW u \in Uri
        PROVE  /\ after[u].says = "absent" => At(View, u) \subseteq after[u].left
               /\ after[u].says \in Vec => \E i \in At(View, u) : View[i].vec = after[u].says
    <3>1. Len(log) \in 0..Len(log)
      BY <2>1, LogShape
    <3>2. QED
      BY <2>1, <3>1 DEF Learnt, View
  <2>6. QED
    BY <2>4, <2>5 DEF KeepsItsWord
<1>2. QED
  BY <1>1, Inductive, PTL

\* Of what was removed or moved away no search finds more than the points beyond
\* the page, from the moment the call returns (qdrant.rs 447-453, 493-499: wait(true)).
THEOREM GoneIsUnseen == Spec => []RemovedUnseen
<1>1. QdrantInv => RemovedUnseen
  <2> SUFFICES ASSUME QdrantInv, NEW u \in Uri, after[u].says = "absent" PROVE At(points, u) \subseteq after[u].left
    BY DEF RemovedUnseen
  <2>1. Views[0] = points /\ 0 \in 0..Len(log)
    BY GoodViews DEF QdrantInv
  <2>2. QED
    BY <2>1 DEF QdrantInv, Learnt
<1>2. QED
  BY <1>1, Inductive, PTL

\* On the filters VikingFS::find makes from a target alone or a level alone, Qdrant
\* lets through the points the other stores do (qdrant.rs 75-149, rocks.rs 106-127).
THEOREM FiltersMatch == Spec => []FiltersAgree
<1>1. FiltersAgree
  <2>1. ASSUME NEW p, NEW u \in Uri
        PROVE  Compiled(p, FindFilter(u, NoLevel)) = MatchesFilter(p, FindFilter(u, NoLevel))
    <3>1. u # NoUri
      BY PointsAssumption, SyncAssumption
    <3>2. FindFilter(u, NoLevel) = In("uri", {u})
      BY <3>1 DEF FindFilter
    <3>3. QED
      BY <3>2 DEF In, Compiled, CompiledSimply, MatchesFilter, Field
  <2>2. ASSUME NEW p, NEW n \in {0, 1}
        PROVE  Compiled(p, FindFilter(NoUri, n)) = MatchesFilter(p, FindFilter(NoUri, n))
    <3>1. FindFilter(NoUri, n) = Eq("level", n)
      BY DEF FindFilter, NoLevel
    <3>2. QED
      BY <3>1 DEF Eq, Compiled, CompiledSimply, MatchesFilter
  <2>3. ASSUME NEW p PROVE Compiled(p, FindFilter(NoUri, NoLevel)) = MatchesFilter(p, FindFilter(NoUri, NoLevel))
    <3>1. FindFilter(NoUri, NoLevel) = [kind |-> "none"]
      BY DEF FindFilter
    <3>2. QED
      BY <3>1 DEF Compiled, CompiledSimply, MatchesFilter
  <2>4. QED
    BY <2>1, <2>2, <2>3 DEF FiltersAgree
<1>2. QED
  BY <1>1, PTL

=============================================================================
