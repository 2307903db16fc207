---------------------------- MODULE VikingProofs ----------------------------
(***************************************************************************)
(* VikingFS: vectors follow the files of clients that keep to URIs of their *)
(* own, however their steps interleave, embeddings fail and the process     *)
(* dies.                                                                    *)
(***************************************************************************)
EXTENDS VikingSync, LocalFsProofs, FiniteSetTheorems

(***************************************************************************)
(* The invariant, in parts.                                                 *)
(***************************************************************************)
UriOf(p) == <<"viking:/">> \o p

Clients ==
  [pc : {"idle", "file", "embed", "summary", "remove", "unvector", "rename", "revector", "mkdir"},
   call : ApiCall \cup {NoCall}, stage : {"main", "abstract", "again"}]

\* A client is at a step of its call.
Placed(c) ==
  LET l == client[c] IN
  /\ l.call \in CallsOf[c] \cup {NoCall}
  /\ l.pc \in StagesOf[l.call.op]
  /\ l.stage # "main" => l.call.op = "writeContext" /\ l.pc # "summary"
  /\ l.stage = "again" => l.pc = "embed"

\* What has been written and is not to be embedded or summed up in vain.
Kept(c) ==
  /\ At(c, "embed") =>
       /\ IsFile(fs, InternalPath(TargetUri(c)))
       /\ fs[InternalPath(TargetUri(c))] = Payload(c)
  /\ At(c, "summary") \/ client[c].stage # "main" =>
       /\ IsFile(fs, InternalPath(client[c].call.uri))
       /\ fs[InternalPath(client[c].call.uri)] = client[c].call.text

FsInv ==
  /\ \A p \in Files(fs) : UriOf(p) \in Uri
  /\ \A p : IsDir(fs, p) => p[Len(p)] # Abstract

Moves(c, u) == At(c, "revector") /\ IsPrefix(client[c].call.from, u)

Target(c, u) == client[c].call.to \o SubSeq(u, Len(client[c].call.from) + 1, Len(u))

Accounted(u) ==
  \/ u \in FileUris /\ \A c \in Client : ~Moves(c, u)
  \/ \E c \in Client : At(c, "unvector") /\ IsPrefix(client[c].call.uri, u)
  \/ \E c \in Client : Moves(c, u) /\ Target(c, u) \in FileUris

OrphanInv == \A i \in DOMAIN points : \E u \in Uri : points[i].uri = u /\ Accounted(u)

Indexed(u) ==
  \/ \E c \in Client : At(c, "embed") /\ TargetUri(c) = u
  \/ VectorsOf(u) = {IdOf[u]} /\ points[IdOf[u]].vec = Embed[fs[InternalPath(u)]]

IndexInv ==
  /\ \A u \in Uri \ lapsed : VectorsOf(u) \subseteq {IdOf[u]}
  /\ \A u \in FileUris \ lapsed : Indexed(u)
  /\ \A c \in Client : At(c, "revector") =>
       \A u \in Uri : IsPrefix(client[c].call.from, u) \/ IsPrefix(client[c].call.to, u) => u \in lapsed

(***************************************************************************)
(* URIs and the paths they stand for.                                       *)
(***************************************************************************)
Viking(u) == u \in Path /\ Len(u) >= 1 /\ u[1] = "viking:/"

\* A URI is its scheme and the path.
LEMMA PathOf ==
  ASSUME NEW u, Viking(u)
  PROVE  /\ Tail(u) \in Path /\ Len(Tail(u)) = Len(u) - 1 /\ Len(u) \in Nat
         /\ \A i \in 1..Len(u) - 1 : Tail(u)[i] = u[i + 1]
         /\ UriOf(Tail(u)) = u
<1>1. u \in Seq(STRING) /\ Len(u) \in Nat /\ u # <<>>
  BY LenProperties, EmptySeq DEF Viking, Path
<1>2. /\ Tail(u) \in Seq(STRING) /\ Len(Tail(u)) = Len(u) - 1
      /\ \A i \in 1..Len(u) - 1 : Tail(u)[i] = u[i + 1]
  BY <1>1, HeadTailProperties
<1>3. u[1] \in STRING
  BY <1>1, ElementOfSeq DEF Viking
<1> DEFINE h == <<u[1]>>
<1>4. h \in Seq(STRING) /\ Len(h) = 1 /\ h[1] = u[1]
  BY <1>3
<1> HIDE DEF h
<1>5. /\ h \o Tail(u) \in Seq(STRING) /\ Len(h \o Tail(u)) = 1 + (Len(u) - 1)
      /\ \A i \in 1..1 + (Len(u) - 1) : (h \o Tail(u))[i] = IF i <= 1 THEN h[i] ELSE Tail(u)[i - 1]
  <2>1. /\ h \o Tail(u) \in Seq(STRING) /\ Len(h \o Tail(u)) = Len(h) + Len(Tail(u))
        /\ \A i \in 1..Len(h) + Len(Tail(u)) :
             (h \o Tail(u))[i] = IF i <= Len(h) THEN h[i] ELSE Tail(u)[i - Len(h)]
    <3> DEFINE t == Tail(u)
    <3>1. t \in Seq(STRING)
      BY <1>2
    <3> HIDE DEF t
    <3>2. /\ h \o t \in Seq(STRING) /\ Len(h \o t) = Len(h) + Len(t)
          /\ \A i \in 1..Len(h) + Len(t) : (h \o t)[i] = IF i <= Len(h) THEN h[i] ELSE t[i - Len(h)]
      BY <1>4, <3>1, ConcatProperties
    <3>3. QED
      BY <3>2 DEF t
  <2>2. QED
    BY <1>2, <1>4, <2>1
<1>6. \A i \in 1..Len(u) : (h \o Tail(u))[i] = u[i]
  <2> SUFFICES ASSUME NEW i \in 1..Len(u) PROVE (h \o Tail(u))[i] = u[i]
    OBVIOUS
  <2>1. CASE i = 1
    BY <1>1, <1>4, <1>5, <2>1
  <2>2. CASE i # 1
    <3>1. i - 1 \in 1..Len(u) - 1 /\ ~(i <= 1) /\ i - 1 + 1 = i /\ i \in 1..1 + (Len(u) - 1)
      BY <1>1, <2>2
    <3>2. QED
      BY <1>2, <1>5, <3>1
  <2>3. QED
    BY <2>1, <2>2
<1>7. Len(h \o Tail(u)) = Len(u)
  BY <1>1, <1>5
<1>8. h \o Tail(u) = u
  BY <1>1, <1>5, <1>6, <1>7, SeqEqual
<1>9. h = <<"viking:/">>
  BY DEF h, Viking
<1>10. QED
  BY <1>1, <1>2, <1>8, <1>9 DEF UriOf, Path

\* A path's URI.
LEMMA UriOfPath ==
  ASSUME NEW p \in Path, NEW n, Viking(n)
  PROVE  /\ Viking(UriOf(p)) /\ Len(UriOf(p)) = Len(p) + 1 /\ Tail(UriOf(p)) = p
         /\ \A i \in 1..Len(p) : UriOf(p)[i + 1] = p[i]
<1>1. Len(p) \in Nat /\ n \in Seq(STRING) /\ Len(n) \in Nat /\ 1 \in 1..Len(n)
  BY LenProperties DEF Viking, Path
<1>2. "viking:/" \in STRING
  BY <1>1, ElementOfSeq DEF Viking
<1> DEFINE h == <<"viking:/">>
<1>3. h \in Seq(STRING) /\ Len(h) = 1 /\ h[1] = "viking:/"
  BY <1>2
<1> HIDE DEF h
<1>4. /\ h \o p \in Seq(STRING) /\ Len(h \o p) = 1 + Len(p)
      /\ \A i \in 1..1 + Len(p) : (h \o p)[i] = IF i <= 1 THEN h[i] ELSE p[i - 1]
  <2>1. /\ h \o p \in Seq(STRING) /\ Len(h \o p) = Len(h) + Len(p)
        /\ \A i \in 1..Len(h) + Len(p) : (h \o p)[i] = IF i <= Len(h) THEN h[i] ELSE p[i - Len(h)]
    BY <1>3, ConcatProperties DEF Path
  <2>2. QED
    BY <1>3, <2>1
<1> DEFINE u == h \o p
<1> HIDE DEF u
<1>5. Viking(u) /\ Len(u) = Len(p) + 1
  BY <1>1, <1>3, <1>4 DEF u, Viking, Path
<1>6. \A i \in 1..Len(p) : u[i + 1] = p[i]
  <2> SUFFICES ASSUME NEW i \in 1..Len(p) PROVE u[i + 1] = p[i]
    OBVIOUS
  <2>1. i + 1 \in 1..1 + Len(p) /\ ~(i + 1 <= 1) /\ i + 1 - 1 = i
    BY <1>1
  <2>2. QED
    BY <1>4, <2>1 DEF u
<1>7. Tail(u) \in Path /\ Len(Tail(u)) = Len(p) /\ \A i \in 1..Len(p) : Tail(u)[i] = p[i]
  BY <1>1, <1>5, <1>6, PathOf
<1>8. Tail(u) = p
  BY <1>7, SeqEqual DEF Path
<1>9. QED
  BY <1>5, <1>6, <1>8 DEF u, h, UriOf

\* A name is a prefix of the URI of what lies within its path; of other URIs it
\* is one only in the middle of a segment.
LEMMA NameCovers ==
  ASSUME NEW p \in Path, NEW n, Viking(n)
  PROVE  Within(p, Tail(n)) <=> /\ IsPrefix(n, UriOf(p))
                                /\ UriOf(p) = n \/ UriOf(p)[Len(n) + 1] = "/"
<1> DEFINE u == UriOf(p)
           d == Tail(n)
<1>1. /\ d \in Path /\ Len(d) = Len(n) - 1 /\ Len(n) \in Nat
      /\ \A i \in 1..Len(n) - 1 : d[i] = n[i + 1]
  BY PathOf
<1>2. /\ u \in Path /\ u[1] = "viking:/" /\ Len(u) = Len(p) + 1
      /\ \A i \in 1..Len(p) : u[i + 1] = p[i]
  BY UriOfPath DEF Viking
<1>3. n \in Path /\ n[1] = "viking:/" /\ Len(n) >= 1 /\ Len(p) \in Nat
  BY LenProperties DEF Viking, Path
<1> HIDE DEF u, d
<1>4. IsPrefix(n, u) <=> Len(n) <= Len(u) /\ \A i \in 1..Len(n) : n[i] = u[i]
  BY <1>2, <1>3, PrefixIff DEF Path
<1>5. Within(p, d) <=> /\ Len(d) <= Len(p) /\ (Len(d) = Len(p) \/ p[Len(d) + 1] = "/")
                       /\ \A i \in 1..Len(d) : p[i] = d[i]
  BY <1>1, WithinIff
<1>6. Len(d) <= Len(p) => ((\A i \in 1..Len(d) : p[i] = d[i]) <=> \A i \in 1..Len(n) : n[i] = u[i])
  <2> SUFFICES ASSUME Len(d) <= Len(p)
               PROVE  (\A i \in 1..Len(d) : p[i] = d[i]) <=> \A i \in 1..Len(n) : n[i] = u[i]
    OBVIOUS
  <2>1. \A i \in 1..Len(d) : d[i] = n[i + 1] /\ p[i] = u[i + 1] /\ i + 1 \in 1..Len(n)
    BY <1>1, <1>2, <1>3
  <2>2. \A i \in 1..Len(n) : i = 1 \/ (i - 1 \in 1..Len(d) /\ i - 1 + 1 = i)
    BY <1>1, <1>3
  <2>3. n[1] = u[1]
    BY <1>2, <1>3
  <2>4. ASSUME \A i \in 1..Len(d) : p[i] = d[i], NEW i \in 1..Len(n) PROVE n[i] = u[i]
    <3>1. CASE i = 1
      BY <2>3, <3>1
    <3>2. CASE i # 1
      <4> DEFINE k == i - 1
      <4>1. k \in 1..Len(d) /\ k + 1 = i
        BY <2>2, <3>2
      <4>2. d[k] = n[k + 1] /\ p[k] = u[k + 1] /\ p[k] = d[k]
        BY <2>1, <2>4, <4>1
      <4>3. QED
        BY <4>1, <4>2
    <3>3. QED
      BY <3>1, <3>2
  <2>5. QED
    BY <2>1, <2>4
<1>7. ASSUME Len(n) <= Len(u), \A i \in 1..Len(n) : n[i] = u[i]
      PROVE  Len(d) = Len(p) <=> u = n
  <2>1. Len(n) = Len(u) => u = n
    BY <1>2, <1>3, <1>7, SeqEqual DEF Path
  <2>2. QED
    BY <1>1, <1>2, <1>3, <2>1
<1>8. ASSUME Len(d) < Len(p) PROVE p[Len(d) + 1] = u[Len(n) + 1]
  <2>1. Len(d) + 1 \in 1..Len(p) /\ Len(d) + 1 + 1 = Len(n) + 1
    BY <1>1, <1>3, <1>8
  <2>2. QED
    BY <1>2, <2>1
<1>9. Len(d) <= Len(p) <=> Len(n) <= Len(u)
  BY <1>1, <1>2, <1>3
<1>10. QED
  <2>1. CASE Len(d) < Len(p)
    BY <1>1, <1>2, <1>3, <1>4, <1>5, <1>6, <1>7, <1>8, <1>9, <2>1 DEF u, d
  <2>2. CASE Len(d) = Len(p)
    BY <1>1, <1>2, <1>3, <1>4, <1>5, <1>6, <1>7, <1>9, <2>2 DEF u, d
  <2>3. CASE Len(d) > Len(p)
    BY <1>1, <1>2, <1>3, <1>4, <1>5, <1>9, <2>3 DEF u, d
  <2>4. QED
    BY <1>1, <1>3, <2>1, <2>2, <2>3

\* The URI of a moved path is the moved URI.
LEMMA MovedUri ==
  ASSUME NEW u, Viking(u), NEW from, Viking(from), NEW to, Viking(to), IsPrefix(from, u)
  PROVE  /\ Viking(Move(u, from, to)) /\ IsPrefix(to, Move(u, from, to))
         /\ Tail(Move(u, from, to)) = Move(Tail(u), Tail(from), Tail(to))
<1>1. u \in Path /\ from \in Path /\ to \in Path /\ Len(to) >= 1 /\ to[1] = "viking:/" /\ Len(from) >= 1
  BY DEF Viking
<1>2. Len(u) \in Nat /\ Len(from) \in Nat /\ Len(to) \in Nat
  BY <1>1, LenProperties DEF Path
<1>3. Len(from) <= Len(u)
  BY <1>1, PrefixIff DEF Path
<1> DEFINE m == Move(u, from, to)
<1>4. /\ m \in Path /\ Len(m) = Len(to) + (Len(u) - Len(from))
      /\ \A i \in 1..Len(to) : m[i] = to[i]
      /\ \A i \in 1..Len(u) - Len(from) : m[Len(to) + i] = u[Len(from) + i]
  BY <1>1, <1>3, Moved
<1> HIDE DEF m
<1>5. Viking(m)
  BY <1>1, <1>2, <1>3, <1>4 DEF Viking
<1>6. IsPrefix(to, m)
  <2>1. Len(to) <= Len(m)
    BY <1>2, <1>3, <1>4
  <2>2. QED
    BY <1>1, <1>4, <2>1, PrefixIff DEF Path
<1> DEFINE p == Tail(u)
           f == Tail(from)
           t == Tail(to)
           n == Move(p, f, t)
<1>7. /\ p \in Path /\ Len(p) = Len(u) - 1 /\ \A i \in 1..Len(u) - 1 : p[i] = u[i + 1]
      /\ f \in Path /\ Len(f) = Len(from) - 1
      /\ t \in Path /\ Len(t) = Len(to) - 1 /\ \A i \in 1..Len(to) - 1 : t[i] = to[i + 1]
  BY PathOf
<1> HIDE DEF p, f, t
<1>8. /\ n \in Path /\ Len(n) = Len(t) + (Len(p) - Len(f))
      /\ \A i \in 1..Len(t) : n[i] = t[i]
      /\ \A i \in 1..Len(p) - Len(f) : n[Len(t) + i] = p[Len(f) + i]
  <2>1. Len(f) <= Len(p)
    BY <1>2, <1>3, <1>7
  <2>2. QED
    BY <1>7, <2>1, Moved
<1> HIDE DEF n
<1>9. /\ Tail(m) \in Path /\ Len(Tail(m)) = Len(m) - 1
      /\ \A i \in 1..Len(m) - 1 : Tail(m)[i] = m[i + 1]
  BY <1>5, PathOf
<1>10. Len(Tail(m)) = Len(n)
  BY <1>1, <1>2, <1>3, <1>4, <1>7, <1>8, <1>9
<1>11. ASSUME NEW i \in 1..Len(n) PROVE Tail(m)[i] = n[i]
  <2>1. i \in 1..Len(m) - 1 /\ i \in Nat
    BY <1>2, <1>3, <1>4, <1>9, <1>10
  <2>2. Tail(m)[i] = m[i + 1]
    BY <1>9, <2>1
  <2>3. CASE i <= Len(t)
    <3>1. i \in 1..Len(t) /\ i \in 1..Len(to) - 1 /\ i + 1 \in 1..Len(to)
      BY <1>1, <1>2, <1>7, <2>1, <2>3
    <3>2. QED
      BY <1>4, <1>7, <1>8, <2>2, <3>1
  <2>4. CASE i > Len(t)
    <3> DEFINE k == i - Len(t)
    <3>1. /\ k \in 1..Len(p) - Len(f) /\ k \in 1..Len(u) - Len(from) /\ Len(t) + k = i /\ Len(to) + k = i + 1
          /\ Len(f) + k \in 1..Len(u) - 1 /\ Len(f) + k + 1 = Len(from) + k
      BY <1>1, <1>2, <1>3, <1>7, <1>8, <2>1, <2>4
    <3> HIDE DEF k
    <3>2. n[i] = p[Len(f) + k] /\ m[i + 1] = u[Len(from) + k]
      BY <1>4, <1>8, <3>1
    <3>3. p[Len(f) + k] = u[Len(from) + k]
      BY <1>7, <3>1
    <3>4. QED
      BY <2>2, <3>2, <3>3
  <2>5. QED
    BY <1>2, <1>7, <2>1, <2>3, <2>4
<1>12. Tail(m) = n
  BY <1>8, <1>9, <1>10, <1>11, SeqEqual DEF Path
<1>13. QED
  BY <1>5, <1>6, <1>12 DEF m, n, p, f, t

\* Two prefixes of one URI: one of them is a prefix of the other.
LEMMA PrefixesMeet ==
  ASSUME NEW u \in Path, NEW m \in Path, NEW n \in Path, IsPrefix(m, u), IsPrefix(n, u)
  PROVE  IsPrefix(m, n) \/ IsPrefix(n, m)
<1>1. Len(m) \in Nat /\ Len(n) \in Nat /\ Len(u) \in Nat
  BY LenProperties DEF Path
<1>2. Len(m) <= Len(u) /\ (\A i \in 1..Len(m) : m[i] = u[i]) /\ Len(n) <= Len(u) /\ \A i \in 1..Len(n) : n[i] = u[i]
  BY PrefixIff DEF Path
<1>3. CASE Len(m) <= Len(n)
  <2>1. \A i \in 1..Len(m) : i \in 1..Len(n) /\ m[i] = n[i]
    BY <1>1, <1>2, <1>3
  <2>2. QED
    BY <1>3, <2>1, PrefixIff DEF Path
<1>4. CASE Len(n) <= Len(m)
  <2>1. \A i \in 1..Len(n) : i \in 1..Len(m) /\ n[i] = m[i]
    BY <1>1, <1>2, <1>4
  <2>2. QED
    BY <1>4, <2>1, PrefixIff DEF Path
<1>5. QED
  BY <1>1, <1>3, <1>4

\* Prefixes of a prefix.
LEMMA PrefixTransitive ==
  ASSUME NEW u \in Path, NEW m \in Path, NEW n \in Path, IsPrefix(m, n), IsPrefix(n, u)
  PROVE  IsPrefix(m, u)
<1>1. Len(m) \in Nat /\ Len(n) \in Nat /\ Len(u) \in Nat
  BY LenProperties DEF Path
<1>2. Len(m) <= Len(n) /\ (\A i \in 1..Len(m) : m[i] = n[i]) /\ Len(n) <= Len(u) /\ \A i \in 1..Len(n) : n[i] = u[i]
  BY PrefixIff DEF Path
<1>3. Len(m) <= Len(u) /\ \A i \in 1..Len(m) : m[i] = u[i]
  BY <1>1, <1>2
<1>4. QED
  BY <1>3, PrefixIff DEF Path

(***************************************************************************)
(* What holds of the state, and whose URIs are whose.                       *)
(***************************************************************************)
TypeInv ==
  /\ Tree(fs, Text) /\ FsInv
  /\ MapsTo(points, Id, Point)
  /\ client \in [Client -> Clients] /\ \A c \in Client : Placed(c)
  /\ made \in 0..MaxCalls /\ lapsed \subseteq Uri

\* What a client's call is about.
Reaches(c, u) == \E n \in Named(client[c].call) : IsPrefix(n, u)

\* A call has the fields of its kind.
LEMMA CallShape ==
  ASSUME NEW r \in ApiCall \cup {NoCall}
  PROVE  /\ r.op \in {"none", "write", "writeContext", "rm", "mv", "mkdir"}
         /\ r.op = "none" <=> r = NoCall
         /\ r.op \in {"write", "writeContext"} => r.uri \in UriString /\ r.text \in Text
         /\ r.op = "rm" => r.uri \in UriString /\ r.recursive \in BOOLEAN
         /\ r.op = "mv" => r.from \in UriString /\ r.to \in UriString
         /\ r.op = "mkdir" => r.uri \in UriString
         /\ r.op = "none" => Named(r) = {}
         /\ r.op = "mv" => Named(r) = {r.from, r.to}
         /\ r.op \in {"write", "writeContext", "rm", "mkdir"} => Named(r) = {r.uri}
<1>1. CASE r = NoCall
  BY <1>1 DEF NoCall, Named
<1>2. CASE r \in [op : {"write", "writeContext"}, uri : UriString, text : Text]
  BY <1>2 DEF NoCall, Named
<1>3. CASE r \in [op : {"rm"}, uri : UriString, recursive : BOOLEAN]
  BY <1>3 DEF NoCall, Named
<1>4. CASE r \in [op : {"mv"}, from : UriString, to : UriString]
  BY <1>4 DEF NoCall, Named
<1>5. CASE r \in [op : {"mkdir"}, uri : UriString]
  BY <1>5 DEF NoCall, Named
<1>6. QED
  BY <1>1, <1>2, <1>3, <1>4, <1>5 DEF ApiCall

\* A client's call is one of its own, and it is at one of its steps.
LEMMA ClientFields ==
  ASSUME TypeInv, NEW c \in Client
  PROVE  /\ client[c] \in Clients
         /\ client[c].call \in ApiCall \cup {NoCall}
         /\ client[c].call \in CallsOf[c] \cup {NoCall} /\ CallsOf[c] \subseteq ApiCall
         /\ client[c].pc \in StagesOf[client[c].call.op]
         /\ client[c].stage \in {"main", "abstract", "again"}
         /\ client[c].stage # "main" => client[c].call.op = "writeContext" /\ ~At(c, "summary")
         /\ client[c].stage = "again" => At(c, "embed")
  BY SyncFsAssumption DEF TypeInv, Clients, Placed, At

\* The step tells the kind of the call.
LEMMA StepOfCall ==
  ASSUME TypeInv, NEW c \in Client
  PROVE  /\ At(c, "idle") <=> client[c].call = NoCall
         /\ At(c, "file") \/ At(c, "embed") => client[c].call.op \in {"write", "writeContext"}
         /\ At(c, "summary") => client[c].call.op = "writeContext" /\ client[c].stage = "main"
         /\ At(c, "remove") \/ At(c, "unvector") => client[c].call.op = "rm"
         /\ At(c, "rename") \/ At(c, "revector") => client[c].call.op = "mv"
         /\ At(c, "mkdir") => client[c].call.op = "mkdir"
<1>1. client[c].call \in ApiCall \cup {NoCall} /\ client[c].pc \in StagesOf[client[c].call.op]
      /\ (client[c].stage # "main" => ~At(c, "summary"))
  BY ClientFields
<1>2. client[c].call.op \in {"none", "write", "writeContext", "rm", "mv", "mkdir"}
      /\ (client[c].call.op = "none" <=> client[c].call = NoCall)
  BY <1>1, CallShape
<1>3. QED
  BY <1>1, <1>2 DEF StagesOf, At

\* URIs are sequences of names.
LEMMA UrisArePaths ==
  /\ \A u \in Uri : u \in Path /\ Len(u) >= 1
  /\ \A u \in UriString : u \in Path /\ Len(u) >= 1
  BY SyncAssumption, EmptySeq DEF UriString, Path

\* The names of a call under way.
LEMMA NamesViking ==
  ASSUME Ownership, TypeInv, NEW c \in Client, NEW n \in Named(client[c].call)
  PROVE  Viking(n) /\ Schemed(n) /\ Len(n) >= 2 /\ n[2] = "/" /\ client[c].call \in CallsOf[c]
<1>1. client[c].call \in CallsOf[c]
  BY ClientFields, CallShape
<1>2. QED
  BY <1>1 DEF Ownership, NamesKnown, Schemed, Viking, Path

\* A URI that one client's call is about is no other's.
LEMMA Exclusive ==
  ASSUME Ownership, TypeInv, NEW c \in Client, NEW k \in Client, c # k,
         NEW u \in Path, Reaches(c, u)
  PROVE  ~Reaches(k, u)
<1> SUFFICES ASSUME Reaches(k, u) PROVE FALSE
  OBVIOUS
<1>1. PICK m \in Named(client[c].call) : IsPrefix(m, u)
  BY DEF Reaches
<1>2. PICK n \in Named(client[k].call) : IsPrefix(n, u)
  BY DEF Reaches
<1>3. m \in Path /\ n \in Path /\ client[c].call \in CallsOf[c] /\ client[k].call \in CallsOf[k]
  BY NamesViking DEF Viking
<1>4. IsPrefix(m, n) \/ IsPrefix(n, m)
  BY <1>1, <1>2, <1>3, PrefixesMeet
<1>5. QED
  BY <1>3, <1>4 DEF Ownership, Owned

\* A file's URI is its path's.
LEMMA FileUri ==
  ASSUME NEW p \in Path, UriOf(p) \in Path
  PROVE  Viking(UriOf(p)) /\ Tail(UriOf(p)) = p
<1> DEFINE S == STRING \cup {"viking:/"}
           h == <<"viking:/">>
<1>1. p \in Seq(S) /\ h \in Seq(S) /\ Len(h) = 1 /\ h[1] = "viking:/" /\ Len(p) \in Nat
  <2>1. p \in Seq(S)
    BY SeqMonotonic, STRING \subseteq S DEF Path
  <2>2. QED
    BY <2>1, LenProperties DEF Path
<1> HIDE DEF S, h
<1>2. /\ h \o p \in Seq(S) /\ Len(h \o p) = Len(h) + Len(p)
      /\ \A i \in 1..Len(h) + Len(p) : (h \o p)[i] = IF i <= Len(h) THEN h[i] ELSE p[i - Len(h)]
  BY <1>1, ConcatProperties
<1>3. (h \o p)[1] = "viking:/" /\ Len(h \o p) = 1 + Len(p)
  BY <1>1, <1>2
<1>4. Viking(UriOf(p))
  BY <1>1, <1>3 DEF UriOf, Viking, h
<1>5. QED
  BY <1>4, UriOfPath

\* The files, by path and by URI.
UrisOf(g) == {UriOf(p) : p \in Files(g)}

\* (See UrisOf.)
LEMMA FileUrisOf == FileUris = UrisOf(fs) /\ FileUris' = UrisOf(fs')
  BY DEF FileUris, UrisOf, UriOf

\* (See UrisOf.)
LEMMA FileUriIff ==
  ASSUME NEW g, Tree(g, Text), NEW u, Viking(u)
  PROVE  u \in UrisOf(g) <=> IsFile(g, Tail(u))
<1>1. UriOf(Tail(u)) = u
  BY PathOf
<1>2. \A p \in DOMAIN g : UriOf(p) = u => Tail(u) = p
  BY UriOfPath DEF Tree
<1>3. QED
  BY <1>1, <1>2 DEF UrisOf, Files, IsFile

\* (See UrisOf.)
LEMMA FilesKnown ==
  ASSUME NEW g, Tree(g, Text), \A p \in Files(g) : UriOf(p) \in Uri
  PROVE  /\ UrisOf(g) \subseteq Uri
         /\ \A u \in UrisOf(g) : Viking(u) /\ IsFile(g, Tail(u)) /\ Tail(u) \in Path
         /\ \A p : IsFile(g, p) =>
              Viking(UriOf(p)) /\ UriOf(p) \in UrisOf(g) /\ UriOf(p) \in Uri /\ p \in Path /\ Tail(UriOf(p)) = p
<1>1. \A p : IsFile(g, p) => p \in Path /\ UriOf(p) \in Uri
  BY DEF Tree, IsFile, Files
<1>2. \A p : IsFile(g, p) => Viking(UriOf(p)) /\ Tail(UriOf(p)) = p
  BY <1>1, FileUri, UrisArePaths
<1>3. UrisOf(g) = {UriOf(p) : p \in {q \in DOMAIN g : IsFile(g, q)}}
  BY DEF UrisOf, Files, IsFile
<1>4. QED
  BY <1>1, <1>2, <1>3 DEF IsFile

(***************************************************************************)
(* How a client goes on.                                                    *)
(***************************************************************************)
Becomes(c, pc, call, stage) ==
  /\ client'[c].pc = pc /\ client'[c].call = call /\ client'[c].stage = stage
  /\ \A k \in Client \ {c} : client'[k] = client[k]
  /\ client' \in [Client -> Clients]

Pcs == {"idle", "file", "embed", "summary", "remove", "unvector", "rename", "revector", "mkdir"}

\* A client's record is rewritten in one field or two, or is new.
LEMMA Goes ==
  ASSUME TypeInv, NEW c \in Client, NEW pc \in Pcs, Goto(c, pc)
  PROVE  Becomes(c, pc, client[c].call, client[c].stage)
<1> DEFINE new == [client[c] EXCEPT !.pc = pc]
<1>1. client[c] \in Clients
  BY ClientFields
<1>2. new \in Clients /\ new.pc = pc /\ new.call = client[c].call /\ new.stage = client[c].stage
  BY <1>1 DEF Clients, Pcs
<1>3. client' = [client EXCEPT ![c] = new]
  BY DEF Goto
<1> HIDE DEF new
<1>4. QED
  BY <1>2, <1>3 DEF Becomes, TypeInv

\* (See Goes.)
LEMMA Enters ==
  ASSUME TypeInv, NEW c \in Client, NEW pc \in Pcs, NEW stage \in {"main", "abstract", "again"}, Enter(c, pc, stage)
  PROVE  Becomes(c, pc, client[c].call, stage)
<1> DEFINE old == client[c]
           mid == [old EXCEPT !.pc = pc]
           new == [mid EXCEPT !.stage = stage]
<1>1. old \in Clients
  BY ClientFields
<1>2. mid \in Clients /\ mid.pc = pc /\ mid.call = old.call
  <2> HIDE DEF old
  <2>1. QED
    BY <1>1 DEF Clients, Pcs
<1> HIDE DEF mid
<1>3. new \in Clients /\ new.pc = pc /\ new.call = old.call /\ new.stage = stage
  BY <1>2 DEF Clients
<1>4. client' = [client EXCEPT ![c] = new]
  <2>1. c \in DOMAIN client
    BY DEF TypeInv
  <2>2. QED
    BY <2>1 DEF Enter, mid
<1> HIDE DEF new
<1>5. QED
  BY <1>3, <1>4 DEF Becomes, TypeInv

\* (See Goes.)
LEMMA Returns ==
  ASSUME TypeInv, NEW c \in Client, Return(c)
  PROVE  Becomes(c, "idle", NoCall, "main")
<1>1. Resting \in Clients
  BY DEF Resting, Clients
<1>2. QED
  BY <1>1 DEF Return, Becomes, TypeInv, Resting

\* (See Goes.)
LEMMA Calls ==
  ASSUME TypeInv, NEW c \in Client, Call(c)
  PROVE  \E r \in CallsOf[c] : Becomes(c, FirstPc[r.op], r, "main")
<1>1. PICK r \in CallsOf[c] : client' = [client EXCEPT ![c] = [Resting EXCEPT !.pc = FirstPc[r.op], !.call = r]]
  BY DEF Call
<1>2. r \in ApiCall /\ r.op \in {"write", "writeContext", "rm", "mv", "mkdir"}
  BY ClientFields, CallShape DEF ApiCall
<1> DEFINE new == [pc |-> FirstPc[r.op], call |-> r, stage |-> "main"]
<1>3. [Resting EXCEPT !.pc = FirstPc[r.op], !.call = r] = new
  <2> DEFINE mid == [Resting EXCEPT !.pc = FirstPc[r.op]]
  <2>1. mid = [pc |-> FirstPc[r.op], call |-> NoCall, stage |-> "main"]
    BY DEF Resting
  <2> HIDE DEF mid
  <2>2. [mid EXCEPT !.call = r] = new
    BY <2>1
  <2>3. QED
    BY <2>2 DEF mid
<1>4. new \in Clients
  BY <1>2 DEF Clients, FirstPc
<1>5. new.pc = FirstPc[r.op] /\ new.call = r /\ new.stage = "main"
  OBVIOUS
<1> HIDE DEF new
<1>6. QED
  BY <1>1, <1>3, <1>4, <1>5 DEF Becomes, TypeInv

(***************************************************************************)
(* The steps on files.                                                      *)
(***************************************************************************)
\* The other URIs' files stay as they are.
Frame(c) == \A u : Viking(u) /\ ~Reaches(c, u) => SameFile(fs, fs', Tail(u))

\* A file is written under the call's URI or under its abstract's.
LEMMA Targets ==
  ASSUME Ownership, TypeInv, NEW c \in Client, client[c].call.op \in {"write", "writeContext"}
  PROVE  /\ Viking(TargetUri(c)) /\ TargetUri(c) \in Uri /\ Len(TargetUri(c)) >= 2 /\ TargetUri(c)[2] = "/"
         /\ IsPrefix(client[c].call.uri, TargetUri(c)) /\ Reaches(c, TargetUri(c))
         /\ Payload(c) \in Text /\ FileName(TargetUri(c))
<1> DEFINE u == client[c].call.uri
<1>1. client[c].call \in CallsOf[c] /\ Named(client[c].call) = {u} /\ client[c].call.text \in Text
  BY ClientFields, CallShape
<1>2. Viking(u) /\ Schemed(u) /\ u \in Path /\ u \in Uri /\ FileName(u) /\ Len(u) \in Nat
  <2>1. Viking(u) /\ Schemed(u)
    BY <1>1, NamesViking
  <2>2. QED
    BY <1>1, <2>1, LenProperties DEF Ownership, NamesKnown, AbstractsAreFiles, Viking, Path
<1>3. IsPrefix(u, u)
  BY <1>2, PrefixIff DEF Path
<1>4. CASE client[c].stage = "main"
  BY <1>1, <1>2, <1>3, <1>4 DEF TargetUri, Payload, Reaches, Schemed
<1>5. CASE client[c].stage # "main"
  <2> DEFINE a == AbstractUri(u)
             S == STRING \cup {".abstract.md"}
  <2>1. a \in Uri /\ a \in Path
    <3>1. client[c].call.op = "writeContext"
      BY <1>5, ClientFields
    <3>2. QED
      BY <1>1, <3>1, UrisArePaths DEF Ownership, NamesKnown
  <2>2. Len(a) = Len(u) + 1 /\ (\A i \in 1..Len(u) : a[i] = u[i]) /\ a[Len(u) + 1] = Abstract
    <3>1. u \in Seq(S) /\ ".abstract.md" \in S
      BY <1>2, SeqMonotonic, STRING \subseteq S DEF Path
    <3> HIDE DEF S
    <3>2. QED
      BY <1>2, <3>1, AppendProperties DEF AbstractUri, Abstract
  <2> HIDE DEF a, u
  <2>3. IsPrefix(u, a)
    BY <1>2, <2>1, <2>2, PrefixIff DEF Path
  <2>4. Viking(a) /\ Len(a) >= 2 /\ a[2] = "/"
    BY <1>2, <2>1, <2>2 DEF Viking, Schemed
  <2>5. FileName(a)
    <3> SUFFICES ASSUME NEW j \in 1..Len(a) - 1, a[j] = Abstract PROVE a[j + 1] # "/"
      BY DEF FileName
    <3>1. CASE j = Len(u)
      BY <2>2, <3>1 DEF Abstract
    <3>2. CASE j # Len(u)
      <4>1. j \in 1..Len(u) - 1 /\ j \in 1..Len(u) /\ j + 1 \in 1..Len(u)
        BY <1>2, <2>2, <3>2
      <4>2. QED
        BY <1>2, <2>2, <4>1 DEF FileName
    <3>3. QED
      BY <3>1, <3>2
  <2>6. TargetUri(c) = a /\ Payload(c) \in Text
    BY <1>1, <1>5, SyncFsAssumption DEF TargetUri, Payload, a, u
  <2>7. Reaches(c, a)
    BY <1>1, <2>3 DEF Reaches, u
  <2>8. QED
    BY <2>1, <2>3, <2>4, <2>5, <2>6, <2>7 DEF u
<1>6. QED
  BY <1>4, <1>5

\* The directories on the way to a file do not have an abstract's name.
LEMMA CleanParents ==
  ASSUME NEW u, Viking(u), FileName(u), NEW q \in Parents(Tail(u))
  PROVE  q[Len(q)] # Abstract
<1> DEFINE p == Tail(u)
<1>1. p \in Path /\ Len(p) = Len(u) - 1 /\ Len(u) \in Nat /\ \A i \in 1..Len(u) - 1 : p[i] = u[i + 1]
  BY PathOf
<1> HIDE DEF p
<1>2. q \in Path /\ Len(q) >= 1 /\ Len(q) < Len(p) /\ p[Len(q) + 1] = "/" /\ \A i \in 1..Len(q) : p[i] = q[i]
  BY <1>1, ParentsIff, BelowIff DEF p
<1>3. Len(q) \in Nat
  BY <1>2, LenProperties DEF Path
<1> DEFINE j == Len(q) + 1
<1>4. j \in 1..Len(u) - 1 /\ Len(q) \in 1..Len(u) - 1
  BY <1>1, <1>2, <1>3
<1>5. u[j + 1] = "/" /\ u[j] = q[Len(q)]
  BY <1>1, <1>2, <1>3, <1>4
<1>6. QED
  BY <1>4, <1>5 DEF FileName

\* The last name of a path and of its URI.
LEMMA CleanPath ==
  ASSUME NEW u, Viking(u), Len(u) >= 2, DirName(u)
  PROVE  Tail(u)[Len(Tail(u))] # Abstract
<1>1. Len(Tail(u)) = Len(u) - 1 /\ Len(u) \in Nat /\ \A i \in 1..Len(u) - 1 : Tail(u)[i] = u[i + 1]
  BY PathOf
<1>2. Len(u) - 1 \in 1..Len(u) - 1 /\ Len(u) - 1 + 1 = Len(u)
  BY <1>1
<1>3. QED
  BY <1>1, <1>2 DEF DirName

\* Different URIs have different paths.
LEMMA PathsDiffer ==
  ASSUME NEW u, Viking(u), NEW v, Viking(v), Tail(u) = Tail(v)
  PROVE  u = v
<1>1. UriOf(Tail(u)) = u /\ UriOf(Tail(v)) = v
  BY PathOf
<1>2. QED
  BY <1>1

\* WriteFile.
LEMMA WriteStep ==
  ASSUME Ownership, TypeInv, NEW c \in Client, WriteFile(c)
  PROVE  LET ok == FsWrite(fs, InternalPath(TargetUri(c)), Payload(c)).ok
             p == InternalPath(TargetUri(c)) IN
         /\ Tree(fs', Text) /\ FsInv' /\ Frame(c)
         /\ \A q : IsFile(fs, q) => IsFile(fs', q)
         /\ ok <=> ~Blocked(fs, p) /\ ~IsDir(fs, p)
         /\ ok => IsFile(fs', p) /\ fs'[p] = Payload(c)
         /\ ~ok => \A q : SameFile(fs, fs', q)
         /\ \A q : q # p => SameFile(fs, fs', q)
<1> DEFINE t == TargetUri(c)
           p == Tail(t)
           x == Payload(c)
<1>1. Viking(t) /\ t \in Uri /\ Len(t) >= 2 /\ Reaches(c, t) /\ x \in Text /\ FileName(t)
  BY StepOfCall, Targets DEF WriteFile
<1>2. p \in Path /\ Len(p) >= 1 /\ UriOf(p) = t
  BY <1>1, PathOf
<1>3. fs' = FsWrite(fs, p, x).fs
  BY DEF WriteFile, InternalPath
<1> HIDE DEF p, x
<1>4. /\ Tree(fs', Text)
      /\ FsWrite(fs, p, x).ok <=> ~Blocked(fs, p) /\ ~IsDir(fs, p)
      /\ FsWrite(fs, p, x).ok => IsFile(fs', p) /\ fs'[p] = x
      /\ ~FsWrite(fs, p, x).ok => SameFile(fs, fs', p)
      /\ \A q : q # p => SameFile(fs, fs', q)
      /\ \A q : IsDir(fs', q) => IsDir(fs, q) \/ q \in Parents(p)
  <2>1. Dir \notin Text /\ Tree(fs, Text)
    BY SyncFsAssumption DEF TypeInv
  <2>2. QED
    BY <1>1, <1>2, <1>3, <2>1, WriteTree
<1>5. FsInv'
  <2>1. ASSUME NEW q \in Files(fs') PROVE UriOf(q) \in Uri
    <3>1. IsFile(fs', q)
      BY DEF Files, IsFile
    <3>2. q # p => q \in Files(fs)
      BY <1>4, <3>1 DEF SameFile, Files, IsFile
    <3>3. QED
      BY <1>1, <1>2, <3>2 DEF TypeInv, FsInv
  <2>2. ASSUME NEW q, IsDir(fs', q) PROVE q[Len(q)] # Abstract
    BY <1>1, <1>4, <2>2, CleanParents DEF TypeInv, FsInv, p
  <2>3. QED
    BY <2>1, <2>2 DEF FsInv
<1>6. Frame(c)
  BY <1>1, <1>4, PathsDiffer DEF Frame, p
<1>7. \A q : IsFile(fs, q) => IsFile(fs', q)
  BY <1>4 DEF SameFile
<1>8. QED
  BY <1>4, <1>5, <1>6, <1>7 DEF p, x, InternalPath, SameFile

\* MakeDir.
LEMMA MakeDirStep ==
  ASSUME Ownership, TypeInv, NEW c \in Client, MakeDir(c)
  PROVE  Tree(fs', Text) /\ FsInv' /\ \A q : SameFile(fs, fs', q)
<1> DEFINE u == client[c].call.uri
           p == Tail(u)
<1>1. Viking(u) /\ Len(u) >= 2 /\ DirName(u)
  <2>1. client[c].call.op = "mkdir" /\ client[c].call \in ApiCall \cup {NoCall}
    BY StepOfCall, ClientFields DEF MakeDir
  <2>2. u \in Named(client[c].call)
    BY <2>1, CallShape
  <2>3. QED
    BY <2>1, <2>2, NamesViking DEF Ownership, AbstractsAreFiles
<1>2. p \in Path /\ Len(p) >= 1
  BY <1>1, PathOf
<1>3. fs' = FsMkdir(fs, p).fs
  BY DEF MakeDir, InternalPath
<1>4. p[Len(p)] # Abstract
  BY <1>1, CleanPath
<1> HIDE DEF p
<1>5. /\ Tree(fs', Text) /\ \A q : SameFile(fs, fs', q)
      /\ \A q : IsDir(fs', q) => IsDir(fs, q) \/ q \in Parents(p) \/ q = p
  BY <1>2, <1>3, MkdirTree DEF TypeInv
<1>6. FsInv'
  <2>1. ASSUME NEW q \in Files(fs') PROVE UriOf(q) \in Uri
    BY <1>5 DEF TypeInv, FsInv, Files, IsFile, SameFile
  <2>2. ASSUME NEW q, IsDir(fs', q) PROVE q[Len(q)] # Abstract
    BY <1>1, <1>4, <1>5, <2>2, CleanParents DEF TypeInv, FsInv, p, DirName
  <2>3. QED
    BY <2>1, <2>2 DEF FsInv
<1>7. QED
  BY <1>5, <1>6

\* RemoveFile.
LEMMA RemoveStep ==
  ASSUME Ownership, TypeInv, NEW c \in Client, RemoveFile(c)
  PROVE  LET call == client[c].call
             path == InternalPath(call.uri)
             result == IF call.recursive THEN FsRemoveAll(fs, path) ELSE FsRemove(fs, path) IN
         /\ Tree(fs', Text) /\ FsInv' /\ Frame(c)
         /\ ~result.ok => fs' = fs
         /\ \A q : IsFile(fs', q) => SameFile(fs, fs', q)
<1> DEFINE u == client[c].call.uri
           p == Tail(u)
           rec == client[c].call.recursive
           result == IF rec THEN FsRemoveAll(fs, p) ELSE FsRemove(fs, p)
<1>1. Viking(u) /\ Len(u) >= 2 /\ Named(client[c].call) = {u}
  <2>1. client[c].call.op = "rm" /\ client[c].call \in ApiCall \cup {NoCall}
    BY StepOfCall, ClientFields DEF RemoveFile
  <2>2. u \in Named(client[c].call)
    BY <2>1, CallShape
  <2>3. QED
    BY <2>1, <2>2, NamesViking, CallShape
<1>2. p \in Path
  BY <1>1, PathOf
<1>3. fs' = result.fs
  BY DEF RemoveFile, InternalPath
<1>4. /\ Tree(result.fs, Text)
      /\ ~result.ok => result.fs = fs
      /\ \A q : ~Within(q, p) => SameFile(fs, result.fs, q)
      /\ \A q : IsFile(result.fs, q) => SameFile(fs, result.fs, q)
      /\ \A q : IsDir(result.fs, q) => IsDir(fs, q)
  <2> HIDE DEF p, rec
  <2>1. CASE rec
    BY <1>2, <2>1, RemoveAllTree DEF TypeInv
  <2>2. CASE ~rec
    BY <1>2, <2>2, RemoveTree DEF TypeInv
  <2>3. QED
    BY <2>1, <2>2
<1>5. FsInv'
  <2> HIDE DEF result
  <2>1. QED
    BY <1>3, <1>4 DEF TypeInv, FsInv, Files, IsFile, SameFile
<1>6. Frame(c)
  <2> HIDE DEF result
  <2> SUFFICES ASSUME NEW v, Viking(v), ~Reaches(c, v) PROVE SameFile(fs, fs', Tail(v))
    BY DEF Frame
  <2>1. ~IsPrefix(u, v)
    BY <1>1 DEF Reaches
  <2>2. Tail(v) \in Path /\ UriOf(Tail(v)) = v
    BY PathOf
  <2>3. ~Within(Tail(v), p)
    BY <1>1, <2>1, <2>2, NameCovers
  <2>4. QED
    BY <1>3, <1>4, <2>3
<1>7. QED
  <2> HIDE DEF result
  <2>1. /\ Tree(fs', Text) /\ FsInv' /\ Frame(c) /\ (~result.ok => fs' = fs)
        /\ \A q : IsFile(fs', q) => SameFile(fs, fs', q)
    BY <1>3, <1>4, <1>5, <1>6
  <2>2. QED
    BY <2>1 DEF result, InternalPath

\* What is moved off its own name keeps its last name.
LEMMA MoveLast ==
  ASSUME NEW p \in Path, NEW f \in Path, NEW t \in Path, Len(t) >= 1, Within(p, f)
  PROVE  Move(p, f, t)[Len(Move(p, f, t))] \in {p[Len(p)], t[Len(t)]}
<1>1. Len(p) \in Nat /\ Len(f) \in Nat /\ Len(t) \in Nat
  BY LenProperties DEF Path
<1>2. Len(f) <= Len(p)
  BY WithinIff
<1> DEFINE m == Move(p, f, t)
           k == Len(p) - Len(f)
<1>3. /\ Len(m) = Len(t) + k
      /\ \A i \in 1..Len(t) : m[i] = t[i]
      /\ \A i \in 1..k : m[Len(t) + i] = p[Len(f) + i]
  BY <1>2, Moved
<1> HIDE DEF m
<1>4. CASE k = 0
  <2>1. Len(m) = Len(t) /\ Len(t) \in 1..Len(t)
    BY <1>1, <1>3, <1>4
  <2>2. m[Len(m)] = t[Len(t)]
    BY <1>3, <2>1
  <2>3. QED
    BY <2>2 DEF m
<1>5. CASE k # 0
  <2>1. k \in 1..k /\ Len(f) + k = Len(p)
    BY <1>1, <1>2, <1>5
  <2>2. m[Len(t) + k] = p[Len(f) + k]
    BY <1>3, <2>1
  <2>3. QED
    BY <1>3, <2>1, <2>2 DEF m
<1>6. QED
  BY <1>4, <1>5

\* The URIs of a move.
LEMMA MvNames ==
  ASSUME Ownership, TypeInv, NEW c \in Client, client[c].call.op = "mv"
  PROVE  LET from == client[c].call.from
             to == client[c].call.to IN
         /\ Viking(from) /\ Len(from) >= 2 /\ Viking(to) /\ Len(to) >= 2 /\ DirName(to)
         /\ \A u : IsPrefix(from, u) \/ IsPrefix(to, u) => Reaches(c, u)
         /\ \A u \in Uri : IsPrefix(from, u) =>
              (u = from \/ u[Len(from) + 1] = "/") /\ Move(u, from, to) \in Uri
<1> DEFINE r == client[c].call
<1>1. r \in CallsOf[c] /\ Named(r) = {r.from, r.to}
  BY ClientFields, CallShape
<1>2. /\ Viking(r.from) /\ Len(r.from) >= 2 /\ Viking(r.to) /\ Len(r.to) >= 2
  BY <1>1, NamesViking
<1>3. DirName(r.to)
  BY <1>1 DEF Ownership, AbstractsAreFiles
<1>4. \A u \in Uri : IsPrefix(r.from, u) =>
        (u = r.from \/ u[Len(r.from) + 1] = "/") /\ Move(u, r.from, r.to) \in Uri
  BY <1>1 DEF Ownership, MovesWhole, Move
<1>5. \A u : IsPrefix(r.from, u) \/ IsPrefix(r.to, u) => Reaches(c, u)
  BY <1>1 DEF Reaches
<1>6. QED
  BY <1>2, <1>3, <1>4, <1>5

\* A file below the moved name lies within its path, and moves to where its URI does.
LEMMA MvPaths ==
  ASSUME Ownership, TypeInv, NEW c \in Client, client[c].call.op = "mv",
         NEW u \in Uri, Viking(u), IsPrefix(client[c].call.from, u)
  PROVE  LET from == client[c].call.from
             to == client[c].call.to IN
         /\ Within(Tail(u), Tail(from))
         /\ Viking(Move(u, from, to)) /\ Move(u, from, to) \in Uri /\ IsPrefix(to, Move(u, from, to))
         /\ Tail(Move(u, from, to)) = Move(Tail(u), Tail(from), Tail(to))
<1> DEFINE from == client[c].call.from
           to == client[c].call.to
<1>1. /\ Viking(from) /\ Viking(to) /\ Move(u, from, to) \in Uri
      /\ u = from \/ u[Len(from) + 1] = "/"
  BY MvNames
<1>2. Tail(u) \in Path /\ UriOf(Tail(u)) = u
  BY PathOf
<1> HIDE DEF from, to
<1>3. Within(Tail(u), Tail(from))
  BY <1>1, <1>2, NameCovers DEF from
<1>4. QED
  BY <1>1, <1>3, MovedUri DEF from, to

\* RenameFile.
LEMMA RenameStep ==
  ASSUME Ownership, TypeInv, NEW c \in Client, RenameFile(c)
  PROVE  LET from == client[c].call.from
             to == client[c].call.to
             ok == FsRename(fs, InternalPath(from), InternalPath(to)).ok IN
         /\ Tree(fs', Text) /\ FsInv' /\ Frame(c)
         /\ ok => \A u \in FileUris :
              IF IsPrefix(from, u) THEN Move(u, from, to) \in FileUris' ELSE u \in FileUris'
         /\ ~ok => \A q : SameFile(fs, fs', q)
<1> DEFINE from == client[c].call.from
           to == client[c].call.to
           f == Tail(from)
           t == Tail(to)
<1>1. client[c].call.op = "mv"
  BY StepOfCall DEF RenameFile
<1>2. /\ Viking(from) /\ Len(from) >= 2 /\ Viking(to) /\ Len(to) >= 2 /\ DirName(to)
      /\ \A u : IsPrefix(from, u) \/ IsPrefix(to, u) => Reaches(c, u)
  BY <1>1, MvNames
<1>3. f \in Path /\ Len(f) >= 1 /\ t \in Path /\ Len(t) >= 1 /\ t[Len(t)] # Abstract
  BY <1>2, PathOf, CleanPath
<1>4. fs' = FsRename(fs, f, t).fs
  BY DEF RenameFile, InternalPath
<1>5. Tree(fs, Text) /\ FsInv
  BY DEF TypeInv
<1>6. ASSUME NEW u \in Uri, Viking(u), IsPrefix(from, u)
      PROVE  /\ Within(Tail(u), f) /\ Viking(Move(u, from, to)) /\ Move(u, from, to) \in Uri
             /\ Tail(Move(u, from, to)) = Move(Tail(u), f, t)
  BY <1>1, <1>6, MvPaths
<1>7. \A u : Viking(u) => (Within(Tail(u), f) => IsPrefix(from, u)) /\ (Within(Tail(u), t) => IsPrefix(to, u))
  BY <1>2, PathOf, NameCovers
<1>8. /\ FileUris \subseteq Uri
      /\ \A u \in FileUris : Viking(u) /\ IsFile(fs, Tail(u))
      /\ \A p : IsFile(fs, p) => Viking(UriOf(p)) /\ UriOf(p) \in FileUris /\ UriOf(p) \in Uri /\ p \in Path /\ Tail(UriOf(p)) = p
  BY <1>5, FilesKnown, FileUrisOf DEF FsInv
<1> HIDE DEF from, to, f, t
<1>9. \A q \in Parents(t) : q[Len(q)] # Abstract
  BY <1>2, CleanParents DEF DirName, t
<1>10. ASSUME ~FsRename(fs, f, t).ok
       PROVE  Tree(fs', Text) /\ FsInv' /\ Frame(c) /\ \A q : SameFile(fs, fs', q)
  <2>1. /\ Tree(fs', Text) /\ \A q : SameFile(fs, fs', q)
        /\ \A q : IsDir(fs', q) => IsDir(fs, q) \/ q \in Parents(t)
    BY <1>3, <1>4, <1>5, <1>10, RenameFails
  <2>2. QED
    BY <1>5, <1>9, <2>1 DEF FsInv, Frame, Files, IsFile, SameFile
<1>11. ASSUME FsRename(fs, f, t).ok
       PROVE  /\ Tree(fs', Text) /\ FsInv' /\ Frame(c)
              /\ \A u \in FileUris : IF IsPrefix(from, u) THEN Move(u, from, to) \in FileUris' ELSE u \in FileUris'
  <2>1. f \in DOMAIN fs /\ ~Blocked(fs, t) /\ CanRename(WithParents(fs, t), f, t)
    BY <1>11 DEF FsRename, Err
  <2> DEFINE g == Set(Renamed(fs, f, t), Parents(t) \ DOMAIN fs, Dir)
  <2>2. fs' = g
    BY <1>4, <2>1 DEF FsRename, Ok
  <2>3. /\ Tree(g, Text)
        /\ \A p \in DOMAIN fs : Within(p, f) /\ IsFile(fs, p) => IsFile(g, Move(p, f, t)) /\ g[Move(p, f, t)] = fs[p]
        /\ \A p : IsFile(g, p) /\ Within(p, t) =>
             \E q \in DOMAIN fs : IsFile(fs, q) /\ Within(q, f) /\ p = Move(q, f, t)
        /\ \A p : ~Within(p, f) /\ ~Within(p, t) => SameFile(fs, g, p)
        /\ \A p : IsFile(fs, p) /\ ~Within(p, f) => IsFile(g, p)
        /\ \A p : IsFile(g, p) /\ Within(p, f) /\ ~Within(p, t) => FALSE
        /\ \A p : IsDir(g, p) => \/ IsDir(fs, p) \/ p \in Parents(t)
                                 \/ \E q \in DOMAIN fs : IsDir(fs, q) /\ Within(q, f) /\ p = Move(q, f, t)
    BY <1>3, <1>5, <2>1, RenamedTree
  <2> HIDE DEF g
  <2>4. \A p \in Files(g) : UriOf(p) \in Uri
    <3> SUFFICES ASSUME NEW p, IsFile(g, p) PROVE UriOf(p) \in Uri
      BY DEF Files, IsFile
    <3>1. CASE Within(p, t)
      <4>1. PICK q \in DOMAIN fs : IsFile(fs, q) /\ Within(q, f) /\ p = Move(q, f, t)
        BY <2>3, <3>1
      <4> DEFINE u == UriOf(q)
      <4>2. Viking(u) /\ u \in Uri /\ Tail(u) = q
        BY <1>8, <4>1
      <4> HIDE DEF u
      <4>3. Move(u, from, to) \in Uri /\ Viking(Move(u, from, to)) /\ Tail(Move(u, from, to)) = p
        BY <1>6, <1>7, <4>1, <4>2
      <4>4. QED
        BY <4>3, PathOf
    <3>2. CASE ~Within(p, t)
      <4>1. SameFile(fs, g, p)
        BY <2>3, <3>2
      <4>2. QED
        BY <1>8, <4>1 DEF SameFile
    <3>3. QED
      BY <3>1, <3>2
  <2>5. ASSUME NEW p, IsDir(g, p) PROVE p[Len(p)] # Abstract
    <3>1. CASE \E q \in DOMAIN fs : IsDir(fs, q) /\ Within(q, f) /\ p = Move(q, f, t)
      BY <1>3, <1>5, <3>1, MoveLast DEF FsInv, Tree
    <3>2. QED
      BY <1>5, <1>9, <2>3, <2>5, <3>1 DEF FsInv
  <2>6. FsInv'
    BY <2>2, <2>4, <2>5 DEF FsInv
  <2>7. Frame(c)
    BY <1>2, <1>7, <2>2, <2>3 DEF Frame
  <2>8. ASSUME NEW u \in FileUris
        PROVE  IF IsPrefix(from, u) THEN Move(u, from, to) \in UrisOf(g) ELSE u \in UrisOf(g)
    <3>1. Viking(u) /\ IsFile(fs, Tail(u)) /\ u \in Uri
      BY <1>8
    <3>2. CASE IsPrefix(from, u)
      <4>1. Within(Tail(u), f) /\ Viking(Move(u, from, to)) /\ Tail(Move(u, from, to)) = Move(Tail(u), f, t)
        BY <1>6, <3>1, <3>2
      <4>2. IsFile(g, Move(Tail(u), f, t))
        BY <2>3, <3>1, <4>1 DEF IsFile
      <4>3. QED
        BY <2>3, <3>2, <4>1, <4>2, FileUriIff
    <3>3. CASE ~IsPrefix(from, u)
      BY <1>7, <2>3, <3>1, <3>3, FileUriIff
    <3>4. QED
      BY <3>2, <3>3
  <2>9. QED
    BY <2>2, <2>3, <2>6, <2>7, <2>8, FileUrisOf
<1>12. QED
  BY <1>10, <1>11 DEF from, to, f, t, InternalPath

(***************************************************************************)
(* The steps on vectors.                                                    *)
(***************************************************************************)
\* The store's operators on maps and points are those of this module.
LEMMA SameOperators ==
  /\ \A m, n : Store!Overlay(m, n) = Overlay(m, n)
  /\ \A m, n : Store!Without(m, n) = Without(m, n)
  /\ \A ps : Store!ById(ps) = ById(ps)
  /\ \A u, v : Store!Under(u, v) = Under(u, v)
  /\ \A p, u, v : Store!RebasePoint(p, u, v) = RebasePoint(p, u, v)
<1>1. \A m, n : Store!Overlay(m, n) = Overlay(m, n)
  BY DEF Overlay, Store!Overlay
<1>2. \A m, n : Store!Without(m, n) = Without(m, n)
  BY DEF Without, Store!Without
<1>3. \A ps : Store!LastById(ps) = LastById(ps)
  BY DEF LastById, Store!LastById
<1>4. \A ps : Store!ById(ps) = ById(ps)
  BY <1>3 DEF ById, Store!ById
<1>5. \A u, v : Store!Under(u, v) = Under(u, v)
  BY DEF Under, Store!Under, IsPrefix, Store!IsPrefix
<1>6. \A u, v, w : Store!Rebase(u, v, w) = Rebase(u, v, w)
  BY <1>5 DEF Rebase, Store!Rebase
<1>7. \A p, u, v : Store!RebasePoint(p, u, v) = RebasePoint(p, u, v)
  BY <1>6 DEF RebasePoint, Store!RebasePoint
<1>8. QED
  BY <1>1, <1>2, <1>4, <1>5, <1>7

\* A batch of one point of the right dimension.
LEMMA OneAccepted ==
  ASSUME NEW p, p.vec \in Fits
  PROVE  /\ Store!Accepted(<<p>>) = <<p>>
         /\ DOMAIN ById(<<p>>) = {p.id} /\ ById(<<p>>)[p.id] = p
<1> DEFINE ps == <<p>>
<1>1. Len(ps) = 1 /\ ps[1] = p /\ 1..1 = {1} /\ ps \in Seq({p})
  OBVIOUS
<1> HIDE DEF ps
<1>2. {Len(ps)} \cup {j - 1 : j \in {i \in 1..Len(ps) : ps[i].vec \notin Fits}} = {1}
  BY <1>1
<1>3. Store!Min({1}) = 1
  BY DEF Store!Min
<1>4. SubSeq(ps, 1, 1) = ps
  BY <1>1, SubSeqFull
<1>5. LastById(ps) = {p}
  <2>1. 1 + 1..1 = {}
    OBVIOUS
  <2>2. {i \in 1..Len(ps) : \A k \in i + 1..Len(ps) : ps[k].id # ps[i].id} = {1}
    BY <1>1, <2>1
  <2>3. QED
    BY <1>1, <2>2 DEF LastById
<1>6. DOMAIN ById(ps) = {p.id} /\ ById(ps)[p.id] = p
  BY <1>5 DEF ById
<1>7. QED
  BY <1>2, <1>3, <1>4, <1>6 DEF Store!Accepted, ps

\* A vector stored takes its URI's id.
LEMMA Stored ==
  ASSUME NEW u, NEW parent, NEW v \in Fits, Store!InsertPoints(OnFileCreated(u, parent, v))
  PROVE  /\ DOMAIN points' = DOMAIN points \cup {IdOf[u]}
         /\ points'[IdOf[u]] = [id |-> IdOf[u], uri |-> u, parent |-> parent, vec |-> v]
         /\ \A i \in DOMAIN points \ {IdOf[u]} : points'[i] = points[i]
<1> DEFINE p == [id |-> IdOf[u], uri |-> u, parent |-> parent, vec |-> v]
<1>1. OnFileCreated(u, parent, v).points = <<p>>
  BY DEF OnFileCreated
<1>2. p.vec \in Fits /\ p.id = IdOf[u]
  OBVIOUS
<1> HIDE DEF p
<1>3. points' = Overlay(ById(<<p>>), points)
  BY <1>1, <1>2, OneAccepted, SameOperators DEF Store!InsertPoints
<1>4. DOMAIN ById(<<p>>) = {IdOf[u]} /\ ById(<<p>>)[IdOf[u]] = p
  BY <1>2, OneAccepted
<1>5. QED
  BY <1>3, <1>4 DEF Overlay, p

\* The vectors below a prefix go.
LEMMA Removed ==
  ASSUME NEW u, Store!DeleteUnder(OnFileDeleted(u))
  PROVE  /\ DOMAIN points' = {i \in DOMAIN points : ~Under(points[i].uri, u)}
         /\ \A i \in DOMAIN points' : points'[i] = points[i]
<1>1. OnFileDeleted(u).prefix = u
  BY DEF OnFileDeleted
<1>2. points' = Without(points, {i \in DOMAIN points : Under(points[i].uri, u)})
  BY <1>1, SameOperators DEF Store!DeleteUnder
<1>3. QED
  BY <1>2 DEF Without

\* Rewriting a point's URIs leaves a point.
LEMMA RebasedPoint ==
  ASSUME NEW p \in Point, NEW from \in UriString, NEW to \in UriString
  PROVE  /\ RebasePoint(p, from, to) \in Point
         /\ RebasePoint(p, from, to).uri = IF Under(p.uri, from) THEN Move(p.uri, from, to) ELSE p.uri
         /\ RebasePoint(p, from, to).vec = p.vec
<1>1. \A u \in UriString \cup {NoUri} : Rebase(u, from, to) \in UriString \cup {NoUri}
  <2> SUFFICES ASSUME NEW u \in UriString, IsPrefix(from, u) PROVE Move(u, from, to) \in UriString
    BY PointsAssumption DEF Rebase, Under, Move
  <2>1. u \in Path /\ from \in Path /\ to \in Path /\ Len(to) >= 1
    BY UrisArePaths
  <2>2. Len(u) \in Nat /\ Len(from) \in Nat /\ Len(to) \in Nat /\ Len(from) <= Len(u)
    BY <2>1, LenProperties, PrefixIff DEF Path
  <2> DEFINE m == Move(u, from, to)
  <2>3. m \in Path /\ Len(m) = Len(to) + (Len(u) - Len(from))
    BY <2>1, <2>2, Moved
  <2> HIDE DEF m
  <2>4. Len(m) >= 1
    BY <2>1, <2>2, <2>3
  <2>5. m # <<>>
    BY <2>4, EmptySeq
  <2>6. QED
    BY <2>3, <2>5 DEF UriString, Path, m
<1> DEFINE q == [p EXCEPT !.uri = Rebase(p.uri, from, to)]
           r == [q EXCEPT !.parent = Rebase(p.parent, from, to)]
<1>2. q \in Point /\ q.uri = Rebase(p.uri, from, to) /\ q.vec = p.vec /\ q.parent = p.parent
  BY <1>1 DEF Point
<1>3. RebasePoint(p, from, to) = r
  BY <1>2 DEF RebasePoint
<1> HIDE DEF q
<1>4. r \in Point /\ r.uri = q.uri /\ r.vec = q.vec
  <2>1. Rebase(p.parent, from, to) \in UriString \cup {NoUri}
    BY <1>1 DEF Point
  <2>2. QED
    BY <1>2, <2>1 DEF Point
<1>5. QED
  BY <1>2, <1>3, <1>4 DEF Rebase, Move

\* The vectors below a prefix get their new URIs.
LEMMA Rewritten ==
  ASSUME MapsTo(points, Id, Point), NEW from \in UriString, NEW to \in UriString,
         Store!MoveUnder(OnFileMoved(from, to))
  PROVE  /\ DOMAIN points' = DOMAIN points /\ MapsTo(points', Id, Point)
         /\ \A i \in DOMAIN points :
              /\ points'[i].uri = IF Under(points[i].uri, from) THEN Move(points[i].uri, from, to)
                                                                 ELSE points[i].uri
              /\ points'[i].vec = points[i].vec
<1>1. OnFileMoved(from, to).old = from /\ OnFileMoved(from, to).new = to
  BY DEF OnFileMoved
<1>2. points' = [i \in DOMAIN points |-> RebasePoint(points[i], from, to)]
  BY <1>1, SameOperators DEF Store!MoveUnder
<1>3. \A i \in DOMAIN points : points[i] \in Point
  BY DEF MapsTo
<1>4. QED
  BY <1>2, <1>3, RebasedPoint DEF MapsTo

\* The parent of a URI, up to its last slash.
LEMMA ParentOf ==
  ASSUME NEW u, Viking(u), Len(u) >= 2, u[2] = "/"
  PROVE  ParentUri(u) \in UriString \cup {NoUri}
<1> DEFINE S == {j \in DOMAIN u : u[j] = "/"}
           slash == Max(S)
<1>1. u \in Path /\ Len(u) \in Nat /\ DOMAIN u = 1..Len(u) /\ u[1] # "/"
  BY LenProperties DEF Viking, Path
<1>2. S \in SUBSET (1..Len(u)) /\ 2 \in S
  BY <1>1
<1>3. slash \in S
  <2> HIDE DEF S
  <2>1. QED
    BY <1>1, <1>2, MaxExists
<1>4. slash \in 2..Len(u)
  <2> HIDE DEF slash
  <2>1. slash \in 1..Len(u) /\ u[slash] = "/"
    BY <1>1, <1>3
  <2>2. QED
    BY <1>1, <2>1
<1> HIDE DEF slash
<1>5. SubSeq(u, 1, slash - 1) \in UriString
  <2>1. \A i \in 1..slash - 1 : u[i] \in STRING
    BY <1>1, <1>4, ElementOfSeq DEF Path
  <2>2. slash - 1 \in Int /\ 1 \in Int /\ 1 <= slash - 1 /\ slash - 1 - 1 + 1 >= 1
    BY <1>1, <1>4
  <2> DEFINE s == SubSeq(u, 1, slash - 1)
  <2>3. s \in Seq(STRING) /\ Len(s) = slash - 1 - 1 + 1
    BY <2>1, <2>2, SubSeqProperties
  <2> HIDE DEF s
  <2>4. s # <<>>
    BY <2>2, <2>3, EmptySeq
  <2>5. QED
    BY <2>3, <2>4 DEF UriString, s
<1>6. QED
  BY <1>5 DEF ParentUri, slash

(***************************************************************************)
(* Types.                                                                   *)
(***************************************************************************)
\* The client that goes no further, and the one whose write or embedding fails.
Rests(c) == Becomes(c, "idle", NoCall, "main")

Failed(c) ==
  IF client[c].stage = "abstract" THEN Becomes(c, "embed", client[c].call, "again") ELSE Rests(c)

\* (See Goes.)
LEMMA Fails ==
  ASSUME TypeInv, NEW c \in Client, Fail(c)
  PROVE  Failed(c)
  BY Enters, Returns DEF Fail, Failed, Rests, Pcs

\* Where each action takes its client.
LEMMA FileProgress ==
  ASSUME TypeInv, NEW c \in Client
  PROVE  /\ WriteFile(c) => IF FsWrite(fs, InternalPath(TargetUri(c)), Payload(c)).ok
                            THEN Becomes(c, "embed", client[c].call, client[c].stage) ELSE Failed(c)
         /\ MakeDir(c) => Rests(c)
         /\ RemoveFile(c) =>
              LET path == InternalPath(client[c].call.uri)
                  result == IF client[c].call.recursive THEN FsRemoveAll(fs, path) ELSE FsRemove(fs, path) IN
              IF result.ok THEN Becomes(c, "unvector", client[c].call, client[c].stage) ELSE Rests(c)
         /\ RenameFile(c) =>
              IF FsRename(fs, InternalPath(client[c].call.from), InternalPath(client[c].call.to)).ok
              THEN Becomes(c, "revector", client[c].call, client[c].stage) ELSE Rests(c)
<1>1. WriteFile(c) => IF FsWrite(fs, InternalPath(TargetUri(c)), Payload(c)).ok
                      THEN Becomes(c, "embed", client[c].call, client[c].stage) ELSE Failed(c)
  BY Goes, Fails DEF WriteFile, Pcs
<1>2. MakeDir(c) => Rests(c)
  BY Returns DEF MakeDir, Rests
<1>3. RemoveFile(c) =>
        LET path == InternalPath(client[c].call.uri)
            result == IF client[c].call.recursive THEN FsRemoveAll(fs, path) ELSE FsRemove(fs, path) IN
        IF result.ok THEN Becomes(c, "unvector", client[c].call, client[c].stage) ELSE Rests(c)
  BY Goes, Returns DEF RemoveFile, Rests, Pcs
<1>4. RenameFile(c) =>
        IF FsRename(fs, InternalPath(client[c].call.from), InternalPath(client[c].call.to)).ok
        THEN Becomes(c, "revector", client[c].call, client[c].stage) ELSE Rests(c)
  BY Goes, Returns DEF RenameFile, Rests, Pcs
<1>5. QED
  BY <1>1, <1>2, <1>3, <1>4

\* (See FileProgress.)
LEMMA VectorProgress ==
  ASSUME TypeInv, NEW c \in Client
  PROVE  /\ EmbedFails(c) => Failed(c)
         /\ UpsertVector(c) =>
              IF client[c].stage = "main" /\ client[c].call.op = "writeContext"
              THEN Becomes(c, "summary", client[c].call, "main") ELSE Failed(c)
         /\ Summarise(c) => Becomes(c, "file", client[c].call, "abstract")
         /\ SummaryFails(c) => Rests(c)
         /\ DeleteVectors(c) => Rests(c)
         /\ MoveVectors(c) => Rests(c)
<1>1. EmbedFails(c) => Failed(c)
  BY Fails DEF EmbedFails
<1>2. UpsertVector(c) =>
        IF client[c].stage = "main" /\ client[c].call.op = "writeContext"
        THEN Becomes(c, "summary", client[c].call, "main") ELSE Failed(c)
  <2> SUFFICES ASSUME UpsertVector(c)
               PROVE  IF client[c].stage = "main" /\ client[c].call.op = "writeContext"
                      THEN Becomes(c, "summary", client[c].call, "main") ELSE Failed(c)
    OBVIOUS
  <2>1. CASE client[c].stage = "main" /\ client[c].call.op = "writeContext"
    <3>1. Goto(c, "summary")
      BY <2>1 DEF UpsertVector
    <3>2. QED
      BY <2>1, <3>1, Goes DEF Pcs
  <2>2. CASE client[c].stage = "abstract"
    <3>1. Enter(c, "embed", "again")
      BY <2>2 DEF UpsertVector
    <3>2. QED
      BY <2>2, <3>1, Enters DEF Pcs, Failed
  <2>3. CASE ~(client[c].stage = "main" /\ client[c].call.op = "writeContext") /\ client[c].stage # "abstract"
    <3>1. Return(c)
      BY <2>3 DEF UpsertVector
    <3>2. QED
      BY <2>3, <3>1, Returns DEF Failed, Rests
  <2>4. QED
    BY <2>1, <2>2, <2>3
<1>3. Summarise(c) => Becomes(c, "file", client[c].call, "abstract")
  BY Enters DEF Summarise, Pcs
<1>4. (SummaryFails(c) => Rests(c)) /\ (DeleteVectors(c) => Rests(c)) /\ (MoveVectors(c) => Rests(c))
  BY Returns DEF SummaryFails, DeleteVectors, MoveVectors, Rests
<1>5. QED
  BY <1>1, <1>2, <1>3, <1>4

\* The clients are placed when the one that moved is.
LEMMA PlacedThen ==
  ASSUME TypeInv, NEW c \in Client, NEW pc, NEW call, NEW stage, Becomes(c, pc, call, stage),
         call \in CallsOf[c] \cup {NoCall}, pc \in StagesOf[call.op],
         stage # "main" => call.op = "writeContext" /\ pc # "summary",
         stage = "again" => pc = "embed"
  PROVE  client' \in [Client -> Clients] /\ \A k \in Client : Placed(k)'
<1>1. \A k \in Client \ {c} : Placed(k)'
  BY DEF Becomes, Placed, TypeInv
<1>2. Placed(c)'
  BY DEF Becomes, Placed
<1>3. QED
  BY <1>1, <1>2 DEF Becomes

\* (See PlacedThen.)
LEMMA PlacedRest ==
  ASSUME TypeInv, NEW c \in Client, Rests(c)
  PROVE  client' \in [Client -> Clients] /\ \A k \in Client : Placed(k)'
  BY PlacedThen DEF Rests, NoCall, StagesOf

\* (See PlacedThen.)
LEMMA PlacedFailed ==
  ASSUME TypeInv, NEW c \in Client, Failed(c)
  PROVE  client' \in [Client -> Clients] /\ \A k \in Client : Placed(k)'
<1>1. CASE client[c].stage = "abstract"
  <2>1. client[c].call.op = "writeContext" /\ client[c].call \in CallsOf[c] \cup {NoCall}
    BY <1>1, ClientFields
  <2>2. "embed" \in StagesOf["writeContext"]
    BY DEF StagesOf
  <2>3. Becomes(c, "embed", client[c].call, "again")
    BY <1>1 DEF Failed
  <2>4. QED
    BY <2>1, <2>2, <2>3, PlacedThen
<1>2. CASE client[c].stage # "abstract"
  BY <1>2, PlacedRest DEF Failed
<1>3. QED
  BY <1>1, <1>2

\* Every step leaves clients at steps of their calls.
LEMMA PlacedStep ==
  ASSUME TypeInv, NEW c \in Client, Step(c)
  PROVE  client' \in [Client -> Clients] /\ \A k \in Client : Placed(k)'
<1> DEFINE l == client[c]
<1>1. /\ l.call \in CallsOf[c] \cup {NoCall}
      /\ l.stage # "main" => l.call.op = "writeContext" /\ ~At(c, "summary")
      /\ l.stage = "again" => At(c, "embed")
      /\ CallsOf[c] \subseteq ApiCall
  BY ClientFields
<1>2. /\ At(c, "file") \/ At(c, "embed") => l.call.op \in {"write", "writeContext"}
      /\ At(c, "summary") => l.call.op = "writeContext" /\ l.stage = "main"
      /\ At(c, "remove") => l.call.op = "rm"
      /\ At(c, "rename") => l.call.op = "mv"
  BY StepOfCall
<1>3. CASE Call(c)
  <2>1. PICK r \in CallsOf[c] : Becomes(c, FirstPc[r.op], r, "main")
    BY <1>3, Calls
  <2>2. r.op \in {"write", "writeContext", "rm", "mv", "mkdir"}
    BY <1>1, CallShape DEF ApiCall
  <2>3. FirstPc[r.op] \in StagesOf[r.op]
    BY <2>2 DEF FirstPc, StagesOf
  <2>4. QED
    BY <2>1, <2>3, PlacedThen
<1>4. CASE WriteFile(c)
  <2>1. "embed" \in StagesOf[l.call.op]
    BY <1>2, <1>4 DEF WriteFile, StagesOf
  <2>2. CASE FsWrite(fs, InternalPath(TargetUri(c)), Payload(c)).ok
    <3>1. Becomes(c, "embed", l.call, l.stage)
      BY <1>4, <2>2, FileProgress
    <3>2. QED
      BY <1>1, <2>1, <3>1, PlacedThen
  <2>3. CASE ~FsWrite(fs, InternalPath(TargetUri(c)), Payload(c)).ok
    BY <1>4, <2>3, FileProgress, PlacedFailed
  <2>4. QED
    BY <2>2, <2>3
<1>5. CASE EmbedFails(c)
  BY <1>5, VectorProgress, PlacedFailed
<1>6. CASE UpsertVector(c)
  <2>1. CASE l.stage = "main" /\ l.call.op = "writeContext"
    <3>1. Becomes(c, "summary", l.call, "main") /\ "summary" \in StagesOf[l.call.op]
      BY <1>6, <2>1, VectorProgress DEF StagesOf
    <3>2. QED
      BY <1>1, <3>1, PlacedThen
  <2>2. CASE ~(l.stage = "main" /\ l.call.op = "writeContext")
    BY <1>6, <2>2, VectorProgress, PlacedFailed
  <2>3. QED
    BY <2>1, <2>2
<1>7. CASE Summarise(c)
  <2>1. Becomes(c, "file", l.call, "abstract") /\ l.call.op = "writeContext" /\ "file" \in StagesOf[l.call.op]
    BY <1>2, <1>7, VectorProgress DEF Summarise, StagesOf
  <2>2. QED
    BY <1>1, <2>1, PlacedThen
<1>8. CASE RemoveFile(c)
  <2> DEFINE path == InternalPath(l.call.uri)
             result == IF l.call.recursive THEN FsRemoveAll(fs, path) ELSE FsRemove(fs, path)
  <2>1. IF result.ok THEN Becomes(c, "unvector", l.call, l.stage) ELSE Rests(c)
    BY <1>8, FileProgress
  <2>2. "unvector" \in StagesOf[l.call.op] /\ l.stage = "main"
    BY <1>1, <1>2, <1>8 DEF RemoveFile, StagesOf
  <2>3. QED
    BY <1>1, <2>1, <2>2, PlacedThen, PlacedRest
<1>9. CASE RenameFile(c)
  <2>1. IF FsRename(fs, InternalPath(l.call.from), InternalPath(l.call.to)).ok
        THEN Becomes(c, "revector", l.call, l.stage) ELSE Rests(c)
    BY <1>9, FileProgress
  <2>2. "revector" \in StagesOf[l.call.op] /\ l.stage = "main"
    BY <1>1, <1>2, <1>9 DEF RenameFile, StagesOf
  <2>3. QED
    BY <1>1, <2>1, <2>2, PlacedThen, PlacedRest
<1>10. CASE SummaryFails(c) \/ DeleteVectors(c) \/ MoveVectors(c) \/ MakeDir(c)
  BY <1>10, VectorProgress, FileProgress, PlacedRest
<1>11. QED
  BY <1>3, <1>4, <1>5, <1>6, <1>7, <1>8, <1>9, <1>10 DEF Step

\* Every step leaves a tree, with files among the URIs that have an id.
LEMMA TreeStep ==
  ASSUME Ownership, TypeInv, NEW c \in Client, Step(c)
  PROVE  Tree(fs', Text) /\ FsInv'
<1>1. CASE WriteFile(c)
  BY <1>1, WriteStep
<1>2. CASE MakeDir(c)
  BY <1>2, MakeDirStep
<1>3. CASE RemoveFile(c)
  BY <1>3, RemoveStep
<1>4. CASE RenameFile(c)
  BY <1>4, RenameStep
<1>5. CASE fs' = fs
  BY <1>5 DEF TypeInv, FsInv
<1>6. QED
  BY <1>1, <1>2, <1>3, <1>4, <1>5 DEF Step, Call, EmbedFails, UpsertVector, Summarise, SummaryFails,
     DeleteVectors, MoveVectors

\* The parent stored with a vector.
LEMMA ParentsStored ==
  ASSUME Ownership, TypeInv, NEW c \in Client, At(c, "embed")
  PROVE  Parent(c) \in UriString \cup {NoUri}
<1>1. client[c].call.op \in {"write", "writeContext"}
  BY StepOfCall
<1>2. client[c].call.uri \in UriString
  BY <1>1, ClientFields, CallShape
<1>3. ParentUri(TargetUri(c)) \in UriString \cup {NoUri}
  BY <1>1, Targets, ParentOf
<1>4. QED
  BY <1>2, <1>3 DEF Parent

\* Every step leaves vectors of known URIs.
LEMMA PointsStep ==
  ASSUME Ownership, TypeInv, NEW c \in Client, Step(c)
  PROVE  MapsTo(points', Id, Point)
<1>1. CASE UpsertVector(c)
  <2> DEFINE u == TargetUri(c)
             v == Embed[Payload(c)]
             p == [id |-> IdOf[u], uri |-> u, parent |-> Parent(c), vec |-> v]
  <2>1. At(c, "embed") /\ client[c].call.op \in {"write", "writeContext"}
    BY <1>1, StepOfCall DEF UpsertVector
  <2>2. u \in Uri /\ Payload(c) \in Text /\ Parent(c) \in UriString \cup {NoUri}
    BY <2>1, Targets, ParentsStored
  <2>3. v \in Fits /\ v \in Vec /\ IdOf[u] \in Id /\ u \in UriString
    BY <2>2, SyncFsAssumption, PointsAssumption, SyncAssumption
  <2>4. p \in Point
    BY <2>2, <2>3 DEF Point
  <2>5. /\ DOMAIN points' = DOMAIN points \cup {IdOf[u]} /\ points'[IdOf[u]] = p
        /\ \A i \in DOMAIN points \ {IdOf[u]} : points'[i] = points[i]
    BY <1>1, <2>3, Stored DEF UpsertVector
  <2>6. points' = [i \in DOMAIN points' |-> points'[i]]
    BY <1>1, SameOperators DEF UpsertVector, Store!InsertPoints, Overlay
  <2> HIDE DEF p, u
  <2>7. QED
    BY <2>3, <2>4, <2>5, <2>6 DEF MapsTo, TypeInv
<1>2. CASE DeleteVectors(c)
  <2>1. points' = Without(points, {i \in DOMAIN points : Under(points[i].uri, OnFileDeleted(client[c].call.uri).prefix)})
    BY <1>2, SameOperators DEF DeleteVectors, Store!DeleteUnder
  <2>2. QED
    BY <2>1 DEF TypeInv, MapsTo, Without
<1>3. CASE MoveVectors(c)
  <2>1. client[c].call.from \in UriString /\ client[c].call.to \in UriString
    BY <1>3, StepOfCall, ClientFields, CallShape DEF MoveVectors
  <2>2. QED
    BY <1>3, <2>1, Rewritten DEF MoveVectors, TypeInv
<1>4. CASE points' = points
  BY <1>4 DEF TypeInv
<1>5. QED
  BY <1>1, <1>2, <1>3, <1>4 DEF Step, Call, EmbedFails, WriteFile, RemoveFile, RenameFile, MakeDir,
     Summarise, SummaryFails

\* TypeInv holds in every state.
LEMMA TypeStep ==
  ASSUME Ownership, TypeInv, Next
  PROVE  TypeInv'
<1>1. ASSUME NEW c \in Client, Step(c) PROVE TypeInv'
  <2>1. made' \in 0..MaxCalls
    <3>1. made' = made \/ (made' = made + 1 /\ made < MaxCalls)
      BY <1>1 DEF Step, Call, WriteFile, EmbedFails, UpsertVector, Summarise, SummaryFails,
         RemoveFile, DeleteVectors, RenameFile, MoveVectors, MakeDir
    <3>2. MaxCalls \in Nat /\ made \in 0..MaxCalls
      BY SyncFsAssumption DEF TypeInv
    <3>3. QED
      BY <3>1, <3>2
  <2>2. EmbedFails(c) \/ UpsertVector(c) => TargetUri(c) \in Uri
    BY StepOfCall, Targets DEF EmbedFails, UpsertVector
  <2>3. lapsed' \subseteq Uri
    BY <1>1, <2>2 DEF Step, Call, WriteFile, EmbedFails, UpsertVector, Summarise, SummaryFails,
       RemoveFile, DeleteVectors, RenameFile, MoveVectors, MakeDir, Restored, TypeInv
  <2>4. QED
    BY <1>1, <2>1, <2>3, PlacedStep, TreeStep, PointsStep DEF TypeInv
<1>2. CASE Crash
  <2>1. Resting \in Clients
    BY DEF Resting, Clients
  <2>2. client' \in [Client -> Clients] /\ \A c \in Client : client'[c] = Resting
    BY <1>2, <2>1 DEF Crash
  <2>3. \A c \in Client : Placed(c)'
    BY <2>2 DEF Placed, Resting, NoCall, StagesOf
  <2>4. MapsTo(points', Id, Point) /\ lapsed' \subseteq Uri /\ fs' = fs /\ made' = made
    BY <1>2 DEF Crash, MapsTo
  <2>5. QED
    BY <2>2, <2>3, <2>4 DEF TypeInv, FsInv
<1>3. QED
  BY <1>1, <1>2 DEF Next, Serve

\* (See TypeStep.)
LEMMA TypeInitially == Init => TypeInv
<1> SUFFICES ASSUME Init PROVE TypeInv
  OBVIOUS
<1>1. DOMAIN <<>> = {}
  OBVIOUS
<1>2. Tree(fs, Text) /\ FsInv
  BY <1>1 DEF Init, Tree, FsInv, Files, IsDir
<1>3. Resting \in Clients
  BY DEF Resting, Clients
<1>4. client \in [Client -> Clients] /\ \A c \in Client : Placed(c)
  BY <1>3 DEF Init, Placed, Resting, NoCall, StagesOf
<1>5. QED
  BY <1>2, <1>4, SyncFsAssumption DEF Init, TypeInv, MapsTo

(***************************************************************************)
(* What one client does to the others: nothing to their steps or files.     *)
(***************************************************************************)
LEMMA Becoming ==
  ASSUME TypeInv, NEW c \in Client, Step(c)
  PROVE  \E pc, call, stage : Becomes(c, pc, call, stage)
<1>1. Failed(c) \/ Rests(c) => \E pc, call, stage : Becomes(c, pc, call, stage)
  BY DEF Failed, Rests
<1>2. Call(c) \/ WriteFile(c) \/ MakeDir(c) => \E pc, call, stage : Becomes(c, pc, call, stage)
  BY <1>1, Calls, FileProgress
<1>3. RemoveFile(c) => \E pc, call, stage : Becomes(c, pc, call, stage)
  <2> DEFINE path == InternalPath(client[c].call.uri)
             result == IF client[c].call.recursive THEN FsRemoveAll(fs, path) ELSE FsRemove(fs, path)
  <2>1. RemoveFile(c) => IF result.ok THEN Becomes(c, "unvector", client[c].call, client[c].stage) ELSE Rests(c)
    BY FileProgress
  <2> HIDE DEF result
  <2>2. QED
    BY <1>1, <2>1
<1>4. RenameFile(c) => \E pc, call, stage : Becomes(c, pc, call, stage)
  BY <1>1, FileProgress
<1>5. EmbedFails(c) \/ UpsertVector(c) \/ Summarise(c) \/ SummaryFails(c) \/ DeleteVectors(c) \/ MoveVectors(c)
        => \E pc, call, stage : Becomes(c, pc, call, stage)
  BY <1>1, VectorProgress
<1>6. QED
  BY <1>2, <1>3, <1>4, <1>5 DEF Step

\* (See Becoming.)
LEMMA OthersStay ==
  ASSUME TypeInv, NEW c \in Client, Step(c)
  PROVE  \A k \in Client \ {c} : client'[k] = client[k]
  BY Becoming DEF Becomes

\* (See Becoming.)
LEMMA FrameStep ==
  ASSUME Ownership, TypeInv, NEW c \in Client, Step(c)
  PROVE  Frame(c)
<1>1. CASE WriteFile(c)
  BY <1>1, WriteStep
<1>2. CASE MakeDir(c)
  BY <1>2, MakeDirStep DEF Frame
<1>3. CASE RemoveFile(c)
  BY <1>3, RemoveStep
<1>4. CASE RenameFile(c)
  BY <1>4, RenameStep
<1>5. CASE fs' = fs
  BY <1>5 DEF Frame, SameFile
<1>6. QED
  BY <1>1, <1>2, <1>3, <1>4, <1>5 DEF Step, Call, EmbedFails, UpsertVector, Summarise, SummaryFails,
     DeleteVectors, MoveVectors

\* A name is one of the URIs its call is about.
LEMMA NamesReached ==
  ASSUME Ownership, TypeInv, NEW c \in Client, NEW n \in Named(client[c].call)
  PROVE  Reaches(c, n)
<1>1. n \in Path
  BY NamesViking DEF Viking
<1>2. IsPrefix(n, n)
  BY <1>1, LenProperties, PrefixIff DEF Path
<1>3. QED
  BY <1>2 DEF Reaches

(***************************************************************************)
(* What is written stays until its owner goes on.                           *)
(***************************************************************************)
KeptInv == \A c \in Client : Kept(c)

\* The files another client needs are not this one's.
LEMMA KeptOthers ==
  ASSUME Ownership, TypeInv, KeptInv, NEW c \in Client, Step(c), NEW k \in Client, k # c
  PROVE  Kept(k)'
<1>1. client'[k] = client[k]
  BY OthersStay
<1>2. (At(k, "embed")' <=> At(k, "embed")) /\ (At(k, "summary")' <=> At(k, "summary"))
      /\ TargetUri(k)' = TargetUri(k) /\ Payload(k)' = Payload(k)
  BY <1>1 DEF At, TargetUri, Payload
<1>3. ASSUME NEW u, Viking(u), Reaches(k, u) PROVE SameFile(fs, fs', Tail(u))
  <2>1. ~Reaches(c, u)
    BY <1>3, Exclusive DEF Viking
  <2>2. QED
    BY <1>3, <2>1, FrameStep DEF Frame
<1>4. ASSUME At(k, "embed") PROVE SameFile(fs, fs', InternalPath(TargetUri(k)))
  BY <1>3, <1>4, StepOfCall, Targets DEF InternalPath
<1>5. ASSUME At(k, "summary") \/ client[k].stage # "main"
      PROVE  SameFile(fs, fs', InternalPath(client[k].call.uri))
  <2>1. client[k].call.op = "writeContext"
    BY <1>5, StepOfCall, ClientFields
  <2>2. client[k].call.uri \in Named(client[k].call)
    BY <2>1, ClientFields, CallShape
  <2>3. QED
    BY <1>3, <2>2, NamesViking, NamesReached DEF InternalPath
<1>6. Kept(k)
  BY DEF KeptInv
<1> DEFINE t == InternalPath(TargetUri(k))
           u == InternalPath(client[k].call.uri)
           x == Payload(k)
<1>7. /\ At(k, "embed") => IsFile(fs, t) /\ fs[t] = x
      /\ At(k, "summary") \/ client[k].stage # "main" => IsFile(fs, u) /\ fs[u] = client[k].call.text
  BY <1>6 DEF Kept
<1> HIDE DEF t, u, x
<1>8. /\ At(k, "embed") => IsFile(fs', t) /\ fs'[t] = x
      /\ At(k, "summary") \/ client[k].stage # "main" => IsFile(fs', u) /\ fs'[u] = client[k].call.text
  BY <1>4, <1>5, <1>7 DEF SameFile, t, u
<1>9. t' = t /\ u' = u /\ x' = x
  BY <1>1, <1>2 DEF t, u, x
<1>10. /\ At(k, "embed")' => IsFile(fs', t') /\ fs'[t'] = x'
       /\ At(k, "summary")' \/ client'[k].stage # "main" => IsFile(fs', u') /\ fs'[u'] = client'[k].call.text
  <2> HIDE DEF At
  <2>1. QED
    BY <1>1, <1>2, <1>8, <1>9
<1>11. QED
  BY <1>10 DEF Kept, t, u, x

\* The abstract of a file that is there can be written beside it.
LEMMA AbstractFits ==
  ASSUME Ownership, TypeInv, KeptInv, NEW c \in Client, At(c, "file"), client[c].stage # "main"
  PROVE  LET p == InternalPath(TargetUri(c)) IN
         /\ ~Blocked(fs, p) /\ ~IsDir(fs, p)
         /\ p # InternalPath(client[c].call.uri)
<1> DEFINE u == client[c].call.uri
           a == TargetUri(c)
           p == Tail(a)
           S == STRING \cup {".abstract.md"}
<1>1. client[c].call.op \in {"write", "writeContext"} /\ u \in Named(client[c].call)
  BY StepOfCall, ClientFields, CallShape
<1>2. Viking(u) /\ Viking(a)
  BY <1>1, Targets, NamesViking
<1>3. Len(u) \in Nat /\ Len(a) = Len(u) + 1 /\ (\A i \in 1..Len(u) : a[i] = u[i]) /\ a[Len(u) + 1] = Abstract
  <2>1. u \in Seq(S) /\ ".abstract.md" \in S
    BY <1>2, SeqMonotonic, STRING \subseteq S DEF Path, Viking
  <2>2. a = Append(u, ".abstract.md")
    BY DEF TargetUri, AbstractUri
  <2> HIDE DEF S, a, u
  <2>3. QED
    BY <2>1, <2>2, LenProperties, AppendProperties DEF Abstract
<1> HIDE DEF u, a
<1>4. /\ p \in Path /\ Len(p) = Len(a) - 1 /\ \A i \in 1..Len(a) - 1 : p[i] = a[i + 1]
      /\ Tail(u) \in Path /\ Len(Tail(u)) = Len(u) - 1 /\ \A i \in 1..Len(u) - 1 : Tail(u)[i] = u[i + 1]
  BY <1>2, PathOf
<1> DEFINE f == Tail(u)
<1>5. IsFile(fs, f) /\ f \in DOMAIN fs
  BY DEF KeptInv, Kept, InternalPath, u, IsFile
<1> HIDE DEF p, f
<1>6. Len(u) >= 1
  BY <1>2 DEF Viking
<1>7. p[Len(p)] = Abstract /\ Len(p) # Len(f)
  <2>1. Len(p) \in 1..Len(a) - 1 /\ Len(p) + 1 = Len(u) + 1
    BY <1>3, <1>4, <1>6
  <2>2. QED
    BY <1>3, <1>4, <2>1 DEF f
<1>8. ~IsDir(fs, p)
  BY <1>7 DEF TypeInv, FsInv
<1>9. ASSUME NEW q \in Parents(p) PROVE q \in Parents(f)
  <2>1. q \in Path /\ Len(q) >= 1 /\ Len(q) < Len(p) /\ p[Len(q) + 1] = "/" /\ \A i \in 1..Len(q) : p[i] = q[i]
    BY <1>4, ParentsIff, BelowIff
  <2>2. Len(q) \in Nat
    BY <2>1, LenProperties DEF Path
  <2>3. Len(q) + 1 # Len(p)
    BY <1>7, <2>1 DEF Abstract
  <2>4. Len(q) + 1 <= Len(f) /\ Len(f) = Len(u) - 1 /\ Len(p) = Len(u)
    BY <1>3, <1>4, <2>1, <2>2, <2>3 DEF f
  <2>5. \A i \in 1..Len(f) : f[i] = p[i]
    <3> SUFFICES ASSUME NEW i \in 1..Len(f) PROVE f[i] = p[i]
      OBVIOUS
    <3>1. i \in 1..Len(u) - 1 /\ i + 1 \in 1..Len(u) /\ i \in 1..Len(a) - 1
      BY <1>3, <2>4
    <3>2. f[i] = u[i + 1] /\ p[i] = a[i + 1] /\ a[i + 1] = u[i + 1]
      BY <1>3, <1>4, <3>1 DEF f
    <3>3. QED
      BY <3>2
  <2>6. Len(q) < Len(f) /\ f[Len(q) + 1] = "/" /\ \A i \in 1..Len(q) : f[i] = q[i]
    <3>1. Len(q) + 1 \in 1..Len(f) /\ \A i \in 1..Len(q) : i \in 1..Len(f)
      BY <2>1, <2>2, <2>4
    <3>2. Len(q) < Len(f)
      BY <1>3, <2>2, <2>4
    <3>3. QED
      BY <2>1, <2>5, <3>1, <3>2
  <2>7. f \in Path
    BY <1>4 DEF f
  <2>8. QED
    BY <2>1, <2>6, <2>7, BelowIff, ParentsIff
<1>10. \A q \in Parents(p) : IsDir(fs, q)
  BY <1>5, <1>9 DEF TypeInv, Tree
<1>11. ~Blocked(fs, p)
  BY <1>10 DEF Blocked, IsDir, IsFile
<1>12. QED
  BY <1>7, <1>8, <1>11 DEF p, f, u, a, InternalPath

\* KeptInv holds after every step.
LEMMA KeptStep ==
  ASSUME Ownership, TypeInv, KeptInv, Next
  PROVE  KeptInv'
<1>1. ASSUME NEW c \in Client, Step(c) PROVE Kept(c)'
  <2> DEFINE l == client[c]
             p == InternalPath(TargetUri(c))
             u == InternalPath(l.call.uri)
             x == Payload(c)
  <2>1. Kept(c)
    BY DEF KeptInv
  <2>2. ASSUME Rests(c) PROVE Kept(c)'
    BY <2>2 DEF Rests, Becomes, Kept, At
  <2>3. ASSUME NEW pc, pc \notin {"embed", "summary"}, NEW call, Becomes(c, pc, call, "main") PROVE Kept(c)'
    BY <2>3 DEF Becomes, Kept, At
  <2>4. ASSUME NEW stage, Becomes(c, "embed", l.call, stage), l.stage # "main" <=> stage # "main",
               IsFile(fs', p), fs'[p] = x, stage # "main" => IsFile(fs', u) /\ fs'[u] = l.call.text
        PROVE  Kept(c)'
    <3>1. client'[c].pc = "embed" /\ client'[c].call = l.call /\ client'[c].stage = stage
      BY <2>4 DEF Becomes
    <3>2. p' = p /\ x' = x /\ u' = u /\ ~At(c, "summary")'
      BY <2>4, <3>1 DEF TargetUri, Payload, At
    <3> HIDE DEF p, x, u
    <3>3. IsFile(fs', p') /\ fs'[p'] = x' /\ (stage # "main" => IsFile(fs', u') /\ fs'[u'] = client'[c].call.text)
      BY <2>4, <3>1, <3>2
    <3>4. QED
      BY <3>1, <3>2, <3>3 DEF Kept, p, x, u
  <2>5. ASSUME NEW pc, NEW stage, pc # "embed", Becomes(c, pc, l.call, stage), IsFile(fs', u), fs'[u] = l.call.text
        PROVE  Kept(c)'
    <3>1. client'[c].pc = pc /\ client'[c].call = l.call /\ client'[c].stage = stage
      BY <2>5 DEF Becomes
    <3>2. u' = u /\ ~At(c, "embed")'
      BY <2>5, <3>1 DEF At
    <3> HIDE DEF u
    <3>3. IsFile(fs', u') /\ fs'[u'] = client'[c].call.text
      BY <2>5, <3>1, <3>2
    <3>4. QED
      BY <3>2, <3>3 DEF Kept, u
  <2>6. ASSUME Failed(c), fs' = fs, At(c, "embed") PROVE Kept(c)'
    <3>1. CASE l.stage = "abstract"
      BY <2>1, <2>4, <2>6, <3>1 DEF Failed, Kept
    <3>2. CASE l.stage # "abstract"
      BY <2>2, <2>6, <3>2 DEF Failed
    <3>3. QED
      BY <3>1, <3>2
  <2>7. CASE Call(c)
    <3>1. PICK r \in CallsOf[c] : Becomes(c, FirstPc[r.op], r, "main")
      BY <2>7, Calls
    <3>2. r.op \in {"write", "writeContext", "rm", "mv", "mkdir"}
      BY ClientFields, CallShape DEF ApiCall
    <3>3. FirstPc[r.op] \notin {"embed", "summary"}
      BY <3>2 DEF FirstPc
    <3>4. QED
      BY <2>3, <3>1, <3>3
  <2>8. CASE WriteFile(c)
    <3> DEFINE ok == FsWrite(fs, p, x).ok
    <3>1. /\ ok <=> ~Blocked(fs, p) /\ ~IsDir(fs, p)
          /\ ok => IsFile(fs', p) /\ fs'[p] = x
          /\ \A q : q # p => SameFile(fs, fs', q)
      BY <2>8, WriteStep
    <3>2. IF ok THEN Becomes(c, "embed", l.call, l.stage) ELSE Failed(c)
      BY <2>8, FileProgress
    <3>3. l.stage # "main" => ok /\ p # u
      BY <2>8, <3>1, AbstractFits DEF WriteFile
    <3> HIDE DEF ok, p, x, u
    <3>4. l.stage # "main" => IsFile(fs', u) /\ fs'[u] = l.call.text
      BY <2>1, <3>1, <3>3 DEF Kept, SameFile, u
    <3>5. CASE ok
      BY <2>4, <3>1, <3>2, <3>4, <3>5 DEF p, x, u
    <3>6. CASE ~ok
      BY <2>2, <3>2, <3>3, <3>6 DEF Failed
    <3>7. QED
      BY <3>5, <3>6
  <2>9. CASE EmbedFails(c)
    BY <2>6, <2>9, VectorProgress DEF EmbedFails
  <2>10. CASE UpsertVector(c)
    <3>1. fs' = fs /\ At(c, "embed")
      BY <2>10 DEF UpsertVector
    <3>2. CASE l.stage = "main" /\ l.call.op = "writeContext"
      <4>1. IsFile(fs', u) /\ fs'[u] = l.call.text
        BY <2>1, <3>1, <3>2 DEF Kept, TargetUri, Payload
      <4>2. Becomes(c, "summary", l.call, "main")
        BY <2>10, <3>2, VectorProgress
      <4>3. QED
        BY <2>5, <4>1, <4>2
    <3>3. CASE ~(l.stage = "main" /\ l.call.op = "writeContext")
      BY <2>6, <2>10, <3>1, <3>3, VectorProgress
    <3>4. QED
      BY <3>2, <3>3
  <2>11. CASE Summarise(c)
    <3>1. Becomes(c, "file", l.call, "abstract")
      BY <2>11, VectorProgress
    <3>2. IsFile(fs', u) /\ fs'[u] = l.call.text
      BY <2>1, <2>11 DEF Kept, Summarise
    <3>3. QED
      BY <2>5, <3>1, <3>2
  <2>12. CASE RemoveFile(c)
    <3> DEFINE result == IF l.call.recursive THEN FsRemoveAll(fs, u) ELSE FsRemove(fs, u)
    <3>1. IF result.ok THEN Becomes(c, "unvector", l.call, l.stage) ELSE Rests(c)
      BY <2>12, FileProgress
    <3>2. l.stage = "main"
      BY <2>12, ClientFields, StepOfCall DEF RemoveFile
    <3> HIDE DEF result
    <3>3. QED
      BY <2>2, <2>3, <3>1, <3>2
  <2>13. CASE RenameFile(c)
    <3>1. IF FsRename(fs, InternalPath(l.call.from), InternalPath(l.call.to)).ok
          THEN Becomes(c, "revector", l.call, l.stage) ELSE Rests(c)
      BY <2>13, FileProgress
    <3>2. l.stage = "main"
      BY <2>13, ClientFields, StepOfCall DEF RenameFile
    <3>3. QED
      BY <2>2, <2>3, <3>1, <3>2
  <2>14. CASE SummaryFails(c) \/ DeleteVectors(c) \/ MoveVectors(c) \/ MakeDir(c)
    BY <2>2, <2>14, VectorProgress, FileProgress
  <2>15. QED
    BY <1>1, <2>7, <2>8, <2>9, <2>10, <2>11, <2>12, <2>13, <2>14 DEF Step
<1>2. CASE Crash
  <2>1. \A c \in Client : client'[c] = Resting
    BY <1>2 DEF Crash
  <2>2. QED
    BY <2>1 DEF KeptInv, Kept, At, Resting
<1>3. QED
  BY <1>1, <1>2, KeptOthers DEF Next, Serve, KeptInv

(***************************************************************************)
(* Vectors whose file is gone are about to go, or to move, too.             *)
(***************************************************************************)
\* What has a name as its prefix has its scheme.
LEMMA PrefixViking ==
  ASSUME NEW n, Viking(n), NEW u \in Path, IsPrefix(n, u)
  PROVE  Viking(u)
<1>1. n \in Path /\ Len(n) \in Nat /\ Len(n) >= 1 /\ n[1] = "viking:/" /\ Len(u) \in Nat
  BY LenProperties DEF Viking, Path
<1>2. Len(n) <= Len(u) /\ n[1] = u[1]
  BY <1>1, PrefixIff DEF Path
<1>3. QED
  BY <1>1, <1>2 DEF Viking

\* The file a vector moves to is below the name it is moved to.
LEMMA MoveTarget ==
  ASSUME Ownership, TypeInv, NEW c \in Client, NEW u \in Uri, Moves(c, u)
  PROVE  /\ Target(c, u) = Move(u, client[c].call.from, client[c].call.to)
         /\ Viking(Target(c, u)) /\ Target(c, u) \in Uri
         /\ Reaches(c, u) /\ Reaches(c, Target(c, u))
<1>1. client[c].call.op = "mv"
  BY StepOfCall DEF Moves
<1>2. Target(c, u) = Move(u, client[c].call.from, client[c].call.to)
  BY DEF Target, Move
<1>3. Viking(u)
  BY <1>1, MvNames, PrefixViking, UrisArePaths DEF Moves
<1>4. QED
  BY <1>1, <1>2, <1>3, MvNames, MvPaths DEF Moves

\* A vector another client accounts for stays accounted for.
LEMMA OthersAccount ==
  ASSUME Ownership, TypeInv, NEW c \in Client, Step(c), NEW k \in Client, k # c, NEW u \in Uri,
         \/ At(k, "unvector") /\ IsPrefix(client[k].call.uri, u)
         \/ Moves(k, u) /\ Target(k, u) \in FileUris
  PROVE  Accounted(u)'
<1>1. client'[k] = client[k]
  BY OthersStay
<1>2. CASE At(k, "unvector") /\ IsPrefix(client[k].call.uri, u)
  <2>1. At(k, "unvector")' /\ IsPrefix(client'[k].call.uri, u)
    BY <1>1, <1>2 DEF At
  <2>2. QED
    BY <2>1 DEF Accounted
<1>3. CASE Moves(k, u) /\ Target(k, u) \in FileUris
  <2>1. Viking(Target(k, u)) /\ Reaches(k, Target(k, u))
    BY <1>3, MoveTarget
  <2>2. ~Reaches(c, Target(k, u))
    BY <2>1, Exclusive DEF Viking
  <2>3. SameFile(fs, fs', Tail(Target(k, u)))
    BY <2>1, <2>2, FrameStep DEF Frame
  <2>4. Target(k, u) \in FileUris'
    <3>1. Tree(fs, Text) /\ Tree(fs', Text)
      BY TreeStep DEF TypeInv
    <3>2. QED
      BY <1>3, <2>1, <2>3, <3>1, FileUriIff, FileUrisOf DEF SameFile
  <2>5. Moves(k, u)' /\ Target(k, u)' = Target(k, u)
    BY <1>1, <1>3 DEF Moves, Target, At
  <2>6. QED
    BY <2>4, <2>5 DEF Accounted
<1>4. QED
  BY <1>2, <1>3

\* Only a rename leaves vectors to be moved.
LEMMA NotMoving ==
  ASSUME TypeInv, NEW c \in Client, Step(c), ~RenameFile(c)
  PROVE  ~At(c, "revector")'
<1>1. ASSUME Failed(c) \/ Rests(c) PROVE ~At(c, "revector")'
  BY <1>1 DEF Failed, Rests, Becomes, At
<1>2. CASE Call(c)
  <2>1. PICK r \in CallsOf[c] : Becomes(c, FirstPc[r.op], r, "main")
    BY <1>2, Calls
  <2>2. r.op \in {"write", "writeContext", "rm", "mv", "mkdir"}
    BY ClientFields, CallShape DEF ApiCall
  <2>3. FirstPc[r.op] # "revector"
    BY <2>2 DEF FirstPc
  <2>4. QED
    BY <2>1, <2>3 DEF Becomes, At
<1>3. CASE WriteFile(c) \/ MakeDir(c)
  BY <1>1, <1>3, FileProgress DEF Becomes, At
<1>4. CASE RemoveFile(c)
  <2> DEFINE path == InternalPath(client[c].call.uri)
             result == IF client[c].call.recursive THEN FsRemoveAll(fs, path) ELSE FsRemove(fs, path)
  <2>1. IF result.ok THEN Becomes(c, "unvector", client[c].call, client[c].stage) ELSE Rests(c)
    BY <1>4, FileProgress
  <2> HIDE DEF result
  <2>2. QED
    BY <1>1, <2>1 DEF Becomes, At
<1>5. CASE EmbedFails(c) \/ UpsertVector(c) \/ Summarise(c) \/ SummaryFails(c) \/ DeleteVectors(c) \/ MoveVectors(c)
  BY <1>1, <1>5, VectorProgress DEF Becomes, At
<1>6. QED
  BY <1>2, <1>3, <1>4, <1>5 DEF Step

\* The actions of a client at one step of its call.
LEMMA StepsAt ==
  ASSUME NEW c \in Client, Step(c)
  PROVE  /\ At(c, "unvector") => DeleteVectors(c)
         /\ At(c, "revector") => MoveVectors(c)
<1>1. /\ client[c].pc = "unvector" \/ client[c].pc = "revector" => Busy(c) /\ ~At(c, "file") /\ ~At(c, "embed")
        /\ ~At(c, "summary") /\ ~At(c, "remove") /\ ~At(c, "rename") /\ ~At(c, "mkdir")
      /\ client[c].pc = "unvector" => ~At(c, "revector")
      /\ client[c].pc = "revector" => ~At(c, "unvector")
  BY DEF Busy, At
<1>2. At(c, "unvector") \/ At(c, "revector") => DeleteVectors(c) \/ MoveVectors(c)
  BY <1>1 DEF Step, Call, At, WriteFile, EmbedFails, UpsertVector, Summarise, SummaryFails,
     RemoveFile, RenameFile, MakeDir
<1>3. (DeleteVectors(c) => At(c, "unvector")) /\ (MoveVectors(c) => At(c, "revector"))
  BY DEF DeleteVectors, MoveVectors
<1>4. QED
  BY <1>1, <1>2, <1>3 DEF At

\* A vector that is not itself removed or moved stays accounted for.
LEMMA AccountStep ==
  ASSUME Ownership, TypeInv, NEW c \in Client, Step(c), NEW u \in Uri, Accounted(u),
         ~(DeleteVectors(c) /\ IsPrefix(client[c].call.uri, u)),
         ~(MoveVectors(c) /\ IsPrefix(client[c].call.from, u))
  PROVE  Accounted(u)'
<1>1. Tree(fs, Text) /\ Tree(fs', Text)
  BY TreeStep DEF TypeInv
<1>2. CASE u \in FileUris /\ \A k \in Client : ~Moves(k, u)
  <2>1. Viking(u) /\ IsFile(fs, Tail(u))
    BY <1>1, <1>2, FilesKnown, FileUrisOf DEF TypeInv, FsInv
  <2>2. \A k \in Client : k # c => ~Moves(k, u)'
    BY <1>2, OthersStay DEF Moves, At
  <2>3. ASSUME u \in FileUris', ~Moves(c, u)' PROVE Accounted(u)'
    BY <2>2, <2>3 DEF Accounted
  <2>4. ASSUME IsFile(fs', Tail(u)) PROVE u \in FileUris'
    BY <1>1, <2>1, <2>4, FileUriIff, FileUrisOf
  <2>5. CASE RenameFile(c)
    <3> DEFINE from == client[c].call.from
               to == client[c].call.to
               ok == FsRename(fs, InternalPath(from), InternalPath(to)).ok
    <3>1. /\ ok => IF IsPrefix(from, u) THEN Move(u, from, to) \in FileUris' ELSE u \in FileUris'
          /\ ~ok => SameFile(fs, fs', Tail(u))
      BY <1>2, <2>5, RenameStep
    <3>2. IF ok THEN Becomes(c, "revector", client[c].call, client[c].stage) ELSE Rests(c)
      BY <2>5, FileProgress
    <3> HIDE DEF ok
    <3>3. CASE ok
      <4>1. client'[c].pc = "revector" /\ client'[c].call = client[c].call
        BY <3>2, <3>3 DEF Becomes
      <4>2. CASE IsPrefix(from, u)
        <5>1. Moves(c, u)' /\ Target(c, u)' = Move(u, from, to)
          BY <4>1, <4>2 DEF Moves, At, Target, Move
        <5>2. QED
          BY <3>1, <3>3, <4>2, <5>1 DEF Accounted
      <4>3. CASE ~IsPrefix(from, u)
        <5>1. ~Moves(c, u)'
          BY <4>1, <4>3 DEF Moves
        <5>2. QED
          BY <2>3, <3>1, <3>3, <4>3, <5>1
      <4>4. QED
        BY <4>2, <4>3
    <3>4. CASE ~ok
      <4>1. ~Moves(c, u)'
        BY <3>2, <3>4 DEF Rests, Becomes, Moves, At
      <4>2. QED
        BY <2>1, <2>3, <2>4, <3>1, <3>4, <4>1 DEF SameFile
    <3>5. QED
      BY <3>3, <3>4
  <2>6. CASE ~RenameFile(c)
    <3>1. ~Moves(c, u)'
      BY <2>6, NotMoving DEF Moves
    <3>2. CASE RemoveFile(c) /\ ~IsFile(fs', Tail(u))
      <4> DEFINE path == InternalPath(client[c].call.uri)
                 result == IF client[c].call.recursive THEN FsRemoveAll(fs, path) ELSE FsRemove(fs, path)
      <4>1. (~result.ok => fs' = fs) /\ Frame(c)
        BY <3>2, RemoveStep
      <4>2. IF result.ok THEN Becomes(c, "unvector", client[c].call, client[c].stage) ELSE Rests(c)
        BY <3>2, FileProgress
      <4> HIDE DEF result
      <4>3. Becomes(c, "unvector", client[c].call, client[c].stage)
        BY <2>1, <3>2, <4>1, <4>2
      <4>4. Reaches(c, u)
        BY <2>1, <3>2, <4>1 DEF Frame, SameFile
      <4>5. Named(client[c].call) = {client[c].call.uri}
        BY <3>2, StepOfCall, ClientFields, CallShape DEF RemoveFile
      <4>6. IsPrefix(client[c].call.uri, u)
        BY <4>4, <4>5 DEF Reaches
      <4>7. At(c, "unvector")' /\ IsPrefix(client'[c].call.uri, u)
        BY <4>3, <4>6 DEF Becomes, At
      <4>8. QED
        BY <4>7 DEF Accounted
    <3>3. CASE WriteFile(c) \/ MakeDir(c) \/ fs' = fs \/ (RemoveFile(c) /\ IsFile(fs', Tail(u)))
      <4>1. IsFile(fs', Tail(u))
        BY <2>1, <3>3, WriteStep, MakeDirStep DEF SameFile
      <4>2. QED
        BY <2>3, <2>4, <3>1, <4>1
    <3>4. QED
      BY <2>6, <3>2, <3>3 DEF Step, Call, EmbedFails, UpsertVector, Summarise, SummaryFails,
         DeleteVectors, MoveVectors
  <2>7. QED
    BY <2>5, <2>6
<1>3. CASE \E k \in Client : At(k, "unvector") /\ IsPrefix(client[k].call.uri, u)
  BY <1>3, StepsAt, OthersAccount
<1>4. CASE \E k \in Client : Moves(k, u) /\ Target(k, u) \in FileUris
  <2>1. Moves(c, u) => At(c, "revector") /\ IsPrefix(client[c].call.from, u)
    BY DEF Moves
  <2>2. QED
    BY <1>4, <2>1, StepsAt, OthersAccount
<1>5. QED
  BY <1>2, <1>3, <1>4 DEF Accounted

\* A vector moved is where its file is.
LEMMA MovedAccount ==
  ASSUME Ownership, TypeInv, NEW c \in Client, MoveVectors(c), NEW u \in Uri, Accounted(u),
         IsPrefix(client[c].call.from, u), NEW v, v = Move(u, client[c].call.from, client[c].call.to)
  PROVE  v \in Uri /\ Accounted(v)'
<1>1. Moves(c, u)
  BY DEF MoveVectors, Moves
<1>2. v = Target(c, u) /\ Viking(v) /\ v \in Uri /\ Reaches(c, u) /\ Reaches(c, v) /\ u \in Path /\ v \in Path
  BY <1>1, MoveTarget, UrisArePaths
<1>3. \A k \in Client : k # c => ~Reaches(k, u) /\ ~Reaches(k, v)
  BY <1>2, Exclusive
<1>4. ASSUME NEW k \in Client, At(k, "unvector"), IsPrefix(client[k].call.uri, u) PROVE FALSE
  <2>1. k # c
    BY <1>1, <1>4 DEF Moves, At
  <2>2. client[k].call.uri \in Named(client[k].call)
    BY <1>4, StepOfCall, ClientFields, CallShape
  <2>3. QED
    BY <1>3, <1>4, <2>1, <2>2 DEF Reaches
<1>5. \A k \in Client : Moves(k, u) => k = c
  BY <1>3, MoveTarget
<1>6. v \in FileUris
  BY <1>1, <1>2, <1>4, <1>5 DEF Accounted
<1>7. v \in FileUris'
  BY <1>6 DEF MoveVectors, FileUris
<1>8. ASSUME NEW k \in Client, Moves(k, v)' PROVE FALSE
  <2>1. k # c
    BY <1>8, VectorProgress DEF Rests, Becomes, Moves, At
  <2>2. Step(c)
    BY DEF Step
  <2>3. client'[k] = client[k]
    BY <2>1, <2>2, OthersStay
  <2>4. Moves(k, v)
    BY <1>8, <2>3 DEF Moves, At
  <2>5. QED
    BY <1>2, <1>3, <2>1, <2>4, MoveTarget
<1>9. QED
  BY <1>2, <1>7, <1>8 DEF Accounted

\* A vector stored is that of a file.
LEMMA StoredAccount ==
  ASSUME Ownership, TypeInv, KeptInv, NEW c \in Client, UpsertVector(c), NEW u, u = TargetUri(c)
  PROVE  u \in Uri /\ Accounted(u)'
<1>1. At(c, "embed") /\ fs' = fs /\ Step(c)
  BY DEF UpsertVector, Step
<1>2. Viking(u) /\ u \in Uri /\ Reaches(c, u) /\ u \in Path
  BY <1>1, StepOfCall, Targets DEF Viking
<1>3. IsFile(fs, Tail(u))
  BY <1>1 DEF KeptInv, Kept, InternalPath
<1>4. u \in FileUris'
  <2>1. Tree(fs', Text)
    BY <1>1 DEF TypeInv
  <2>2. QED
    BY <1>1, <1>2, <1>3, <2>1, FileUriIff, FileUrisOf
<1>5. ASSUME NEW k \in Client, Moves(k, u)' PROVE FALSE
  <2>1. CASE k = c
    <3>1. ~RenameFile(c)
      BY <1>1 DEF At, RenameFile
    <3>2. ~At(c, "revector")'
      BY <1>1, <3>1, NotMoving
    <3>3. QED
      BY <1>5, <2>1, <3>2 DEF Moves
  <2>2. CASE k # c
    <3>1. client'[k] = client[k]
      BY <1>1, <2>2, OthersStay
    <3>2. Moves(k, u)
      BY <1>5, <3>1 DEF Moves, At
    <3>3. QED
      BY <1>2, <2>2, <3>2, MoveTarget, Exclusive
  <2>3. QED
    BY <2>1, <2>2
<1>6. QED
  BY <1>2, <1>4, <1>5 DEF Accounted

\* The vector stored.
LEMMA StoredVector ==
  ASSUME Ownership, TypeInv, NEW c \in Client, UpsertVector(c)
  PROVE  /\ DOMAIN points' = DOMAIN points \cup {IdOf[TargetUri(c)]}
         /\ points'[IdOf[TargetUri(c)]].uri = TargetUri(c)
         /\ points'[IdOf[TargetUri(c)]].vec = Embed[Payload(c)]
         /\ \A j \in DOMAIN points \ {IdOf[TargetUri(c)]} : points'[j] = points[j]
<1> DEFINE u == TargetUri(c)
           v == Embed[Payload(c)]
           p == [id |-> IdOf[u], uri |-> u, parent |-> Parent(c), vec |-> v]
<1>1. Payload(c) \in Text
  BY StepOfCall, Targets DEF UpsertVector
<1>2. v \in Fits
  BY <1>1, SyncFsAssumption
<1>3. /\ DOMAIN points' = DOMAIN points \cup {IdOf[u]} /\ points'[IdOf[u]] = p
      /\ \A j \in DOMAIN points \ {IdOf[u]} : points'[j] = points[j]
  BY <1>2, Stored DEF UpsertVector
<1>4. p.uri = u /\ p.vec = v
  OBVIOUS
<1> HIDE DEF p
<1>5. QED
  BY <1>3, <1>4

\* OrphanInv holds after every step.
LEMMA OrphanStep ==
  ASSUME Ownership, TypeInv, KeptInv, OrphanInv, Next
  PROVE  OrphanInv'
<1>1. ASSUME NEW c \in Client, Step(c), NEW i \in DOMAIN points'
      PROVE  \E u \in Uri : points'[i].uri = u /\ Accounted(u)'
  <2>1. ASSUME i \in DOMAIN points, points'[i] = points[i],
               ~(DeleteVectors(c) /\ IsPrefix(client[c].call.uri, points[i].uri)),
               ~(MoveVectors(c) /\ IsPrefix(client[c].call.from, points[i].uri))
        PROVE  \E u \in Uri : points'[i].uri = u /\ Accounted(u)'
    <3>1. PICK u \in Uri : points[i].uri = u /\ Accounted(u)
      BY <2>1 DEF OrphanInv
    <3>2. Accounted(u)'
      BY <1>1, <2>1, <3>1, AccountStep
    <3>3. QED
      BY <2>1, <3>1, <3>2
  <2>2. CASE UpsertVector(c)
    <3>1. PICK u : u = TargetUri(c)
      OBVIOUS
    <3>3. u \in Uri /\ Accounted(u)'
      BY <2>2, <3>1, StoredAccount
    <3>5. /\ DOMAIN points' = DOMAIN points \cup {IdOf[u]} /\ points'[IdOf[u]].uri = u
          /\ \A j \in DOMAIN points \ {IdOf[u]} : points'[j] = points[j]
      BY <2>2, <3>1, StoredVector
    <3>6. ~DeleteVectors(c) /\ ~MoveVectors(c)
      BY <2>2 DEF UpsertVector, DeleteVectors, MoveVectors, At
    <3>7. QED
      BY <1>1, <2>1, <3>3, <3>5, <3>6
  <2>3. CASE DeleteVectors(c)
    <3>1. /\ DOMAIN points' = {j \in DOMAIN points : ~Under(points[j].uri, client[c].call.uri)}
          /\ \A j \in DOMAIN points' : points'[j] = points[j]
      BY <2>3, Removed DEF DeleteVectors
    <3>2. ~MoveVectors(c)
      BY <2>3 DEF DeleteVectors, MoveVectors, At
    <3>3. i \in DOMAIN points /\ points'[i] = points[i] /\ ~Under(points[i].uri, client[c].call.uri)
      BY <1>1, <3>1
    <3>4. points[i].uri # NoUri
      BY <3>3, PointsAssumption, SyncAssumption DEF OrphanInv
    <3>5. QED
      BY <2>1, <3>2, <3>3, <3>4 DEF Under
  <2>4. CASE MoveVectors(c)
    <3>1. PICK from, to : from = client[c].call.from /\ to = client[c].call.to
      OBVIOUS
    <3>2. from \in UriString /\ to \in UriString
      BY <2>4, <3>1, StepOfCall, ClientFields, CallShape DEF MoveVectors
    <3>3. DOMAIN points' = DOMAIN points
          /\ \A j \in DOMAIN points : points'[j].uri = IF Under(points[j].uri, from) THEN Move(points[j].uri, from, to)
                                                                                   ELSE points[j].uri
      BY <2>4, <3>1, <3>2, Rewritten DEF MoveVectors, TypeInv
    <3>4. PICK u \in Uri : points[i].uri = u /\ Accounted(u)
      BY <1>1, <3>3 DEF OrphanInv
    <3>5. u # NoUri /\ ~DeleteVectors(c)
      BY <2>4, <3>4, PointsAssumption, SyncAssumption DEF DeleteVectors, MoveVectors, At
    <3>6. CASE IsPrefix(from, u)
      <4>1. PICK v : v = Move(u, from, to)
        OBVIOUS
      <4>2. v \in Uri /\ Accounted(v)'
        BY <2>4, <3>1, <3>4, <3>6, <4>1, MovedAccount
      <4>3. points'[i].uri = v
        BY <1>1, <3>3, <3>4, <3>5, <3>6, <4>1 DEF Under
      <4>4. QED
        BY <4>2, <4>3
    <3>7. CASE ~IsPrefix(from, u)
      <4>1. points'[i].uri = u
        BY <1>1, <3>3, <3>4, <3>7 DEF Under
      <4>2. Accounted(u)'
        BY <1>1, <3>1, <3>4, <3>5, <3>7, AccountStep
      <4>3. QED
        BY <4>1, <4>2
    <3>8. QED
      BY <3>6, <3>7
  <2>5. CASE points' = points /\ ~DeleteVectors(c) /\ ~MoveVectors(c)
    BY <1>1, <2>1, <2>5
  <2>6. Call(c) \/ WriteFile(c) \/ EmbedFails(c) \/ RemoveFile(c) \/ RenameFile(c) \/ MakeDir(c)
          \/ Summarise(c) \/ SummaryFails(c) => points' = points /\ ~DeleteVectors(c) /\ ~MoveVectors(c)
    <3>1. Call(c) => points' = points /\ ~DeleteVectors(c) /\ ~MoveVectors(c)
      BY DEF Call, Busy, DeleteVectors, MoveVectors, At
    <3>2. QED
      BY <3>1 DEF WriteFile, EmbedFails, RemoveFile, RenameFile, MakeDir, Summarise, SummaryFails,
         DeleteVectors, MoveVectors, At
  <2>7. QED
    BY <1>1, <2>2, <2>3, <2>4, <2>5, <2>6 DEF Step
<1>2. CASE Crash
  <2>1. DOMAIN <<>> = {}
    OBVIOUS
  <2>2. QED
    BY <1>2, <2>1 DEF Crash, OrphanInv
<1>3. QED
  BY <1>1, <1>2 DEF Next, Serve, OrphanInv

(***************************************************************************)
(* A file's only vector is that of what it holds.                           *)
(***************************************************************************)
\* The vectors of a URI are those they were, or the one just stored.
LEMMA VectorsStep ==
  ASSUME Ownership, TypeInv, OrphanInv, IndexInv, NEW c \in Client, Step(c), NEW u \in Uri, u \notin lapsed'
  PROVE  IF UpsertVector(c) /\ u = TargetUri(c)
         THEN VectorsOf(u)' = {IdOf[u]} /\ points'[IdOf[u]].vec = Embed[Payload(c)]
         ELSE u \notin lapsed /\ VectorsOf(u)' = VectorsOf(u)
              /\ \A i \in VectorsOf(u) : points'[i].vec = points[i].vec
<1>1. CASE UpsertVector(c)
  <2>1. PICK t : t = TargetUri(c)
    OBVIOUS
  <2>2. t \in Uri
    BY <1>1, <2>1, StepOfCall, Targets DEF UpsertVector
  <2>3. /\ DOMAIN points' = DOMAIN points \cup {IdOf[t]} /\ points'[IdOf[t]].uri = t
        /\ points'[IdOf[t]].vec = Embed[Payload(c)]
        /\ \A j \in DOMAIN points \ {IdOf[t]} : points'[j] = points[j]
    BY <1>1, <2>1, StoredVector
  <2>4. lapsed' = IF \E i \in DOMAIN points' : points'[i].uri = t /\ i # IdOf[t] THEN lapsed ELSE lapsed \ {t}
    BY <1>1, <2>1 DEF UpsertVector, Restored
  <2>5. u # t \/ (\E i \in DOMAIN points' : points'[i].uri = t /\ i # IdOf[t]) => u \notin lapsed
    BY <2>4
  <2>6. u \notin lapsed => \A i \in DOMAIN points : points[i].uri = u => i = IdOf[u]
    BY DEF IndexInv, VectorsOf
  <2>7. CASE u = t
    <3>1. \A i \in DOMAIN points' : points'[i].uri = u => i = IdOf[u]
      BY <2>3, <2>5, <2>6, <2>7
    <3>2. VectorsOf(u)' = {IdOf[u]}
      BY <2>3, <2>7, <3>1 DEF VectorsOf
    <3>3. QED
      BY <1>1, <2>1, <2>3, <2>7, <3>2
  <2>8. CASE u # t
    <3>1. u \notin lapsed /\ IdOf[u] # IdOf[t]
      BY <2>2, <2>5, <2>8, SyncAssumption
    <3>2. \A i \in DOMAIN points : points[i].uri = u => i # IdOf[t]
      BY <2>6, <3>1
    <3>3. VectorsOf(u)' = VectorsOf(u)
      BY <2>3, <2>8, <3>2 DEF VectorsOf
    <3>4. \A i \in VectorsOf(u) : points'[i].vec = points[i].vec
      BY <2>3, <3>2 DEF VectorsOf
    <3>5. QED
      BY <2>1, <2>8, <3>1, <3>3, <3>4
  <2>9. QED
    BY <2>7, <2>8
<1>2. ASSUME ~UpsertVector(c), u \notin lapsed, VectorsOf(u)' = VectorsOf(u),
             \A i \in VectorsOf(u) : points'[i].vec = points[i].vec
      PROVE  IF UpsertVector(c) /\ u = TargetUri(c)
             THEN VectorsOf(u)' = {IdOf[u]} /\ points'[IdOf[u]].vec = Embed[Payload(c)]
             ELSE u \notin lapsed /\ VectorsOf(u)' = VectorsOf(u)
                  /\ \A i \in VectorsOf(u) : points'[i].vec = points[i].vec
  BY <1>2
<1>3. CASE DeleteVectors(c)
  <2>1. /\ DOMAIN points' = {i \in DOMAIN points : ~Under(points[i].uri, client[c].call.uri)}
        /\ \A i \in DOMAIN points' : points'[i] = points[i]
    BY <1>3, Removed DEF DeleteVectors
  <2>2. u \notin lapsed /\ ~IsPrefix(client[c].call.uri, u)
    BY <1>3 DEF DeleteVectors
  <2>3. VectorsOf(u)' = VectorsOf(u) /\ \A i \in VectorsOf(u) : points'[i].vec = points[i].vec
    BY <2>1, <2>2 DEF VectorsOf, Under
  <2>4. ~UpsertVector(c)
    BY <1>3 DEF DeleteVectors, UpsertVector, At
  <2>5. QED
    BY <1>2, <2>2, <2>3, <2>4
<1>4. CASE MoveVectors(c)
  <2>1. PICK from, to : from = client[c].call.from /\ to = client[c].call.to
    OBVIOUS
  <2>2. from \in UriString /\ to \in UriString /\ client[c].call.op = "mv" /\ At(c, "revector")
    BY <1>4, <2>1, StepOfCall, ClientFields, CallShape DEF MoveVectors
  <2>3. /\ DOMAIN points' = DOMAIN points
        /\ \A i \in DOMAIN points :
             /\ points'[i].uri = IF Under(points[i].uri, from) THEN Move(points[i].uri, from, to) ELSE points[i].uri
             /\ points'[i].vec = points[i].vec
    BY <1>4, <2>1, <2>2, Rewritten DEF MoveVectors, TypeInv
  <2>4. u \notin lapsed /\ ~IsPrefix(from, u) /\ ~IsPrefix(to, u)
    BY <1>4, <2>1, <2>2 DEF MoveVectors, IndexInv
  <2>5. ASSUME NEW i \in DOMAIN points PROVE points'[i].uri = u <=> points[i].uri = u
    <3>1. PICK w \in Uri : points[i].uri = w
      BY DEF OrphanInv
    <3>2. CASE IsPrefix(from, w)
      <4>1. Viking(w)
        BY <2>1, <2>2, <3>2, MvNames, PrefixViking, UrisArePaths
      <4>2. IsPrefix(to, Move(w, from, to))
        BY <2>1, <2>2, <3>2, <4>1, MvPaths
      <4>3. w # NoUri
        BY PointsAssumption, SyncAssumption
      <4>4. points'[i].uri = Move(w, from, to)
        BY <2>3, <3>1, <3>2, <4>3 DEF Under
      <4>5. QED
        BY <2>4, <3>1, <3>2, <4>2, <4>4
    <3>3. CASE ~IsPrefix(from, w)
      BY <2>3, <3>1, <3>3 DEF Under
    <3>4. QED
      BY <3>2, <3>3
  <2>6. VectorsOf(u)' = VectorsOf(u) /\ \A i \in VectorsOf(u) : points'[i].vec = points[i].vec
    BY <2>3, <2>5 DEF VectorsOf
  <2>7. ~UpsertVector(c)
    BY <1>4 DEF MoveVectors, UpsertVector, At
  <2>8. QED
    BY <1>2, <2>4, <2>6, <2>7
<1>5. CASE points' = points /\ lapsed \subseteq lapsed' /\ ~UpsertVector(c)
  BY <1>2, <1>5 DEF VectorsOf
<1>6. Call(c) \/ WriteFile(c) \/ EmbedFails(c) \/ RemoveFile(c) \/ RenameFile(c) \/ MakeDir(c)
        \/ Summarise(c) \/ SummaryFails(c) => points' = points /\ lapsed \subseteq lapsed'
  BY DEF Call, WriteFile, EmbedFails, RemoveFile, RenameFile, MakeDir, Summarise, SummaryFails
<1>7. QED
  BY <1>1, <1>3, <1>4, <1>5, <1>6 DEF Step

\* A file that is indexed and stays as it is stays indexed.
LEMMA IndexedStays ==
  ASSUME Ownership, TypeInv, OrphanInv, IndexInv, NEW c \in Client, Step(c), NEW u \in Uri, u \notin lapsed',
         ~(UpsertVector(c) /\ u = TargetUri(c)), Viking(u), u \in FileUris', SameFile(fs, fs', Tail(u))
  PROVE  Indexed(u)'
<1>1. Tree(fs, Text) /\ Tree(fs', Text)
  BY TreeStep DEF TypeInv
<1>2. IsFile(fs', Tail(u)) /\ IsFile(fs, Tail(u)) /\ fs'[Tail(u)] = fs[Tail(u)] /\ u \in FileUris
  BY <1>1, FileUriIff, FileUrisOf DEF SameFile
<1>3. u \notin lapsed /\ VectorsOf(u)' = VectorsOf(u) /\ \A i \in VectorsOf(u) : points'[i].vec = points[i].vec
  BY VectorsStep
<1>4. Indexed(u)
  BY <1>2, <1>3 DEF IndexInv
<1>5. CASE \E k \in Client : At(k, "embed") /\ TargetUri(k) = u
  <2>1. PICK k \in Client : At(k, "embed") /\ TargetUri(k) = u
    BY <1>5
  <2>2. CASE k # c
    <3>1. client'[k] = client[k]
      BY <2>2, OthersStay
    <3>2. At(k, "embed")' /\ TargetUri(k)' = u
      BY <2>1, <3>1 DEF At, TargetUri
    <3>3. QED
      BY <3>2 DEF Indexed
  <2>3. CASE k = c
    <3>1. EmbedFails(c) \/ UpsertVector(c)
      <4>1. client[c].pc = "embed"
        BY <2>1, <2>3 DEF At
      <4>2. QED
        BY <4>1 DEF Step, Call, Busy, WriteFile, Summarise, SummaryFails, RemoveFile, DeleteVectors,
           RenameFile, MoveVectors, MakeDir, At
    <3>2. QED
      BY <2>1, <2>3, <3>1 DEF EmbedFails
  <2>4. QED
    BY <2>2, <2>3
<1>6. CASE VectorsOf(u) = {IdOf[u]} /\ points[IdOf[u]].vec = Embed[fs[InternalPath(u)]]
  <2>1. VectorsOf(u)' = {IdOf[u]} /\ points'[IdOf[u]].vec = Embed[fs'[InternalPath(u)]]
    BY <1>2, <1>3, <1>6 DEF InternalPath
  <2>2. QED
    BY <2>1 DEF Indexed
<1>7. QED
  BY <1>4, <1>5, <1>6 DEF Indexed

\* A file written is about to be indexed, one embedded is, the others stay so.
LEMMA IndexedStep ==
  ASSUME Ownership, TypeInv, KeptInv, OrphanInv, IndexInv, NEW c \in Client, Step(c),
         NEW u \in FileUris', u \notin lapsed'
  PROVE  Indexed(u)'
<1>1. Tree(fs', Text) /\ FsInv'
  BY TreeStep
<1>2. u \in Uri /\ Viking(u) /\ IsFile(fs', Tail(u))
  BY <1>1, FilesKnown, FileUrisOf DEF FsInv
<1>3. CASE UpsertVector(c) /\ u = TargetUri(c)
  <2>1. VectorsOf(u)' = {IdOf[u]} /\ points'[IdOf[u]].vec = Embed[Payload(c)]
    BY <1>2, <1>3, VectorsStep
  <2>2. fs' = fs /\ fs[InternalPath(u)] = Payload(c)
    BY <1>3 DEF UpsertVector, KeptInv, Kept
  <2>3. VectorsOf(u)' = {IdOf[u]} /\ points'[IdOf[u]].vec = Embed[fs'[InternalPath(u)]]
    BY <2>1, <2>2
  <2>4. QED
    BY <2>3 DEF Indexed
<1>4. ASSUME ~(UpsertVector(c) /\ u = TargetUri(c)), SameFile(fs, fs', Tail(u)) PROVE Indexed(u)'
  BY <1>2, <1>4, IndexedStays
<1>5. CASE WriteFile(c)
  <2>1. PICK t : t = TargetUri(c)
    OBVIOUS
  <2>2. ~UpsertVector(c) /\ Viking(t)
    BY <1>5, <2>1, StepOfCall, Targets DEF WriteFile, UpsertVector, At
  <2> DEFINE ok == FsWrite(fs, InternalPath(TargetUri(c)), Payload(c)).ok
  <2>3. /\ ~ok => \A q : SameFile(fs, fs', q)
        /\ \A q : q # Tail(t) => SameFile(fs, fs', q)
    BY <1>5, <2>1, WriteStep DEF InternalPath
  <2>4. IF ok THEN Becomes(c, "embed", client[c].call, client[c].stage) ELSE Failed(c)
    BY <1>5, FileProgress
  <2> HIDE DEF ok
  <2>5. CASE u = t /\ ok
    <3>1. At(c, "embed")' /\ TargetUri(c)' = u
      BY <2>1, <2>4, <2>5 DEF Becomes, At, TargetUri
    <3>2. QED
      BY <3>1 DEF Indexed
  <2>6. CASE u # t
    <3>1. Tail(u) # Tail(t)
      BY <1>2, <2>2, <2>6, PathsDiffer
    <3>2. QED
      BY <1>4, <2>2, <2>3, <3>1
  <2>7. CASE ~ok
    BY <1>4, <2>2, <2>3, <2>7
  <2>8. QED
    BY <2>5, <2>6, <2>7
<1>6. CASE RemoveFile(c)
  <2>1. SameFile(fs, fs', Tail(u))
    BY <1>2, <1>6, RemoveStep
  <2>2. ~UpsertVector(c)
    BY <1>6 DEF RemoveFile, UpsertVector, At
  <2>3. QED
    BY <1>4, <2>1, <2>2
<1>7. CASE MakeDir(c)
  <2>1. ~UpsertVector(c)
    BY <1>7 DEF MakeDir, UpsertVector, At
  <2>2. QED
    BY <1>4, <1>7, <2>1, MakeDirStep
<1>8. CASE RenameFile(c)
  <2> DEFINE ok == FsRename(fs, InternalPath(client[c].call.from), InternalPath(client[c].call.to)).ok
  <2>1. (~ok => \A q : SameFile(fs, fs', q)) /\ Frame(c)
    BY <1>8, RenameStep
  <2>2. ok => ~IsPrefix(client[c].call.from, u) /\ ~IsPrefix(client[c].call.to, u)
    BY <1>2, <1>8 DEF RenameFile
  <2> HIDE DEF ok
  <2>3. Named(client[c].call) = {client[c].call.from, client[c].call.to}
    BY <1>8, StepOfCall, ClientFields, CallShape DEF RenameFile
  <2>4. ok => ~Reaches(c, u)
    BY <2>2, <2>3 DEF Reaches
  <2>5. SameFile(fs, fs', Tail(u))
    BY <1>2, <2>1, <2>4 DEF Frame
  <2>6. ~UpsertVector(c)
    BY <1>8 DEF RenameFile, UpsertVector, At
  <2>7. QED
    BY <1>4, <2>5, <2>6
<1>9. CASE fs' = fs /\ ~(UpsertVector(c) /\ u = TargetUri(c))
  BY <1>4, <1>9 DEF SameFile
<1>10. QED
  BY <1>3, <1>5, <1>6, <1>7, <1>8, <1>9 DEF Step, Call, EmbedFails, UpsertVector, Summarise, SummaryFails,
     DeleteVectors, MoveVectors

\* What a move is about stays lapsed until its vectors have moved.
LEMMA MovesLapsed ==
  ASSUME Ownership, TypeInv, IndexInv, NEW c \in Client, Step(c), NEW k \in Client, At(k, "revector")',
         NEW u \in Uri, IsPrefix(client'[k].call.from, u) \/ IsPrefix(client'[k].call.to, u)
  PROVE  u \in lapsed'
<1>1. CASE k = c
  <2>1. RenameFile(c)
    BY <1>1, NotMoving
  <2>2. IF FsRename(fs, InternalPath(client[c].call.from), InternalPath(client[c].call.to)).ok
        THEN Becomes(c, "revector", client[c].call, client[c].stage) ELSE Rests(c)
    BY <2>1, FileProgress
  <2>3. FsRename(fs, InternalPath(client[c].call.from), InternalPath(client[c].call.to)).ok
        /\ client'[c].call = client[c].call
    BY <1>1, <2>2 DEF Rests, Becomes, At
  <2>4. QED
    BY <1>1, <2>1, <2>3 DEF RenameFile
<1>2. CASE k # c
  <2>1. client'[k] = client[k]
    BY <1>2, OthersStay
  <2>2. At(k, "revector") /\ (IsPrefix(client[k].call.from, u) \/ IsPrefix(client[k].call.to, u))
    BY <2>1 DEF At
  <2>3. u \in lapsed
    BY <2>2 DEF IndexInv
  <2>4. CASE UpsertVector(c)
    <3>1. Reaches(c, TargetUri(c)) /\ TargetUri(c) \in Path
      BY <2>4, StepOfCall, Targets, UrisArePaths DEF UpsertVector
    <3>2. Reaches(k, u) /\ u \in Path
      BY <2>2, StepOfCall, MvNames, UrisArePaths
    <3>3. u # TargetUri(c)
      BY <1>2, <3>1, <3>2, Exclusive
    <3>4. QED
      BY <2>3, <2>4, <3>3 DEF UpsertVector, Restored
  <2>5. CASE ~UpsertVector(c)
    BY <2>3, <2>5 DEF Step, Call, WriteFile, EmbedFails, RemoveFile, RenameFile, MakeDir,
       DeleteVectors, MoveVectors, Summarise, SummaryFails
  <2>6. QED
    BY <2>4, <2>5
<1>3. QED
  BY <1>1, <1>2

\* IndexInv holds after every step.
LEMMA IndexStep ==
  ASSUME Ownership, TypeInv, KeptInv, OrphanInv, IndexInv, Next
  PROVE  IndexInv'
<1>1. ASSUME NEW c \in Client, Step(c) PROVE IndexInv'
  <2>1. ASSUME NEW u \in Uri, u \notin lapsed' PROVE VectorsOf(u)' \subseteq {IdOf[u]}
    <3>1. u \notin lapsed => VectorsOf(u) \subseteq {IdOf[u]}
      BY DEF IndexInv
    <3>2. QED
      BY <1>1, <2>1, <3>1, VectorsStep
  <2>2. ASSUME NEW u \in FileUris', u \notin lapsed' PROVE Indexed(u)'
    BY <1>1, <2>2, IndexedStep
  <2>3. ASSUME NEW k \in Client, At(k, "revector")', NEW u \in Uri,
               IsPrefix(client'[k].call.from, u) \/ IsPrefix(client'[k].call.to, u)
        PROVE  u \in lapsed'
    BY <1>1, <2>3, MovesLapsed
  <2>4. QED
    BY <2>1, <2>2, <2>3 DEF IndexInv
<1>2. CASE Crash
  <2>1. lapsed' = Uri /\ fs' = fs /\ \A c \in Client : client'[c] = Resting
    BY <1>2 DEF Crash
  <2>2. FileUris' \subseteq Uri
    BY <2>1, FilesKnown, FileUrisOf DEF TypeInv, FsInv
  <2>3. \A c \in Client : ~At(c, "revector")'
    BY <2>1 DEF At, Resting
  <2>4. QED
    BY <2>1, <2>2, <2>3 DEF IndexInv
<1>3. QED
  BY <1>1, <1>2 DEF Next, Serve

(***************************************************************************)
(* What is promised of a URI that no call is about.                         *)
(***************************************************************************)
Inv == TypeInv /\ KeptInv /\ OrphanInv /\ IndexInv

\* Inv holds in every state: nothing has been stored, moved or written yet.
LEMMA Initially ==
  ASSUME Init
  PROVE  Inv
<1>1. DOMAIN <<>> = {}
  OBVIOUS
<1>2. TypeInv
  BY TypeInitially
<1>3. KeptInv
  BY DEF Init, KeptInv, Kept, At, Resting
<1>4. OrphanInv
  BY <1>1 DEF Init, OrphanInv
<1>5. FileUris = {} /\ (\A u : VectorsOf(u) = {}) /\ \A c \in Client : ~At(c, "revector")
  BY <1>1 DEF Init, FileUris, Files, VectorsOf, At, Resting
<1>6. QED
  BY <1>2, <1>3, <1>4, <1>5 DEF Inv, IndexInv

\* (See Initially.)
LEMMA Stuttering ==
  ASSUME Inv, UNCHANGED vars
  PROVE  Inv'
<1>1. fs' = fs /\ points' = points /\ client' = client /\ made' = made /\ lapsed' = lapsed
  BY DEF vars
<1>2. TypeInv'
  BY <1>1 DEF Inv, TypeInv, FsInv, Placed
<1>3. KeptInv'
  BY <1>1 DEF Inv, KeptInv, Kept, At, TargetUri, Payload
<1>4. OrphanInv'
  BY <1>1 DEF Inv, OrphanInv, Accounted, FileUris, Moves, Target, At
<1>5. IndexInv'
  BY <1>1 DEF Inv, IndexInv, Indexed, FileUris, VectorsOf, At, TargetUri
<1>6. QED
  BY <1>2, <1>3, <1>4, <1>5 DEF Inv

\* (See Initially.)
LEMMA Always ==
  ASSUME Ownership
  PROVE  Spec => []Inv
<1>1. Init => Inv
  BY Initially
<1>2. Inv /\ [Next]_vars => Inv'
  BY TypeStep, KeptStep, OrphanStep, IndexStep, Stuttering DEF Inv
<1>3. QED
  BY <1>1, <1>2, PTL DEF Spec

\* A call under way that has removed or is moving a file is about its URI.
LEMMA SettledSteps ==
  ASSUME Ownership, TypeInv, NEW u, Settled(u), NEW c \in Client
  PROVE  /\ ~(At(c, "unvector") /\ IsPrefix(client[c].call.uri, u))
         /\ ~Moves(c, u)
         /\ ~(At(c, "embed") /\ TargetUri(c) = u)
<1>1. At(c, "unvector") => client[c].call.uri \in Named(client[c].call)
  BY StepOfCall, ClientFields, CallShape
<1>2. At(c, "revector") => client[c].call.from \in Named(client[c].call)
  BY StepOfCall, ClientFields, CallShape
<1>3. At(c, "embed") =>
        client[c].call.uri \in Named(client[c].call) /\ IsPrefix(client[c].call.uri, TargetUri(c))
  BY StepOfCall, ClientFields, CallShape, Targets
<1>4. QED
  BY <1>1, <1>2, <1>3 DEF Settled, Moves

\* For any clients that keep to URIs of their own, with whole segments moved:
\* no vector outlives its file, however the calls interleave, embeddings fail
\* and the process dies (vikingfs/mod.rs 278-360, sync.rs 60-160).
THEOREM NoOrphansLeft ==
  ASSUME Ownership
  PROVE  Spec => []NoOrphans
<1>1. Inv => NoOrphans
  <2> SUFFICES ASSUME Inv PROVE NoOrphans
    OBVIOUS
  <2>1. TypesFit
    <3>1. \A c \in Client : client[c].stage = "main" \/ client[c].call.op = "writeContext"
      BY ClientFields DEF Inv
    <3>2. \A p \in DOMAIN fs : fs[p] \in Text \cup {Dir} /\ \A q \in Parents(p) : IsDir(fs, q)
      BY DEF Inv, TypeInv, Tree
    <3>3. QED
      BY <3>1, <3>2 DEF Inv, TypeInv, TypesFit, Placed
  <2>2. ASSUME NEW i \in DOMAIN points, Settled(points[i].uri) PROVE points[i].uri \in FileUris
    <3>1. PICK u \in Uri : points[i].uri = u /\ Accounted(u)
      BY DEF Inv, OrphanInv
    <3>2. \A c \in Client : ~(At(c, "unvector") /\ IsPrefix(client[c].call.uri, u)) /\ ~Moves(c, u)
      BY <2>2, <3>1, SettledSteps DEF Inv
    <3>3. QED
      BY <3>1, <3>2 DEF Accounted
  <2>3. QED
    BY <2>1, <2>2 DEF NoOrphans
<1>2. QED
  BY <1>1, Always, PTL

\* What a settled file's vectors are, unless its URI has lapsed.
LEMMA SettledIndexed ==
  ASSUME Ownership, Inv, NEW u \in FileUris \ lapsed, Settled(u)
  PROVE  VectorsOf(u) = {IdOf[u]} /\ points[IdOf[u]].vec = Embed[fs[InternalPath(u)]]
<1>1. Indexed(u)
  BY DEF Inv, IndexInv
<1>2. \A c \in Client : ~(At(c, "embed") /\ TargetUri(c) = u)
  BY SettledSteps DEF Inv
<1>3. QED
  BY <1>1, <1>2 DEF Indexed

\* Under the same hypotheses every settled file has a vector, unless since it
\* was last written its embedding failed, the process died, or a prefix of it
\* was moved or removed.
THEOREM FilesStayIndexed ==
  ASSUME Ownership
  PROVE  Spec => []FilesIndexed
<1>1. Inv => FilesIndexed
  BY SettledIndexed DEF FilesIndexed
<1>2. QED
  BY <1>1, Always, PTL

\* And it is the embedding of what the file holds now: a slow embedding never
\* overwrites a later one's.
THEOREM VectorsStayFresh ==
  ASSUME Ownership
  PROVE  Spec => []VectorsFresh
<1>1. Inv => VectorsFresh
  BY SettledIndexed DEF VectorsFresh
<1>2. QED
  BY <1>1, Always, PTL
=============================================================================
