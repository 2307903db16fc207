----------------------------- MODULE AgfsProofs -----------------------------
(***************************************************************************)
(* What AGFS keeps for its callers.  The induction goes path by path: a     *)
(* path nothing went wrong with is honest, that is, the plugin it is routed *)
(* to holds the text it was last reported to hold, and no other plugin      *)
(* holds a file there.                                                      *)
(***************************************************************************)
EXTENDS Agfs, LocalFsProofs

Text == Seq(STRING)

Table(f) == f = [x \in DOMAIN f |-> f[x]]

\* What a plugin may hold: a tree, or entries under clean paths.
Shaped(pl, fs) ==
  /\ Table(fs)
  /\ IsLocal[pl] => Tree(fs, Text) /\ \A p \in DOMAIN fs : Clean(p)
  /\ ~IsLocal[pl] => \A p \in DOMAIN fs : \/ p = Root /\ fs[p] = Dir
                                          \/ Clean(p) /\ fs[p] \in Text \cup {Dir}

(***************************************************************************)
(* Paths and requests.                                                      *)
(***************************************************************************)
\* Both plugins take a clean path as it is.
LEMMA CleanPath ==
  ASSUME NEW p, Clean(p)
  PROVE  p \in Path /\ Len(p) \in Nat /\ Len(p) >= 1 /\ Resolve(p) = p /\ NormalizePath(p) = p /\ p # Root
<1>1. p \in Path /\ Len(p) \in Nat /\ Len(p) > 1 /\ Len(p) # 1
  BY LenProperties DEF Clean, Path
<1>2. p # <<>> /\ Last(p) # "/" /\ p[1] = "/"
  BY <1>1 DEF Clean, Last
<1>3. p # Root
  <2>1. Len(Root) = 1
    BY DEF Root
  <2>2. Len(p) # 1
    BY <1>1
  <2>3. QED
    BY <2>1, <2>2
<1>4. QED
  BY <1>1, <1>2, <1>3 DEF Resolve, NormalizePath, Rooted

\* The path of a request, as both plugins see it.
LEMMA RequestPath ==
  ASSUME NEW r, Asked(r)
  PROVE  /\ Clean(Resolve(r.path)) /\ NormalizePath(r.path) = Resolve(r.path)
         /\ r.op # "mkdir" => Resolve(r.path) = r.path
         /\ r.op = "rename" => Resolve(r.to) = r.to /\ NormalizePath(r.to) = r.to
<1> DEFINE p == r.path
<1>1. p \in Seq(STRING) /\ Clean(Resolve(p)) /\ Len(p) \in Nat
  BY LenProperties DEF Asked
<1>2. r.op # "mkdir" => Resolve(r.path) = r.path
  BY CleanPath DEF Asked
<1>3. r.op = "rename" => Resolve(r.to) = r.to /\ NormalizePath(r.to) = r.to
  BY CleanPath DEF Asked
<1> HIDE DEF p
<1>4. NormalizePath(p) = Resolve(p)
  <2>1. CASE Len(p) > 1 /\ Last(p) = "/"
    <3>1. Resolve(p) = Front(p)
      BY <2>1 DEF Resolve
    <3>2. Front(p)[1] = p[1] /\ p # <<>>
      <4>1. Front(p) = SubSeq(p, 1, Len(p) - 1)
        BY DEF Front
      <4>2. \A i \in 1..Len(p) - 1 : p[i] \in STRING
        BY <1>1, ElementOfSeq
      <4>3. 1 \in Int /\ Len(p) - 1 \in Int /\ 1 <= Len(p) - 1 /\ Len(p) - 1 - 1 + 1 = Len(p) - 1 /\ 1 + 1 - 1 = 1
        BY <1>1, <2>1
      <4>4. SubSeq(p, 1, Len(p) - 1)[1] = p[1]
        BY <4>2, <4>3, SubSeqProperties
      <4>5. QED
        BY <1>1, <2>1, <4>1, <4>4
    <3>3. p[1] = "/"
      BY <1>1, <3>1, <3>2 DEF Clean
    <3>4. Rooted(p) = p
      BY <3>2, <3>3 DEF Rooted
    <3>5. QED
      BY <2>1, <3>1, <3>4 DEF NormalizePath
  <2>2. CASE ~(Len(p) > 1 /\ Last(p) = "/")
    BY <1>1, <2>2, CleanPath DEF Resolve
  <2>3. QED
    BY <2>1, <2>2
<1>5. QED
  BY <1>1, <1>2, <1>3, <1>4 DEF p

\* A clean path moved to under a clean path is clean, and nothing else within
\* the first moves to the same.
LEMMA CleanMove ==
  ASSUME NEW p, NEW from, NEW to, Clean(p), Clean(from), Clean(to), Within(p, from)
  PROVE  Clean(Move(p, from, to)) /\ Within(Move(p, from, to), to) /\ Move(Move(p, from, to), to, from) = p
<1>1. p \in Path /\ from \in Path /\ to \in Path
  BY CleanPath
<1>2. Len(p) \in Nat /\ Len(from) \in Nat /\ Len(to) \in Nat /\ Len(to) > 1 /\ to[1] = "/"
      /\ to[Len(to)] # "/" /\ p[Len(p)] # "/"
  BY CleanPath DEF Clean
<1>3. Len(from) <= Len(p)
  BY <1>1, WithinIff
<1> DEFINE m == Move(p, from, to)
<1>4. /\ m \in Path /\ Len(m) = Len(to) + (Len(p) - Len(from))
      /\ \A i \in 1..Len(to) : m[i] = to[i]
      /\ \A i \in 1..Len(p) - Len(from) : m[Len(to) + i] = p[Len(from) + i]
  BY <1>1, <1>3, Moved
<1>5. Within(m, to) /\ Move(m, to, from) = p
  BY <1>1, MoveBack
<1> HIDE DEF m
<1>6. m[Len(m)] # "/"
  <2>1. CASE Len(p) = Len(from)
    BY <1>2, <1>4, <2>1
  <2>2. CASE Len(p) # Len(from)
    <3>1. Len(p) - Len(from) \in 1..Len(p) - Len(from) /\ Len(from) + (Len(p) - Len(from)) = Len(p)
      BY <1>2, <1>3, <2>2
    <3>2. QED
      BY <1>2, <1>4, <3>1
  <2>3. QED
    BY <2>1, <2>2
<1>7. ASSUME NEW i \in 2..Len(m), m[i - 1] = "/" PROVE m[i] # "/"
  <2>1. CASE i <= Len(to)
    <3>1. i \in 1..Len(to) /\ i - 1 \in 1..Len(to) /\ i \in 2..Len(to)
      BY <1>2, <2>1
    <3>2. m[i] = to[i] /\ m[i - 1] = to[i - 1]
      BY <1>4, <3>1
    <3>3. QED
      BY <1>7, <3>1, <3>2 DEF Clean
  <2>2. CASE i = Len(to) + 1
    BY <1>2, <1>4, <1>7, <2>2
  <2>3. CASE i > Len(to) + 1
    <3> DEFINE k == i - Len(to)
    <3>1. k \in 1..Len(p) - Len(from) /\ k - 1 \in 1..Len(p) - Len(from)
          /\ Len(to) + k = i /\ Len(to) + (k - 1) = i - 1
          /\ Len(from) + k \in 2..Len(p) /\ Len(from) + (k - 1) = Len(from) + k - 1
      BY <1>2, <1>3, <1>4, <2>3
    <3>2. m[i] = p[Len(from) + k] /\ m[i - 1] = p[Len(from) + k - 1]
      BY <1>4, <3>1
    <3>3. QED
      BY <1>7, <3>1, <3>2 DEF Clean
  <2>4. QED
    BY <1>2, <1>4, <2>1, <2>2, <2>3
<1>8. Clean(m)
  BY <1>2, <1>3, <1>4, <1>6, <1>7 DEF Clean, Path
<1>9. QED
  BY <1>5, <1>8 DEF m

\* The directories on the way to a clean path are clean.
LEMMA CleanParents ==
  ASSUME NEW p, Clean(p), NEW q \in Parents(p)
  PROVE  Clean(q)
<1>1. p \in Path /\ q \in Path /\ Len(q) >= 1 /\ Below(p, q)
  BY CleanPath, ParentsIff
<1>2. Len(p) \in Nat /\ Len(q) \in Nat
  BY <1>1, LenProperties DEF Path
<1>3. Len(q) < Len(p) /\ p[Len(q) + 1] = "/" /\ \A i \in 1..Len(q) : p[i] = q[i]
  BY <1>1, BelowIff
<1>4. p[1] = "/" /\ \A i \in 2..Len(p) : p[i - 1] = "/" => p[i] # "/"
  BY DEF Clean
<1>5. q[Len(q)] # "/"
  <2>1. Len(q) + 1 \in 2..Len(p) /\ Len(q) + 1 - 1 = Len(q) /\ Len(q) \in 1..Len(q)
    BY <1>1, <1>2, <1>3
  <2>2. QED
    BY <1>3, <1>4, <2>1
<1>6. q[1] = "/" /\ Len(q) > 1
  BY <1>1, <1>2, <1>3, <1>4, <1>5
<1>7. \A i \in 2..Len(q) : q[i - 1] = "/" => q[i] # "/"
  BY <1>2, <1>3, <1>4
<1>8. QED
  BY <1>1, <1>5, <1>6, <1>7 DEF Clean, Path

\* Entries that were there, or are on the way to a clean path, are clean.
LEMMA CleanEntries ==
  ASSUME NEW fs, NEW g, \A q \in DOMAIN fs : Clean(q), NEW p, Clean(p),
         \A q : q # p => SameFile(fs, g, q),
         \A q : IsDir(g, q) => IsDir(fs, q) \/ q \in Parents(p) \/ q = p
  PROVE  \A q \in DOMAIN g : Clean(q)
  BY CleanParents DEF SameFile, IsFile, IsDir

(***************************************************************************)
(* What a call does to the tree of a plugin.                                *)
(***************************************************************************)
\* A text is put at a path, or the path is no file any more.
Puts(fs, g, t, text) == (\A p : p # t => SameFile(fs, g, p)) /\ IsFile(g, t) /\ g[t] = text

Clears(fs, g, t) == (\A p : p # t => SameFile(fs, g, p)) /\ ~IsFile(g, t)

\* The text a call puts at its path.
Content(fs, r) ==
  CASE r.op = "create" -> <<>>
    [] r.op = "append" -> (IF IsFile(fs, r.path) THEN fs[r.path] \o r.text ELSE r.text)
    [] OTHER -> r.text

\* Trees are tables: changed trees are functions on their entries.
LEMMA Tables ==
  ASSUME NEW fs, NEW ps, NEW x
  PROVE  Table(Set(fs, ps, x)) /\ Table(Prune(fs, ps))
  BY DEF Table, Set, Prune

\* (See Tables.)
LEMMA LocalTables ==
  ASSUME NEW fs, Table(fs), NEW p, NEW q, NEW text
  PROVE  /\ Table(FsWrite(fs, p, text).fs) /\ Table(FsMkdir(fs, p).fs) /\ Table(FsRemove(fs, p).fs)
         /\ Table(FsRemoveAll(fs, p).fs) /\ Table(FsRename(fs, p, q).fs)
<1>1. \A z : Table(WithParents(fs, z))
  BY Tables DEF WithParents
<1>2. /\ FsWrite(fs, p, text).fs \in {WithParents(fs, p), Set(WithParents(fs, p), {p}, text)}
      /\ FsMkdir(fs, p).fs \in {WithParents(fs, p), Set(WithParents(fs, p), {p}, Dir)}
      /\ FsRemove(fs, p).fs \in {fs, Prune(fs, {p})}
      /\ FsRename(fs, p, q).fs \in {fs, WithParents(fs, q), Set(Renamed(fs, p, q), Parents(q) \ DOMAIN fs, Dir)}
  BY DEF FsWrite, FsMkdir, FsRemove, FsRename, Ok, Err
<1>3. FsRemoveAll(fs, p).fs = Prune(fs, {z \in DOMAIN fs : Within(z, p)})
  BY DEF FsRemoveAll, Ok
<1>4. QED
  BY <1>1, <1>2, <1>3, Tables

\* A text put in the local plugin's tree.
LEMMA LocalPut ==
  ASSUME NEW pl \in Plugin, IsLocal[pl], NEW fs, Shaped(pl, fs), NEW p, Clean(p), NEW text \in Text
  PROVE  LET result == FsWrite(fs, p, text) IN
         /\ Shaped(pl, result.fs)
         /\ ~result.ok => \A q : SameFile(fs, result.fs, q)
         /\ result.ok => Puts(fs, result.fs, p, text)
<1>1. p \in Path /\ Len(p) >= 1 /\ Tree(fs, Text) /\ Table(fs) /\ Dir \notin Text
  BY CleanPath, AgfsAssumption DEF Shaped, Text
<1> DEFINE result == FsWrite(fs, p, text)
<1>2. /\ Tree(result.fs, Text)
      /\ result.ok => IsFile(result.fs, p) /\ result.fs[p] = text
      /\ ~result.ok => SameFile(fs, result.fs, p)
      /\ \A q : q # p => SameFile(fs, result.fs, q)
      /\ \A q : IsDir(result.fs, q) => IsDir(fs, q) \/ q \in Parents(p)
  BY <1>1, WriteTree
<1>3. Table(result.fs)
  BY <1>1, LocalTables
<1> DEFINE g == result.fs
<1>4. \A q \in DOMAIN g : Clean(q)
  <2>1. \A q \in DOMAIN fs : Clean(q)
    BY DEF Shaped
  <2>2. /\ \A q : q # p => SameFile(fs, g, q)
        /\ \A q : IsDir(g, q) => IsDir(fs, q) \/ q \in Parents(p) \/ q = p
    BY <1>2
  <2> HIDE DEF g
  <2>3. QED
    BY <2>1, <2>2, CleanEntries
<1> HIDE DEF result
<1>5. QED
  BY <1>2, <1>3, <1>4 DEF Shaped, Puts, result

\* A text put in the memory plugin's.
LEMMA MemoryPut ==
  ASSUME NEW pl \in Plugin, ~IsLocal[pl], NEW fs, Shaped(pl, fs), NEW p, Clean(p), NEW text \in Text \cup {Dir}
  PROVE  LET g == Set(fs, {p}, text) IN
         /\ Shaped(pl, g)
         /\ text \in Text => Puts(fs, g, p, text)
         /\ text = Dir => Clears(fs, g, p)
<1> DEFINE g == Set(fs, {p}, text)
<1>1. DOMAIN g = DOMAIN fs \cup {p} /\ g[p] = text /\ \A q \in DOMAIN fs \ {p} : g[q] = fs[q]
  BY DEF Set
<1>2. Table(g) /\ Dir \notin Text
  BY Tables, AgfsAssumption DEF Text
<1> HIDE DEF g
<1>3. Shaped(pl, g)
  BY <1>1, <1>2 DEF Shaped
<1>4. \A q : q # p => SameFile(fs, g, q)
  BY <1>1 DEF SameFile, IsFile
<1>5. text \in Text => IsFile(g, p) /\ g[p] = text
  BY <1>1, <1>2 DEF IsFile
<1>6. text = Dir => ~IsFile(g, p)
  BY <1>1 DEF IsFile
<1>7. QED
  BY <1>3, <1>4, <1>5, <1>6 DEF Puts, Clears, g

\* Entries taken out of the memory plugin's.
LEMMA MemoryPrune ==
  ASSUME NEW pl \in Plugin, ~IsLocal[pl], NEW fs, Shaped(pl, fs), NEW ps
  PROVE  LET g == Prune(fs, ps) IN
         /\ Shaped(pl, g)
         /\ \A q : q \notin ps => SameFile(fs, g, q)
         /\ \A q \in ps : ~IsFile(g, q)
<1> DEFINE g == Prune(fs, ps)
<1>1. DOMAIN g = DOMAIN fs \ ps /\ \A q \in DOMAIN g : g[q] = fs[q]
  BY DEF Prune
<1>2. Table(g)
  BY Tables
<1> HIDE DEF g
<1>3. Shaped(pl, g)
  BY <1>1, <1>2 DEF Shaped
<1>4. QED
  BY <1>1, <1>3 DEF SameFile, IsFile, g

\* The text of a request, and a file's with it at its end.
LEMMA ContentText ==
  ASSUME NEW pl \in Plugin, NEW fs, Shaped(pl, fs), NEW r, Asked(r), r.op \in {"create", "write", "append", "stream"}
  PROVE  Content(fs, r) \in Text
<1>1. \A p : IsFile(fs, p) => fs[p] \in Text
  BY DEF Shaped, Tree, IsFile
<1>2. <<>> \in Text /\ \A s, t \in Text : s \o t \in Text
  BY EmptySeq, ConcatProperties DEF Text
<1>3. r.op # "create" => r.text \in Text
  BY DEF Asked, Text
<1>4. QED
  BY <1>1, <1>2, <1>3 DEF Content

\* A call that writes a text puts it at its path, or changes no file.
LEMMA PutCalls ==
  ASSUME NEW pl \in Plugin, NEW fs, Shaped(pl, fs), NEW r, Asked(r),
         r.op \in {"create", "write", "append"} \/ (r.op = "stream" /\ IsLocal[pl])
  PROVE  LET result == Do(pl, fs, r) IN
         /\ Shaped(pl, result.fs)
         /\ ~result.ok => \A q : SameFile(fs, result.fs, q)
         /\ result.ok => Puts(fs, result.fs, r.path, Content(fs, r))
<1>1. Resolve(r.path) = r.path /\ NormalizePath(r.path) = r.path /\ Clean(r.path)
  BY RequestPath DEF Asked
<1>2. Content(fs, r) \in Text
  BY ContentText
<1>3. CASE IsLocal[pl]
  <2>1. Do(pl, fs, r) = FsWrite(fs, r.path, Content(fs, r))
    <3>1. CASE r.op = "create"
      BY <1>1, <1>3, <3>1 DEF Do, LocalDo, FsCreate, Content
    <3>2. CASE r.op = "write"
      BY <1>1, <1>3, <3>2 DEF Do, LocalDo, Content
    <3>3. CASE r.op = "append"
      BY <1>1, <1>3, <3>3 DEF Do, LocalDo, FsAppend, Content
    <3>4. CASE r.op = "stream"
      BY <1>1, <1>3, <3>4 DEF Do, LocalDo, FsStream, Content
    <3>5. QED
      BY <3>1, <3>2, <3>3, <3>4
  <2> DEFINE text == Content(fs, r)
  <2>2. text \in Text
    BY <1>2
  <2> HIDE DEF text
  <2>3. Do(pl, fs, r) = FsWrite(fs, r.path, text)
    BY <2>1 DEF text
  <2>4. QED
    BY <1>1, <1>3, <2>2, <2>3, LocalPut DEF text
<1>4. CASE ~IsLocal[pl]
  <2>1. Do(pl, fs, r) = Ok(Set(fs, {r.path}, Content(fs, r)))
    <3>1. CASE r.op = "create"
      BY <1>1, <1>4, <3>1 DEF Do, MemoryDo, MemCreate, Content
    <3>2. CASE r.op = "write"
      BY <1>1, <1>4, <3>2 DEF Do, MemoryDo, MemWrite, Content
    <3>3. CASE r.op = "append"
      BY <1>1, <1>4, <3>3 DEF Do, MemoryDo, MemAppend, Content
    <3>4. QED
      BY <1>4, <3>1, <3>2, <3>3
  <2> DEFINE text == Content(fs, r)
  <2>2. text \in Text
    BY <1>2
  <2> HIDE DEF text
  <2>3. /\ Shaped(pl, Set(fs, {r.path}, text)) /\ Puts(fs, Set(fs, {r.path}, text), r.path, text)
    BY <1>1, <1>4, <2>2, MemoryPut
  <2>4. Do(pl, fs, r) = [ok |-> TRUE, fs |-> Set(fs, {r.path}, text)]
    BY <2>1 DEF text, Ok
  <2>5. QED
    BY <2>3, <2>4 DEF text
<1>5. QED
  BY <1>3, <1>4

\* A call that makes a directory or removes an entry leaves no file at its
\* path, or changes no file.
LEMMA ClearCalls ==
  ASSUME NEW pl \in Plugin, NEW fs, Shaped(pl, fs), NEW r, Asked(r), r.op \in {"mkdir", "remove"}
  PROVE  LET result == Do(pl, fs, r) IN
         /\ Shaped(pl, result.fs)
         /\ ~result.ok => \A q : SameFile(fs, result.fs, q)
         /\ result.ok => Clears(fs, result.fs, Resolve(r.path))
<1> DEFINE p == Resolve(r.path)
<1>1. Clean(p) /\ NormalizePath(r.path) = p
  BY RequestPath
<1>2. p \in Path /\ Len(p) >= 1
  BY <1>1, CleanPath
<1>3. Do(pl, fs, r) = IF IsLocal[pl] THEN LocalDo(fs, r) ELSE MemoryDo(fs, r)
  BY DEF Do
<1>4. /\ r.op = "mkdir" => LocalDo(fs, r) = FsMkdir(fs, p) /\ MemoryDo(fs, r) = MemMkdir(fs, r.path)
      /\ r.op = "remove" => LocalDo(fs, r) = FsRemove(fs, p) /\ MemoryDo(fs, r) = MemRemove(fs, r.path)
  BY DEF LocalDo, MemoryDo
<1> HIDE DEF p
<1>5. CASE IsLocal[pl]
  <2>1. Tree(fs, Text) /\ Table(fs) /\ \A q \in DOMAIN fs : Clean(q)
    BY <1>5 DEF Shaped
  <2>2. CASE r.op = "mkdir"
    <3> DEFINE result == FsMkdir(fs, p)
    <3>1. /\ Tree(result.fs, Text) /\ Table(result.fs) /\ \A q : SameFile(fs, result.fs, q)
          /\ \A q : IsDir(result.fs, q) => IsDir(fs, q) \/ q \in Parents(p) \/ q = p
      BY <1>2, <2>1, MkdirTree, LocalTables
    <3>2. result.ok => ~IsFile(fs, p)
      BY DEF FsMkdir, Ok, Err
    <3> HIDE DEF result
    <3> DEFINE g == result.fs
    <3>3. \A q \in DOMAIN g : Clean(q)
      <4>1. /\ \A q : q # p => SameFile(fs, g, q)
            /\ \A q : IsDir(g, q) => IsDir(fs, q) \/ q \in Parents(p) \/ q = p
        BY <3>1
      <4> HIDE DEF g
      <4>2. QED
        BY <1>1, <2>1, <4>1, CleanEntries
    <3>4. result.ok => Clears(fs, result.fs, p)
      BY <3>1, <3>2 DEF Clears, SameFile
    <3>5. Do(pl, fs, r) = result
      BY <1>3, <1>4, <1>5, <2>2 DEF result
    <3>6. QED
      BY <1>5, <3>1, <3>3, <3>4, <3>5 DEF Shaped, p
  <2>3. CASE r.op = "remove"
    <3> DEFINE result == FsRemove(fs, p)
    <3>1. Tree(result.fs, Text) /\ Table(result.fs)
      BY <1>2, <2>1, RemoveTree, LocalTables
    <3>2. ~result.ok => result.fs = fs
      BY DEF FsRemove, Ok, Err
    <3>3. result.ok => result.fs = Prune(fs, {p})
      BY DEF FsRemove, Ok, Err
    <3> HIDE DEF result
    <3>4. ~result.ok => \A q : SameFile(fs, result.fs, q)
      BY <3>2 DEF SameFile
    <3>5. result.ok => Clears(fs, result.fs, p)
      BY <3>3 DEF Clears, SameFile, Prune, IsFile
    <3>6. Do(pl, fs, r) = result
      BY <1>3, <1>4, <1>5, <2>3 DEF result
    <3>7. \A q \in DOMAIN result.fs : Clean(q)
      BY <2>1, <3>2, <3>3 DEF Prune
    <3>8. QED
      BY <1>5, <3>1, <3>4, <3>5, <3>6, <3>7 DEF Shaped, p
  <2>4. QED
    BY <2>2, <2>3
<1>6. CASE ~IsLocal[pl]
  <2>1. CASE r.op = "mkdir"
    <3> DEFINE g == Set(fs, {p}, Dir)
    <3>1. Do(pl, fs, r) = [ok |-> TRUE, fs |-> g]
      BY <1>1, <1>3, <1>4, <1>6, <2>1 DEF MemMkdir, Ok
    <3>2. Shaped(pl, g) /\ Clears(fs, g, p)
      BY <1>1, <1>6, MemoryPut
    <3> HIDE DEF g
    <3>3. QED
      BY <3>1, <3>2 DEF p
  <2>2. CASE r.op = "remove"
    <3> DEFINE g == Prune(fs, {p})
    <3>1. Do(pl, fs, r) \in {[ok |-> TRUE, fs |-> g], [ok |-> FALSE, fs |-> fs]}
      BY <1>1, <1>3, <1>4, <1>6, <2>2 DEF MemRemove, Ok, Err
    <3>2. /\ Shaped(pl, g)
          /\ \A q : q \notin {p} => SameFile(fs, g, q)
          /\ \A q \in {p} : ~IsFile(g, q)
      BY <1>6, MemoryPrune
    <3> HIDE DEF g
    <3>3. Clears(fs, g, p) /\ \A q : SameFile(fs, fs, q)
      BY <3>2 DEF Clears, SameFile
    <3>4. QED
      BY <3>1, <3>2, <3>3 DEF p
  <2>3. QED
    BY <2>1, <2>2
<1>7. QED
  BY <1>5, <1>6

\* Removing a path with everything below it leaves no file there.
LEMMA RemoveAllCalls ==
  ASSUME NEW pl \in Plugin, NEW fs, Shaped(pl, fs), NEW r, Asked(r), r.op = "removeAll"
  PROVE  LET result == Do(pl, fs, r) IN
         /\ Shaped(pl, result.fs) /\ result.ok
         /\ \A q : ~Within(q, r.path) => SameFile(fs, result.fs, q)
         /\ \A q : Within(q, r.path) => ~IsFile(result.fs, q)
<1>1. Clean(r.path) /\ NormalizePath(r.path) = r.path /\ Resolve(r.path) = r.path
  BY RequestPath DEF Asked
<1>2. r.path \in Path
  BY <1>1, CleanPath
<1> DEFINE g == Prune(fs, {q \in DOMAIN fs : Within(q, r.path)})
<1>3. Do(pl, fs, r) = [ok |-> TRUE, fs |-> g]
  BY <1>1 DEF Do, LocalDo, MemoryDo, FsRemoveAll, MemRemoveAll, Ok
<1>4. CASE IsLocal[pl]
  <2>1. Tree(fs, Text) /\ Table(fs)
    BY <1>4 DEF Shaped
  <2>2. FsRemoveAll(fs, r.path) = [ok |-> TRUE, fs |-> g]
    BY DEF FsRemoveAll, Ok
  <2>3. Tree(FsRemoveAll(fs, r.path).fs, Text) /\ Table(FsRemoveAll(fs, r.path).fs)
    BY <1>2, <2>1, RemoveAllTree, LocalTables
  <2>4. Shaped(pl, g)
    <3>1. \A q \in DOMAIN g : Clean(q)
      BY <1>4 DEF Shaped, Prune
    <3>2. QED
      BY <1>4, <2>2, <2>3, <3>1 DEF Shaped
  <2>5. /\ \A q : ~Within(q, r.path) => SameFile(fs, g, q)
        /\ \A q : Within(q, r.path) => ~IsFile(g, q)
    BY DEF Prune, SameFile, IsFile
  <2> HIDE DEF g
  <2>6. QED
    BY <1>3, <2>4, <2>5
<1>5. CASE ~IsLocal[pl]
  <2>1. Shaped(pl, g)
    BY <1>5, MemoryPrune
  <2>2. /\ \A q : ~Within(q, r.path) => SameFile(fs, g, q)
        /\ \A q : Within(q, r.path) => ~IsFile(g, q)
    BY DEF Prune, SameFile, IsFile
  <2> HIDE DEF g
  <2>3. QED
    BY <1>3, <2>1, <2>2
<1>6. QED
  BY <1>4, <1>5

\* What a rename does to the files of a plugin, at the paths q: those within
\* the new path come from the old.
Moves(fs, g, from, to, q) ==
  /\ ~Within(q, from) /\ ~Within(q, to) => SameFile(fs, g, q)
  /\ IsFile(g, q) => \/ ~Within(q, from) /\ ~Within(q, to)
                     \/ \E p \in DOMAIN fs : IsFile(fs, p) /\ Within(p, from) /\ q = Move(p, from, to)
  /\ \A p \in DOMAIN fs : IsFile(fs, p) /\ Within(p, from) /\ q = Move(p, from, to) =>
       IsFile(g, q) /\ g[q] = fs[p]

\* The old path moves to the new one.
LEMMA MoveSelf ==
  ASSUME NEW from, NEW to, Clean(from), Clean(to)
  PROVE  Move(from, from, to) = to
<1>1. from \in Path /\ to \in Path /\ Len(from) \in Nat /\ Len(to) \in Nat
  BY CleanPath
<1> DEFINE m == Move(from, from, to)
<1>2. Len(from) <= Len(from) /\ Len(from) - Len(from) = 0 /\ Len(to) + 0 = Len(to)
  BY <1>1
<1>3. m \in Path /\ Len(m) = Len(to) + (Len(from) - Len(from)) /\ \A i \in 1..Len(to) : m[i] = to[i]
  BY <1>1, <1>2, Moved
<1> HIDE DEF m
<1>4. m = to
  BY <1>1, <1>2, <1>3, SeqEqual DEF Path
<1>5. QED
  BY <1>4 DEF m

\* A rename keeps the shape of a plugin, and changes no file if it fails.
LEMMA RenameCalls ==
  ASSUME NEW pl \in Plugin, NEW fs, Shaped(pl, fs), NEW r, Asked(r), r.op = "rename"
  PROVE  LET result == Do(pl, fs, r) IN
         /\ Shaped(pl, result.fs)
         /\ ~result.ok => \A q : SameFile(fs, result.fs, q)
         /\ result.ok => \A q : ~Within(q, r.path) /\ ~Within(q, r.to) => SameFile(fs, result.fs, q)
         /\ result.ok /\ IsLocal[pl] => \A q : Moves(fs, result.fs, r.path, r.to, q)
         /\ result.ok /\ ~IsLocal[pl] =>
              \A q : /\ ~(q \in DOMAIN fs /\ (Below(q, r.path) \/ Below(q, r.to)))
                    /\ (q = r.to \/ ~\E p \in DOMAIN fs : IsFile(fs, p) /\ Within(p, r.path) /\ q = Move(p, r.path, r.to))
                    => Moves(fs, result.fs, r.path, r.to, q)
<1> DEFINE from == r.path
           to == r.to
<1>1. Clean(from) /\ Clean(to) /\ NormalizePath(from) = from /\ Resolve(from) = from
      /\ NormalizePath(to) = to /\ Resolve(to) = to
  BY RequestPath DEF Asked
<1>2. from \in Path /\ to \in Path /\ Len(from) >= 1 /\ Len(to) >= 1
  BY <1>1, CleanPath
<1>3. Do(pl, fs, r) = IF IsLocal[pl] THEN FsRename(fs, from, to) ELSE MemRename(fs, from, to)
  BY <1>1 DEF Do, LocalDo, MemoryDo
<1> HIDE DEF from, to
<1>4. CASE IsLocal[pl]
  <2>1. Tree(fs, Text) /\ Table(fs)
    BY <1>4 DEF Shaped
  <2> DEFINE result == FsRename(fs, from, to)
  <2>2. Table(result.fs)
    BY <2>1, LocalTables
  <2>3. \A q \in DOMAIN fs : Clean(q)
    BY <1>4 DEF Shaped
  <2>4. ASSUME ~result.ok
        PROVE  /\ Tree(result.fs, Text) /\ \A q : SameFile(fs, result.fs, q)
               /\ \A q \in DOMAIN result.fs : Clean(q)
    <3> DEFINE g == result.fs
    <3>1. /\ Tree(g, Text) /\ \A q : SameFile(fs, g, q)
          /\ \A q : IsDir(g, q) => IsDir(fs, q) \/ q \in Parents(to)
      BY <1>2, <2>1, <2>4, RenameFails
    <3> HIDE DEF g
    <3>2. \A q \in DOMAIN g : Clean(q)
      BY <1>1, <2>3, <3>1, CleanEntries
    <3>3. QED
      BY <3>1, <3>2 DEF g
  <2>5. ASSUME result.ok
        PROVE  /\ Tree(result.fs, Text) /\ \A q : Moves(fs, result.fs, from, to, q)
               /\ \A q \in DOMAIN result.fs : Clean(q)
    <3> DEFINE g == Set(Renamed(fs, from, to), Parents(to) \ DOMAIN fs, Dir)
    <3>1. from \in DOMAIN fs /\ ~Blocked(fs, to) /\ CanRename(WithParents(fs, to), from, to) /\ result.fs = g
      BY <2>5 DEF FsRename, Ok, Err
    <3>2. /\ Tree(g, Text)
          /\ \A p \in DOMAIN fs : Within(p, from) /\ IsFile(fs, p) =>
               IsFile(g, Move(p, from, to)) /\ g[Move(p, from, to)] = fs[p]
          /\ \A p : IsFile(g, p) /\ Within(p, to) =>
               \E q \in DOMAIN fs : IsFile(fs, q) /\ Within(q, from) /\ p = Move(q, from, to)
          /\ \A p : ~Within(p, from) /\ ~Within(p, to) => SameFile(fs, g, p)
          /\ \A p : IsFile(g, p) /\ Within(p, from) /\ ~Within(p, to) => FALSE
          /\ \A p : IsDir(g, p) => \/ IsDir(fs, p) \/ p \in Parents(to)
                                   \/ \E q \in DOMAIN fs : IsDir(fs, q) /\ Within(q, from) /\ p = Move(q, from, to)
      BY <1>2, <2>1, <3>1, RenamedTree
    <3> HIDE DEF g
    <3>3. \A q : Moves(fs, g, from, to, q)
      BY <3>2 DEF Moves
    <3>4. ASSUME NEW q \in DOMAIN g PROVE Clean(q)
      <4>1. \A z \in DOMAIN fs : Within(z, from) => Clean(Move(z, from, to))
        BY <1>1, <2>3, CleanMove
      <4>2. CASE IsFile(g, q)
        BY <2>3, <3>2, <4>1, <4>2 DEF SameFile, IsFile
      <4>3. CASE IsDir(g, q)
        BY <1>1, <2>3, <3>2, <4>1, <4>3, CleanParents DEF IsDir
      <4>4. QED
        BY <4>2, <4>3 DEF IsFile, IsDir
    <3>5. QED
      BY <3>1, <3>2, <3>3, <3>4
  <2> HIDE DEF result
  <2>6. result.ok => \A q : ~Within(q, from) /\ ~Within(q, to) => SameFile(fs, result.fs, q)
    BY <2>5 DEF Moves
  <2>7. Do(pl, fs, r) = result
    BY <1>3, <1>4 DEF result
  <2>8. Shaped(pl, result.fs)
    BY <1>4, <2>2, <2>4, <2>5 DEF Shaped
  <2>9. QED
    BY <1>4, <2>4, <2>5, <2>6, <2>7, <2>8 DEF from, to
<1>5. CASE ~IsLocal[pl]
  <2>1. CASE from \notin DOMAIN fs
    <3>1. Do(pl, fs, r) = [ok |-> FALSE, fs |-> fs]
      BY <1>1, <1>3, <1>5, <2>1 DEF MemRename, Err
    <3>2. \A q : SameFile(fs, fs, q)
      BY DEF SameFile
    <3>3. QED
      BY <3>1, <3>2
  <2>2. CASE from \in DOMAIN fs
    <3> DEFINE rest == Prune(fs, {from})
               x == fs[from]
               g == Set(rest, {to}, x)
    <3>1. Do(pl, fs, r) = [ok |-> TRUE, fs |-> g]
      BY <1>1, <1>3, <1>5, <2>2 DEF MemRename, Ok
    <3>2. from # Root
      BY <1>1, CleanPath
    <3>3. x \in Text \cup {Dir}
      BY <1>5, <2>2, <3>2 DEF Shaped
    <3>4. Shaped(pl, rest)
      BY <1>5, MemoryPrune
    <3>5. DOMAIN g = (DOMAIN fs \ {from}) \cup {to} /\ g[to] = x
          /\ \A q \in DOMAIN fs \ {from, to} : g[q] = fs[q]
      BY DEF Set, Prune
    <3> HIDE DEF rest
    <3>6. Shaped(pl, g)
      <4> HIDE DEF x
      <4>1. QED
        BY <1>1, <1>5, <3>3, <3>4, MemoryPut
    <3> HIDE DEF g
    <3>7. \A q : ~Within(q, from) /\ ~Within(q, to) => SameFile(fs, g, q)
      BY <3>5 DEF Within, SameFile, IsFile
    <3>8. ASSUME NEW q, ~(q \in DOMAIN fs /\ (Below(q, from) \/ Below(q, to))),
                 q = to \/ ~\E p \in DOMAIN fs : IsFile(fs, p) /\ Within(p, from) /\ q = Move(p, from, to)
          PROVE  Moves(fs, g, from, to, q)
      <4>1. ~Within(q, from) /\ ~Within(q, to) => SameFile(fs, g, q)
        BY <3>7
      <4>2. CASE q = to
        <5>1. Move(from, from, to) = to /\ Within(from, from)
          BY <1>1, MoveSelf DEF Within
        <5>2. ASSUME NEW p \in DOMAIN fs, IsFile(fs, p), Within(p, from), to = Move(p, from, to) PROVE p = from
          <6>1. p # Root => Clean(p)
            BY <1>5 DEF Shaped
          <6>2. p # Root
            BY <1>5, <5>2, CleanPath, AgfsAssumption DEF Shaped, IsFile
          <6>3. Move(Move(p, from, to), to, from) = p
            BY <1>1, <5>2, <6>1, <6>2, CleanMove
          <6>4. Move(to, to, from) = from
            BY <1>1, MoveSelf
          <6>5. QED
            BY <5>2, <6>3, <6>4
        <5>3. IsFile(g, q) => IsFile(fs, from)
          BY <2>2, <3>5, <4>2 DEF IsFile
        <5>4. IsFile(fs, from) => IsFile(g, q) /\ g[q] = fs[from]
          BY <2>2, <3>5, <4>2 DEF IsFile
        <5>5. QED
          BY <2>2, <4>1, <4>2, <5>1, <5>2, <5>3, <5>4 DEF Moves
      <4>3. CASE q # to
        <5>1. IsFile(g, q) => ~Within(q, from) /\ ~Within(q, to)
          BY <3>5, <3>8, <4>3 DEF IsFile, Within
        <5>2. QED
          BY <3>8, <4>1, <4>3, <5>1 DEF Moves
      <4>4. QED
        BY <4>2, <4>3
    <3>9. \A q : /\ ~(q \in DOMAIN fs /\ (Below(q, from) \/ Below(q, to)))
                 /\ (q = to \/ ~\E p \in DOMAIN fs : IsFile(fs, p) /\ Within(p, from) /\ q = Move(p, from, to))
                 => Moves(fs, g, from, to, q)
      BY <3>8
    <3>10. QED
      BY <1>5, <3>1, <3>6, <3>7, <3>9 DEF from, to
  <2>3. QED
    BY <2>1, <2>2
<1>6. QED
  BY <1>4, <1>5

(***************************************************************************)
(* The invariant.                                                           *)
(***************************************************************************)
Holding == [op : {"held"}, request : Request, plugin : Plugin, seen : 0..MaxMounts]

Types ==
  /\ \A k \in DOMAIN mounts : k \in MountPath /\ mounts[k] \in Plugin
  /\ held \in [Client -> {Idle} \cup Holding]
  /\ DOMAIN trees = Plugin /\ \A pl \in Plugin : Shaped(pl, trees[pl])
  /\ budget \in [calls : 0..MaxCalls, mounts : 0..MaxMounts]
  /\ \A p \in DOMAIN book : Clean(p) /\ book[p] \in Text

Honest(p) ==
  /\ \A q \in Plugin : IsFile(trees[q], p) => RouteIn(mounts, p) = {q} /\ p \in DOMAIN book
  /\ p \in DOMAIN book =>
       \E q \in Plugin : RouteIn(mounts, p) = {q} /\ IsFile(trees[q], p) /\ trees[q][p] = book[p]

AgfsInv == Types /\ \A p : p \notin astray => Honest(p)

\* A path whose files and text stay, and which is routed as before.
LEMMA PathStays ==
  ASSUME NEW p, Honest(p), RouteIn(mounts', p) = RouteIn(mounts, p),
         \A q \in Plugin : SameFile(trees[q], trees'[q], p),
         p \in DOMAIN book' <=> p \in DOMAIN book, p \in DOMAIN book => book'[p] = book[p]
  PROVE  Honest(p)'
  BY DEF Honest, SameFile

(***************************************************************************)
(* A call that runs on the plugin it was routed to.                         *)
(***************************************************************************)
Asking(c) == held[c].request

Holder(c) == held[c].plugin

Result(c) == Do(Holder(c), trees[Holder(c)], Asking(c))

\* What a call goes astray with, path by path.
LEMMA PerformFacts ==
  ASSUME Types, NEW c \in Client, Perform(c)
  PROVE  LET r == Asking(c)
             pl == Holder(c)
             g == Result(c).fs
         IN
         /\ r \in Request /\ Asked(r) /\ pl \in Plugin /\ Shaped(pl, trees[pl])
         /\ mounts' = mounts /\ budget' = budget /\ held' = [held EXCEPT ![c] = Idle]
         /\ DOMAIN trees' = Plugin /\ trees'[pl] = g /\ \A q \in Plugin \ {pl} : trees'[q] = trees[q]
         /\ book' = IF Result(c).ok THEN Booked(pl, r) ELSE book
         /\ \A p : p \notin astray' => p \notin astray
         /\ \A p : p \notin astray' /\ IsFile(g, p) => RouteIn(mounts, p) = {pl}
         /\ Abroad(pl, r) => \A p : p \notin astray' =>
              /\ p \notin Named(r)
              /\ (\E n \in Named(r) : Within(p, n)) =>
                   /\ \A q \in Plugin : ~IsFile(trees[q], p)
                   /\ ~IsFile(g, p) /\ p \notin DOMAIN Booked(pl, r)
         /\ ~IsLocal[pl] /\ Result(c).ok => \A p : p \notin astray' => p \notin Stranded(pl, r)
<1> DEFINE r == Asking(c)
           pl == Holder(c)
           g == Result(c).fs
<1>1. held[c] \in Holding
  BY DEF Types, Perform
<1>2. r \in Request /\ pl \in Plugin
  BY <1>1 DEF Asking, Holder, Holding
<1>3. Asked(r) /\ Shaped(pl, trees[pl])
  BY <1>2, AgfsAssumption DEF Types
<1>4. /\ mounts' = mounts /\ budget' = budget /\ held' = [held EXCEPT ![c] = Idle]
      /\ trees' = [trees EXCEPT ![pl] = g]
      /\ book' = IF Result(c).ok THEN Booked(pl, r) ELSE book
      /\ astray' = astray \cup Misplaced(pl, g)
                    \cup (IF Abroad(pl, r) THEN Scattered(pl, g, r) ELSE {})
                    \cup (IF IsLocal[pl] \/ ~Result(c).ok THEN {} ELSE Stranded(pl, r))
  BY DEF Perform, Asking, Holder, Result
<1> HIDE DEF r, pl, g
<1>5. DOMAIN trees' = Plugin /\ trees'[pl] = g /\ \A q \in Plugin \ {pl} : trees'[q] = trees[q]
  BY <1>2, <1>4 DEF Types
<1>6. \A p : p \notin astray' => /\ p \notin astray /\ p \notin Misplaced(pl, g)
                               /\ (Abroad(pl, r) => p \notin Scattered(pl, g, r))
                               /\ (~IsLocal[pl] /\ Result(c).ok => p \notin Stranded(pl, r))
  BY <1>4
<1>7. \A p : p \notin Misplaced(pl, g) /\ IsFile(g, p) => RouteIn(mounts, p) = {pl}
  BY DEF Misplaced, Files, IsFile
<1>8. \A p : p \notin Scattered(pl, g, r) =>
        /\ p \notin Named(r)
        /\ (\E n \in Named(r) : Within(p, n)) =>
             /\ \A q \in Plugin : ~IsFile(trees[q], p)
             /\ ~IsFile(g, p) /\ p \notin DOMAIN Booked(pl, r)
  BY DEF Scattered, Files, IsFile
<1>9. QED
  BY <1>2, <1>3, <1>4, <1>5, <1>6, <1>7, <1>8 DEF r, pl, g

\* A call that fails changes no file.
LEMMA FailedStep ==
  ASSUME AgfsInv, NEW c \in Client, Perform(c), ~Result(c).ok, NEW p, p \notin astray'
  PROVE  Honest(p)'
<1>1. Types /\ Honest(p)
  BY PerformFacts DEF AgfsInv
<1> DEFINE r == Asking(c)
           pl == Holder(c)
           g == Result(c).fs
<1>2. /\ Asked(r) /\ pl \in Plugin /\ Shaped(pl, trees[pl]) /\ mounts' = mounts /\ book' = book
      /\ trees'[pl] = g /\ \A q \in Plugin \ {pl} : trees'[q] = trees[q]
  BY <1>1, PerformFacts
<1>3. Result(c) = Do(pl, trees[pl], r)
  BY DEF Result
<1> HIDE DEF r, pl
<1>4. \A q : SameFile(trees[pl], g, q)
  <2> DEFINE fs == trees[pl]
  <2>1. Shaped(pl, fs) /\ Result(c) = Do(pl, fs, r)
    BY <1>2, <1>3
  <2> HIDE DEF fs
  <2>2. CASE r.op \in {"create", "write", "append"} \/ (r.op = "stream" /\ IsLocal[pl])
    BY <1>2, <2>1, <2>2, PutCalls DEF fs
  <2>3. CASE r.op = "stream" /\ ~IsLocal[pl]
    BY <2>1, <2>3 DEF Do, MemoryDo, MemStream, Ok
  <2>4. CASE r.op \in {"mkdir", "remove"}
    BY <1>2, <2>1, <2>4, ClearCalls DEF fs
  <2>5. CASE r.op = "removeAll"
    BY <1>2, <2>1, <2>5, RemoveAllCalls
  <2>6. CASE r.op = "rename"
    BY <1>2, <2>1, <2>6, RenameCalls DEF fs
  <2>7. QED
    BY <1>2, <2>2, <2>3, <2>4, <2>5, <2>6 DEF Asked
<1> HIDE DEF g
<1>5. \A q \in Plugin : SameFile(trees[q], trees'[q], p)
  BY <1>2, <1>4 DEF SameFile
<1>6. QED
  BY <1>1, <1>2, <1>5, PathStays

\* The text the book has for the path a call put a text at.
BookText(r) ==
  CASE r.op = "create" -> <<>>
    [] r.op = "append" -> (IF r.path \in DOMAIN book THEN book[r.path] \o r.text ELSE r.text)
    [] OTHER -> r.text

\* What the book says after a call that succeeded.
LEMMA BookedPut ==
  ASSUME NEW pl, NEW r, Asked(r), r.op \in {"create", "write", "append", "stream"}
  PROVE  /\ DOMAIN Booked(pl, r) = DOMAIN book \cup {r.path}
         /\ \A p \in DOMAIN book \ {r.path} : Booked(pl, r)[p] = book[p]
         /\ Booked(pl, r)[r.path] = BookText(r)
<1>1. Resolve(r.path) = r.path
  BY RequestPath
<1>2. Touched(pl, r) = {r.path}
  BY <1>1 DEF Touched
<1> DEFINE rest == Prune(book, {r.path})
           x == BookText(r)
<1>3. Booked(pl, r) = Set(rest, {r.path}, x)
  <2>1. CASE r.op = "create"
    BY <1>2, <2>1 DEF Booked, BookText
  <2>2. CASE r.op \in {"write", "stream"}
    BY <1>2, <2>2 DEF Booked, BookText
  <2>3. CASE r.op = "append"
    BY <1>2, <2>3 DEF Booked, BookText
  <2>4. QED
    BY <2>1, <2>2, <2>3
<1>4. DOMAIN rest = DOMAIN book \ {r.path} /\ \A p \in DOMAIN rest : rest[p] = book[p]
  BY DEF Prune
<1> HIDE DEF rest
<1>5. /\ DOMAIN Set(rest, {r.path}, x) = DOMAIN rest \cup {r.path}
      /\ Set(rest, {r.path}, x)[r.path] = x
      /\ \A p \in DOMAIN rest \ {r.path} : Set(rest, {r.path}, x)[p] = rest[p]
  <2> HIDE DEF x
  <2>1. QED
    BY DEF Set
<1>6. QED
  BY <1>3, <1>4, <1>5

\* (See BookedPut.)
LEMMA BookedClear ==
  ASSUME NEW pl, NEW r, Asked(r), r.op \in {"mkdir", "remove", "removeAll"}
  PROVE  LET gone == IF r.op = "removeAll" THEN {p \in Kept(pl) : Within(p, r.path)} ELSE {Resolve(r.path)} IN
         /\ DOMAIN Booked(pl, r) = DOMAIN book \ gone
         /\ \A p \in DOMAIN book \ gone : Booked(pl, r)[p] = book[p]
<1> DEFINE gone == IF r.op = "removeAll" THEN {p \in Kept(pl) : Within(p, r.path)} ELSE {Resolve(r.path)}
<1>1. Touched(pl, r) = gone
  BY DEF Touched
<1> HIDE DEF gone
<1>2. Booked(pl, r) = Prune(book, gone)
  BY <1>1 DEF Booked
<1>3. QED
  BY <1>2 DEF Prune, gone

\* (See BookedPut.)
LEMMA BookedMoved ==
  ASSUME NEW pl, NEW r, Asked(r), r.op = "rename", \A p \in DOMAIN book : Clean(p)
  PROVE  LET moved == {p \in Kept(pl) : Within(p, r.path)} IN
         /\ DOMAIN Taken(pl, r) = {Move(p, r.path, r.to) : p \in moved}
         /\ DOMAIN Booked(pl, r) = (DOMAIN book \ Touched(pl, r)) \cup DOMAIN Taken(pl, r)
         /\ \A p \in moved : /\ Move(p, r.path, r.to) \in DOMAIN Taken(pl, r)
                             /\ Booked(pl, r)[Move(p, r.path, r.to)] = book[p]
                             /\ Clean(Move(p, r.path, r.to)) /\ Within(Move(p, r.path, r.to), r.to)
         /\ \A p \in (DOMAIN book \ Touched(pl, r)) \ DOMAIN Taken(pl, r) : Booked(pl, r)[p] = book[p]
         /\ Touched(pl, r) = {p \in Kept(pl) : Within(p, r.path) \/ Within(p, r.to)}
<1> DEFINE from == r.path
           to == r.to
           moved == {p \in Kept(pl) : Within(p, from)}
           taken == [q \in {Move(p, from, to) : p \in moved} |-> book[CHOOSE p \in moved : Move(p, from, to) = q]]
           touched == Touched(pl, r)
<1>1. Clean(from) /\ Clean(to)
  BY DEF Asked
<1>2. Taken(pl, r) = taken
  BY DEF Taken, Move
<1>3. Booked(pl, r) = Overlay(Taken(pl, r), Prune(book, touched))
  BY DEF Booked
<1>4. Touched(pl, r) = {p \in Kept(pl) : Within(p, r.path) \/ Within(p, r.to)}
  BY DEF Touched
<1>5. moved \subseteq DOMAIN book /\ \A p \in moved : Within(p, from)
  BY DEF Kept
<1> HIDE DEF from, to, moved, touched
<1>6. \A p \in moved : Clean(Move(p, from, to)) /\ Within(Move(p, from, to), to) /\ Move(Move(p, from, to), to, from) = p
  BY <1>1, <1>5, CleanMove
<1>7. ASSUME NEW p \in moved
      PROVE  Move(p, from, to) \in DOMAIN taken /\ taken[Move(p, from, to)] = book[p]
  <2> DEFINE q == Move(p, from, to)
             o == CHOOSE z \in moved : Move(z, from, to) = q
  <2>1. o \in moved /\ Move(o, from, to) = q
    OBVIOUS
  <2>2. o = p
    BY <1>6, <2>1
  <2>3. q \in DOMAIN taken /\ taken[q] = book[o]
    OBVIOUS
  <2>4. QED
    BY <2>2, <2>3
<1>8. DOMAIN taken = {Move(p, from, to) : p \in moved}
  OBVIOUS
<1> HIDE DEF taken
<1>9. /\ DOMAIN Overlay(taken, Prune(book, touched)) = (DOMAIN book \ touched) \cup DOMAIN taken
      /\ \A q \in DOMAIN taken : Overlay(taken, Prune(book, touched))[q] = taken[q]
      /\ \A q \in (DOMAIN book \ touched) \ DOMAIN taken : Overlay(taken, Prune(book, touched))[q] = book[q]
  BY DEF Overlay, Prune
<1>10. Booked(pl, r) = Overlay(taken, Prune(book, touched))
  BY <1>2, <1>3
<1>11. QED
  BY <1>2, <1>4, <1>6, <1>7, <1>8, <1>9, <1>10 DEF from, to, moved, touched

\* A text put at a path: the book says so, and the plugin holds it.
LEMMA PutStep ==
  ASSUME AgfsInv, NEW c \in Client, Perform(c), Result(c).ok, NEW p, p \notin astray',
         Asking(c).op \in {"create", "write", "append", "stream"}
  PROVE  Honest(p)'
<1>1. Types /\ Honest(p)
  BY PerformFacts DEF AgfsInv
<1> DEFINE r == Asking(c)
           pl == Holder(c)
           g == Result(c).fs
           fs == trees[pl]
<1>2. /\ Asked(r) /\ pl \in Plugin /\ Shaped(pl, fs) /\ mounts' = mounts /\ book' = Booked(pl, r)
      /\ trees'[pl] = g /\ \A q \in Plugin \ {pl} : trees'[q] = trees[q]
      /\ Abroad(pl, r) => p \notin Named(r)
      /\ ~IsLocal[pl] => p \notin Stranded(pl, r)
  BY <1>1, PerformFacts
<1>3. Result(c) = Do(pl, fs, r) /\ Result(c).ok
  BY DEF Result
<1>4. r.op \in {"create", "write", "append", "stream"}
  OBVIOUS
<1> HIDE DEF r, pl, fs
<1>5. /\ DOMAIN Booked(pl, r) = DOMAIN book \cup {r.path}
      /\ \A q \in DOMAIN book \ {r.path} : Booked(pl, r)[q] = book[q]
      /\ Booked(pl, r)[r.path] = BookText(r)
  <2>1. Asked(r)
    BY <1>2
  <2>2. QED
    BY <1>4, <2>1, BookedPut
<1>6. CASE r.op = "stream" /\ ~IsLocal[pl]
  <2>1. g = fs
    BY <1>3, <1>6 DEF Do, MemoryDo, MemStream, Ok
  <2>2. p # r.path
    BY <1>2, <1>6 DEF Stranded
  <2> HIDE DEF g
  <2>3. \A q \in Plugin : SameFile(trees[q], trees'[q], p)
    BY <1>2, <2>1 DEF SameFile, fs
  <2>4. QED
    BY <1>1, <1>2, <1>5, <2>2, <2>3, PathStays
<1>7. CASE r.op \in {"create", "write", "append"} \/ (r.op = "stream" /\ IsLocal[pl])
  <2>1. Puts(fs, g, r.path, Content(fs, r))
    BY <1>2, <1>3, <1>7, PutCalls
  <2> HIDE DEF g
  <2>2. CASE p # r.path
    <3>1. \A q \in Plugin : SameFile(trees[q], trees'[q], p)
      BY <1>2, <2>1, <2>2 DEF SameFile, Puts, fs
    <3>2. QED
      BY <1>1, <1>2, <1>5, <2>2, <3>1, PathStays
  <2>3. CASE p = r.path
    <3>1. Named(r) = {r.path}
      BY <1>2, <1>4, RequestPath DEF Named
    <3>2. RouteIn(mounts, p) = {pl}
      BY <1>2, <2>3, <3>1 DEF Abroad
    <3>3. IsFile(fs, p) <=> p \in DOMAIN book
      BY <1>1, <1>2, <3>2 DEF Honest, fs
    <3>4. p \in DOMAIN book => fs[p] = book[p]
      BY <1>1, <3>2 DEF Honest, fs
    <3>5. Content(fs, r) = Booked(pl, r)[p]
      BY <1>4, <1>5, <2>3, <3>3, <3>4 DEF Content, BookText
    <3>6. IsFile(trees'[pl], p) /\ trees'[pl][p] = book'[p] /\ p \in DOMAIN book'
      BY <1>2, <1>5, <2>1, <2>3, <3>5 DEF Puts
    <3>7. ASSUME NEW q \in Plugin, IsFile(trees'[q], p), q # pl PROVE FALSE
      BY <1>1, <1>2, <3>2, <3>7 DEF Honest
    <3>8. QED
      BY <1>2, <3>2, <3>6, <3>7 DEF Honest
  <2>4. QED
    BY <2>2, <2>3
<1>8. QED
  BY <1>4, <1>6, <1>7

\* A path that is no file any more: neither the book nor the plugin has it.
LEMMA ClearStep ==
  ASSUME AgfsInv, NEW c \in Client, Perform(c), Result(c).ok, NEW p, p \notin astray',
         Asking(c).op \in {"mkdir", "remove"}
  PROVE  Honest(p)'
<1>1. Types /\ Honest(p)
  BY PerformFacts DEF AgfsInv
<1> DEFINE r == Asking(c)
           pl == Holder(c)
           g == Result(c).fs
           fs == trees[pl]
           t == Resolve(r.path)
<1>2. /\ Asked(r) /\ pl \in Plugin /\ Shaped(pl, fs) /\ mounts' = mounts /\ book' = Booked(pl, r)
      /\ trees'[pl] = g /\ \A q \in Plugin \ {pl} : trees'[q] = trees[q]
      /\ Abroad(pl, r) => p \notin Named(r)
  BY <1>1, PerformFacts
<1>3. Result(c) = Do(pl, fs, r) /\ Result(c).ok
  BY DEF Result
<1>4. r.op \in {"mkdir", "remove"}
  OBVIOUS
<1> HIDE DEF r, pl, fs
<1>5. DOMAIN Booked(pl, r) = DOMAIN book \ {t} /\ \A q \in DOMAIN book \ {t} : Booked(pl, r)[q] = book[q]
  <2>1. (IF r.op = "removeAll" THEN {q \in Kept(pl) : Within(q, r.path)} ELSE {t}) = {t}
    BY <1>4
  <2>2. QED
    BY <1>2, <1>4, <2>1, BookedClear
<1>6. Clears(fs, g, t)
  BY <1>2, <1>3, <1>4, ClearCalls
<1>7. Named(r) = {t}
  BY <1>4 DEF Named
<1> HIDE DEF g, t
<1>8. CASE p # t
  <2>1. \A q \in Plugin : SameFile(trees[q], trees'[q], p)
    BY <1>2, <1>6, <1>8 DEF SameFile, Clears, fs
  <2>2. QED
    BY <1>1, <1>2, <1>5, <1>8, <2>1, PathStays
<1>9. CASE p = t
  <2>1. RouteIn(mounts, p) = {pl}
    BY <1>2, <1>7, <1>9 DEF Abroad
  <2>2. ~IsFile(trees'[pl], p) /\ p \notin DOMAIN book'
    BY <1>2, <1>5, <1>6, <1>9 DEF Clears
  <2>3. ASSUME NEW q \in Plugin, IsFile(trees'[q], p), q # pl PROVE FALSE
    BY <1>1, <1>2, <2>1, <2>3 DEF Honest
  <2>4. QED
    BY <2>2, <2>3 DEF Honest
<1>10. QED
  BY <1>8, <1>9

\* Everything below a path removed: what other plugins have there stays.
LEMMA RemoveAllStep ==
  ASSUME AgfsInv, NEW c \in Client, Perform(c), Result(c).ok, NEW p, p \notin astray',
         Asking(c).op = "removeAll"
  PROVE  Honest(p)'
<1>1. Types /\ Honest(p)
  BY PerformFacts DEF AgfsInv
<1> DEFINE r == Asking(c)
           pl == Holder(c)
           g == Result(c).fs
           fs == trees[pl]
           gone == {q \in Kept(pl) : Within(q, r.path)}
<1>2. /\ Asked(r) /\ pl \in Plugin /\ Shaped(pl, fs) /\ mounts' = mounts /\ book' = Booked(pl, r)
      /\ trees'[pl] = g /\ \A q \in Plugin \ {pl} : trees'[q] = trees[q]
      /\ Abroad(pl, r) => ((\E n \in Named(r) : Within(p, n)) =>
                            /\ \A q \in Plugin : ~IsFile(trees[q], p)
                            /\ ~IsFile(g, p) /\ p \notin DOMAIN Booked(pl, r))
  BY <1>1, PerformFacts
<1>3. Result(c) = Do(pl, fs, r) /\ Result(c).ok
  BY DEF Result
<1>4. r.op = "removeAll"
  OBVIOUS
<1> HIDE DEF r, pl, fs
<1>5. DOMAIN Booked(pl, r) = DOMAIN book \ gone /\ \A q \in DOMAIN book \ gone : Booked(pl, r)[q] = book[q]
  BY <1>2, <1>4, BookedClear
<1>6. /\ \A q : ~Within(q, r.path) => SameFile(fs, g, q)
      /\ \A q : Within(q, r.path) => ~IsFile(g, q)
  BY <1>2, <1>3, <1>4, RemoveAllCalls
<1>7. Named(r) = {r.path}
  BY <1>2, <1>4, RequestPath DEF Named
<1>8. p \in gone <=> p \in DOMAIN book /\ RouteIn(mounts, p) = {pl} /\ Within(p, r.path)
  BY DEF Kept
<1> HIDE DEF g, gone
<1>9. CASE ~Within(p, r.path)
  <2>1. \A q \in Plugin : SameFile(trees[q], trees'[q], p)
    BY <1>2, <1>6, <1>9 DEF SameFile, fs
  <2>2. QED
    BY <1>1, <1>2, <1>5, <1>8, <1>9, <2>1, PathStays
<1>10. CASE Within(p, r.path)
  <2>1. ~IsFile(trees'[pl], p)
    BY <1>2, <1>6, <1>10
  <2>2. CASE Abroad(pl, r)
    BY <1>2, <1>7, <1>10, <2>1, <2>2 DEF Honest
  <2>3. CASE RouteIn(mounts, p) = {pl}
    <3>1. p \notin DOMAIN book'
      BY <1>2, <1>5, <1>8, <1>10, <2>3
    <3>2. ASSUME NEW q \in Plugin, IsFile(trees'[q], p), q # pl PROVE FALSE
      BY <1>1, <1>2, <2>3, <3>2 DEF Honest
    <3>3. QED
      BY <2>1, <3>1, <3>2 DEF Honest
  <2>4. CASE RouteIn(mounts, p) # {pl}
    <3>1. ~IsFile(fs, p)
      BY <1>1, <1>2, <2>4 DEF Honest, fs
    <3>2. \A q \in Plugin : SameFile(trees[q], trees'[q], p)
      BY <1>2, <2>1, <3>1 DEF SameFile, fs
    <3>3. QED
      BY <1>1, <1>2, <1>5, <1>8, <2>4, <3>2, PathStays
  <2>5. QED
    BY <2>3, <2>4
<1>11. QED
  BY <1>9, <1>10

\* What a rename takes along and what it leaves: the book moves with the
\* files of the plugin, and what other plugins have on the way stays.
LEMMA RenameStep ==
  ASSUME AgfsInv, NEW c \in Client, Perform(c), Result(c).ok, NEW p, p \notin astray', Asking(c).op = "rename"
  PROVE  Honest(p)'
<1>1. Types /\ Honest(p)
  BY PerformFacts DEF AgfsInv
<1> DEFINE r == Asking(c)
           pl == Holder(c)
           g == Result(c).fs
           fs == trees[pl]
           from == r.path
           to == r.to
           moved == {z \in Kept(pl) : Within(z, from)}
           taken == DOMAIN Taken(pl, r)
<1>2. /\ Asked(r) /\ pl \in Plugin /\ Shaped(pl, fs) /\ mounts' = mounts /\ book' = Booked(pl, r)
      /\ trees'[pl] = g /\ \A q \in Plugin \ {pl} : trees'[q] = trees[q]
      /\ IsFile(g, p) => RouteIn(mounts, p) = {pl}
      /\ Abroad(pl, r) => ((\E n \in Named(r) : Within(p, n)) =>
                            /\ \A q \in Plugin : ~IsFile(trees[q], p)
                            /\ ~IsFile(g, p) /\ p \notin DOMAIN Booked(pl, r))
      /\ ~IsLocal[pl] => p \notin Stranded(pl, r)
  BY <1>1, PerformFacts
<1>3. Result(c) = Do(pl, fs, r) /\ Result(c).ok
  BY DEF Result
<1>4. r.op = "rename" /\ Named(r) = {from, to}
  BY DEF Named
<1>5. \A z : z \notin astray => Honest(z)
  BY DEF AgfsInv
<1> HIDE DEF r, pl, fs
<1>6. /\ taken = {Move(z, from, to) : z \in moved}
      /\ DOMAIN book' = (DOMAIN book \ Touched(pl, r)) \cup taken
      /\ \A z \in moved : /\ Move(z, from, to) \in taken
                          /\ book'[Move(z, from, to)] = book[z]
                          /\ Within(Move(z, from, to), to)
      /\ \A z \in (DOMAIN book \ Touched(pl, r)) \ taken : book'[z] = book[z]
      /\ Touched(pl, r) = {z \in Kept(pl) : Within(z, from) \/ Within(z, to)}
  <2>1. Asked(r) /\ book' = Booked(pl, r)
    BY <1>2
  <2>2. \A z \in DOMAIN book : Clean(z)
    BY <1>1 DEF Types
  <2>3. /\ taken = {Move(z, from, to) : z \in moved}
        /\ DOMAIN Booked(pl, r) = (DOMAIN book \ Touched(pl, r)) \cup taken
        /\ \A z \in moved : /\ Move(z, from, to) \in taken
                            /\ Booked(pl, r)[Move(z, from, to)] = book[z]
                            /\ Clean(Move(z, from, to)) /\ Within(Move(z, from, to), to)
        /\ \A z \in (DOMAIN book \ Touched(pl, r)) \ taken : Booked(pl, r)[z] = book[z]
        /\ Touched(pl, r) = {z \in Kept(pl) : Within(z, from) \/ Within(z, to)}
    <3>1. r.op = "rename"
      BY <1>4
    <3>2. QED
      BY ONLY <2>1, <2>2, <3>1, BookedMoved
  <2> HIDE DEF moved, taken, from, to
  <2>4. QED
    BY <2>1, <2>3
<1>7. /\ \A q : ~Within(q, from) /\ ~Within(q, to) => SameFile(fs, g, q)
      /\ IsLocal[pl] => Moves(fs, g, from, to, p)
      /\ ~IsLocal[pl] =>
           (/\ ~(p \in DOMAIN fs /\ (Below(p, from) \/ Below(p, to)))
            /\ (p = to \/ ~\E z \in DOMAIN fs : IsFile(fs, z) /\ Within(z, from) /\ p = Move(z, from, to))
            => Moves(fs, g, from, to, p))
  BY <1>2, <1>3, <1>4, RenameCalls
<1>8. \A z : z \in Kept(pl) <=> z \in DOMAIN book /\ RouteIn(mounts, z) = {pl}
  BY DEF Kept
<1>9. ~IsLocal[pl] => /\ p \notin taken \ {to}
                      /\ ~(p \in DOMAIN fs /\ (Below(p, from) \/ Below(p, to)))
  BY <1>2, <1>4 DEF Stranded, fs
<1>10. \A z : z \in moved <=> z \in Kept(pl) /\ Within(z, from)
  OBVIOUS
<1> HIDE DEF g, from, to, moved, taken
<1>11. CASE ~Within(p, from) /\ ~Within(p, to)
  <2>1. \A q \in Plugin : SameFile(trees[q], trees'[q], p)
    BY <1>2, <1>7, <1>11 DEF SameFile, fs
  <2>2. p \notin taken
    BY <1>6, <1>11
  <2>3. p \notin Touched(pl, r)
    BY <1>6, <1>11
  <2>4. QED
    BY <1>1, <1>2, <1>6, <2>1, <2>2, <2>3, PathStays
<1>12. CASE Abroad(pl, r) /\ (Within(p, from) \/ Within(p, to))
  BY <1>2, <1>4, <1>12 DEF Honest
<1>13. CASE ~Abroad(pl, r) /\ (Within(p, from) \/ Within(p, to))
  <2>1. \A z : Within(z, from) => Honest(z)
    BY <1>4, <1>5, <1>13 DEF Abroad, from
  <2>2. ASSUME NEW z, IsFile(fs, z), Within(z, from) PROVE z \in moved
    BY <1>2, <1>8, <1>10, <2>1, <2>2 DEF Honest, fs
  <2>3. ASSUME NEW z \in moved PROVE z \in DOMAIN fs /\ IsFile(fs, z) /\ fs[z] = book[z] /\ Within(z, from)
    BY <1>8, <1>10, <2>1 DEF Honest, fs, IsFile
  <2>4. Moves(fs, g, from, to, p)
    <3>1. CASE IsLocal[pl]
      BY <1>7, <3>1
    <3>2. CASE ~IsLocal[pl]
      <4>1. p = to \/ ~\E z \in DOMAIN fs : IsFile(fs, z) /\ Within(z, from) /\ p = Move(z, from, to)
        BY <1>6, <1>9, <2>2, <3>2
      <4>2. QED
        BY <1>7, <1>9, <3>2, <4>1
    <3>3. QED
      BY <3>1, <3>2
  <2>5. CASE p \in taken
    <3>1. PICK z \in moved : p = Move(z, from, to)
      BY <1>6, <2>5
    <3>2. IsFile(g, p) /\ g[p] = book[z] /\ book'[p] = book[z] /\ p \in DOMAIN book'
      BY <1>6, <2>3, <2>4, <2>5, <3>1 DEF Moves
    <3>3. RouteIn(mounts, p) = {pl}
      BY <1>2, <3>2
    <3>4. ASSUME NEW q \in Plugin, IsFile(trees'[q], p), q # pl PROVE FALSE
      BY <1>1, <1>2, <3>3, <3>4 DEF Honest
    <3>5. QED
      BY <1>2, <3>2, <3>3, <3>4 DEF Honest
  <2>6. CASE p \notin taken
    <3>1. ~IsFile(g, p)
      BY <1>6, <1>13, <2>2, <2>4, <2>6 DEF Moves
    <3>2. p \in DOMAIN book' <=> p \in DOMAIN book /\ RouteIn(mounts, p) # {pl}
      BY <1>6, <1>8, <1>13, <2>6
    <3>3. p \in DOMAIN book' => book'[p] = book[p]
      BY <1>6, <2>6
    <3>4. ASSUME NEW q \in Plugin, IsFile(trees'[q], p) PROVE RouteIn(mounts, p) = {q} /\ p \in DOMAIN book'
      <4>1. q # pl /\ IsFile(trees[q], p)
        BY <1>2, <3>1, <3>4
      <4>2. RouteIn(mounts, p) = {q} /\ p \in DOMAIN book
        BY <1>1, <4>1 DEF Honest
      <4>3. QED
        BY <3>2, <4>1, <4>2
    <3>5. ASSUME p \in DOMAIN book'
          PROVE  \E q \in Plugin : RouteIn(mounts, p) = {q} /\ IsFile(trees'[q], p) /\ trees'[q][p] = book'[p]
      BY <1>1, <1>2, <3>2, <3>3, <3>5 DEF Honest
    <3>6. QED
      BY <1>2, <3>4, <3>5 DEF Honest
  <2>7. QED
    BY <2>5, <2>6
<1>14. QED
  BY <1>11, <1>12, <1>13

\* Whatever is asked of a plugin, it keeps its shape.
LEMMA CallShape ==
  ASSUME NEW pl \in Plugin, NEW fs, Shaped(pl, fs), NEW r, Asked(r)
  PROVE  Shaped(pl, Do(pl, fs, r).fs)
<1>1. CASE r.op \in {"create", "write", "append"} \/ (r.op = "stream" /\ IsLocal[pl])
  BY <1>1, PutCalls
<1>2. CASE r.op = "stream" /\ ~IsLocal[pl]
  BY <1>2 DEF Do, MemoryDo, MemStream, Ok
<1>3. CASE r.op \in {"mkdir", "remove"}
  BY <1>3, ClearCalls
<1>4. CASE r.op = "removeAll"
  BY <1>4, RemoveAllCalls
<1>5. CASE r.op = "rename"
  BY <1>5, RenameCalls
<1>6. QED
  BY <1>1, <1>2, <1>3, <1>4, <1>5 DEF Asked

\* The book has texts of clean paths only.
LEMMA BookedTypes ==
  ASSUME Types, NEW pl, NEW r, Asked(r)
  PROVE  \A p \in DOMAIN Booked(pl, r) : Clean(p) /\ Booked(pl, r)[p] \in Text
<1>1. \A p \in DOMAIN book : Clean(p) /\ book[p] \in Text
  BY DEF Types
<1>2. CASE r.op \in {"create", "write", "append", "stream"}
  <2>1. /\ DOMAIN Booked(pl, r) = DOMAIN book \cup {r.path}
        /\ \A p \in DOMAIN book \ {r.path} : Booked(pl, r)[p] = book[p]
        /\ Booked(pl, r)[r.path] = BookText(r)
    BY <1>2, BookedPut
  <2>2. Clean(r.path) /\ (r.op # "create" => r.text \in Text)
    BY <1>2 DEF Asked, Text
  <2>3. BookText(r) \in Text
    <3>1. <<>> \in Text /\ \A s, t \in Text : s \o t \in Text
      BY EmptySeq, ConcatProperties DEF Text
    <3>2. QED
      BY <1>1, <1>2, <2>2, <3>1 DEF BookText
  <2>4. QED
    BY <1>1, <2>1, <2>2, <2>3
<1>3. CASE r.op \in {"mkdir", "remove", "removeAll"}
  <2> DEFINE gone == IF r.op = "removeAll" THEN {p \in Kept(pl) : Within(p, r.path)} ELSE {Resolve(r.path)}
  <2>1. /\ DOMAIN Booked(pl, r) = DOMAIN book \ gone
        /\ \A p \in DOMAIN book \ gone : Booked(pl, r)[p] = book[p]
    BY <1>3, BookedClear
  <2> HIDE DEF gone
  <2>2. QED
    BY <1>1, <2>1
<1>4. CASE r.op = "rename"
  <2> DEFINE moved == {p \in Kept(pl) : Within(p, r.path)}
             taken == DOMAIN Taken(pl, r)
  <2>1. /\ taken = {Move(p, r.path, r.to) : p \in moved}
        /\ DOMAIN Booked(pl, r) = (DOMAIN book \ Touched(pl, r)) \cup taken
        /\ \A p \in moved : /\ Move(p, r.path, r.to) \in taken
                            /\ Booked(pl, r)[Move(p, r.path, r.to)] = book[p]
                            /\ Clean(Move(p, r.path, r.to)) /\ Within(Move(p, r.path, r.to), r.to)
        /\ \A p \in (DOMAIN book \ Touched(pl, r)) \ taken : Booked(pl, r)[p] = book[p]
    BY <1>1, <1>4, BookedMoved
  <2>2. moved \subseteq DOMAIN book
    BY DEF Kept
  <2> HIDE DEF moved, taken
  <2>3. QED
    BY <1>1, <2>1, <2>2
<1>5. QED
  BY <1>2, <1>3, <1>4 DEF Asked

(***************************************************************************)
(* The steps.                                                               *)
(***************************************************************************)
\* A call keeps every path honest that it does not lead astray.
LEMMA PerformInv == ASSUME AgfsInv, NEW c \in Client, Perform(c) PROVE AgfsInv'
<1>1. Types
  BY DEF AgfsInv
<1> DEFINE r == Asking(c)
           pl == Holder(c)
           g == Result(c).fs
<1>2. /\ Asked(r) /\ pl \in Plugin /\ Shaped(pl, trees[pl])
      /\ mounts' = mounts /\ budget' = budget /\ held' = [held EXCEPT ![c] = Idle]
      /\ DOMAIN trees' = Plugin /\ trees'[pl] = g /\ \A q \in Plugin \ {pl} : trees'[q] = trees[q]
      /\ book' = IF Result(c).ok THEN Booked(pl, r) ELSE book
  BY <1>1, PerformFacts
<1>3. g = Do(pl, trees[pl], r).fs
  BY DEF Result
<1> HIDE DEF r, pl, g
<1>4. Types'
  <2>1. \A q \in Plugin : Shaped(q, trees[q])
    BY <1>1 DEF Types
  <2>2. Shaped(pl, g)
    BY <1>2, <1>3, CallShape
  <2>3. \A q \in Plugin : Shaped(q, trees'[q])
    BY <1>2, <2>1, <2>2
  <2>4. held' \in [Client -> {Idle} \cup Holding]
    BY <1>1, <1>2 DEF Types
  <2>5. \A p \in DOMAIN book' : Clean(p) /\ book'[p] \in Text
    <3>1. \A p \in DOMAIN Booked(pl, r) : Clean(p) /\ Booked(pl, r)[p] \in Text
      BY <1>1, <1>2, BookedTypes
    <3>2. \A p \in DOMAIN book : Clean(p) /\ book[p] \in Text
      BY <1>1 DEF Types
    <3>3. QED
      BY <1>2, <3>1, <3>2
  <2>6. QED
    <3>1. \A q \in Plugin : Shaped(q, trees[q])' 
      BY <2>3 DEF Shaped
    <3>2. QED
      BY <1>1, <1>2, <2>3, <2>4, <2>5 DEF Types
<1>5. ASSUME NEW p, p \notin astray' PROVE Honest(p)'
  <2>1. CASE ~Result(c).ok
    BY <1>5, <2>1, FailedStep
  <2>2. CASE Result(c).ok
    <3>1. CASE r.op \in {"create", "write", "append", "stream"}
      BY <1>5, <2>2, <3>1, PutStep DEF r
    <3>2. CASE r.op \in {"mkdir", "remove"}
      BY <1>5, <2>2, <3>2, ClearStep DEF r
    <3>3. CASE r.op = "removeAll"
      BY <1>5, <2>2, <3>3, RemoveAllStep DEF r
    <3>4. CASE r.op = "rename"
      BY <1>5, <2>2, <3>4, RenameStep DEF r
    <3>5. QED
      BY <1>2, <3>1, <3>2, <3>3, <3>4 DEF Asked
  <2>3. QED
    BY <2>1, <2>2
<1>6. QED
  BY <1>4, <1>5 DEF AgfsInv

\* Routing hands out a plugin that is mounted.
LEMMA RouteInv == ASSUME AgfsInv, NEW c \in Client, Route(c) PROVE AgfsInv'
<1>1. Types /\ \A p : p \notin astray => Honest(p)
  BY DEF AgfsInv
<1>2. PICK r \in Request :
        held' = [held EXCEPT ![c] =
                   IF RouteIn(mounts, r.path) = {} THEN Idle
                   ELSE [op |-> "held", request |-> r,
                         plugin |-> CHOOSE pl \in RouteIn(mounts, r.path) : TRUE, seen |-> budget.mounts]]
  BY DEF Route
<1> DEFINE new == IF RouteIn(mounts, r.path) = {} THEN Idle
                  ELSE [op |-> "held", request |-> r,
                        plugin |-> CHOOSE pl \in RouteIn(mounts, r.path) : TRUE, seen |-> budget.mounts]
<1>3. new \in {Idle} \cup Holding
  <2>1. RouteIn(mounts, r.path) \subseteq Plugin /\ budget.mounts \in 0..MaxMounts
    BY <1>1 DEF RouteIn, Serving, Types
  <2>2. QED
    BY <2>1 DEF Holding
<1>4. held' = [held EXCEPT ![c] = new]
  BY <1>2
<1> HIDE DEF new
<1>5. held' \in [Client -> {Idle} \cup Holding]
  BY <1>1, <1>3, <1>4 DEF Types
<1>6. budget' = [budget EXCEPT !.calls = @ + 1] /\ budget.calls < MaxCalls
      /\ mounts' = mounts /\ trees' = trees /\ book' = book /\ astray' = astray
  BY DEF Route
<1>7. budget' \in [calls : 0..MaxCalls, mounts : 0..MaxMounts]
  BY <1>1, <1>6, AgfsAssumption DEF Types
<1>8. Types'
  BY <1>1, <1>5, <1>6, <1>7 DEF Types, Shaped
<1>9. \A p : p \notin astray' => Honest(p)'
  BY <1>1, <1>6 DEF Honest
<1>10. QED
  BY <1>8, <1>9 DEF AgfsInv

\* A change of the mount table leads astray what it routes elsewhere.
LEMMA RemountInv ==
  ASSUME AgfsInv, NEW ms, Remount(ms), \A k \in DOMAIN ms : k \in MountPath /\ ms[k] \in Plugin
  PROVE  AgfsInv'
<1>1. Types /\ \A p : p \notin astray => Honest(p)
  BY DEF AgfsInv
<1> DEFINE all == UNION {Files(trees[pl]) : pl \in Plugin}
<1>2. /\ mounts' = ms /\ trees' = trees /\ held' = held /\ book' = book
      /\ budget.mounts < MaxMounts /\ budget' = [budget EXCEPT !.mounts = @ + 1]
      /\ astray' = astray \cup {p \in DOMAIN book \cup all : RouteIn(ms, p) # RouteIn(mounts, p)}
  BY DEF Remount
<1>3. \A p, q : q \in Plugin /\ IsFile(trees[q], p) => p \in all
  BY DEF Files, IsFile
<1> HIDE DEF all
<1>4. budget' \in [calls : 0..MaxCalls, mounts : 0..MaxMounts]
  BY <1>1, <1>2, AgfsAssumption DEF Types
<1>5. Types'
  BY <1>1, <1>2, <1>4 DEF Types, Shaped
<1>6. ASSUME NEW p, p \notin astray' PROVE Honest(p)'
  <2>1. Honest(p) /\ (p \in DOMAIN book \cup all => RouteIn(mounts', p) = RouteIn(mounts, p))
    BY <1>1, <1>2, <1>6
  <2>2. QED
    BY <1>2, <1>3, <2>1 DEF Honest
<1>7. QED
  BY <1>5, <1>6 DEF AgfsInv

\* Nothing is promised and no file there at the start.
LEMMA InitInv == Init => AgfsInv
<1> SUFFICES ASSUME Init PROVE AgfsInv
  OBVIOUS
<1>1. /\ mounts = Standard /\ trees = [pl \in Plugin |-> IF IsLocal[pl] THEN <<>> ELSE NewMemory]
      /\ held = [c \in Client |-> Idle] /\ budget = [calls |-> 0, mounts |-> 0] /\ book = <<>> /\ astray = {}
  BY DEF Init
<1>2. DOMAIN <<>> = {}
  OBVIOUS
<1>3. \A pl \in Plugin : Shaped(pl, trees[pl]) /\ \A p : ~IsFile(trees[pl], p)
  <2> TAKE pl \in Plugin
  <2>1. CASE IsLocal[pl]
    <3>1. trees[pl] = <<>>
      BY <1>1, <2>1
    <3>2. Table(<<>>)
      BY <1>2 DEF Table
    <3>3. QED
      BY <1>2, <2>1, <3>1, <3>2 DEF Shaped, Tree, IsFile
  <2>2. CASE ~IsLocal[pl]
    <3>1. trees[pl] = NewMemory
      BY <1>1, <2>2
    <3>2. DOMAIN NewMemory = {Root} /\ NewMemory[Root] = Dir /\ Table(NewMemory)
      BY DEF NewMemory, Table
    <3>3. QED
      BY <2>2, <3>1, <3>2 DEF Shaped, IsFile
  <2>3. QED
    BY <2>1, <2>2
<1>4. Types
  <2>1. \A k \in DOMAIN mounts : k \in MountPath /\ mounts[k] \in Plugin
    BY <1>1, AgfsAssumption DEF Range
  <2>2. budget \in [calls : 0..MaxCalls, mounts : 0..MaxMounts]
    BY <1>1, AgfsAssumption
  <2>3. QED
    BY <1>1, <1>2, <1>3, <2>1, <2>2 DEF Types
<1>5. \A p : Honest(p)
  BY <1>1, <1>2, <1>3 DEF Honest
<1>6. QED
  BY <1>4, <1>5 DEF AgfsInv

\* The invariant holds in every state.
THEOREM AlwaysInv == Spec => []AgfsInv
<1>1. AgfsInv /\ [Next]_vars => AgfsInv'
  <2> SUFFICES ASSUME AgfsInv, [Next]_vars PROVE AgfsInv'
    OBVIOUS
  <2>1. CASE \E c \in Client : Route(c) \/ Perform(c)
    BY <2>1, RouteInv, PerformInv
  <2>2. CASE Mount
    <3>1. PICK k \in MountPath, pl \in Plugin : Remount(Set(mounts, {k}, pl))
      BY <2>2 DEF Mount
    <3> DEFINE ms == Set(mounts, {k}, pl)
    <3>2. \A j \in DOMAIN ms : j \in MountPath /\ ms[j] \in Plugin
      BY DEF AgfsInv, Types, Set
    <3> HIDE DEF ms
    <3>3. Remount(ms)
      BY <3>1 DEF ms
    <3>4. QED
      BY <3>2, <3>3, RemountInv
  <2>3. CASE Unmount
    <3>1. PICK k \in DOMAIN mounts : Remount(Prune(mounts, {k}))
      BY <2>3 DEF Unmount
    <3> DEFINE ms == Prune(mounts, {k})
    <3>2. \A j \in DOMAIN ms : j \in MountPath /\ ms[j] \in Plugin
      BY DEF AgfsInv, Types, Prune
    <3> HIDE DEF ms
    <3>3. Remount(ms)
      BY <3>1 DEF ms
    <3>4. QED
      BY <3>2, <3>3, RemountInv
  <2>4. CASE UNCHANGED vars
    BY <2>4 DEF vars, AgfsInv, Types, Honest, Shaped
  <2>5. QED
    BY <2>1, <2>2, <2>3, <2>4 DEF Next
<1>2. QED
  BY InitInv, <1>1, PTL DEF Spec

(***************************************************************************)
(* The properties.                                                          *)
(***************************************************************************)
\* A read of a whole text returns it.
LEMMA SliceWhole == ASSUME NEW text \in Text PROVE Slice(text, 0, 0) = text
<1>1. text \in Seq(STRING) /\ Len(text) \in Nat
  BY LenProperties DEF Text
<1>2. CASE Len(text) = 0
  <2>1. text = <<>>
    BY <1>1, <1>2, EmptySeq
  <2>2. QED
    BY <1>1, <1>2, <2>1 DEF Slice
<1>3. CASE Len(text) # 0
  <2>1. Slice(text, 0, 0) = SubSeq(text, 0 + 1, Len(text))
    BY <1>1, <1>3 DEF Slice
  <2>2. 0 + 1 = 1 /\ SubSeq(text, 1, Len(text)) = text
    BY <1>1, SubSeqFull
  <2>3. QED
    BY <2>1, <2>2
<1>4. QED
  BY <1>2, <1>3

\* Paths in the memory plugin begin with a slash and end in none, and in the
\* local plugin every entry lies in a directory, whatever callers ask for and
\* whatever is mounted meanwhile.
THEOREM AgfsTypes == Spec => []TypeOK
<1>1. AgfsInv => TypeOK
  <2> SUFFICES ASSUME Types PROVE TypeOK
    BY DEF AgfsInv
  <2>1. DOMAIN mounts \subseteq MountPath /\ Range(mounts) \subseteq Plugin
    BY DEF Types, Range
  <2>2. \A c \in Client : held[c] # Idle => held[c].request \in Request /\ held[c].plugin \in Plugin
    BY DEF Types, Holding
  <2>3. \A pl \in Plugin : ~IsLocal[pl] =>
          \A p \in DOMAIN trees[pl] : p[1] = "/" /\ (p # Root => Last(p) # "/")
    <3>1. Root[1] = "/"
      BY DEF Root
    <3>2. QED
      BY <3>1 DEF Types, Shaped, Clean, Last
  <2>4. \A pl \in Plugin : IsLocal[pl] => \A p \in DOMAIN trees[pl] : \A q \in Parents(p) : IsDir(trees[pl], q)
    BY DEF Types, Shaped, Tree
  <2>5. budget.calls <= MaxCalls /\ budget.mounts <= MaxMounts
    BY AgfsAssumption DEF Types
  <2>6. QED
    BY <2>1, <2>2, <2>3, <2>4, <2>5 DEF TypeOK
<1>2. QED
  BY AlwaysInv, <1>1, PTL

\* A text that a call reported written is what a read of its path returns,
\* whatever other callers did since, unless the path went astray.
THEOREM TextsKept == Spec => []Promised
<1>1. AgfsInv => Promised
  <2> SUFFICES ASSUME AgfsInv, NEW p \in DOMAIN book \ astray PROVE ReadThrough(p) = Got(book[p])
    BY DEF Promised
  <2>1. Types /\ Honest(p)
    BY DEF AgfsInv
  <2>2. PICK q \in Plugin : RouteIn(mounts, p) = {q} /\ IsFile(trees[q], p) /\ trees[q][p] = book[p]
    BY <2>1 DEF Honest
  <2>3. Clean(p) /\ book[p] \in Text
    BY <2>1 DEF Types
  <2>4. NormalizePath(p) = p /\ Slice(book[p], 0, 0) = book[p]
    BY <2>3, CleanPath, SliceWhole
  <2>5. (CHOOSE pl \in RouteIn(mounts, p) : TRUE) = q /\ RouteIn(mounts, p) # {}
    BY <2>2
  <2>6. ReadThrough(p) = IF IsLocal[q] THEN FsRead(trees[q], p, 0, 0) ELSE MemRead(trees[q], p, 0, 0)
    BY <2>5 DEF ReadThrough
  <2>7. FsRead(trees[q], p, 0, 0) = Got(book[p]) /\ MemRead(trees[q], p, 0, 0) = Got(book[p])
    BY <2>2, <2>4 DEF FsRead, MemRead
  <2>8. QED
    BY <2>6, <2>7
<1>2. QED
  BY AlwaysInv, <1>1, PTL

(***************************************************************************)
(* Where calls make files.                                                  *)
(***************************************************************************)
\* A call makes a file at its path, or what it moves below its target.
LEMMA NewFiles ==
  ASSUME NEW pl \in Plugin, NEW fs, Shaped(pl, fs), NEW r, Asked(r),
         NEW q, IsFile(Do(pl, fs, r).fs, q), ~IsFile(fs, q)
  PROVE  IF r.op = "rename" THEN Within(q, r.to) ELSE q = r.path
<1> DEFINE result == Do(pl, fs, r)
           g == result.fs
<1>1. ~SameFile(fs, g, q)
  BY DEF SameFile
<1>2. CASE r.op \in {"create", "write", "append"} \/ (r.op = "stream" /\ IsLocal[pl])
  BY <1>1, <1>2, PutCalls DEF Puts
<1>3. CASE r.op = "stream" /\ ~IsLocal[pl]
  BY <1>3 DEF Do, MemoryDo, MemStream, Ok
<1>4. CASE r.op \in {"mkdir", "remove"}
  BY <1>1, <1>4, ClearCalls DEF Clears
<1>5. CASE r.op = "removeAll"
  BY <1>1, <1>5, RemoveAllCalls
<1>6. CASE r.op = "rename"
  <2>1. result.ok
    BY <1>1, <1>6, RenameCalls
  <2>2. Clean(r.path) /\ Clean(r.to) /\ NormalizePath(r.path) = r.path /\ NormalizePath(r.to) = r.to
    BY <1>6, RequestPath DEF Asked
  <2>3. CASE IsLocal[pl]
    <3>1. Moves(fs, g, r.path, r.to, q)
      BY <1>6, <2>1, <2>3, RenameCalls
    <3>2. PICK p \in DOMAIN fs : Within(p, r.path) /\ q = Move(p, r.path, r.to)
      BY <1>1, <3>1 DEF Moves
    <3>3. Clean(p)
      BY <2>3 DEF Shaped
    <3>4. p \in Path /\ r.path \in Path /\ r.to \in Path
      BY <2>2, <3>3, CleanPath
    <3>5. Within(q, r.to)
      BY <3>2, <3>4, MoveBack
    <3>6. QED
      BY <1>6, <3>5
  <2>4. CASE ~IsLocal[pl]
    <3>1. result = MemRename(fs, r.path, r.to)
      BY <1>6, <2>4 DEF Do, MemoryDo
    <3> DEFINE x == fs[r.path]
               rest == Prune(fs, {r.path})
    <3>2. result \in {[ok |-> TRUE, fs |-> Set(rest, {r.to}, x)], [ok |-> FALSE, fs |-> fs]}
      BY <2>2, <3>1 DEF MemRename, Ok, Err
    <3>3. g = Set(rest, {r.to}, x) \/ g = fs
      BY <3>2
    <3>4. q # r.to => ~IsFile(Set(rest, {r.to}, x), q)
      BY DEF Set, Prune, IsFile
    <3>5. q = r.to
      BY <3>3, <3>4
    <3>6. QED
      BY <1>6, <3>5 DEF Within
  <2>5. QED
    BY <2>3, <2>4
<1>7. QED
  BY <1>2, <1>3, <1>4, <1>5, <1>6 DEF Asked

\* No two mounts that serve a path are equally long.
LEMMA OneServes ==
  ASSUME Types, NEW p \in Path
  PROVE  \A k, j \in Serving(mounts, p) : Len(k) = Len(j) => k = j
<1> SUFFICES ASSUME NEW k \in Serving(mounts, p), NEW j \in Serving(mounts, p), Len(k) = Len(j) PROVE k = j
  OBVIOUS
<1>1. k \in Path /\ j \in Path /\ IsPrefix(k, p) /\ IsPrefix(j, p)
  BY AgfsAssumption DEF Serving, Types, Path
<1>2. Len(k) \in Nat /\ Len(j) \in Nat
  BY <1>1, LenProperties DEF Path
<1>3. \A i \in 1..Len(k) : k[i] = j[i]
  BY <1>1, <1>2, PrefixIff DEF Path
<1>4. QED
  BY <1>1, <1>3, SeqEqual DEF Path

\* What a path is routed to, it alone is routed to.
LEMMA RoutesToOne ==
  ASSUME Types, NEW p \in Path, NEW pl \in RouteIn(mounts, p)
  PROVE  RouteIn(mounts, p) = {pl}
<1> DEFINE longest == {j \in Serving(mounts, p) : \A i \in Serving(mounts, p) : Len(i) <= Len(j)}
<1>1. RouteIn(mounts, p) = {mounts[k] : k \in longest}
  BY DEF RouteIn
<1>2. \A k \in Serving(mounts, p) : Len(k) \in Nat
  <2>1. \A k \in Serving(mounts, p) : k \in Path
    BY AgfsAssumption DEF Serving, Types, Path
  <2>2. QED
    BY <2>1, LenProperties DEF Path
<1>3. \A k, j \in longest : Len(k) = Len(j)
  BY <1>2
<1>4. \A k, j \in longest : k = j
  BY <1>3, OneServes
<1> HIDE DEF longest
<1>5. QED
  BY <1>1, <1>4

\* Where nothing is mounted below a path, what is within it is routed alike.
LEMMA RoutedWithin ==
  ASSUME Types, NEW p \in Path, NEW q \in Path, Within(q, p), \A k \in DOMAIN mounts : ~Below(k, p)
  PROVE  RouteIn(mounts, q) = RouteIn(mounts, p)
<1> SUFFICES ASSUME q # p PROVE Serving(mounts, q) = Serving(mounts, p)
  BY DEF RouteIn
<1>1. Len(p) \in Nat /\ Len(q) \in Nat
  BY LenProperties DEF Path
<1>2. Below(q, p)
  BY DEF Within
<1>3. Len(p) < Len(q) /\ q[Len(p) + 1] = "/" /\ \A i \in 1..Len(p) : q[i] = p[i]
  BY <1>2, BelowIff
<1>4. ASSUME NEW k \in DOMAIN mounts PROVE IsPrefix(k, q) <=> IsPrefix(k, p)
  <2>1. k \in Path /\ Len(k) \in Nat
    BY AgfsAssumption, LenProperties DEF Types, Path
  <2>2. IsPrefix(k, q) <=> Len(k) <= Len(q) /\ \A i \in 1..Len(k) : k[i] = q[i]
    BY <2>1, PrefixIff DEF Path
  <2>3. IsPrefix(k, p) <=> Len(k) <= Len(p) /\ \A i \in 1..Len(k) : k[i] = p[i]
    BY <2>1, PrefixIff DEF Path
  <2>4. CASE Len(k) <= Len(p)
    <3>1. \A i \in 1..Len(k) : q[i] = p[i]
      BY <1>1, <1>3, <2>1, <2>4
    <3>2. QED
      BY <1>1, <1>3, <2>1, <2>2, <2>3, <2>4, <3>1
  <2>5. CASE Len(k) > Len(p)
    <3>1. ~IsPrefix(k, p)
      BY <1>1, <2>1, <2>3, <2>5
    <3>2. ASSUME IsPrefix(k, q) PROVE FALSE
      <4>1. \A i \in 1..Len(k) : k[i] = q[i]
        BY <2>2, <3>2
      <4>2. k[Len(p) + 1] = "/" /\ \A i \in 1..Len(p) : k[i] = p[i]
        BY <1>1, <1>3, <2>1, <2>5, <4>1
      <4>3. Below(k, p)
        BY <1>1, <2>1, <2>5, <4>2, BelowIff
      <4>4. QED
        BY <4>3
    <3>3. QED
      BY <3>1, <3>2
  <2>6. QED
    BY <1>1, <2>1, <2>4, <2>5
<1>5. QED
  BY <1>4 DEF Serving

\* A call under which no mounts changed holds the plugin its path is routed to.
Current ==
  \A c \in Client : held[c] # Idle /\ held[c].seen = budget.mounts =>
    RouteIn(mounts, held[c].request.path) = {held[c].plugin}

Routing == AgfsInv /\ Current /\ \A c \in Client : held[c] # Idle => held[c].seen <= budget.mounts

\* Every step keeps calls current or counts a change of the mounts.
LEMMA RoutingStep == ASSUME Routing, AgfsInv', [Next]_vars PROVE Routing'
<1>1. Types
  BY DEF Routing, AgfsInv
<1>2. DOMAIN held = Client /\ budget.mounts \in Nat /\ DOMAIN budget = {"calls", "mounts"}
      /\ \A c \in Client : held[c] # Idle => held[c].seen \in Nat
  BY <1>1, AgfsAssumption DEF Types, Holding
<1>3. ASSUME NEW c \in Client, Route(c) PROVE Routing'
  <2>1. /\ mounts' = mounts /\ budget' = [budget EXCEPT !.calls = @ + 1]
        /\ \E r \in Request :
             held' = [held EXCEPT ![c] =
                        IF RouteIn(mounts, r.path) = {} THEN Idle
                        ELSE [op |-> "held", request |-> r,
                              plugin |-> CHOOSE pl \in RouteIn(mounts, r.path) : TRUE, seen |-> budget.mounts]]
    BY <1>3 DEF Route
  <2>2. PICK r \in Request :
          held' = [held EXCEPT ![c] =
                     IF RouteIn(mounts, r.path) = {} THEN Idle
                     ELSE [op |-> "held", request |-> r,
                           plugin |-> CHOOSE pl \in RouteIn(mounts, r.path) : TRUE, seen |-> budget.mounts]]
    BY <2>1
  <2>3. budget'.mounts = budget.mounts
    BY <1>2, <2>1
  <2> DEFINE pl == CHOOSE pl \in RouteIn(mounts, r.path) : TRUE
             new == IF RouteIn(mounts, r.path) = {} THEN Idle
                    ELSE [op |-> "held", request |-> r, plugin |-> pl, seen |-> budget.mounts]
  <2>4. held'[c] = new /\ \A d \in Client \ {c} : held'[d] = held[d]
    BY <1>2, <2>2
  <2>5. ASSUME new # Idle
        PROVE  new.seen = budget.mounts /\ RouteIn(mounts, new.request.path) = {new.plugin}
    <3>1. RouteIn(mounts, r.path) # {} /\ new = [op |-> "held", request |-> r, plugin |-> pl, seen |-> budget.mounts]
      BY <2>5
    <3>2. pl \in RouteIn(mounts, r.path)
      BY <3>1
    <3>3. r.path \in Path
      BY AgfsAssumption DEF Asked, Path
    <3> HIDE DEF pl
    <3>4. RouteIn(mounts, r.path) = {pl}
      BY <1>1, <3>2, <3>3, RoutesToOne
    <3>5. QED
      BY <3>1, <3>4
  <2> HIDE DEF new
  <2>6. Current'
    BY <2>1, <2>3, <2>4, <2>5 DEF Routing, Current
  <2>7. \A d \in Client : held'[d] # Idle => held'[d].seen <= budget'.mounts
    BY <1>2, <2>3, <2>4, <2>5 DEF Routing
  <2>8. QED
    BY <2>6, <2>7 DEF Routing
<1>4. ASSUME NEW c \in Client, Perform(c) PROVE Routing'
  <2>1. UNCHANGED <<mounts, budget>> /\ held' = [held EXCEPT ![c] = Idle]
    BY <1>4 DEF Perform
  <2>2. QED
    BY <1>2, <2>1 DEF Routing, Current
<1>5. ASSUME NEW ms, Remount(ms) PROVE Routing'
  <2>1. held' = held /\ budget' = [budget EXCEPT !.mounts = @ + 1]
    BY <1>5 DEF Remount
  <2>2. budget'.mounts = budget.mounts + 1
    BY <1>2, <2>1
  <2>3. \A c \in Client : held'[c] # Idle => held'[c].seen <= budget'.mounts /\ held'[c].seen # budget'.mounts
    BY <1>2, <2>1, <2>2 DEF Routing
  <2>4. Current'
    BY <2>3 DEF Current
  <2>5. QED
    BY <2>3, <2>4 DEF Routing
<1>6. CASE UNCHANGED vars
  BY <1>6 DEF vars, Routing, Current
<1>7. QED
  BY <1>3, <1>4, <1>5, <1>6 DEF Next, Mount, Unmount

\* A step of a routed call puts files where reads go.
LEMMA PutWhereRead ==
  ASSUME Routing, [Next]_vars, NEW pl \in Plugin, NEW p \in Files(trees'[pl]) \ Files(trees[pl]),
         RouteIn(mounts, p) # {pl}
  PROVE  \E c \in Client :
           /\ held[c] # Idle /\ held'[c] = Idle /\ held[c].plugin = pl
           /\ held[c].seen # budget.mounts \/ (Crosses(pl, held[c].request) /\ Within(p, held[c].request.to))
<1>1. Types
  BY DEF Routing, AgfsInv
<1>2. PICK c \in Client : Perform(c)
  BY DEF Next, Route, Mount, Unmount, Remount, vars
<1> DEFINE r == Asking(c)
           h == Holder(c)
<1>3. /\ r \in Request /\ Asked(r) /\ h \in Plugin /\ Shaped(h, trees[h])
      /\ held' = [held EXCEPT ![c] = Idle]
      /\ trees'[h] = Result(c).fs /\ \A q \in Plugin \ {h} : trees'[q] = trees[q]
  BY <1>1, <1>2, PerformFacts
<1>4. held[c] # Idle /\ DOMAIN held = Client
  BY <1>1, <1>2 DEF Perform, Types
<1>5. h = pl /\ trees'[pl] = Do(pl, trees[pl], r).fs
  BY <1>3 DEF Result
<1>6. held'[c] = Idle /\ held[c].plugin = pl /\ held[c].request = r
  BY <1>3, <1>4, <1>5 DEF Holder, Asking
<1> HIDE DEF r, h
<1>7. IsFile(Do(pl, trees[pl], r).fs, p) /\ ~IsFile(trees[pl], p)
  BY <1>5 DEF Files, IsFile
<1>8. IF r.op = "rename" THEN Within(p, r.to) ELSE p = r.path
  BY <1>3, <1>5, <1>7, NewFiles
<1>9. CASE held[c].seen # budget.mounts
  BY <1>4, <1>6, <1>9
<1>10. CASE held[c].seen = budget.mounts
  <2>1. RouteIn(mounts, r.path) = {pl}
    BY <1>4, <1>6, <1>10 DEF Routing, Current
  <2>2. r.op = "rename" /\ Within(p, r.to)
    BY <1>8, <2>1
  <2>3. ASSUME ~Crosses(pl, r) PROVE FALSE
    <3>1. RouteIn(mounts, r.to) = {pl} /\ \A k \in DOMAIN mounts : ~Below(k, r.to)
      BY <2>2, <2>3 DEF Crosses
    <3>2. Shaped(pl, Do(pl, trees[pl], r).fs)
      BY <1>3, <1>5, CallShape
    <3>3. Clean(p)
      BY <1>7, <3>2, AgfsAssumption DEF Shaped, IsFile
    <3>4. p \in Path /\ r.to \in Path
      BY <1>3, <2>2, <3>3, CleanPath DEF Asked
    <3>5. RouteIn(mounts, p) = RouteIn(mounts, r.to)
      BY <1>1, <2>2, <3>1, <3>4, RoutedWithin
    <3>6. QED
      BY <3>1, <3>5
  <2>4. QED
    BY <1>4, <1>6, <2>2, <2>3
<1>11. QED
  BY <1>9, <1>10

\* No call makes a file in a plugin in which no read would look for it, except
\* a rename at a target that its own mount does not serve, or not all of, and
\* a call under which the mounts changed after it was routed.
THEOREM FilesReached == Spec => FilesReachable
<1>1. Init => Routing
  <2> SUFFICES ASSUME Init PROVE Routing
    OBVIOUS
  <2>1. \A c \in Client : held[c] = Idle
    BY DEF Init
  <2>2. QED
    BY <2>1, InitInv DEF Routing, Current
<1>2. Routing /\ AgfsInv' /\ [Next]_vars => Routing'
  BY RoutingStep
<1>3. Routing /\ [Next]_vars =>
        [\A pl \in Plugin : \A p \in Files(trees'[pl]) \ Files(trees[pl]) :
           RouteIn(mounts, p) = {pl} \/
           \E c \in Client :
             /\ held[c] # Idle /\ held'[c] = Idle /\ held[c].plugin = pl
             /\ held[c].seen # budget.mounts \/ (Crosses(pl, held[c].request) /\ Within(p, held[c].request.to))]_vars
  BY PutWhereRead
<1>4. QED
  BY <1>1, <1>2, <1>3, AlwaysInv, PTL DEF Spec, FilesReachable

(***************************************************************************)
(* The two plugins on the same tree.                                        *)
(***************************************************************************)
\* A memory plugin that holds the tree of a local one, and its root.
Twin(fs, m) ==
  /\ Root \notin DOMAIN fs /\ DOMAIN m = DOMAIN fs \cup {Root} /\ m[Root] = Dir
  /\ \A p \in DOMAIN fs : m[p] = fs[p]

LocalTree(fs) == Table(fs) /\ Tree(fs, Text) /\ \A p \in DOMAIN fs : Clean(p)

\* The twin there is.
LEMMA TwinOf == ASSUME NEW fs, LocalTree(fs) PROVE Twin(fs, Overlay(fs, NewMemory))
<1>1. Root \notin DOMAIN fs
  BY CleanPath DEF LocalTree
<1>2. DOMAIN NewMemory = {Root} /\ NewMemory[Root] = Dir
  BY DEF NewMemory
<1>3. QED
  BY <1>1, <1>2 DEF Twin, Overlay

\* The same, path by path.
LEMMA TwinSame ==
  ASSUME NEW fs, NEW m, Twin(fs, m), NEW p, p # Root
  PROVE  /\ p \in DOMAIN m <=> p \in DOMAIN fs
         /\ p \in DOMAIN fs => m[p] = fs[p]
         /\ IsFile(m, p) <=> IsFile(fs, p)
         /\ IsDir(m, p) <=> IsDir(fs, p)
  BY DEF Twin, IsFile, IsDir

\* Trees with the same entries are the same.
LEMMA SameEntries ==
  ASSUME NEW g, NEW m, Table(g), Root \notin DOMAIN g, DOMAIN m \ {Root} = DOMAIN g, \A p \in DOMAIN g : m[p] = g[p]
  PROVE  Same(g, m)
<1>1. Prune(m, {Root}) = [p \in DOMAIN g |-> g[p]]
  BY DEF Prune
<1>2. QED
  BY <1>1 DEF Same, Table

\* An entry whose parents are there: no parents to make.
LEMMA NoParents ==
  ASSUME NEW fs, Table(fs), NEW p, \A q \in Parents(p) : IsDir(fs, q)
  PROVE  ~Blocked(fs, p) /\ Parents(p) \ DOMAIN fs = {} /\ WithParents(fs, p) = fs
<1>1. ~Blocked(fs, p) /\ Parents(p) \ DOMAIN fs = {}
  BY DEF Blocked, IsFile, IsDir
<1>2. Set(fs, {}, Dir) = [x \in DOMAIN fs |-> fs[x]]
  BY DEF Set
<1>3. QED
  BY <1>1, <1>2 DEF WithParents, Table

\* The same entry put in both.
LEMMA SamePut ==
  ASSUME NEW fs, NEW m, Twin(fs, m), NEW p, p # Root, NEW x
  PROVE  Same(Set(fs, {p}, x), Set(m, {p}, x))
<1> DEFINE g == Set(fs, {p}, x)
           n == Set(m, {p}, x)
<1>1. DOMAIN g = DOMAIN fs \cup {p} /\ g[p] = x /\ \A q \in DOMAIN fs \ {p} : g[q] = fs[q]
  BY DEF Set
<1>2. DOMAIN n = DOMAIN m \cup {p} /\ n[p] = x /\ \A q \in DOMAIN m \ {p} : n[q] = m[q]
  BY DEF Set
<1>3. Table(g)
  BY Tables
<1> HIDE DEF g, n
<1>4. Root \notin DOMAIN g /\ DOMAIN n \ {Root} = DOMAIN g /\ \A q \in DOMAIN g : n[q] = g[q]
  BY <1>1, <1>2 DEF Twin
<1>5. QED
  BY <1>3, <1>4, SameEntries DEF g, n

\* The same entries taken from both.
LEMMA SamePrune ==
  ASSUME NEW fs, NEW m, Twin(fs, m), NEW ps, NEW qs, \A p \in DOMAIN fs : p \in ps <=> p \in qs
  PROVE  Same(Prune(fs, ps), Prune(m, qs))
<1> DEFINE g == Prune(fs, ps)
           n == Prune(m, qs)
<1>1. DOMAIN g = DOMAIN fs \ ps /\ \A q \in DOMAIN g : g[q] = fs[q]
  BY DEF Prune
<1>2. DOMAIN n = DOMAIN m \ qs /\ \A q \in DOMAIN n : n[q] = m[q]
  BY DEF Prune
<1>3. Table(g)
  BY Tables
<1> HIDE DEF g, n
<1>4. Root \notin DOMAIN g /\ DOMAIN n \ {Root} = DOMAIN g /\ \A q \in DOMAIN g : n[q] = g[q]
  BY <1>1, <1>2 DEF Twin
<1>5. QED
  BY <1>3, <1>4, SameEntries DEF g, n

\* A plugin and its twin are the same.
LEMMA TwinTrees == ASSUME NEW fs, NEW m, Table(fs), Twin(fs, m) PROVE Same(fs, m)
  BY SameEntries DEF Twin

\* What lies below a path lies below a child of it or is one: without
\* children, nothing lies below.
LEMMA Childless ==
  ASSUME NEW fs, LocalTree(fs), NEW d \in Path, Len(d) >= 1, Children(fs, d) = {}
  PROVE  \A q \in DOMAIN fs : ~Below(q, d)
<1> SUFFICES ASSUME NEW z \in DOMAIN fs, Below(z, d) PROVE FALSE
  OBVIOUS
<1> DEFINE S == {Len(q) : q \in {y \in DOMAIN fs : Below(y, d)}}
           R == OpToRel(<, Nat)
<1>1. \A q \in DOMAIN fs : q \in Path /\ Len(q) \in Nat /\ \A y \in Parents(q) : y \in DOMAIN fs
  BY LenProperties DEF LocalTree, Tree, IsDir, Path
<1>2. S \subseteq Nat /\ S # {}
  BY <1>1
<1>3. \E x \in S : \A y \in S : <<y, x>> \notin R
  BY <1>2, NatLessThanWellFounded, WFMin
<1>4. \A x, y \in Nat : y < x => <<y, x>> \in R
  BY DEF OpToRel
<1> HIDE DEF R
<1>5. PICK q \in DOMAIN fs : Below(q, d) /\ \A y \in DOMAIN fs : Below(y, d) => ~(Len(y) < Len(q))
  BY <1>1, <1>3, <1>4
<1>6. Len(d) \in Nat /\ Len(q) \in Nat /\ q \in Path
  BY <1>1, LenProperties DEF Path
<1>7. Len(d) < Len(q) /\ q[Len(d) + 1] = "/" /\ \A i \in 1..Len(d) : q[i] = d[i]
  BY <1>5, <1>6, BelowIff
<1> DEFINE rest == SubSeq(q, Len(d) + 2, Len(q))
<1>8. /\ DOMAIN rest = 1..Len(q) - Len(d) - 1
      /\ \A i \in DOMAIN rest : rest[i] = q[Len(d) + 1 + i]
  <2> DEFINE lo == Len(d) + 2
             n == Len(q)
  <2>1. \A i \in lo..n : q[i] \in STRING
    BY <1>6, ElementOfSeq DEF Path
  <2>2. lo \in Int /\ n \in Int /\ rest = SubSeq(q, lo, n)
    BY <1>6
  <2>3. /\ (IF lo <= n THEN n - lo + 1 ELSE 0) = n - Len(d) - 1 /\ n - lo + 1 = n - Len(d) - 1
        /\ \A i \in 1..n - Len(d) - 1 : lo + i - 1 = Len(d) + 1 + i
    BY <1>6, <1>7
  <2> HIDE DEF rest, lo, n
  <2>4. /\ rest \in Seq(STRING) /\ Len(rest) = IF lo <= n THEN n - lo + 1 ELSE 0
        /\ \A i \in 1..n - lo + 1 : rest[i] = q[lo + i - 1]
    BY <2>1, <2>2, SubSeqProperties
  <2>5. Len(rest) = n - Len(d) - 1 /\ \A i \in 1..n - Len(d) - 1 : rest[i] = q[Len(d) + 1 + i]
    BY <2>3, <2>4
  <2>6. DOMAIN rest = 1..n - Len(d) - 1
    BY <2>4, <2>5, LenProperties
  <2>7. QED
    BY <2>5, <2>6 DEF n
<1>9. "/" \in Range(rest)
  BY <1>5 DEF Children, Rest
<1> HIDE DEF rest
<1>10. PICK k \in DOMAIN rest : rest[k] = "/"
  BY <1>9 DEF Range
<1> DEFINE j == Len(d) + 1 + k
           y == SubSeq(q, 1, j - 1)
<1>11. j \in 2..Len(q) /\ q[j] = "/" /\ j - 1 >= Len(d) + 1
  BY <1>6, <1>8, <1>10
<1>12. y \in Parents(q)
  BY <1>11 DEF Parents
<1>13. y \in DOMAIN fs /\ y \in Path /\ Below(q, y)
  BY <1>1, <1>6, <1>12, ParentsIff
<1>14. Len(y) = j - 1 /\ \A i \in 1..j - 1 : y[i] = q[i]
  <2> HIDE DEF j
  <2>1. \A i \in 1..j - 1 : q[i] \in STRING
    BY <1>6, <1>11, ElementOfSeq DEF Path
  <2>2. j - 1 \in Int /\ 1 \in Int /\ j - 1 - 1 + 1 = j - 1 /\ 1 <= j - 1 /\ \A i \in 1..j - 1 : 1 + i - 1 = i
    BY <1>6, <1>11
  <2>3. QED
    BY <2>1, <2>2, SubSeqProperties
<1> HIDE DEF y
<1>15. Len(d) < Len(y) /\ y[Len(d) + 1] = "/" /\ (\A i \in 1..Len(d) : y[i] = d[i]) /\ Len(y) < Len(q)
  BY <1>6, <1>7, <1>11, <1>14
<1>16. Below(y, d)
  BY <1>13, <1>15, BelowIff
<1>17. QED
  BY <1>5, <1>13, <1>15, <1>16

\* The rename of a file does the same to a tree and its twin.
LEMMA SameRename ==
  ASSUME NEW fs, LocalTree(fs), NEW m, Twin(fs, m), NEW from, NEW to, Clean(from), Clean(to),
         from \in DOMAIN fs => IsFile(fs, from) /\ Fitting(fs, to)
  PROVE  FsRename(fs, from, to).ok = MemRename(m, from, to).ok /\ Same(FsRename(fs, from, to).fs, MemRename(m, from, to).fs)
<1>1. /\ NormalizePath(from) = from /\ NormalizePath(to) = to /\ from # Root /\ to # Root
      /\ from \in Path /\ to \in Path /\ Len(from) >= 1
  BY CleanPath
<1>2. Table(fs) /\ Tree(fs, Text)
  BY DEF LocalTree
<1>3. CASE from \notin DOMAIN fs
  <2>1. FsRename(fs, from, to) = [ok |-> FALSE, fs |-> fs]
    BY <1>3 DEF FsRename, Err
  <2>2. MemRename(m, from, to) = [ok |-> FALSE, fs |-> m]
    BY <1>1, <1>3, TwinSame DEF MemRename, Err
  <2>3. QED
    BY <1>2, <2>1, <2>2, TwinTrees
<1>4. CASE from \in DOMAIN fs
  <2>1. IsFile(fs, from) /\ ~IsDir(fs, to) /\ \A q \in Parents(to) : IsDir(fs, q)
    BY <1>4 DEF Fitting
  <2>2. ~Blocked(fs, to) /\ Parents(to) \ DOMAIN fs = {} /\ WithParents(fs, to) = fs
    BY <1>2, <2>1, NoParents
  <2>3. CanRename(fs, from, to)
    BY <2>1 DEF CanRename
  <2> DEFINE g == Renamed(fs, from, to)
             h == Set(g, {}, Dir)
             n == Set(Prune(m, {from}), {to}, m[from])
  <2>4. FsRename(fs, from, to) = [ok |-> TRUE, fs |-> h]
    BY <1>4, <2>2, <2>3 DEF FsRename, Ok
  <2>5. MemRename(m, from, to) = [ok |-> TRUE, fs |-> n]
    BY <1>1, <1>4, TwinSame DEF MemRename, Ok
  <2>6. \A q \in DOMAIN fs : Within(q, from) => q = from
    <3>1. ASSUME NEW q \in DOMAIN fs, Below(q, from) PROVE FALSE
      <4>1. q \in Path /\ \A y \in Parents(q) : IsDir(fs, y)
        BY <1>2 DEF Tree
      <4>2. from \in Parents(q)
        BY <1>1, <3>1, <4>1, ParentsIff
      <4>3. QED
        BY <2>1, <4>1, <4>2 DEF IsFile, IsDir
    <3>2. QED
      BY <3>1 DEF Within
  <2>7. Move(from, from, to) = to /\ Move(to, to, from) = from /\ Within(from, from)
    BY MoveSelf DEF Within
  <2>8. DOMAIN g = (DOMAIN fs \ {from}) \cup {to} /\ g[to] = fs[from] /\ \A q \in DOMAIN fs \ {from, to} : g[q] = fs[q]
    <3> DEFINE inside == {q \in DOMAIN fs : Within(q, from)}
               moved == {Move(p, from, to) : p \in inside}
               origin(p) == IF p \in moved THEN Move(p, to, from) ELSE p
    <3>1. inside = {from}
      BY <1>4, <2>6, <2>7
    <3>2. g = [p \in {q \in DOMAIN fs : ~Within(q, from)} \cup moved |-> fs[origin(p)]]
      BY DEF Renamed, Move
    <3>3. {q \in DOMAIN fs : ~Within(q, from)} = DOMAIN fs \ {from}
      BY <2>6, <2>7
    <3> HIDE DEF g, inside
    <3>4. moved = {to}
      BY <2>7, <3>1
    <3> HIDE DEF moved
    <3>5. QED
      BY <2>7, <3>2, <3>3, <3>4
  <2> HIDE DEF g
  <2>9. DOMAIN h = DOMAIN g /\ (\A q \in DOMAIN g : h[q] = g[q]) /\ Table(h)
    <3>1. Table(h)
      BY Tables
    <3>2. h = [q \in DOMAIN g |-> g[q]]
      BY DEF Set
    <3> HIDE DEF h
    <3>3. QED
      BY <3>1, <3>2
  <2>10. /\ DOMAIN n = (DOMAIN m \ {from}) \cup {to} /\ n[to] = m[from]
         /\ \A q \in DOMAIN m \ {from, to} : n[q] = m[q]
    BY DEF Set, Prune
  <2> HIDE DEF h, n
  <2>11. Root \notin DOMAIN h /\ DOMAIN n \ {Root} = DOMAIN h /\ \A q \in DOMAIN h : n[q] = h[q]
    BY <1>1, <1>4, <2>8, <2>9, <2>10 DEF Twin
  <2>12. Same(h, n)
    BY <2>9, <2>11, SameEntries
  <2>13. QED
    BY <2>4, <2>5, <2>12
<1>5. QED
  BY <1>3, <1>4

\* Every plain request does the same to a tree and its twin.
LEMMA SameCalls ==
  ASSUME NEW fs, LocalTree(fs), NEW m, Twin(fs, m), NEW r, Asked(r), Plain(fs, r)
  PROVE  LocalDo(fs, r).ok = MemoryDo(m, r).ok /\ Same(LocalDo(fs, r).fs, MemoryDo(m, r).fs)
<1> DEFINE p == Resolve(r.path)
<1>1. /\ Clean(p) /\ NormalizePath(r.path) = p
      /\ r.op = "rename" => r.path = p /\ Resolve(r.to) = r.to /\ Clean(r.to)
      /\ r.op \in {"append", "removeAll", "remove"} => r.path = p
  BY RequestPath DEF Asked
<1>2. p \in Path /\ Len(p) >= 1 /\ p # Root /\ Table(fs)
  BY <1>1, CleanPath DEF LocalTree
<1> HIDE DEF p
<1>3. /\ p \in DOMAIN m <=> p \in DOMAIN fs
      /\ p \in DOMAIN fs => m[p] = fs[p]
      /\ IsFile(m, p) <=> IsFile(fs, p)
  BY <1>2, TwinSame
<1>4. \A x : Same(Set(fs, {p}, x), Set(m, {p}, x))
  BY <1>2, SamePut
<1>5. ASSUME NEW text, ~IsDir(fs, p), \A q \in Parents(p) : IsDir(fs, q)
      PROVE  FsWrite(fs, p, text) = [ok |-> TRUE, fs |-> Set(fs, {p}, text)]
  <2>1. ~Blocked(fs, p) /\ WithParents(fs, p) = fs
    BY <1>2, <1>5, NoParents
  <2>2. QED
    BY <1>5, <2>1 DEF FsWrite, Ok
<1>6. r.op \in {"create", "write", "append"} => ~IsDir(fs, p) /\ \A q \in Parents(p) : IsDir(fs, q)
  BY DEF Plain, Fitting, p
<1>7. CASE r.op = "create"
  <2>1. LocalDo(fs, r) = [ok |-> TRUE, fs |-> Set(fs, {p}, <<>>)]
    BY <1>5, <1>6, <1>7 DEF LocalDo, FsCreate, p
  <2>2. MemoryDo(m, r) = [ok |-> TRUE, fs |-> Set(m, {p}, <<>>)]
    BY <1>1, <1>7 DEF MemoryDo, MemCreate, Ok
  <2>3. Same(Set(fs, {p}, <<>>), Set(m, {p}, <<>>))
    BY <1>4
  <2>4. QED
    BY <2>1, <2>2, <2>3
<1>8. CASE r.op = "write"
  <2>1. LocalDo(fs, r) = [ok |-> TRUE, fs |-> Set(fs, {p}, r.text)]
    BY <1>5, <1>6, <1>8 DEF LocalDo, p
  <2>2. MemoryDo(m, r) = [ok |-> TRUE, fs |-> Set(m, {p}, r.text)]
    BY <1>1, <1>8 DEF MemoryDo, MemWrite, Ok
  <2>3. QED
    BY <1>4, <2>1, <2>2
<1>9. CASE r.op = "append"
  <2> DEFINE text == IF IsFile(fs, p) THEN fs[p] \o r.text ELSE r.text
  <2>1. LocalDo(fs, r) = [ok |-> TRUE, fs |-> Set(fs, {p}, text)]
    BY <1>5, <1>6, <1>9 DEF LocalDo, FsAppend, p
  <2>2. (IF IsFile(m, p) THEN m[p] \o r.text ELSE r.text) = text
    BY <1>3 DEF IsFile
  <2>3. MemoryDo(m, r) = [ok |-> TRUE, fs |-> Set(m, {p}, text)]
    BY <1>1, <1>9, <2>2 DEF MemoryDo, MemAppend, Ok
  <2>4. QED
    BY <1>4, <2>1, <2>3
<1>10. CASE r.op = "mkdir"
  <2>1. ~IsFile(fs, p) /\ \A q \in Parents(p) : IsDir(fs, q)
    BY <1>10 DEF Plain, p
  <2>2. ~Blocked(fs, p) /\ WithParents(fs, p) = fs
    BY <1>2, <2>1, NoParents
  <2>3. LocalDo(fs, r) = [ok |-> TRUE, fs |-> Set(fs, {p}, Dir)]
    BY <1>10, <2>1, <2>2 DEF LocalDo, FsMkdir, Ok, p
  <2>4. MemoryDo(m, r) = [ok |-> TRUE, fs |-> Set(m, {p}, Dir)]
    BY <1>1, <1>10 DEF MemoryDo, MemMkdir, Ok
  <2>5. QED
    BY <1>4, <2>3, <2>4
<1>11. CASE r.op = "remove"
  <2>1. Children(fs, p) = {}
    BY <1>11 DEF Plain, p
  <2>2. \A q \in DOMAIN fs : ~Below(q, p)
    BY <1>2, <2>1, Childless
  <2>3. LocalDo(fs, r) = FsRemove(fs, p) /\ MemoryDo(m, r) = MemRemove(m, r.path)
    BY <1>11 DEF LocalDo, MemoryDo, p
  <2>4. CASE p \in DOMAIN fs
    <3>1. LocalDo(fs, r) = [ok |-> TRUE, fs |-> Prune(fs, {p})]
      BY <2>2, <2>3, <2>4 DEF FsRemove, Ok
    <3>2. MemoryDo(m, r) = [ok |-> TRUE, fs |-> Prune(m, {p})]
      BY <1>1, <1>3, <2>3, <2>4 DEF MemRemove, Ok
    <3>3. Same(Prune(fs, {p}), Prune(m, {p}))
      BY SamePrune
    <3>4. QED
      BY <3>1, <3>2, <3>3
  <2>5. CASE p \notin DOMAIN fs
    <3>1. LocalDo(fs, r) = [ok |-> FALSE, fs |-> fs]
      BY <2>3, <2>5 DEF FsRemove, Err
    <3>2. MemoryDo(m, r) = [ok |-> FALSE, fs |-> m]
      BY <1>1, <1>3, <2>3, <2>5 DEF MemRemove, Err
    <3>3. QED
      BY <1>2, <3>1, <3>2, TwinTrees
  <2>6. QED
    BY <2>4, <2>5
<1>12. CASE r.op = "removeAll"
  <2> DEFINE ps == {q \in DOMAIN fs : Within(q, p)}
             qs == {q \in DOMAIN m : Within(q, p)}
  <2>1. LocalDo(fs, r) = [ok |-> TRUE, fs |-> Prune(fs, ps)]
    BY <1>12 DEF LocalDo, FsRemoveAll, Ok, p
  <2>2. MemoryDo(m, r) = [ok |-> TRUE, fs |-> Prune(m, qs)]
    BY <1>1, <1>12 DEF MemoryDo, MemRemoveAll, Ok
  <2>3. \A q \in DOMAIN fs : q \in ps <=> q \in qs
    BY DEF Twin
  <2> HIDE DEF ps, qs
  <2>4. Same(Prune(fs, ps), Prune(m, qs))
    BY <2>3, SamePrune
  <2>5. QED
    BY <2>1, <2>2, <2>4
<1>13. CASE r.op = "rename"
  <2>1. LocalDo(fs, r) = FsRename(fs, p, r.to) /\ MemoryDo(m, r) = MemRename(m, p, r.to)
    BY <1>1, <1>13 DEF LocalDo, MemoryDo, p
  <2>2. p \in DOMAIN fs => IsFile(fs, p) /\ Fitting(fs, r.to)
    BY <1>13 DEF Plain, p
  <2>3. QED
    BY <1>1, <1>13, <2>1, <2>2, SameRename
<1>14. r.op # "stream"
  BY DEF Plain
<1>15. QED
  BY <1>7, <1>8, <1>9, <1>10, <1>11, <1>12, <1>13, <1>14 DEF Asked

\* A tree and its twin show the same.
LEMMA SameReads ==
  ASSUME NEW fs, LocalTree(fs), NEW m, Twin(fs, m), NEW p, Clean(Resolve(p)), NormalizePath(p) = Resolve(p)
  PROVE  /\ FsReadDir(fs, Resolve(p)) = MemReadDir(m, p)
         /\ FsStat(fs, Resolve(p)) = MemStat(m, p)
         /\ FsRead(fs, Resolve(p), 1, 1) = MemRead(m, p, 1, 1)
         /\ IsFile(fs, p) => FsSize(fs, p) = MemSize(m, p)
<1> DEFINE t == Resolve(p)
<1>1. t # Root /\ t \in Path /\ Clean(t)
  BY CleanPath
<1>2. NormalizePath(p) = t /\ (IsFile(fs, p) => t = p)
  BY CleanPath DEF LocalTree, IsFile
<1> HIDE DEF t
<1>3. /\ t \in DOMAIN m <=> t \in DOMAIN fs
      /\ t \in DOMAIN fs => m[t] = fs[t]
      /\ IsFile(m, t) <=> IsFile(fs, t)
      /\ IsDir(m, t) <=> IsDir(fs, t)
  BY <1>1, TwinSame
<1>4. FsReadDir(fs, t) = MemReadDir(m, p)
  <2> DEFINE n == Prune(m, {t})
  <2>1. Children(fs, t) = Children(n, t)
    <3>1. DOMAIN n = DOMAIN m \ {t}
      BY DEF Prune
    <3>2. ~Below(t, t) /\ ~Below(Root, t)
      <4>1. ~Below(t, t)
        BY <1>1, NotBelowItself
      <4>2. ~Below(Root, t)
        <5> DEFINE S == STRING \cup {"/"}
        <5>1. t \in Seq(S) /\ Root \in Seq(S) /\ Len(Root) = 1
          BY <1>1, SeqMonotonic, STRING \subseteq S DEF Path, Root
        <5>2. Append(t, "/") \in Seq(S) /\ Len(Append(t, "/")) = Len(t) + 1 /\ Len(t) \in Nat /\ Len(t) > 1
          BY <1>1, <5>1, AppendProperties, LenProperties DEF Clean
        <5>3. IsPrefix(Append(t, "/"), Root) => Len(Append(t, "/")) <= Len(Root)
          BY <5>1, <5>2, PrefixIff
        <5>4. QED
          BY <5>1, <5>2, <5>3 DEF Below
      <4>3. QED
        BY <4>1, <4>2
    <3>3. DOMAIN m = DOMAIN fs \cup {Root}
      BY DEF Twin
    <3> HIDE DEF n
    <3>4. \A q : q \in DOMAIN n /\ Below(q, t) <=> q \in DOMAIN fs /\ Below(q, t)
      BY <3>1, <3>2, <3>3
    <3>5. QED
      BY <3>4 DEF Children
  <2>2. \A q \in Children(fs, t) : IsDir(n, q) = IsDir(fs, q)
    <3>1. \A q \in Children(fs, t) : q \in DOMAIN fs /\ q # t
      BY <1>1, NotBelowItself DEF Children
    <3>2. QED
      BY <3>1 DEF Twin, Prune, IsDir
  <2> HIDE DEF n
  <2>3. Listing(n, t) = Listing(fs, t)
    BY <2>1, <2>2 DEF Listing
  <2>4. QED
    BY <1>1, <1>2, <1>3, <2>3 DEF FsReadDir, MemReadDir, n
<1>5. FsStat(fs, t) = MemStat(m, p)
  <2>1. IsDir(fs, t) = IsDir(m, t)
    BY <1>3 DEF IsDir
  <2>2. QED
    BY <1>2, <1>3, <2>1 DEF FsStat, MemStat
<1>6. FsRead(fs, t, 1, 1) = MemRead(m, p, 1, 1)
  BY <1>2, <1>3 DEF FsRead, MemRead, IsFile
<1>7. IsFile(fs, p) => FsSize(fs, p) = MemSize(m, p)
  BY <1>2, <1>3 DEF FsSize, MemSize, IsFile
<1>8. QED
  BY <1>4, <1>5, <1>6, <1>7 DEF t

\* On any tree a local plugin has come to hold, a memory plugin that held the
\* same tree would do and answer the same for every plain request, and show
\* the same files.
THEOREM SamePlugins == Spec => []PluginsAgree
<1>1. AgfsInv => PluginsAgree
  <2> SUFFICES ASSUME AgfsInv, NEW pl \in Plugin, IsLocal[pl]
               PROVE  LET fs == trees[pl]
                          memory == Overlay(fs, NewMemory)
                      IN /\ \A r \in Request : Plain(fs, r) =>
                              LET a == LocalDo(fs, r)
                                  b == MemoryDo(memory, r)
                              IN a.ok = b.ok /\ Same(a.fs, b.fs)
                         /\ \A p \in DOMAIN fs \cup {r.path : r \in Request} :
                              /\ FsReadDir(fs, Resolve(p)) = MemReadDir(memory, p)
                              /\ FsStat(fs, Resolve(p)) = MemStat(memory, p)
                              /\ FsRead(fs, Resolve(p), 1, 1) = MemRead(memory, p, 1, 1)
                              /\ IsFile(fs, p) => FsSize(fs, p) = MemSize(memory, p)
    BY DEF PluginsAgree
  <2> DEFINE fs == trees[pl]
             memory == Overlay(fs, NewMemory)
  <2>1. LocalTree(fs)
    BY DEF AgfsInv, Types, Shaped, LocalTree
  <2> HIDE DEF fs
  <2>2. Twin(fs, memory)
    BY <2>1, TwinOf
  <2> HIDE DEF memory
  <2>3. \A r \in Request : Plain(fs, r) =>
          LocalDo(fs, r).ok = MemoryDo(memory, r).ok /\ Same(LocalDo(fs, r).fs, MemoryDo(memory, r).fs)
    BY <2>1, <2>2, SameCalls, AgfsAssumption
  <2>4. ASSUME NEW p \in DOMAIN fs \cup {r.path : r \in Request}
        PROVE  /\ FsReadDir(fs, Resolve(p)) = MemReadDir(memory, p)
               /\ FsStat(fs, Resolve(p)) = MemStat(memory, p)
               /\ FsRead(fs, Resolve(p), 1, 1) = MemRead(memory, p, 1, 1)
               /\ IsFile(fs, p) => FsSize(fs, p) = MemSize(memory, p)
    <3>1. Clean(Resolve(p)) /\ NormalizePath(p) = Resolve(p)
      <4>1. CASE p \in DOMAIN fs
        BY <2>1, <4>1, CleanPath DEF LocalTree
      <4>2. CASE \E r \in Request : p = r.path
        BY <4>2, RequestPath, AgfsAssumption
      <4>3. QED
        BY <4>1, <4>2
    <3>2. QED
      BY <2>1, <2>2, <3>1, SameReads
  <2>5. QED
    BY <2>3, <2>4 DEF memory, fs
<1>2. QED
  BY AlwaysInv, <1>1, PTL
=============================================================================
