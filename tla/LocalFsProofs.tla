--------------------------- MODULE LocalFsProofs ---------------------------
(***************************************************************************)
(* Paths, and what the calls of LocalFs keep of a tree: every file and      *)
(* directory is reached through directories.                                *)
(***************************************************************************)
EXTENDS LocalFs, SequenceTheorems, WellFoundedInduction, TLAPS

Path == Seq(STRING)

\* A prefix, element by element.
LEMMA PrefixIff ==
  ASSUME NEW S, NEW s \in Seq(S), NEW t \in Seq(S)
  PROVE  IsPrefix(s, t) <=> Len(s) <= Len(t) /\ \A i \in 1..Len(s) : s[i] = t[i]
<1>1. Len(s) \in Nat /\ Len(t) \in Nat
  BY LenProperties
<1>2. SubSeq(s, 1, Len(s)) = s
  BY SubSeqFull
<1>3. ASSUME Len(s) <= Len(t)
      PROVE  /\ SubSeq(t, 1, Len(s)) \in Seq(S) /\ Len(SubSeq(t, 1, Len(s))) = Len(s)
             /\ \A i \in 1..Len(s) : SubSeq(t, 1, Len(s))[i] = t[i]
  <2>1. \A i \in 1..Len(s) : t[i] \in S
    BY <1>1, <1>3, ElementOfSeq
  <2>2. QED
    BY <1>1, <2>1, SubSeqProperties
<1>4. ASSUME Len(s) <= Len(t), \A i \in 1..Len(s) : s[i] = t[i]
      PROVE  s = SubSeq(t, 1, Len(s))
  BY <1>1, <1>3, <1>4, SeqEqual
<1>5. QED
  BY <1>1, <1>2, <1>3, <1>4 DEF IsPrefix

\* What lies below a path, element by element.
LEMMA BelowIff ==
  ASSUME NEW p \in Path, NEW d \in Path
  PROVE  Below(p, d) <=> /\ Len(d) < Len(p) /\ p[Len(d) + 1] = "/"
                         /\ \A i \in 1..Len(d) : p[i] = d[i]
<1>1. Len(d) \in Nat /\ Len(p) \in Nat
  BY LenProperties DEF Path
<1> DEFINE S == STRING \cup {"/"}
<1>2. /\ Append(d, "/") \in Seq(S) /\ Len(Append(d, "/")) = Len(d) + 1
      /\ Append(d, "/")[Len(d) + 1] = "/"
      /\ \A i \in 1..Len(d) : Append(d, "/")[i] = d[i]
  <2>1. d \in Seq(S) /\ "/" \in S
    BY SeqMonotonic, STRING \subseteq S DEF Path
  <2> HIDE DEF S
  <2>2. QED
    BY <2>1, <1>1, AppendProperties
<1> DEFINE e == Append(d, "/")
<1>3. IsPrefix(e, p) <=> Len(e) <= Len(p) /\ \A i \in 1..Len(e) : e[i] = p[i]
  <2>1. p \in Seq(S)
    BY SeqMonotonic, STRING \subseteq S DEF Path
  <2> HIDE DEF S, e
  <2>2. e \in Seq(S)
    BY <1>2 DEF e
  <2>3. QED
    BY <2>1, <2>2, PrefixIff
<1>4. (\A i \in 1..Len(d) + 1 : e[i] = p[i]) <=> p[Len(d) + 1] = "/" /\ \A i \in 1..Len(d) : p[i] = d[i]
  <2> HIDE DEF e
  <2>1. \A i : i \in 1..Len(d) + 1 <=> i = Len(d) + 1 \/ i \in 1..Len(d)
    BY <1>1
  <2>2. e[Len(d) + 1] = "/" /\ \A i \in 1..Len(d) : e[i] = d[i]
    BY <1>2 DEF e
  <2>3. QED
    BY <2>1, <2>2
<1>5. QED
  <2>1. Len(e) = Len(d) + 1
    BY <1>2
  <2>2. Below(p, d) <=> IsPrefix(e, p)
    BY DEF Below
  <2> HIDE DEF e
  <2>3. QED
    BY <2>1, <2>2, <1>1, <1>3, <1>4

\* A path's parents are what it lies below.
LEMMA ParentsIff ==
  ASSUME NEW p \in Path, NEW q
  PROVE  q \in Parents(p) <=> q \in Path /\ Len(q) >= 1 /\ Below(p, q)
<1>1. Len(p) \in Nat
  BY LenProperties DEF Path
<1>2. \A j \in 2..Len(p) : /\ SubSeq(p, 1, j - 1) \in Path /\ Len(SubSeq(p, 1, j - 1)) = j - 1
                          /\ \A i \in 1..j - 1 : SubSeq(p, 1, j - 1)[i] = p[i]
  <2> TAKE j \in 2..Len(p)
  <2>1. \A i \in 1..j - 1 : p[i] \in STRING
    BY <1>1, ElementOfSeq DEF Path
  <2>2. j - 1 \in Int /\ 1 \in Int /\ j - 1 - 1 + 1 = j - 1 /\ 1 <= j - 1 /\ \A i \in 1..j - 1 : 1 + i - 1 = i
    BY <1>1
  <2>3. QED
    BY <2>1, <2>2, SubSeqProperties DEF Path
<1>3. ASSUME q \in Parents(p) PROVE q \in Path /\ Len(q) >= 1 /\ Below(p, q)
  <2>1. PICK j \in 2..Len(p) : p[j] = "/" /\ q = SubSeq(p, 1, j - 1)
    BY <1>3 DEF Parents
  <2>2. q \in Path /\ Len(q) = j - 1 /\ \A i \in 1..j - 1 : q[i] = p[i]
    BY <2>1, <1>2
  <2>3. QED
    <3>1. Len(q) + 1 = j /\ Len(q) < Len(p) /\ Len(q) >= 1
      BY <2>1, <2>2, <1>1
    <3>2. p[Len(q) + 1] = "/" /\ \A i \in 1..Len(q) : p[i] = q[i]
      BY <2>1, <2>2, <3>1
    <3>3. QED
      BY <2>2, <3>1, <3>2, BelowIff
<1>4. ASSUME q \in Path, Len(q) >= 1, Below(p, q) PROVE q \in Parents(p)
  <2>1. Len(q) \in Nat
    BY <1>4, LenProperties DEF Path
  <2>2. Len(q) < Len(p) /\ p[Len(q) + 1] = "/" /\ \A i \in 1..Len(q) : p[i] = q[i]
    BY <1>4, BelowIff
  <2> DEFINE j == Len(q) + 1
  <2>3. j \in 2..Len(p) /\ p[j] = "/" /\ j - 1 = Len(q)
    BY <1>1, <1>4, <2>1, <2>2
  <2>4. q = SubSeq(p, 1, j - 1)
    BY <1>2, <2>3, <2>2, <1>4, SeqEqual DEF Path
  <2>5. QED
    BY <2>3, <2>4 DEF Parents
<1>5. QED
  BY <1>3, <1>4

\* What lies below something below a path lies below the path.
LEMMA BelowTransitive ==
  ASSUME NEW p \in Path, NEW q \in Path, NEW d \in Path, Below(p, q), Below(q, d)
  PROVE  Below(p, d)
<1>1. Len(p) \in Nat /\ Len(q) \in Nat /\ Len(d) \in Nat
  BY LenProperties DEF Path
<1>2. Len(d) < Len(q) /\ q[Len(d) + 1] = "/" /\ \A i \in 1..Len(d) : q[i] = d[i]
  BY BelowIff
<1>3. Len(q) < Len(p) /\ p[Len(q) + 1] = "/" /\ \A i \in 1..Len(q) : p[i] = q[i]
  BY BelowIff
<1>4. QED
  BY <1>1, <1>2, <1>3, BelowIff

\* Two paths that one path lies below are below each other.
LEMMA BelowBoth ==
  ASSUME NEW p \in Path, NEW q \in Path, NEW d \in Path, Below(p, q), Below(p, d)
  PROVE  q = d \/ Below(q, d) \/ Below(d, q)
<1>1. Len(p) \in Nat /\ Len(q) \in Nat /\ Len(d) \in Nat
  BY LenProperties DEF Path
<1>2. Len(d) < Len(p) /\ p[Len(d) + 1] = "/" /\ \A i \in 1..Len(d) : p[i] = d[i]
  BY BelowIff
<1>3. Len(q) < Len(p) /\ p[Len(q) + 1] = "/" /\ \A i \in 1..Len(q) : p[i] = q[i]
  BY BelowIff
<1>4. CASE Len(q) = Len(d)
  BY <1>1, <1>2, <1>3, <1>4, SeqEqual DEF Path
<1>5. CASE Len(q) < Len(d)
  BY <1>1, <1>2, <1>3, <1>5, BelowIff
<1>6. CASE Len(q) > Len(d)
  BY <1>1, <1>2, <1>3, <1>6, BelowIff
<1>7. QED
  BY <1>1, <1>4, <1>5, <1>6

\* Nothing lies below itself.
LEMMA NotBelowItself == ASSUME NEW p \in Path PROVE ~Below(p, p)
  BY LenProperties, BelowIff DEF Path

\* A nonempty set of positions has a last one.
LEMMA MaxExists ==
  ASSUME NEW n \in Nat, NEW S \in SUBSET (1..n), S # {}
  PROVE  Max(S) \in S /\ \A j \in S : j <= Max(S)
<1> DEFINE T == {n - j : j \in S}
           R == OpToRel(<, Nat)
<1>1. T \subseteq Nat /\ T # {}
  OBVIOUS
<1>2. \E x \in T : \A y \in T : <<y, x>> \notin R
  BY <1>1, NatLessThanWellFounded, WFMin
<1>3. \A x, y \in Nat : y < x => <<y, x>> \in R
  BY DEF OpToRel
<1>4. \E x \in T : \A y \in T : y >= x
  <2>1. PICK x \in T : \A y \in T : <<y, x>> \notin R
    BY <1>2
  <2> HIDE DEF T, R
  <2>2. \A y \in T : ~(y < x)
    BY <1>1, <1>3, <2>1
  <2>3. QED
    BY <1>1, <2>2
<1>5. \E k \in S : \A j \in S : k >= j
  BY <1>4
<1>6. QED
  BY <1>5 DEF Max
\* A path taken from under one path to under another.
Move(p, from, to) == to \o SubSeq(p, Len(from) + 1, Len(p))

\* A moved path, element by element.
LEMMA Moved ==
  ASSUME NEW p \in Path, NEW from \in Path, NEW to \in Path, Len(from) <= Len(p)
  PROVE  /\ Move(p, from, to) \in Path
         /\ Len(Move(p, from, to)) = Len(to) + (Len(p) - Len(from))
         /\ \A i \in 1..Len(to) : Move(p, from, to)[i] = to[i]
         /\ \A i \in 1..Len(p) - Len(from) : Move(p, from, to)[Len(to) + i] = p[Len(from) + i]
<1>1. Len(p) \in Nat /\ Len(from) \in Nat /\ Len(to) \in Nat
  BY LenProperties DEF Path
<1> DEFINE r == SubSeq(p, Len(from) + 1, Len(p))
<1>2. r \in Path /\ Len(r) = Len(p) - Len(from) /\ \A i \in 1..Len(p) - Len(from) : r[i] = p[Len(from) + i]
  <2>1. \A i \in Len(from) + 1..Len(p) : p[i] \in STRING
    BY <1>1, ElementOfSeq DEF Path
  <2>2. /\ Len(p) - (Len(from) + 1) + 1 = Len(p) - Len(from)
        /\ (IF Len(from) + 1 <= Len(p) THEN Len(p) - (Len(from) + 1) + 1 ELSE 0) = Len(p) - Len(from)
        /\ \A i \in 1..Len(p) - Len(from) : (Len(from) + 1) + i - 1 = Len(from) + i
    BY <1>1
  <2>3. r \in Seq(STRING) /\ Len(r) = Len(p) - Len(from)
        /\ \A i \in 1..Len(p) - Len(from) : r[i] = p[(Len(from) + 1) + i - 1]
    BY <1>1, <2>1, <2>2, SubSeqProperties
  <2> HIDE DEF r
  <2>4. QED
    BY <2>2, <2>3 DEF Path
<1> HIDE DEF r
<1>3. /\ to \o r \in Path /\ Len(to \o r) = Len(to) + Len(r)
      /\ \A i \in 1..Len(to) + Len(r) : (to \o r)[i] = IF i <= Len(to) THEN to[i] ELSE r[i - Len(to)]
  BY <1>2, ConcatProperties DEF Path
<1>4. \A i \in 1..Len(to) : (to \o r)[i] = to[i]
  BY <1>1, <1>2, <1>3
<1>5. \A i \in 1..Len(p) - Len(from) : (to \o r)[Len(to) + i] = p[Len(from) + i]
  <2> TAKE i \in 1..Len(p) - Len(from)
  <2>1. Len(to) + i \in 1..Len(to) + Len(r) /\ ~(Len(to) + i <= Len(to)) /\ Len(to) + i - Len(to) = i
    BY <1>1, <1>2
  <2>2. QED
    BY <1>2, <1>3, <2>1
<1>6. QED
  BY <1>2, <1>3, <1>4, <1>5 DEF Move, r

\* Within a path, element by element.
LEMMA WithinIff ==
  ASSUME NEW p \in Path, NEW d \in Path
  PROVE  Within(p, d) <=> /\ Len(d) <= Len(p) /\ (Len(d) = Len(p) \/ p[Len(d) + 1] = "/")
                          /\ \A i \in 1..Len(d) : p[i] = d[i]
<1>1. Len(d) \in Nat /\ Len(p) \in Nat
  BY LenProperties DEF Path
<1>2. Len(d) = Len(p) /\ (\A i \in 1..Len(d) : p[i] = d[i]) => p = d
  BY SeqEqual DEF Path
<1>3. QED
  BY <1>1, <1>2, BelowIff DEF Within

\* What is moved out of a path is in the other, and moved back is as before.
LEMMA MoveBack ==
  ASSUME NEW p \in Path, NEW from \in Path, NEW to \in Path, Within(p, from)
  PROVE  /\ Move(p, from, to) \in Path
         /\ Within(Move(p, from, to), to)
         /\ Move(Move(p, from, to), to, from) = p
<1>1. Len(p) \in Nat /\ Len(from) \in Nat /\ Len(to) \in Nat
  BY LenProperties DEF Path
<1>2. /\ Len(from) <= Len(p) /\ (Len(from) = Len(p) \/ p[Len(from) + 1] = "/")
      /\ \A i \in 1..Len(from) : p[i] = from[i]
  BY WithinIff
<1> DEFINE m == Move(p, from, to)
           b == Move(m, to, from)
<1>3. /\ m \in Path /\ Len(m) = Len(to) + (Len(p) - Len(from))
      /\ \A i \in 1..Len(to) : m[i] = to[i]
      /\ \A i \in 1..Len(p) - Len(from) : m[Len(to) + i] = p[Len(from) + i]
  BY <1>2, Moved
<1> HIDE DEF m
<1>4. Within(m, to)
  <2>1. Len(to) <= Len(m) /\ (Len(to) = Len(m) \/ m[Len(to) + 1] = "/")
    BY <1>1, <1>2, <1>3
  <2>2. QED
    BY <1>3, <2>1, WithinIff
<1>5. Len(m) \in Nat /\ Len(to) <= Len(m) /\ Len(m) - Len(to) = Len(p) - Len(from)
  BY <1>1, <1>2, <1>3
<1>6. /\ b \in Path /\ Len(b) = Len(from) + (Len(m) - Len(to))
      /\ \A i \in 1..Len(from) : b[i] = from[i]
      /\ \A i \in 1..Len(m) - Len(to) : b[Len(from) + i] = m[Len(to) + i]
  BY <1>3, <1>5, Moved
<1> HIDE DEF b
<1>7. Len(b) = Len(p)
  BY <1>1, <1>5, <1>6
<1>8. ASSUME NEW i \in 1..Len(b) PROVE b[i] = p[i]
  <2>1. CASE i <= Len(from)
    BY <1>1, <1>2, <1>6, <1>7, <2>1
  <2>2. CASE i > Len(from)
    <3> DEFINE k == i - Len(from)
    <3>1. k \in 1..Len(p) - Len(from) /\ Len(from) + k = i
      BY <1>1, <1>7, <2>2
    <3>2. b[Len(from) + k] = m[Len(to) + k] /\ m[Len(to) + k] = p[Len(from) + k]
      BY <1>3, <1>5, <1>6, <3>1
    <3>3. QED
      BY <3>1, <3>2
  <2>3. QED
    BY <1>1, <1>7, <2>1, <2>2
<1>9. b = p
  BY <1>6, <1>7, <1>8, SeqEqual DEF Path
<1>10. QED
  BY <1>3, <1>4, <1>9 DEF m, b

\* Of two paths within the one moved, the parent stays the parent.
LEMMA MoveBelow ==
  ASSUME NEW p \in Path, NEW q \in Path, NEW from \in Path, NEW to \in Path,
         Within(p, from), Within(q, from), Below(p, q)
  PROVE  Below(Move(p, from, to), Move(q, from, to))
<1>1. Len(p) \in Nat /\ Len(q) \in Nat /\ Len(from) \in Nat /\ Len(to) \in Nat
  BY LenProperties DEF Path
<1>2. Len(from) <= Len(p) /\ Len(from) <= Len(q)
  BY WithinIff
<1>3. Len(q) < Len(p) /\ p[Len(q) + 1] = "/" /\ \A i \in 1..Len(q) : p[i] = q[i]
  BY BelowIff
<1> DEFINE m == Move(p, from, to)
           n == Move(q, from, to)
<1>4. /\ m \in Path /\ Len(m) = Len(to) + (Len(p) - Len(from))
      /\ \A i \in 1..Len(to) : m[i] = to[i]
      /\ \A i \in 1..Len(p) - Len(from) : m[Len(to) + i] = p[Len(from) + i]
  BY <1>2, Moved
<1>5. /\ n \in Path /\ Len(n) = Len(to) + (Len(q) - Len(from))
      /\ \A i \in 1..Len(to) : n[i] = to[i]
      /\ \A i \in 1..Len(q) - Len(from) : n[Len(to) + i] = q[Len(from) + i]
  BY <1>2, Moved
<1> HIDE DEF m, n
<1>6. Len(n) < Len(m)
  BY <1>1, <1>2, <1>3, <1>4, <1>5
<1>7. m[Len(n) + 1] = "/"
  <2> DEFINE k == Len(q) - Len(from) + 1
  <2>1. k \in 1..Len(p) - Len(from) /\ Len(to) + k = Len(n) + 1 /\ Len(from) + k = Len(q) + 1
    BY <1>1, <1>2, <1>3, <1>5
  <2>2. m[Len(to) + k] = p[Len(from) + k]
    BY <1>4, <2>1
  <2>3. QED
    BY <1>3, <2>1, <2>2
<1>8. ASSUME NEW i \in 1..Len(n) PROVE m[i] = n[i]
  <2>1. CASE i <= Len(to)
    BY <1>1, <1>4, <1>5, <2>1
  <2>2. CASE i > Len(to)
    <3> DEFINE k == i - Len(to)
    <3>1. /\ k \in 1..Len(p) - Len(from) /\ k \in 1..Len(q) - Len(from) /\ Len(to) + k = i
          /\ Len(from) + k \in 1..Len(q)
      BY <1>1, <1>2, <1>3, <1>5, <2>2
    <3>2. m[Len(to) + k] = p[Len(from) + k] /\ n[Len(to) + k] = q[Len(from) + k]
      BY <1>4, <1>5, <3>1
    <3>3. p[Len(from) + k] = q[Len(from) + k]
      BY <1>3, <3>1
    <3>4. QED
      BY <3>1, <3>2, <3>3
  <2>3. QED
    BY <1>1, <1>5, <2>1, <2>2
<1>9. QED
  BY <1>4, <1>5, <1>6, <1>7, <1>8, BelowIff DEF m, n

(***************************************************************************)
(* Trees.                                                                   *)
(***************************************************************************)
Tree(fs, V) ==
  \A p \in DOMAIN fs : p \in Path /\ fs[p] \in V \cup {Dir} /\ \A q \in Parents(p) : IsDir(fs, q)

\* A path is the same file in both trees, or a file in neither.
SameFile(fs, g, p) == (IsFile(g, p) <=> IsFile(fs, p)) /\ (IsFile(fs, p) => g[p] = fs[p])

\* Directories added where nothing was.
LEMMA AddedDirs ==
  ASSUME NEW fs, NEW ps
  PROVE  LET g == Set(fs, ps \ DOMAIN fs, Dir) IN
         /\ DOMAIN g = DOMAIN fs \cup ps
         /\ \A q \in DOMAIN fs : g[q] = fs[q]
         /\ \A q \in ps \ DOMAIN fs : g[q] = Dir
  BY DEF Set

\* create_dir_all, unless a file is in the way.
LEMMA WithParentsTree ==
  ASSUME NEW V, NEW fs, Tree(fs, V), NEW p \in Path, ~Blocked(fs, p)
  PROVE  Tree(WithParents(fs, p), V) /\ \A q \in Parents(p) : IsDir(WithParents(fs, p), q)
<1> DEFINE g == Set(fs, Parents(p) \ DOMAIN fs, Dir)
<1>1. /\ DOMAIN g = DOMAIN fs \cup Parents(p)
      /\ \A q \in DOMAIN fs : g[q] = fs[q]
      /\ \A q \in Parents(p) \ DOMAIN fs : g[q] = Dir
  BY AddedDirs
<1> HIDE DEF g
<1>2. \A q \in Parents(p) : IsDir(g, q)
  BY <1>1 DEF Blocked, IsFile, IsDir
<1>3. \A q \in Parents(p) : q \in Path /\ \A r \in Parents(q) : r \in Parents(p)
  BY ParentsIff, BelowTransitive
<1>4. Tree(g, V)
  <2> SUFFICES ASSUME NEW r \in DOMAIN g
               PROVE  r \in Path /\ g[r] \in V \cup {Dir} /\ \A q \in Parents(r) : IsDir(g, q)
    BY DEF Tree
  <2>1. CASE r \in DOMAIN fs
    BY <2>1, <1>1 DEF Tree, IsDir
  <2>2. CASE r \notin DOMAIN fs
    BY <2>2, <1>1, <1>2, <1>3
  <2>3. QED
    BY <2>1, <2>2
<1>5. WithParents(fs, p) = g
  BY DEF WithParents, g
<1>6. QED
  BY <1>2, <1>4, <1>5

\* The directories a call leaves behind, whether it succeeds or not.
LEMMA WithParentsKeeps ==
  ASSUME NEW fs, NEW p \in Path
  PROVE  /\ \A q : SameFile(fs, WithParents(fs, p), q)
         /\ \A q : q \notin Parents(p) => (IsDir(WithParents(fs, p), q) <=> IsDir(fs, q))
         /\ p \notin Parents(p)
<1>1. p \notin Parents(p)
  BY ParentsIff, NotBelowItself
<1>2. CASE Blocked(fs, p)
  BY <1>1, <1>2 DEF WithParents, SameFile
<1>3. CASE ~Blocked(fs, p)
  <2> DEFINE g == Set(fs, Parents(p) \ DOMAIN fs, Dir)
  <2>1. /\ DOMAIN g = DOMAIN fs \cup Parents(p)
        /\ \A q \in DOMAIN fs : g[q] = fs[q]
        /\ \A q \in Parents(p) \ DOMAIN fs : g[q] = Dir
    BY AddedDirs
  <2>2. WithParents(fs, p) = g
    BY <1>3 DEF WithParents
  <2> HIDE DEF g
  <2>3. QED
    BY <1>1, <2>1, <2>2 DEF SameFile, IsFile, IsDir
<1>4. QED
  BY <1>2, <1>3

\* An entry among directories, where no directory was unless it is one.
LEMMA AddTree ==
  ASSUME NEW V, NEW fs, Tree(fs, V), NEW p \in Path, NEW x \in V \cup {Dir},
         \A q \in Parents(p) : IsDir(fs, q), x = Dir \/ ~IsDir(fs, p)
  PROVE  Tree(Set(fs, {p}, x), V)
<1> DEFINE g == Set(fs, {p}, x)
<1>1. DOMAIN g = DOMAIN fs \cup {p} /\ g[p] = x /\ \A q \in DOMAIN fs \ {p} : g[q] = fs[q]
  BY DEF Set
<1> HIDE DEF g
<1>2. \A q : IsDir(fs, q) => IsDir(g, q)
  BY <1>1 DEF IsDir
<1>3. Tree(g, V)
  <2> SUFFICES ASSUME NEW r \in DOMAIN g
               PROVE  r \in Path /\ g[r] \in V \cup {Dir} /\ \A q \in Parents(r) : IsDir(g, q)
    BY DEF Tree
  <2>1. CASE r = p
    BY <2>1, <1>1, <1>2
  <2>2. CASE r \in DOMAIN fs \ {p}
    BY <2>2, <1>1, <1>2 DEF Tree
  <2>3. QED
    BY <2>1, <2>2, <1>1
<1>4. QED
  BY <1>3 DEF g

\* What is left when whole subtrees go.
LEMMA PruneTree ==
  ASSUME NEW V, NEW fs, Tree(fs, V), NEW ps, \A p \in DOMAIN fs \ ps : \A q \in Parents(p) : q \notin ps
  PROVE  Tree(Prune(fs, ps), V)
  BY DEF Prune, Tree, IsDir

\* FsWrite keeps the tree, changes no other file, and what it wrote is there.
LEMMA WriteTree ==
  ASSUME NEW V, NEW fs, Tree(fs, V), NEW p \in Path, Len(p) >= 1, NEW text \in V, Dir \notin V
  PROVE  LET result == FsWrite(fs, p, text) IN
         /\ Tree(result.fs, V)
         /\ result.ok <=> ~Blocked(fs, p) /\ ~IsDir(fs, p)
         /\ result.ok => IsFile(result.fs, p) /\ result.fs[p] = text
         /\ ~result.ok => SameFile(fs, result.fs, p)
         /\ \A q : q # p => SameFile(fs, result.fs, q)
         /\ \A q : IsDir(result.fs, q) => IsDir(fs, q) \/ q \in Parents(p)
<1> DEFINE w == WithParents(fs, p)
           g == Set(w, {p}, text)
<1>1. /\ \A q : SameFile(fs, w, q)
      /\ \A q : q \notin Parents(p) => (IsDir(w, q) <=> IsDir(fs, q))
      /\ p \notin Parents(p)
  BY WithParentsKeeps
<1>2. Tree(w, V)
  BY WithParentsTree DEF WithParents
<1>3. DOMAIN g = DOMAIN w \cup {p} /\ g[p] = text /\ \A q \in DOMAIN w \ {p} : g[q] = w[q]
  BY DEF Set
<1>4. ASSUME ~Blocked(fs, p), ~IsDir(fs, p) PROVE Tree(g, V)
  <2>1. \A q \in Parents(p) : IsDir(w, q)
    BY <1>4, WithParentsTree
  <2>2. ~IsDir(w, p)
    BY <1>1, <1>4
  <2> HIDE DEF w
  <2>3. QED
    BY <1>2, <2>1, <2>2, AddTree
<1> HIDE DEF w, g
<1>5. CASE ~Blocked(fs, p) /\ ~IsDir(fs, p)
  <2>1. FsWrite(fs, p, text) = [ok |-> TRUE, fs |-> g]
    BY <1>5 DEF FsWrite, Ok, w, g
  <2>2. \A q : q # p => SameFile(fs, g, q)
    BY <1>1, <1>3 DEF SameFile, IsFile
  <2>3. \A q : IsDir(g, q) => IsDir(fs, q) \/ q \in Parents(p)
    BY <1>1, <1>3 DEF IsDir
  <2>4. IsFile(g, p) /\ g[p] = text
    BY <1>3 DEF IsFile
  <2>5. QED
    BY <1>4, <1>5, <2>1, <2>2, <2>3, <2>4
<1>6. CASE Blocked(fs, p) \/ IsDir(fs, p)
  <2>1. FsWrite(fs, p, text) = [ok |-> FALSE, fs |-> w]
    BY <1>6 DEF FsWrite, Err, w
  <2>2. QED
    BY <1>1, <1>2, <1>6, <2>1
<1>7. QED
  BY <1>5, <1>6

\* FsMkdir keeps the tree and every file.
LEMMA MkdirTree ==
  ASSUME NEW V, NEW fs, Tree(fs, V), NEW p \in Path, Len(p) >= 1
  PROVE  LET result == FsMkdir(fs, p) IN
         /\ Tree(result.fs, V)
         /\ \A q : SameFile(fs, result.fs, q)
         /\ \A q : IsDir(result.fs, q) => IsDir(fs, q) \/ q \in Parents(p) \/ q = p
<1> DEFINE w == WithParents(fs, p)
           g == Set(w, {p}, Dir)
<1>1. /\ \A q : SameFile(fs, w, q)
      /\ \A q : q \notin Parents(p) => (IsDir(w, q) <=> IsDir(fs, q))
  BY WithParentsKeeps
<1>2. Tree(w, V)
  BY WithParentsTree DEF WithParents
<1>3. DOMAIN g = DOMAIN w \cup {p} /\ g[p] = Dir /\ \A q \in DOMAIN w \ {p} : g[q] = w[q]
  BY DEF Set
<1>4. ASSUME ~Blocked(fs, p) PROVE Tree(g, V)
  <2>1. \A q \in Parents(p) : IsDir(w, q)
    BY <1>4, WithParentsTree
  <2> HIDE DEF w
  <2>2. QED
    BY <1>2, <2>1, AddTree
<1> HIDE DEF w, g
<1>5. CASE ~Blocked(fs, p) /\ ~IsFile(fs, p)
  <2>1. FsMkdir(fs, p) = [ok |-> TRUE, fs |-> g]
    BY <1>5 DEF FsMkdir, Ok, w, g
  <2>2. \A q : SameFile(fs, g, q)
    BY <1>1, <1>3, <1>5 DEF SameFile, IsFile
  <2>3. \A q : IsDir(g, q) => IsDir(fs, q) \/ q \in Parents(p) \/ q = p
    BY <1>1, <1>3 DEF IsDir
  <2>4. QED
    BY <1>4, <1>5, <2>1, <2>2, <2>3
<1>6. CASE Blocked(fs, p) \/ IsFile(fs, p)
  <2>1. FsMkdir(fs, p) = [ok |-> FALSE, fs |-> w]
    BY <1>6 DEF FsMkdir, Err, w
  <2>2. QED
    BY <1>1, <1>2, <1>6, <2>1
<1>7. QED
  BY <1>5, <1>6

\* FsRemove keeps the tree and every file that is not the one removed.
LEMMA RemoveTree ==
  ASSUME NEW V, NEW fs, Tree(fs, V), NEW p \in Path
  PROVE  LET result == FsRemove(fs, p) IN
         /\ Tree(result.fs, V)
         /\ ~result.ok => result.fs = fs
         /\ \A q : ~Within(q, p) => SameFile(fs, result.fs, q)
         /\ \A q : IsFile(result.fs, q) => SameFile(fs, result.fs, q)
         /\ \A q : IsDir(result.fs, q) => IsDir(fs, q)
<1> DEFINE g == Prune(fs, {p})
<1>1. DOMAIN g = DOMAIN fs \ {p} /\ \A q \in DOMAIN g : g[q] = fs[q]
  BY DEF Prune
<1>2. CASE p \in DOMAIN fs /\ \A q \in DOMAIN fs : ~Below(q, p)
  <2>1. \A r \in DOMAIN fs \ {p} : \A q \in Parents(r) : q \notin {p}
    BY <1>2, ParentsIff DEF Tree
  <2>2. Tree(g, V)
    BY <2>1, PruneTree
  <2>3. FsRemove(fs, p) = [ok |-> TRUE, fs |-> g]
    BY <1>2 DEF FsRemove, Ok
  <2> HIDE DEF g
  <2>4. QED
    BY <1>1, <2>2, <2>3 DEF SameFile, IsFile, IsDir, Within
<1>3. CASE ~(p \in DOMAIN fs /\ \A q \in DOMAIN fs : ~Below(q, p))
  <2>1. FsRemove(fs, p) = [ok |-> FALSE, fs |-> fs]
    BY <1>3 DEF FsRemove, Err
  <2>2. QED
    BY <2>1 DEF SameFile
<1>4. QED
  BY <1>2, <1>3

\* FsRemoveAll keeps the tree and every file not within the path removed.
LEMMA RemoveAllTree ==
  ASSUME NEW V, NEW fs, Tree(fs, V), NEW p \in Path
  PROVE  LET result == FsRemoveAll(fs, p) IN
         /\ Tree(result.fs, V)
         /\ result.ok
         /\ \A q : ~Within(q, p) => SameFile(fs, result.fs, q)
         /\ \A q : IsFile(result.fs, q) => SameFile(fs, result.fs, q)
         /\ \A q : IsDir(result.fs, q) => IsDir(fs, q)
<1> DEFINE ps == {q \in DOMAIN fs : Within(q, p)}
           g == Prune(fs, ps)
<1>1. DOMAIN g = DOMAIN fs \ ps /\ \A q \in DOMAIN g : g[q] = fs[q]
  BY DEF Prune
<1>2. \A r \in DOMAIN fs \ ps : \A q \in Parents(r) : q \notin ps
  BY ParentsIff, BelowTransitive DEF Tree, Within
<1>3. Tree(g, V)
  BY <1>2, PruneTree
<1>4. FsRemoveAll(fs, p) = [ok |-> TRUE, fs |-> g]
  BY DEF FsRemoveAll, Ok
<1> HIDE DEF g
<1>5. QED
  BY <1>1, <1>3, <1>4 DEF SameFile, IsFile, IsDir

(***************************************************************************)
(* Renaming.                                                                *)
(***************************************************************************)
\* A renamed tree, entry by entry: the entries moved and the others.
LEMMA RenamedEntries ==
  ASSUME NEW V, NEW fs, Tree(fs, V), NEW from \in Path, NEW to \in Path
  PROVE  LET g == Renamed(fs, from, to) IN
         /\ \A p \in DOMAIN fs : Within(p, from) =>
              Move(p, from, to) \in DOMAIN g /\ g[Move(p, from, to)] = fs[p]
         /\ \A p \in DOMAIN g : Within(p, to) =>
              \/ \E q \in DOMAIN fs : Within(q, from) /\ p = Move(q, from, to)
              \/ p \in DOMAIN fs /\ ~Within(p, from) /\ g[p] = fs[p]
         /\ \A p : ~Within(p, to) =>
              (p \in DOMAIN g <=> p \in DOMAIN fs /\ ~Within(p, from)) /\ (p \in DOMAIN g => g[p] = fs[p])
         /\ \A p \in DOMAIN fs : ~Within(p, from) => p \in DOMAIN g
<1> DEFINE inside == {q \in DOMAIN fs : Within(q, from)}
           moved == {Move(p, from, to) : p \in inside}
           origin(p) == IF p \in moved THEN Move(p, to, from) ELSE p
           g == [p \in {q \in DOMAIN fs : ~Within(q, from)} \cup moved |-> fs[origin(p)]]
<1>1. Renamed(fs, from, to) = g
  BY DEF Renamed, Move
<1>2. \A p \in inside : Within(Move(p, from, to), to) /\ Move(Move(p, from, to), to, from) = p
  BY MoveBack DEF Tree
<1>3. \A m \in moved : Within(m, to) /\ \E p \in inside : m = Move(p, from, to)
  BY <1>2
<1>4. DOMAIN g = {q \in DOMAIN fs : ~Within(q, from)} \cup moved /\ \A p \in DOMAIN g : g[p] = fs[origin(p)]
  OBVIOUS
<1>5. \A p \in inside : Move(p, from, to) \in moved /\ origin(Move(p, from, to)) = p
  BY <1>2
<1>6. \A p : p \notin moved => origin(p) = p
  OBVIOUS
<1> HIDE DEF g, origin, moved
<1>7. QED
  BY <1>1, <1>2, <1>3, <1>4, <1>5, <1>6

\* What rename(2) accepts: nothing is left of what was at or below the new name,
\* unless it is what is renamed.
LEMMA RenameTarget ==
  ASSUME NEW V, NEW fs, Tree(fs, V), NEW from \in DOMAIN fs, NEW to \in Path,
         Len(from) >= 1, Len(to) >= 1,
         ~Blocked(fs, to), CanRename(WithParents(fs, to), from, to)
  PROVE  /\ ~Below(to, from)
         /\ from # to => \A q \in DOMAIN fs : ~Below(q, to)
         /\ from # to /\ to \in DOMAIN fs => (IsFile(fs, to) <=> IsFile(fs, from))
<1> DEFINE w == WithParents(fs, to)
<1>1. /\ \A q : SameFile(fs, w, q)
      /\ \A q : q \notin Parents(to) => (IsDir(w, q) <=> IsDir(fs, q))
      /\ to \notin Parents(to)
  BY WithParentsKeeps
<1>2. \A q \in DOMAIN fs : q \in DOMAIN w /\ w[q] = fs[q]
  BY AddedDirs DEF WithParents
<1>3. from \in Path /\ \A q \in DOMAIN fs : q \in Path
  BY DEF Tree
<1>4. CanRename(w, from, to)
  OBVIOUS
<1> HIDE DEF w
<1>5. CASE from = to
  BY <1>3, <1>5, NotBelowItself
<1>6. CASE from # to /\ IsFile(w, from) /\ ~IsDir(w, to)
  <2>1. IsFile(fs, from) /\ ~IsDir(fs, to)
    BY <1>1, <1>6 DEF SameFile
  <2>2. ~Below(to, from)
    BY <1>3, <2>1, ParentsIff DEF Blocked
  <2>3. \A q \in DOMAIN fs : ~Below(q, to)
    BY <1>3, <2>1, ParentsIff DEF Tree
  <2>4. QED
    BY <2>1, <2>2, <2>3 DEF IsFile, IsDir
<1>7. CASE from # to /\ IsDir(w, from) /\ ~IsFile(w, to) /\ ~Below(to, from)
              /\ \A q \in DOMAIN w : ~Below(q, to)
  <2>1. IsDir(fs, from) /\ ~IsFile(fs, to)
    BY <1>1, <1>2, <1>7 DEF SameFile, IsDir
  <2>2. QED
    BY <1>2, <1>7, <2>1 DEF IsFile, IsDir
<1>8. QED
  BY <1>4, <1>5, <1>6, <1>7 DEF CanRename

\* FsRename keeps the tree when it succeeds ...
LEMMA RenamedTree ==
  ASSUME NEW V, NEW fs, Tree(fs, V), NEW from \in DOMAIN fs, NEW to \in Path,
         Len(from) >= 1, Len(to) >= 1,
         ~Blocked(fs, to), CanRename(WithParents(fs, to), from, to)
  PROVE  LET g == Set(Renamed(fs, from, to), Parents(to) \ DOMAIN fs, Dir) IN
         /\ Tree(g, V)
         /\ \A p \in DOMAIN fs : Within(p, from) /\ IsFile(fs, p) =>
              IsFile(g, Move(p, from, to)) /\ g[Move(p, from, to)] = fs[p]
         /\ \A p : IsFile(g, p) /\ Within(p, to) =>
              \E q \in DOMAIN fs : IsFile(fs, q) /\ Within(q, from) /\ p = Move(q, from, to)
         /\ \A p : ~Within(p, from) /\ ~Within(p, to) => SameFile(fs, g, p)
         /\ \A p : IsFile(fs, p) /\ ~Within(p, from) => IsFile(g, p)
         /\ \A p : IsFile(g, p) /\ Within(p, from) /\ ~Within(p, to) => FALSE
         /\ \A p : IsDir(g, p) => \/ IsDir(fs, p) \/ p \in Parents(to)
                                  \/ \E q \in DOMAIN fs : IsDir(fs, q) /\ Within(q, from) /\ p = Move(q, from, to)
<1> DEFINE h == Renamed(fs, from, to)
           new == Parents(to) \ DOMAIN fs
           g == Set(h, new, Dir)
<1>1. from \in Path /\ \A q \in DOMAIN fs : q \in Path /\ fs[q] \in V \cup {Dir} /\ \A r \in Parents(q) : IsDir(fs, r)
  BY DEF Tree
<1>2. /\ ~Below(to, from)
      /\ from # to => \A q \in DOMAIN fs : ~Below(q, to)
      /\ from # to /\ to \in DOMAIN fs => (IsFile(fs, to) <=> IsFile(fs, from))
  BY RenameTarget
<1>3. /\ \A p \in DOMAIN fs : Within(p, from) =>
           Move(p, from, to) \in DOMAIN h /\ h[Move(p, from, to)] = fs[p]
      /\ \A p \in DOMAIN h : Within(p, to) =>
           \/ \E q \in DOMAIN fs : Within(q, from) /\ p = Move(q, from, to)
           \/ p \in DOMAIN fs /\ ~Within(p, from) /\ h[p] = fs[p]
      /\ \A p : ~Within(p, to) =>
           (p \in DOMAIN h <=> p \in DOMAIN fs /\ ~Within(p, from)) /\ (p \in DOMAIN h => h[p] = fs[p])
      /\ \A p \in DOMAIN fs : ~Within(p, from) => p \in DOMAIN h
  BY <1>1, RenamedEntries
<1>4. /\ DOMAIN g = DOMAIN h \cup new /\ \A p \in new : g[p] = Dir
      /\ \A p \in DOMAIN h \ new : g[p] = h[p]
  BY DEF Set
<1> HIDE DEF h, g
<1>5. \A p \in Path : p \in Parents(to) => ~Within(p, to) /\ ~Within(p, from)
  <2> SUFFICES ASSUME NEW p \in Path, Below(to, p) PROVE ~Within(p, to) /\ ~Within(p, from)
    BY ParentsIff
  <2>1. ~Below(p, to) /\ p # to
    BY BelowTransitive, NotBelowItself
  <2>2. ~Below(p, from) /\ p # from
    BY <1>1, <1>2, BelowTransitive
  <2>3. QED
    BY <2>1, <2>2 DEF Within
<1>6. \A p \in DOMAIN fs : Within(p, from) => Move(p, from, to) \in Path /\ Within(Move(p, from, to), to)
  BY <1>1, MoveBack
<1>7. \A p \in new : p \in Path /\ p \notin DOMAIN h
  BY <1>3, <1>5, ParentsIff DEF new
<1>8. \A p \in DOMAIN h : g[p] = h[p]
  BY <1>4, <1>7
\* An entry moved has the value it had; so has every other that is not in the way.
<1>9. \A p \in DOMAIN fs : Within(p, from) => Move(p, from, to) \in DOMAIN g /\ g[Move(p, from, to)] = fs[p]
  BY <1>3, <1>4, <1>8
<1>10. \A p \in Path : p \in Parents(to) => IsDir(g, p)
  <2> SUFFICES ASSUME NEW p \in Path, p \in Parents(to) PROVE IsDir(g, p)
    OBVIOUS
  <2>1. CASE p \notin DOMAIN fs
    BY <2>1, <1>4 DEF IsDir, new
  <2>2. CASE p \in DOMAIN fs
    <3>1. fs[p] = Dir
      BY <2>2 DEF Blocked, IsFile
    <3>2. p \in DOMAIN h /\ h[p] = fs[p]
      BY <2>2, <1>3, <1>5
    <3>3. QED
      BY <3>1, <3>2, <1>4, <1>8 DEF IsDir
  <2>3. QED
    BY <2>1, <2>2
<1>11. \A p \in DOMAIN fs : ~Within(p, from) /\ ~Within(p, to) => p \in DOMAIN g /\ g[p] = fs[p]
  BY <1>3, <1>4, <1>8
<1>12. ASSUME NEW p \in DOMAIN fs, Within(p, from), NEW q \in Parents(Move(p, from, to))
       PROVE  IsDir(g, q)
  <2> DEFINE m == Move(p, from, to)
  <2>1. m \in Path /\ Within(m, to) /\ Move(m, to, from) = p /\ p \in Path
    BY <1>1, <1>12, MoveBack
  <2> HIDE DEF m
  <2>2. q \in Path /\ Len(q) >= 1 /\ Below(m, q)
    BY <1>12, <2>1, ParentsIff DEF m
  <2>3. CASE Below(to, q)
    BY <2>2, <2>3, <1>10, ParentsIff
  <2>4. CASE Within(q, to)
    <3> DEFINE r == Move(q, to, from)
    <3>1. r \in Path /\ Within(r, from) /\ Move(r, from, to) = q
      BY <1>1, <2>2, <2>4, MoveBack
    <3>2. Below(p, r)
      BY <1>1, <2>1, <2>2, <2>4, MoveBelow
    <3> HIDE DEF r
    <3>3. Len(r) >= 1
      BY <1>1, <3>1, WithinIff, LenProperties DEF Path
    <3>4. IsDir(fs, r)
      BY <1>1, <2>1, <3>1, <3>2, <3>3, ParentsIff
    <3>5. QED
      BY <1>9, <3>1, <3>4 DEF IsDir
  <2>5. QED
    BY <2>1, <2>2, <2>3, <2>4, BelowBoth DEF Within
<1>13. ASSUME NEW p \in DOMAIN fs, ~Within(p, from), ~Within(p, to), NEW q \in Parents(p)
       PROVE  IsDir(g, q)
  <2>1. q \in Path /\ Below(p, q) /\ IsDir(fs, q)
    BY <1>1, ParentsIff
  <2>2. ~Within(q, from) /\ ~Within(q, to)
    BY <1>1, <1>13, <2>1, BelowTransitive DEF Within
  <2>3. QED
    BY <1>11, <2>1, <2>2 DEF IsDir
\* What was within the new name and stays is the new name itself, overwritten.
<1>14. ASSUME NEW p \in DOMAIN fs, ~Within(p, from), Within(p, to)
       PROVE  /\ p = to /\ Move(from, from, to) = to /\ Within(from, from)
              /\ IsFile(fs, to) <=> IsFile(fs, from)
  <2>1. from # to
    BY <1>14
  <2>2. p = to
    BY <2>1, <1>2, <1>14 DEF Within
  <2>3. SubSeq(from, Len(from) + 1, Len(from)) = <<>>
    <3>1. Len(from) \in Nat
      BY <1>1, LenProperties DEF Path
    <3>2. QED
      BY <3>1, SubSeqEmpty
  <2>4. to \o <<>> = to
    BY ConcatEmptySeq DEF Path
  <2>5. QED
    BY <1>2, <2>1, <2>2, <2>3, <2>4, <1>14 DEF Move, Within
<1>15. \A p \in DOMAIN g : \/ \E q \in DOMAIN fs : Within(q, from) /\ p = Move(q, from, to)
                           \/ p \in DOMAIN fs /\ ~Within(p, from) /\ ~Within(p, to)
                           \/ p \in new
  <2> SUFFICES ASSUME NEW p \in DOMAIN h
               PROVE  \/ \E q \in DOMAIN fs : Within(q, from) /\ p = Move(q, from, to)
                      \/ p \in DOMAIN fs /\ ~Within(p, from) /\ ~Within(p, to)
    BY <1>4
  <2>1. CASE Within(p, to)
    <3>1. CASE p \in DOMAIN fs /\ ~Within(p, from)
      BY <2>1, <3>1, <1>14
    <3>2. QED
      BY <2>1, <3>1, <1>3
  <2>2. CASE ~Within(p, to)
    BY <2>2, <1>3
  <2>3. QED
    BY <2>1, <2>2
<1>16. Tree(g, V)
  <2> SUFFICES ASSUME NEW r \in DOMAIN g
               PROVE  r \in Path /\ g[r] \in V \cup {Dir} /\ \A q \in Parents(r) : IsDir(g, q)
    BY DEF Tree
  <2>1. CASE \E q \in DOMAIN fs : Within(q, from) /\ r = Move(q, from, to)
    BY <2>1, <1>1, <1>6, <1>9, <1>12
  <2>2. CASE r \in DOMAIN fs /\ ~Within(r, from) /\ ~Within(r, to)
    BY <2>2, <1>1, <1>11, <1>13
  <2>3. CASE r \in new
    BY <2>3, <1>4, <1>7, <1>10, ParentsIff, BelowTransitive DEF new
  <2>4. QED
    BY <1>15, <2>1, <2>2, <2>3
<1>17. \A p \in DOMAIN fs : Within(p, from) /\ IsFile(fs, p) =>
         IsFile(g, Move(p, from, to)) /\ g[Move(p, from, to)] = fs[p]
  BY <1>9 DEF IsFile
<1>18. \A p \in new : ~IsFile(g, p)
  BY <1>4 DEF IsFile
<1>19. \A p : IsFile(g, p) =>
         \/ \E q \in DOMAIN fs : IsFile(fs, q) /\ Within(q, from) /\ p = Move(q, from, to)
         \/ p \in DOMAIN fs /\ ~Within(p, from) /\ ~Within(p, to)
  BY <1>9, <1>15, <1>18 DEF IsFile
<1>20. \A p : IsFile(g, p) /\ Within(p, to) =>
         \E q \in DOMAIN fs : IsFile(fs, q) /\ Within(q, from) /\ p = Move(q, from, to)
  BY <1>19
<1>21. \A p : ~Within(p, from) /\ ~Within(p, to) => SameFile(fs, g, p)
  BY <1>6, <1>11, <1>19 DEF SameFile, IsFile
<1>22. \A p : IsFile(fs, p) /\ ~Within(p, from) => IsFile(g, p)
  <2> SUFFICES ASSUME NEW p, IsFile(fs, p), ~Within(p, from) PROVE IsFile(g, p)
    OBVIOUS
  <2>1. CASE Within(p, to)
    BY <2>1, <1>14, <1>17 DEF IsFile
  <2>2. CASE ~Within(p, to)
    BY <2>2, <1>11 DEF IsFile
  <2>3. QED
    BY <2>1, <2>2
<1>23. \A p : IsFile(g, p) /\ Within(p, from) /\ ~Within(p, to) => FALSE
  BY <1>6, <1>19
<1>24. \A p : IsDir(g, p) => \/ IsDir(fs, p) \/ p \in Parents(to)
                             \/ \E q \in DOMAIN fs : IsDir(fs, q) /\ Within(q, from) /\ p = Move(q, from, to)
  BY <1>9, <1>11, <1>15 DEF IsDir, new
<1>25. QED
  BY <1>16, <1>17, <1>20, <1>21, <1>22, <1>23, <1>24 DEF g, h

\* ... and when it does not it leaves directories behind and no more.
LEMMA RenameFails ==
  ASSUME NEW V, NEW fs, Tree(fs, V), NEW from \in Path, NEW to \in Path,
         ~FsRename(fs, from, to).ok
  PROVE  /\ Tree(FsRename(fs, from, to).fs, V)
         /\ \A q : SameFile(fs, FsRename(fs, from, to).fs, q)
         /\ \A q : IsDir(FsRename(fs, from, to).fs, q) => IsDir(fs, q) \/ q \in Parents(to)
<1>1. FsRename(fs, from, to).fs \in {fs, WithParents(fs, to)}
  BY DEF FsRename, Err, Ok
<1>2. Tree(WithParents(fs, to), V)
  BY WithParentsTree DEF WithParents
<1>3. QED
  BY <1>1, <1>2, WithParentsKeeps DEF SameFile

=============================================================================
