------------------------------ MODULE CliProofs ------------------------------
(***************************************************************************)
(* The command line: processes over one storage directory keep its tree,    *)
(* its keys and the count of its vectors, however many run and wherever     *)
(* they die.                                                                *)
(***************************************************************************)
EXTENDS Cli, LocalFsProofs, FiniteSetTheorems

(***************************************************************************)
(* A command's path is a sequence of names.                                 *)
(***************************************************************************)
LEMMA MinExists ==
  ASSUME NEW n \in Nat, NEW S \in SUBSET (1..n), S # {}
  PROVE  Min(S) \in S /\ \A j \in S : Min(S) <= j
<1> DEFINE T == {n + 1 - j : j \in S}
<1>1. T \in SUBSET (1..n) /\ T # {}
  <2>1. \A j \in S : n + 1 - j \in 1..n
    OBVIOUS
  <2>2. QED
    BY <2>1
<1>2. Max(T) \in T /\ \A j \in T : j <= Max(T)
  BY <1>1, MaxExists
<1>3. PICK i \in S : Max(T) = n + 1 - i
  BY <1>2
<1>4. ASSUME NEW j \in S PROVE i <= j
  <2>1. n + 1 - j \in T
    OBVIOUS
  <2> HIDE DEF T
  <2>2. n + 1 - j <= n + 1 - i
    BY <1>2, <1>3, <2>1
  <2>3. QED
    BY <2>2
<1>5. \E x \in S : \A y \in S : x =< y
  BY <1>4
<1>6. QED
  BY <1>5 DEF Min

\* A piece of a sequence of names.
LEMMA Piece ==
  ASSUME NEW s \in Path, NEW m \in Nat \ {0}, NEW n \in Nat, n <= Len(s)
  PROVE  SubSeq(s, m, n) \in Path
<1>1. CASE m <= n
  <2>1. m \in 1..Len(s) /\ n \in 1..Len(s)
    BY <1>1, LenProperties DEF Path
  <2>2. QED
    BY <2>1, SubSeqProperties DEF Path
<1>2. CASE n < m
  <2>1. SubSeq(s, m, n) = <<>>
    BY <1>2 DEF Path
  <2>2. QED
    BY <2>1, EmptySeq DEF Path
<1>3. QED
  BY <1>1, <1>2

\* What is left without the blanks at either end.
LEMMA Trimmed ==
  ASSUME NEW s \in Path
  PROVE  TrimBlanks(s) \in Path
<1> DEFINE ink == {i \in DOMAIN s : s[i] # Blank}
<1>1. Len(s) \in Nat /\ ink \in SUBSET (1..Len(s))
  BY LenProperties DEF Path
<1> HIDE DEF ink
<1>2. CASE ink = {}
  BY <1>2, EmptySeq DEF TrimBlanks, ink, Path
<1>3. CASE ink # {}
  <2>1. Min(ink) \in 1..Len(s) /\ Max(ink) \in 1..Len(s)
    BY <1>1, <1>3, MinExists, MaxExists
  <2>2. SubSeq(s, Min(ink), Max(ink)) \in Path
    BY <1>1, <2>1, Piece
  <2>3. QED
    BY <1>3, <2>2 DEF TrimBlanks, ink
<1>4. QED
  BY <1>2, <1>3

\* The three parts behind the scheme, and the path they make.
LEMMA PathOfParts ==
  ASSUME NEW r \in Path, Slashes(r) # {}
  PROVE  ToInternalPath(Split3(r)) \in Path
<1> DEFINE n == Len(r)
           first == Min(Slashes(r))
           more == {i \in Slashes(r) : i > first}
           second == IF more = {} THEN Len(r) + 1 ELSE Min(more)
<1>1. n \in Nat /\ Slashes(r) \in SUBSET (1..n)
  BY LenProperties DEF Path, Slashes
<1>2. first \in 1..n /\ r[first] = "/"
  <2>1. first \in Slashes(r)
    BY <1>1, MinExists
  <2>2. QED
    BY <1>1, <2>1 DEF Slashes
<1>3. <<"/">> \in Path
  <2>1. r[first] \in STRING
    BY <1>2, ElementOfSeq DEF Path
  <2>2. QED
    BY <1>2, <2>1 DEF Path
<1>4. more \in SUBSET (1..n)
  BY <1>1
<1> HIDE DEF first, more
<1>5. second \in 1..n + 1
  <2>1. CASE more = {}
    BY <1>1, <2>1
  <2>2. CASE more # {}
    <3>1. Min(more) \in more
      BY <1>1, <1>4, <2>2, MinExists
    <3>2. Min(more) \in 1..n /\ second = Min(more)
      BY <1>4, <2>2, <3>1
    <3>3. QED
      BY <1>1, <3>2
  <2>3. QED
    BY <2>1, <2>2
<1> HIDE DEF second, n
<1>6. /\ SubSeq(r, 1, first - 1) \in Path
      /\ SubSeq(r, first + 1, second - 1) \in Path
      /\ SubSeq(r, second + 1, n) \in Path
  BY <1>1, <1>2, <1>5, Piece DEF n
<1>7. \A s, t \in Path : s \o t \in Path
  BY ConcatProperties DEF Path
<1> DEFINE x == SubSeq(r, 1, first - 1)
           y == SubSeq(r, first + 1, second - 1)
           z == SubSeq(r, second + 1, n)
<1>8. Split3(r) = [scope |-> x, account |-> y, path |-> <<"/">> \o z]
  BY DEF Split3, first, second, more, n
<1>9. ToInternalPath(Split3(r)) = <<"/">> \o x \o <<"/">> \o y \o (<<"/">> \o z)
  <2> HIDE DEF x, y, z
  <2> DEFINE zz == <<"/">> \o z
  <2>1. Split3(r) = [scope |-> x, account |-> y, path |-> zz]
    BY <1>8
  <2> HIDE DEF zz
  <2>2. Split3(r).scope = x /\ Split3(r).account = y /\ Split3(r).path = zz
    BY <2>1
  <2>3. ToInternalPath(Split3(r)) = <<"/">> \o x \o <<"/">> \o y \o zz
    BY <2>2 DEF ToInternalPath
  <2>4. QED
    BY <2>3 DEF zz
<1> HIDE DEF x, y, z
<1>10. x \in Path /\ y \in Path /\ z \in Path
  BY <1>6 DEF x, y, z
<1>11. QED
  BY <1>3, <1>7, <1>9, <1>10

\* A URI that parses names a path.
LEMMA UriPaths ==
  ASSUME NEW s \in Path
  PROVE  UriPath(s) \in Path
<1> DEFINE t == TrimBlanks(s)
<1>1. t \in Path
  BY Trimmed
<1> HIDE DEF t
<1>2. CASE Parse(s) = InvalidUri
  BY <1>2, EmptySeq DEF UriPath, NoPath, Path
<1>3. CASE Parse(s) # InvalidUri
  <2>1. t # <<>> /\ Slashes(Tail(t)) # {} /\ Parse(s) = Split3(Tail(t))
    BY <1>3 DEF Parse, t
  <2>2. Tail(t) \in Path
    BY <1>1, <2>1, HeadTailProperties DEF Path
  <2>3. QED
    BY <1>3, <2>1, <2>2, PathOfParts DEF UriPath
<1>4. QED
  BY <1>2, <1>3

\* A slash at the end is nothing to the file system.
LEMMA ResolvedPath ==
  ASSUME NEW p \in Path
  PROVE  Resolve(p) \in Path /\ (p # <<>> => Len(Resolve(p)) >= 1)
<1>1. Len(p) \in Nat /\ (Len(p) = 0 <=> p = <<>>)
  BY LenProperties, EmptySeq DEF Path
<1>2. CASE Len(p) > 1
  <2>1. Front(p) = SubSeq(p, 1, Len(p) - 1)
    BY DEF Front
  <2>2. Front(p) \in Path /\ Len(Front(p)) = Len(p) - 1
    <3>1. SubSeq(p, 1, Len(p) - 1) \in Path
      BY <1>1, <1>2, Piece
    <3>2. Len(SubSeq(p, 1, Len(p) - 1)) = Len(p) - 1
      BY <1>1, <1>2 DEF Path
    <3>3. QED
      BY <2>1, <3>1, <3>2
  <2>3. QED
    BY <1>1, <1>2, <2>2 DEF Resolve
<1>3. CASE ~(Len(p) > 1)
  BY <1>1, <1>3 DEF Resolve
<1>4. QED
  BY <1>2, <1>3

(***************************************************************************)
(* What is asked, and the paths it is about.                                *)
(***************************************************************************)
\* The shape of a command.
LEMMA CommandShape ==
  ASSUME NEW c \in Command
  PROVE  /\ c.tool \in {"fs", "viking", "kv", "index", "server"}
         /\ c.tool = "fs" => c.op \in {"write", "cat", "rm", "stat", "mkdir", "ls"} /\ c.uri \in Path /\ c.text \in Path
         /\ c.tool = "viking" =>
              c.op \in {"read", "abstract", "overview", "ls", "stat", "write", "mkdir", "rm", "mv", "find"}
         /\ c.tool = "viking" /\ c.op \in {"write", "mkdir", "rm"} => c.uri \in Path /\ c.text \in Path
         /\ c.tool = "viking" /\ c.op = "mv" => c.uri \in Path /\ c.to \in Path
         /\ c.tool = "kv" => c.op \in {"get", "scan", "batch"}
         /\ c.tool = "kv" /\ c.op = "batch" => c.writes \in Seq([key : Key, value : Value \cup {None}])
  BY DEF Command, Path

\* A command that changes the tree changes it at a path.
LEMMA ChangesPaths ==
  ASSUME NEW c \in Command, OnTree(c), c.op \in {"write", "mkdir", "rm", "mv"}
  PROVE  PathOf(c) \in Path /\ TargetOf(c) \in Path
<1>1. CASE c.tool = "fs"
  <2>1. c.uri \in Path /\ c.op # "mv"
    BY <1>1, CommandShape
  <2>2. ResolvePath(c.uri) \in Path
    BY <2>1, UriPaths DEF ResolvePath
  <2>3. QED
    BY <1>1, <2>1, <2>2 DEF PathOf, TargetOf
<1>2. CASE c.tool = "viking"
  <2>1. c.uri \in Path /\ (c.op = "mv" => c.to \in Path)
    BY <1>2, CommandShape
  <2>2. UriPath(c.uri) \in Path /\ (c.op = "mv" => UriPath(c.to) \in Path)
    BY <2>1, UriPaths
  <2>3. PathOf(c) = UriPath(c.uri)
    BY <1>2 DEF PathOf
  <2>4. QED
    BY <2>2, <2>3 DEF TargetOf
<1>3. QED
  BY <1>1, <1>2 DEF OnTree

\* The empty path is mounted nowhere.
LEMMA MountedPaths == ASSUME NEW p \in Path, Mounted(p) PROVE Len(p) >= 1
<1>1. PICK m \in Mounts : IsPrefix(m, p)
  BY DEF Mounted
<1>2. m \in Path /\ m # <<>>
  BY CliAssumption DEF Path
<1>3. Len(m) \in Nat /\ Len(p) \in Nat /\ Len(m) # 0
  BY <1>2, LenProperties, EmptySeq DEF Path
<1>4. Len(m) <= Len(p)
  BY <1>1, <1>2, PrefixIff DEF Path
<1>5. QED
  BY <1>3, <1>4

(***************************************************************************)
(* Where a process is in its command.                                       *)
(***************************************************************************)
Storing == {"embedder", "work", "tree", "read", "embed", "vectors", "count"}

Shaped(r) ==
  /\ {"pc", "cmd"} \subseteq DOMAIN r
  /\ r.cmd \in Given[setting]
  /\ r.pc \in StepsOf[r.cmd.tool] \cup {"registry", "exit"}
  /\ r.pc = "tree" => /\ OnTree(r.cmd) /\ Mounted(r.path) /\ r.to # NoPath
                      /\ r.path = Resolved[r.cmd].path /\ r.to = Resolved[r.cmd].to
  /\ r.pc = "batch" => r.cmd.op = "batch" /\ "next" \in DOMAIN r /\ r.next \in 1..Len(r.cmd.writes) + 1
  /\ r.pc = "count" => "count" \in DOMAIN r
  /\ r.pc \in {"embed", "vectors"} => r.cmd.op \in {"write", "find", "rm", "mv"}

Shape ==
  /\ setting \in Setting
  /\ DOMAIN proc = Proc
  /\ \A p \in Proc : Running(p) => Shaped(proc[p])

\* The commands of the configuration in use.
LEMMA CommandsGiven == ASSUME Shape, NEW c \in Given[setting] PROVE c \in Command /\ c \in Commands
  BY CliAssumption DEF Shape, Commands

\* A tool's steps.
LEMMA Steps ==
  ASSUME NEW t \in {"fs", "viking", "kv", "index", "server"}, NEW pc \in StepsOf[t] \cup {"registry", "exit"}
  PROVE  /\ pc \in {"tree"} => t \in {"fs", "viking"}
         /\ pc = "batch" => t = "kv"
         /\ pc \in {"collection", "embedder", "read", "embed", "vectors", "count"} => t = "viking"
         /\ pc = "open" => t \in {"kv", "viking"}
         /\ pc # "gone"
  BY DEF StepsOf

\* What one process does leaves the others where they are.
LEMMA Going ==
  ASSUME Shape, NEW p \in Proc, NEW pc, Running(p), Goto(p, pc)
  PROVE  /\ DOMAIN proc' = Proc /\ \A q \in Proc \ {p} : proc'[q] = proc[q]
         /\ DOMAIN proc'[p] = DOMAIN proc[p] /\ proc'[p].pc = pc /\ \A x \in DOMAIN proc[p] \ {"pc"} : proc'[p][x] = proc[p][x]
<1> DEFINE r == [proc[p] EXCEPT !.pc = pc]
<1>1. proc' = [proc EXCEPT ![p] = r]
  BY DEF Goto
<1>2. {"pc", "cmd"} \subseteq DOMAIN proc[p] /\ DOMAIN proc = Proc
  BY DEF Shape, Shaped
<1>3. DOMAIN r = DOMAIN proc[p] /\ r.pc = pc /\ \A x \in DOMAIN proc[p] \ {"pc"} : r[x] = proc[p][x]
  BY <1>2
<1> HIDE DEF r
<1>4. DOMAIN proc' = Proc /\ proc'[p] = r /\ \A q \in Proc \ {p} : proc'[q] = proc[q]
  BY <1>1, <1>2
<1>5. QED
  BY <1>3, <1>4

\* The same for a step that gives the process a new record.
LEMMA Becoming ==
  ASSUME Shape, NEW p \in Proc, NEW r, proc' = [proc EXCEPT ![p] = r]
  PROVE  DOMAIN proc' = Proc /\ proc'[p] = r /\ \A q \in Proc \ {p} : proc'[q] = proc[q]
  BY DEF Shape

\* The same for an answer.
LEMMA Answering ==
  ASSUME Shape, NEW p \in Proc, NEW code, NEW got, Answer(p, code, got)
  PROVE  /\ DOMAIN proc' = Proc /\ \A q \in Proc \ {p} : proc'[q] = proc[q]
         /\ {"pc", "cmd"} \subseteq DOMAIN proc'[p] /\ proc'[p].pc = "exit" /\ proc'[p].cmd = Cmd(p)
<1> DEFINE r == [pc |-> "exit", cmd |-> Cmd(p), code |-> code, got |-> got]
<1>1. proc' = [proc EXCEPT ![p] = r]
  BY DEF Answer
<1>2. {"pc", "cmd"} \subseteq DOMAIN r /\ r.pc = "exit" /\ r.cmd = Cmd(p)
  OBVIOUS
<1> HIDE DEF r
<1>3. QED
  BY <1>1, <1>2, Becoming

\* One process at a step of its own, the others where they were.
LEMMA ShapeOne ==
  ASSUME Shape, setting' = setting, NEW p \in Proc, DOMAIN proc' = Proc, \A q \in Proc \ {p} : proc'[q] = proc[q],
         proc'[p].pc = "gone" \/ Shaped(proc'[p])
  PROVE  Shape'
<1>1. setting' \in Setting /\ DOMAIN proc' = Proc
  BY DEF Shape
<1>2. ASSUME NEW q \in Proc, proc'[q].pc # "gone" PROVE Shaped(proc[q])'
  <2>1. CASE q = p
    BY <1>2, <2>1 DEF Shaped
  <2>2. CASE q # p
    <3>1. proc'[q] = proc[q]
      BY <2>2
    <3>2. Shaped(proc[q])
      BY <1>2, <3>1 DEF Shape, Running
    <3>3. QED
      BY <3>1, <3>2 DEF Shaped
  <2>3. QED
    BY <2>1, <2>2
<1>3. QED
  BY <1>1, <1>2 DEF Shape, Running

\* A step further in the same command.
LEMMA GoingShape ==
  ASSUME Shape, setting' = setting, NEW p \in Proc, Running(p), NEW pc, Goto(p, pc),
         pc \in StepsOf[Cmd(p).tool], pc \notin {"tree", "batch", "count"},
         pc \in {"embed", "vectors"} => Cmd(p).op \in {"write", "find", "rm", "mv"}
  PROVE  Shape'
<1> DEFINE r == proc'[p]
<1>1. DOMAIN proc' = Proc /\ \A q \in Proc \ {p} : proc'[q] = proc[q]
  BY Going
<1>2. DOMAIN r = DOMAIN proc[p] /\ r.pc = pc /\ \A x \in DOMAIN proc[p] \ {"pc"} : r[x] = proc[p][x]
  BY Going
<1> HIDE DEF r
<1>3. Shaped(proc[p])
  BY DEF Shape
<1>4. {"pc", "cmd"} \subseteq DOMAIN r /\ r.cmd = Cmd(p) /\ Cmd(p) \in Given[setting]
  BY <1>2, <1>3 DEF Shaped, Cmd
<1>5. Shaped(r)
  BY <1>2, <1>4 DEF Shaped
<1>6. QED
  BY <1>1, <1>5, ShapeOne DEF r

\* An answer.
LEMMA AnsweringShape ==
  ASSUME Shape, setting' = setting, NEW p \in Proc, Running(p), NEW code, NEW got, Answer(p, code, got)
  PROVE  Shape'
<1> DEFINE r == proc'[p]
<1>1. DOMAIN proc' = Proc /\ \A q \in Proc \ {p} : proc'[q] = proc[q]
  BY Answering
<1>2. {"pc", "cmd"} \subseteq DOMAIN r /\ r.pc = "exit" /\ r.cmd = Cmd(p)
  BY Answering
<1> HIDE DEF r
<1>3. Cmd(p) \in Given[setting]
  BY DEF Shape, Shaped, Cmd
<1>4. Shaped(r)
  BY <1>2, <1>3 DEF Shaped
<1>5. QED
  BY <1>1, <1>4, ShapeOne DEF r

\* The steps of a running process's command, at the steps it can be at.
LEMMA Place ==
  ASSUME Shape, NEW p \in Proc, Running(p)
  PROVE  /\ Cmd(p) \in Given[setting] /\ Cmd(p) \in Command /\ Cmd(p) \in Commands
         /\ Cmd(p).tool \in {"fs", "viking", "kv", "index", "server"}
         /\ {"pc", "cmd"} \subseteq DOMAIN proc[p]
         /\ proc[p].pc \in StepsOf[Cmd(p).tool] \cup {"registry", "exit"}
         /\ At(p, "tree") => OnTree(Cmd(p)) /\ Mounted(proc[p].path) /\ proc[p].to # NoPath
                             /\ proc[p].path = Resolved[Cmd(p)].path /\ proc[p].to = Resolved[Cmd(p)].to
         /\ At(p, "batch") => /\ Cmd(p).tool = "kv" /\ Cmd(p).op = "batch" /\ "next" \in DOMAIN proc[p]
                              /\ proc[p].next \in 1..Len(Cmd(p).writes) + 1
         /\ (At(p, "embed") \/ At(p, "vectors")) => Cmd(p).op \in {"write", "find", "rm", "mv"}
<1>1. Shaped(proc[p])
  BY DEF Shape
<1>2. Cmd(p) \in Given[setting] /\ Cmd(p) \in Command /\ Cmd(p) \in Commands
  BY <1>1, CommandsGiven DEF Shaped, Cmd
<1>3. Cmd(p).tool \in {"fs", "viking", "kv", "index", "server"}
  BY <1>2, CommandShape
<1>4. At(p, "batch") => Cmd(p).tool = "kv"
  BY <1>1, <1>3, Steps DEF Shaped, At, Cmd
<1>5. QED
  BY <1>1, <1>2, <1>3, <1>4 DEF Shaped, At, Cmd

\* Every step leaves every process at a step of its command.
LEMMA ShapeStep == ASSUME Shape, [Next]_vars PROVE Shape'
<1>1. CASE UNCHANGED vars
  BY <1>1 DEF vars, Shape, Shaped, Running
<1>2. ASSUME NEW p \in Proc, Start(p) PROVE Shape'
  <2>1. PICK c \in Given[setting] : proc' = [proc EXCEPT ![p] = [pc |-> "registry", cmd |-> c]]
    BY <1>2 DEF Start
  <2> DEFINE r == [pc |-> "registry", cmd |-> c]
  <2>2. Shaped(r)
    BY DEF Shaped
  <2> HIDE DEF r
  <2>3. proc' = [proc EXCEPT ![p] = r]
    BY <2>1 DEF r
  <2>4. QED
    BY <1>2, <2>2, <2>3, Becoming, ShapeOne DEF Start
<1>3. ASSUME NEW p \in Proc, proc' = [proc EXCEPT ![p] = Gone], setting' = setting PROVE Shape'
  BY <1>3, Becoming, ShapeOne DEF Gone
<1>4. ASSUME NEW p \in Proc, Proceed(p) PROVE Shape'
  <2>1. Running(p) /\ setting' = setting
    BY <1>4 DEF Proceed, CreatePlugins, OpenKv, OpenStore, CreateCollection, CreateEmbedder, ResolveUris, LookAtTree,
      ChangeTree, AskSize, Read, KvRead, KvScan, KvBatch, KvWrite, KvDone, RunIndex, RunServer, Query, Embed,
      SearchVectors, ChangeVectors, WriteCount, Exit, AtTree, At, Running
  <2> DEFINE t == Cmd(p).tool
  <2>2. t \in {"fs", "viking", "kv", "index", "server"} /\ proc[p].pc \in StepsOf[t] \cup {"registry", "exit"}
    BY <2>1, Place
  <2> HIDE DEF t
  <2>3. ASSUME NEW code, NEW got, Answer(p, code, got) PROVE Shape'
    BY <2>1, <2>3, AnsweringShape
  <2>4. UserError(p) \/ SystemError(p) \/ Done(p) => Shape'
    BY <2>3 DEF UserError, SystemError, Done
  <2>5. ASSUME NEW pc \in {"open", "work", "collection", "embedder"}, pc \in StepsOf[t], Goto(p, pc) PROVE Shape'
    BY <2>1, <2>5, GoingShape DEF t
  <2>6. ASSUME NEW r, proc' = [proc EXCEPT ![p] = r], Shaped(r) PROVE Shape'
    BY <2>1, <2>6, Becoming, ShapeOne
  <2>7. Cmd(p) \in Given[setting]
    BY <2>1, Place
  <2>8. CASE CreatePlugins(p)
    <3>1. OpensNext(p) \in {"open", "work"} /\ OpensNext(p) \in StepsOf[t]
      BY <2>2 DEF OpensNext, StepsOf, t
    <3>2. QED
      BY <2>4, <2>5, <2>8, <3>1 DEF CreatePlugins
  <2>9. CASE OpenKv(p)
    <3>1. "work" \in StepsOf[t]
      BY <2>9 DEF OpenKv, StepsOf, t
    <3>2. QED
      BY <2>4, <2>5, <2>9, <3>1 DEF OpenKv
  <2>10. CASE OpenStore(p)
    <3>1. "collection" \in StepsOf[t]
      BY <2>10 DEF OpenStore, StepsOf, t
    <3>2. QED
      BY <2>4, <2>5, <2>10, <3>1 DEF OpenStore
  <2>11. CASE CreateCollection(p)
    <3>1. t = "viking"
      BY <2>2, <2>11, Steps DEF CreateCollection, At
    <3>2. "embedder" \in StepsOf[t]
      BY <3>1 DEF StepsOf
    <3>3. QED
      BY <2>4, <2>5, <2>11, <3>2 DEF CreateCollection
  <2>12. CASE CreateEmbedder(p)
    <3>1. t = "viking"
      BY <2>2, <2>12, Steps DEF CreateEmbedder, At
    <3>2. "work" \in StepsOf[t]
      BY <3>1 DEF StepsOf
    <3>3. QED
      BY <2>4, <2>5, <2>12, <3>2 DEF CreateEmbedder
  <2>13. CASE ResolveUris(p)
    <3> DEFINE path == Resolved[Cmd(p)].path
               to == Resolved[Cmd(p)].to
               r == [pc |-> "tree", cmd |-> Cmd(p), path |-> path, to |-> to]
    <3>1. CASE Mounted(path) /\ to # NoPath
      <4>1. "tree" \in StepsOf[t]
        BY <2>13 DEF ResolveUris, OnTree, StepsOf, t
      <4>2. Shaped(r)
        BY <2>7, <2>13, <3>1, <4>1 DEF ResolveUris, Shaped, t
      <4>3. proc' = [proc EXCEPT ![p] = r]
        BY <2>13, <3>1 DEF ResolveUris
      <4> HIDE DEF r
      <4>4. QED
        BY <2>6, <4>2, <4>3
    <3>2. CASE ~(Mounted(path) /\ to # NoPath)
      BY <2>4, <2>13, <3>2 DEF ResolveUris
    <3>3. QED
      BY <3>1, <3>2
  <2>14. CASE LookAtTree(p)
    BY <2>3, <2>14 DEF LookAtTree, TreeError
  <2>15. CASE ChangeTree(p)
    <3> DEFINE c == Cmd(p)
               pc == IF c.op = "write" THEN "embed" ELSE "vectors"
               r == [pc |-> pc, cmd |-> c]
    <3>1. UserError(p) \/ SystemError(p) \/ Done(p) \/ TreeError(p, proc[p].path)
          \/ (t # "fs" /\ c.op # "mkdir" /\ proc' = [proc EXCEPT ![p] = r])
      BY <2>15 DEF ChangeTree, t
    <3>2. CASE t # "fs" /\ c.op # "mkdir" /\ proc' = [proc EXCEPT ![p] = r]
      <4>1. t = "viking"
        <5>1. At(p, "tree")
          BY <2>15 DEF ChangeTree, AtTree
        <5>2. t \in {"fs", "viking"}
          BY <2>2, <5>1, Steps DEF At
        <5>3. QED
          BY <3>2, <5>2
      <4>2. "embed" \in StepsOf[t] /\ "vectors" \in StepsOf[t]
        BY <4>1 DEF StepsOf
      <4>3. c.op \in {"write", "rm", "mv"}
        BY <2>15, <3>2 DEF ChangeTree, AtTree
      <4>4. Shaped(r)
        BY <2>7, <4>2, <4>3 DEF Shaped, t
      <4> HIDE DEF r
      <4>5. QED
        BY <2>6, <3>2, <4>4
    <3>3. QED
      BY <2>3, <2>4, <3>1, <3>2 DEF TreeError
  <2>16. CASE AskSize(p)
    <3> DEFINE size == FsSize(fs, proc[p].path)
               r == [pc |-> "read", cmd |-> Cmd(p), path |-> proc[p].path, size |-> size.got]
    <3>1. UserError(p) \/ proc' = [proc EXCEPT ![p] = r]
      BY <2>16 DEF AskSize
    <3>2. t = "viking"
      <4>1. At(p, "tree") /\ Cmd(p).op \in {"read", "abstract", "overview"}
        BY <2>16 DEF AskSize, AtTree
      <4>2. t \in {"fs", "viking"}
        BY <2>2, <4>1, Steps DEF At
      <4>3. QED
        BY <2>1, <4>1, <4>2, Place, CommandShape DEF t
    <3>3. "read" \in StepsOf[t]
      BY <3>2 DEF StepsOf
    <3>4. Shaped(r)
      BY <2>7, <3>3 DEF Shaped, t
    <3> HIDE DEF r
    <3>5. QED
      BY <2>4, <2>6, <3>1, <3>4
  <2>17. CASE Read(p)
    BY <2>3, <2>17 DEF Read, TreeError
  <2>18. CASE KvRead(p) \/ KvScan(p) \/ KvDone(p) \/ RunIndex(p) \/ RunServer(p)
    BY <2>3, <2>4, <2>18 DEF KvRead, KvScan, KvDone, RunIndex, RunServer
  <2>19. CASE KvBatch(p)
    <3> DEFINE r == [pc |-> "batch", cmd |-> Cmd(p), next |-> 1]
    <3>1. "batch" \in StepsOf[t]
      BY <2>19 DEF KvBatch, StepsOf, t
    <3>2. Len(Cmd(p).writes) \in Nat
      <4>1. Cmd(p).writes \in Seq([key : Key, value : Value \cup {None}])
        BY <2>1, <2>19, Place, CommandShape DEF KvBatch
      <4>2. QED
        BY <4>1, LenProperties
    <3>3. Shaped(r)
      BY <2>7, <2>19, <3>1, <3>2 DEF Shaped, KvBatch, t
    <3>4. proc' = [proc EXCEPT ![p] = r]
      BY <2>19 DEF KvBatch
    <3> HIDE DEF r
    <3>5. QED
      BY <2>6, <3>3, <3>4
  <2>20. CASE KvWrite(p)
    <3> DEFINE r == [proc[p] EXCEPT !.next = @ + 1]
    <3>1. Shaped(proc[p]) /\ proc[p].pc = "batch" /\ proc[p].next <= Len(Cmd(p).writes)
      BY <2>1, <2>20 DEF KvWrite, At, Shape
    <3>2. {"pc", "cmd", "next"} \subseteq DOMAIN proc[p]
      BY <3>1 DEF Shaped
    <3>3. DOMAIN r = DOMAIN proc[p] /\ r.pc = proc[p].pc /\ r.cmd = proc[p].cmd /\ r.next = proc[p].next + 1
      BY <3>2
    <3>4. proc' = [proc EXCEPT ![p] = r]
      BY <2>20 DEF KvWrite
    <3> HIDE DEF r
    <3>5. Len(Cmd(p).writes) \in Nat
      <4>1. Cmd(p).writes \in Seq([key : Key, value : Value \cup {None}])
        BY <2>1, <3>1, Place, CommandShape DEF At
      <4>2. QED
        BY <4>1, LenProperties
    <3>6. r.next \in 1..Len(r.cmd.writes) + 1
      BY <3>1, <3>3, <3>5 DEF Shaped, Cmd
    <3>7. Shaped(r)
      BY <3>1, <3>2, <3>3, <3>6 DEF Shaped
    <3>8. QED
      BY <2>6, <3>4, <3>7
  <2>21. CASE Query(p)
    <3>1. "embed" \in StepsOf[t]
      BY <2>21 DEF Query, StepsOf, t
    <3>2. QED
      BY <2>1, <2>21, <3>1, GoingShape DEF Query, t
  <2>22. CASE Embed(p)
    <3>1. t = "viking" /\ Cmd(p).op \in {"write", "find", "rm", "mv"}
      BY <2>1, <2>2, <2>22, Steps, Place DEF Embed, At
    <3>2. "vectors" \in StepsOf[t]
      BY <3>1 DEF StepsOf
    <3>3. QED
      BY <2>1, <2>4, <2>22, <3>1, <3>2, GoingShape DEF Embed, t
  <2>23. CASE SearchVectors(p) \/ WriteCount(p)
    BY <2>3, <2>4, <2>23 DEF SearchVectors, WriteCount
  <2>24. CASE ChangeVectors(p)
    <3> DEFINE n == CountAfter(Committed(Cmd(p)))
               r == [pc |-> "count", cmd |-> Cmd(p), count |-> n]
    <3>1. t = "viking" /\ Cmd(p) \in Given[setting]
      BY <2>1, <2>2, <2>24, Steps, Place DEF ChangeVectors, At
    <3>2. UserError(p) \/ Done(p) \/ proc' = [proc EXCEPT ![p] = r]
      BY <2>24 DEF ChangeVectors
    <3> HIDE DEF n
    <3>3. Shaped(r)
      BY <3>1 DEF Shaped, StepsOf, t
    <3> HIDE DEF r
    <3>4. QED
      BY <2>1, <2>4, <3>2, <3>3, Becoming, ShapeOne
  <2>25. CASE Exit(p)
    BY <1>3, <2>25 DEF Exit
  <2>26. QED
    BY <1>4, <2>8, <2>9, <2>10, <2>11, <2>12, <2>13, <2>14, <2>15, <2>16, <2>17, <2>18, <2>19, <2>20, <2>21, <2>22,
      <2>23, <2>25, <2>24 DEF Proceed
<1>5. ASSUME NEW p \in Proc, Die(p) PROVE Shape'
  BY <1>3, <1>5 DEF Die
<1>6. QED
  BY <1>1, <1>2, <1>4, <1>5 DEF Next

(***************************************************************************)
(* From which steps a process comes to those that the properties are about. *)
(***************************************************************************)
Onward(p) ==
  /\ DOMAIN proc' = Proc /\ \A q \in Proc \ {p} : proc'[q] = proc[q]
  /\ proc'[p].pc # "gone" /\ proc'[p].cmd = Cmd(p)
  /\ proc'[p].pc \in {"work", "batch"} /\ Cmd(p).tool = "kv" => OpenKv(p) \/ At(p, "work") \/ At(p, "batch")
  /\ proc'[p].pc = "batch" => KvBatch(p) \/ KvWrite(p)
  /\ proc'[p].pc \in Storing /\ Cmd(p).tool = "viking" => At(p, "collection") \/ proc[p].pc \in Storing
  /\ proc'[p].pc = "collection" => OpenStore(p)
  /\ proc'[p].pc = "count" => ChangeVectors(p)

\* One step of a process that does not end it.
LEMMA OnwardStep ==
  ASSUME Shape, NEW p \in Proc, Proceed(p), ~Exit(p)
  PROVE  Running(p) /\ setting' = setting /\ Onward(p)
<1>1. Running(p) /\ setting' = setting
  BY DEF Proceed, CreatePlugins, OpenKv, OpenStore, CreateCollection, CreateEmbedder, ResolveUris, LookAtTree,
    ChangeTree, AskSize, Read, KvRead, KvScan, KvBatch, KvWrite, KvDone, RunIndex, RunServer, Query, Embed,
    SearchVectors, ChangeVectors, WriteCount, AtTree, At, Running
<1> SUFFICES Onward(p)
  BY <1>1
<1>2. {"pc", "cmd"} \subseteq DOMAIN proc[p]
  BY <1>1, Place
<1>3. ASSUME NEW code, NEW got, Answer(p, code, got) PROVE Onward(p)
  BY <1>3, Answering DEF Onward, Storing
<1>4. UserError(p) \/ SystemError(p) \/ Done(p) => Onward(p)
  BY <1>3 DEF UserError, SystemError, Done
<1>5. ASSUME NEW pc, Goto(p, pc)
      PROVE  DOMAIN proc' = Proc /\ (\A q \in Proc \ {p} : proc'[q] = proc[q]) /\ proc'[p].pc = pc /\ proc'[p].cmd = Cmd(p)
  <2>1. /\ DOMAIN proc' = Proc /\ \A q \in Proc \ {p} : proc'[q] = proc[q]
        /\ proc'[p].pc = pc /\ \A x \in DOMAIN proc[p] \ {"pc"} : proc'[p][x] = proc[p][x]
    BY <1>1, <1>5, Going
  <2>2. QED
    BY <1>2, <2>1 DEF Cmd
<1>6. ASSUME NEW r, proc' = [proc EXCEPT ![p] = r]
      PROVE  DOMAIN proc' = Proc /\ proc'[p] = r /\ \A q \in Proc \ {p} : proc'[q] = proc[q]
  BY <1>6, Becoming
<1>7. CASE CreatePlugins(p)
  <2>1. CASE Goto(p, OpensNext(p))
    BY <1>5, <2>1 DEF OpensNext, Onward, Storing
  <2>2. QED
    BY <1>4, <1>7, <2>1 DEF CreatePlugins
<1>8. CASE OpenKv(p)
  <2>1. CASE Goto(p, "work")
    BY <1>5, <1>8, <2>1 DEF Onward, OpenKv
  <2>2. QED
    BY <1>4, <1>8, <2>1 DEF OpenKv
<1>9. CASE OpenStore(p)
  <2>1. CASE Goto(p, "collection")
    BY <1>5, <1>9, <2>1 DEF Onward, Storing
  <2>2. QED
    BY <1>4, <1>9, <2>1 DEF OpenStore
<1>10. CASE CreateCollection(p)
  <2>1. CASE Goto(p, "embedder")
    BY <1>5, <1>10, <2>1 DEF Onward, CreateCollection
  <2>2. QED
    BY <1>4, <1>10, <2>1 DEF CreateCollection
<1>11. CASE CreateEmbedder(p)
  <2>1. At(p, "embedder") /\ Cmd(p).tool = "viking"
    BY <1>1, <1>11, Place, Steps DEF CreateEmbedder, At
  <2>2. CASE Goto(p, "work")
    BY <1>5, <2>1, <2>2 DEF Onward, At, Storing
  <2>3. QED
    BY <1>4, <1>11, <2>2 DEF CreateEmbedder
<1>12. CASE ResolveUris(p)
  <2> DEFINE path == Resolved[Cmd(p)].path
             to == Resolved[Cmd(p)].to
             r == [pc |-> "tree", cmd |-> Cmd(p), path |-> path, to |-> to]
  <2>1. UserError(p) \/ proc' = [proc EXCEPT ![p] = r]
    BY <1>12 DEF ResolveUris
  <2>2. r.pc = "tree" /\ r.cmd = Cmd(p)
    OBVIOUS
  <2> HIDE DEF r
  <2>3. CASE proc' = [proc EXCEPT ![p] = r]
    BY <1>6, <1>12, <2>2, <2>3 DEF Onward, ResolveUris, At, Storing
  <2>4. QED
    BY <1>4, <2>1, <2>3
<1>13. CASE LookAtTree(p)
  BY <1>3, <1>13 DEF LookAtTree, TreeError
<1>14. CASE ChangeTree(p)
  <2> DEFINE pc == IF Cmd(p).op = "write" THEN "embed" ELSE "vectors"
             r == [pc |-> pc, cmd |-> Cmd(p)]
  <2>1. UserError(p) \/ SystemError(p) \/ Done(p) \/ TreeError(p, proc[p].path) \/ proc' = [proc EXCEPT ![p] = r]
    BY <1>14 DEF ChangeTree
  <2>2. r.pc \in {"embed", "vectors"} /\ r.cmd = Cmd(p)
    OBVIOUS
  <2>3. At(p, "tree")
    BY <1>14 DEF ChangeTree, AtTree
  <2> HIDE DEF r
  <2>4. CASE proc' = [proc EXCEPT ![p] = r]
    BY <1>6, <2>2, <2>3, <2>4 DEF Onward, At, Storing
  <2>5. QED
    BY <1>3, <1>4, <2>1, <2>4 DEF TreeError
<1>15. CASE AskSize(p)
  <2> DEFINE size == FsSize(fs, proc[p].path)
             r == [pc |-> "read", cmd |-> Cmd(p), path |-> proc[p].path, size |-> size.got]
  <2>1. UserError(p) \/ proc' = [proc EXCEPT ![p] = r]
    BY <1>15 DEF AskSize
  <2>2. r.pc = "read" /\ r.cmd = Cmd(p)
    OBVIOUS
  <2>3. At(p, "tree")
    BY <1>15 DEF AskSize, AtTree
  <2> HIDE DEF r
  <2>4. CASE proc' = [proc EXCEPT ![p] = r]
    BY <1>6, <2>2, <2>3, <2>4 DEF Onward, At, Storing
  <2>5. QED
    BY <1>4, <2>1, <2>4
<1>16. CASE Read(p)
  BY <1>3, <1>16 DEF Read, TreeError
<1>17. CASE KvRead(p) \/ KvScan(p) \/ KvDone(p) \/ RunIndex(p) \/ RunServer(p)
  BY <1>3, <1>4, <1>17 DEF KvRead, KvScan, KvDone, RunIndex, RunServer
<1>18. CASE KvBatch(p)
  <2> DEFINE r == [pc |-> "batch", cmd |-> Cmd(p), next |-> 1]
  <2>1. proc' = [proc EXCEPT ![p] = r] /\ At(p, "work")
    BY <1>18 DEF KvBatch
  <2>2. r.pc = "batch" /\ r.cmd = Cmd(p)
    OBVIOUS
  <2> HIDE DEF r
  <2>3. QED
    BY <1>6, <1>18, <2>1, <2>2 DEF Onward, Storing
<1>19. CASE KvWrite(p)
  <2> DEFINE r == [proc[p] EXCEPT !.next = @ + 1]
  <2>1. proc' = [proc EXCEPT ![p] = r] /\ At(p, "batch")
    BY <1>19 DEF KvWrite
  <2>2. r.pc = proc[p].pc /\ r.cmd = Cmd(p)
    BY <1>2 DEF Cmd
  <2> HIDE DEF r
  <2>3. QED
    BY <1>6, <1>19, <2>1, <2>2 DEF Onward, Storing, At
<1>20. CASE Query(p)
  <2>1. Goto(p, "embed") /\ At(p, "work")
    BY <1>20 DEF Query
  <2>2. QED
    BY <1>5, <2>1 DEF Onward, At, Storing
<1>21. CASE Embed(p)
  <2>1. CASE Goto(p, "vectors")
    BY <1>5, <1>21, <2>1 DEF Onward, Embed, At, Storing
  <2>2. QED
    BY <1>4, <1>21, <2>1 DEF Embed
<1>22. CASE SearchVectors(p) \/ WriteCount(p)
  BY <1>3, <1>4, <1>22 DEF SearchVectors, WriteCount
<1>23. CASE ChangeVectors(p)
  <2> DEFINE n == CountAfter(Committed(Cmd(p)))
             r == [pc |-> "count", cmd |-> Cmd(p), count |-> n]
  <2>1. UserError(p) \/ Done(p) \/ proc' = [proc EXCEPT ![p] = r]
    BY <1>23 DEF ChangeVectors
  <2>2. r.pc = "count" /\ r.cmd = Cmd(p)
    OBVIOUS
  <2>3. proc[p].pc \in Storing
    BY <1>23 DEF ChangeVectors, At, Storing
  <2> HIDE DEF r
  <2>4. CASE proc' = [proc EXCEPT ![p] = r]
    BY <1>6, <1>23, <2>2, <2>3, <2>4 DEF Onward
  <2>5. QED
    BY <1>4, <2>1, <2>4
<1>24. QED
  BY <1>1, <1>7, <1>8, <1>9, <1>10, <1>11, <1>12, <1>13, <1>14, <1>15, <1>16, <1>17, <1>18, <1>19, <1>20, <1>21, <1>22, <1>23 DEF Proceed

\* The end of a process.
LEMMA Ending ==
  ASSUME Shape, NEW p \in Proc, proc' = [proc EXCEPT ![p] = Gone]
  PROVE  DOMAIN proc' = Proc /\ proc'[p].pc = "gone" /\ \A q \in Proc \ {p} : proc'[q] = proc[q]
  BY Becoming DEF Gone

(***************************************************************************)
(* Locks: held by a running process of the tool that takes them, and what   *)
(* is done to the keys, or to vectors on disk, is done under theirs.         *)
(***************************************************************************)
Uses(p) == Persistent /\ Running(p) /\ Cmd(p).tool = "viking" /\ proc[p].pc \in Storing \cup {"collection"}

Locks ==
  /\ kvLock \in Proc \cup {None} /\ dbLock \in Proc \cup {None}
  /\ kvLock # None => Running(kvLock) /\ Cmd(kvLock).tool = "kv"
  /\ dbLock # None => Running(dbLock) /\ setting.store = "rocksdb"
  /\ \A p \in Proc : (At(p, "work") \/ At(p, "batch")) /\ Cmd(p).tool = "kv" => kvLock = p
  /\ \A p \in Proc : Uses(p) => dbLock = p

\* Every step keeps the locks.
LEMMA LocksStep == ASSUME Shape, Locks, [Next]_vars PROVE Locks'
<1>1. CASE UNCHANGED vars
  BY <1>1 DEF vars, dbVars, kvVars, Locks, Uses, Persistent, Running, Cmd, At
<1>2. ASSUME NEW p \in Proc, Start(p) PROVE Locks'
  <2>1. PICK c \in Given[setting] : proc' = [proc EXCEPT ![p] = [pc |-> "registry", cmd |-> c]]
    BY <1>2 DEF Start
  <2> DEFINE r == [pc |-> "registry", cmd |-> c]
  <2>2. r.pc = "registry"
    OBVIOUS
  <2>3. proc' = [proc EXCEPT ![p] = r]
    BY <2>1
  <2> HIDE DEF r
  <2>4. proc'[p] = r /\ \A q \in Proc \ {p} : proc'[q] = proc[q]
    BY <2>3, Becoming
  <2>5. ~Running(p) /\ UNCHANGED <<setting, kvLock, dbLock>>
    BY <1>2 DEF Start, kvVars, dbVars
  <2>6. kvLock # p /\ dbLock # p
    BY <2>5, CliAssumption DEF Locks
  <2>7. QED
    BY <2>2, <2>4, <2>5, <2>6 DEF Locks, Uses, Persistent, Storing, Running, Cmd, At
<1>3. ASSUME NEW p \in Proc, proc' = [proc EXCEPT ![p] = Gone], setting' = setting,
             kvLock' = Released(kvLock, p), dbLock' = Released(dbLock, p)
      PROVE  Locks'
  <2>1. proc'[p].pc = "gone" /\ \A q \in Proc \ {p} : proc'[q] = proc[q]
    BY <1>3, Ending
  <2>2. QED
    BY <1>3, <2>1 DEF Locks, Uses, Persistent, Running, Cmd, At, Released
<1>4. ASSUME NEW p \in Proc, Proceed(p), ~Exit(p) PROVE Locks'
  <2>1. Running(p) /\ setting' = setting /\ Onward(p)
    BY <1>4, OnwardStep
  <2>2. \A q \in Proc : Uses(q)' => dbLock' = q
    <3>1. ASSUME NEW q \in Proc, q # p, Uses(q)' PROVE dbLock' = q
      <4>1. Uses(q) /\ q # None
        BY <2>1, <3>1, CliAssumption DEF Uses, Onward, Persistent, Running, Cmd
      <4>2. dbLock = q
        BY <4>1 DEF Locks
      <4>3. dbLock' = dbLock
        BY <1>4, <4>1, <4>2 DEF Proceed, CreatePlugins, OpenKv, OpenStore, CreateCollection, CreateEmbedder, ResolveUris,
          LookAtTree, ChangeTree, AskSize, Read, KvRead, KvScan, KvBatch, KvWrite, KvDone, RunIndex, RunServer, Query,
          Embed, SearchVectors, ChangeVectors, WriteCount, dbVars, Uses, Persistent
      <4>4. QED
        BY <4>2, <4>3
    <3>2. ASSUME Uses(p)' PROVE dbLock' = p
      <4>1. Persistent /\ Cmd(p).tool = "viking" /\ proc'[p].pc \in Storing \cup {"collection"}
        BY <2>1, <3>2 DEF Uses, Onward, Persistent, Running, Cmd
      <4>2. CASE OpenStore(p)
        <5>1. dbLock = None
          <6>1. SUFFICES ASSUME dbLock # None PROVE FALSE
            OBVIOUS
          <6>2. SystemError(p)
            BY <4>1, <4>2, <6>1 DEF OpenStore, Persistent
          <6>3. proc'[p].pc = "exit"
            BY <2>1, <6>2, Answering DEF SystemError
          <6>4. QED
            BY <4>1, <6>3 DEF Storing
        <5>2. QED
          BY <4>1, <4>2, <5>1 DEF OpenStore, Persistent
      <4>3. CASE ~OpenStore(p)
        <5>1. proc[p].pc \in Storing \cup {"collection"}
          BY <2>1, <4>1, <4>3 DEF Onward, At
        <5>2. dbLock = p /\ p # None
          BY <2>1, <4>1, <5>1, CliAssumption DEF Uses, Locks
        <5>3. dbLock' = dbLock
          BY <1>4, <4>1, <4>3, <5>2 DEF Proceed, CreatePlugins, OpenKv, CreateCollection, CreateEmbedder, ResolveUris,
            LookAtTree, ChangeTree, AskSize, Read, KvRead, KvScan, KvBatch, KvWrite, KvDone, RunIndex, RunServer, Query,
            Embed, SearchVectors, ChangeVectors, WriteCount, dbVars, Persistent
        <5>4. QED
          BY <5>2, <5>3
      <4>4. QED
        BY <4>2, <4>3
    <3>3. QED
      BY <3>1, <3>2
  <2>3. CASE OpenKv(p)
    <3>1. kvLock' = kvLock \/ (kvLock = None /\ kvLock' = p)
      BY <2>3 DEF OpenKv
    <3>2. dbLock' = dbLock /\ Cmd(p).tool = "kv" /\ ~At(p, "work") /\ ~At(p, "batch")
      BY <2>3 DEF OpenKv, dbVars, At
    <3>3. proc'[p].pc = "work" => kvLock' = p
      <4>1. CASE kvLock = None
        BY <2>3, <4>1 DEF OpenKv
      <4>2. CASE kvLock # None
        <5>1. SystemError(p)
          BY <2>3, <4>2 DEF OpenKv
        <5>2. proc'[p].pc = "exit"
          BY <5>1, Answering DEF SystemError
        <5>3. QED
          BY <5>2
      <4>3. QED
        BY <4>1, <4>2
    <3>4. proc'[p].pc # "batch"
      BY <2>1, <2>3 DEF Onward, KvBatch, KvWrite, OpenKv, At
    <3>5. \A q \in Proc : kvLock = q => Running(q)
      BY CliAssumption DEF Locks
    <3>6. \A q \in Proc : (At(q, "work") \/ At(q, "batch")) /\ Cmd(q).tool = "kv" => kvLock = q /\ kvLock # None
      BY CliAssumption DEF Locks
    <3>7. QED
      BY <2>1, <2>2, <3>1, <3>2, <3>3, <3>4, <3>5, <3>6 DEF Locks, Running, Cmd, At, Onward
  <2>4. CASE ~OpenKv(p)
    <3>1. kvLock' = kvLock
      BY <1>4, <2>4 DEF Proceed, CreatePlugins, OpenStore, CreateCollection, CreateEmbedder, ResolveUris, LookAtTree,
        ChangeTree, AskSize, Read, KvRead, KvScan, KvBatch, KvWrite, KvDone, RunIndex, RunServer, Query, Embed,
        SearchVectors, ChangeVectors, WriteCount, kvVars
    <3>2. dbLock' = dbLock \/ (dbLock' = p /\ setting.store = "rocksdb")
      BY <1>4, <2>4 DEF Proceed, CreatePlugins, OpenStore, CreateCollection, CreateEmbedder, ResolveUris, LookAtTree,
        ChangeTree, AskSize, Read, KvRead, KvScan, KvBatch, KvWrite, KvDone, RunIndex, RunServer, Query, Embed,
        SearchVectors, ChangeVectors, WriteCount, dbVars
    <3>3. \A q \in Proc : proc'[q].pc # "gone" <=> Running(q)
      BY <2>1 DEF Onward, Running
    <3>4. \A q \in Proc : Running(q) => proc'[q].cmd = Cmd(q)
      BY <2>1 DEF Onward, Cmd
    <3>5. \A q \in Proc : proc'[q].pc \in {"work", "batch"} /\ proc'[q].cmd.tool = "kv" =>
                            (At(q, "work") \/ At(q, "batch")) /\ Cmd(q).tool = "kv"
      BY <2>1, <2>4 DEF Onward, At, Cmd
    <3>6. QED
      BY <2>1, <2>2, <3>1, <3>2, <3>3, <3>4, <3>5 DEF Locks, Running, Cmd, At
  <2>5. QED
    BY <2>3, <2>4
<1>5. QED
  BY <1>1, <1>2, <1>3, <1>4 DEF Next, Exit, Die

(***************************************************************************)
(* The tree: a file's parents are directories.                              *)
(***************************************************************************)
Stored == Tree(fs, Path)

\* What changes the tree keeps it one.
LEMMA ChangeKeepsTree ==
  ASSUME Stored, NEW c \in Command, c.tool \in {"fs", "viking"}, c.op \in {"write", "mkdir", "rm", "mv"},
         NEW path \in Path, Len(path) >= 1, NEW to \in Path, Len(to) >= 1
  PROVE  Tree(Change(c, path, to).fs, Path)
<1>1. Dir \notin Path
  BY CliAssumption DEF Path
<1>2. CASE c.op = "write"
  <2>1. c.text \in Path
    BY <1>2, CommandShape
  <2>2. Tree(FsWrite(fs, path, c.text).fs, Path)
    BY <1>1, <2>1, WriteTree DEF Stored
  <2>3. QED
    BY <1>2, <2>2 DEF Change
<1>3. CASE c.op = "mkdir"
  <2>1. Tree(FsMkdir(fs, path).fs, Path)
    BY MkdirTree DEF Stored
  <2>2. QED
    BY <1>3, <2>1 DEF Change
<1>4. CASE c.op = "rm"
  <2>1. Tree(FsRemoveAll(fs, path).fs, Path) /\ Tree(FsRemove(fs, path).fs, Path)
    BY RemoveTree, RemoveAllTree DEF Stored
  <2>2. QED
    BY <1>4, <2>1 DEF Change
<1>5. CASE c.op = "mv"
  <2> DEFINE result == FsRename(fs, path, to)
             g == Set(Renamed(fs, path, to), Parents(to) \ DOMAIN fs, Dir)
  <2> SUFFICES Tree(result.fs, Path)
    BY <1>5 DEF Change
  <2>1. CASE ~result.ok
    BY <2>1, RenameFails DEF Stored
  <2>2. CASE result.ok
    <3>1. path \in DOMAIN fs /\ ~Blocked(fs, to) /\ CanRename(WithParents(fs, to), path, to)
      BY <2>2 DEF FsRename, Err
    <3>2. result.fs = g
      BY <3>1 DEF FsRename, Ok
    <3>3. Tree(g, Path)
      BY <3>1, RenamedTree DEF Stored
    <3>4. QED
      BY <3>2, <3>3
  <2>3. QED
    BY <2>1, <2>2
<1>6. QED
  BY <1>2, <1>3, <1>4, <1>5

\* Every step keeps the tree one.
LEMMA StoredStep == ASSUME Shape, Stored, [Next]_vars PROVE Stored'
<1>1. CASE fs' = fs
  BY <1>1 DEF Stored
<1>2. ASSUME NEW p \in Proc, ChangeTree(p) PROVE Stored'
  <2> DEFINE c == Cmd(p)
             path == proc[p].path
             to == proc[p].to
  <2>1. At(p, "tree") /\ c.op \in {"write", "mkdir", "rm", "mv"} /\ Running(p)
    BY <1>2 DEF ChangeTree, AtTree, At, Running
  <2>2. /\ c \in Command /\ c \in Commands /\ OnTree(c) /\ Mounted(path) /\ to # NoPath
        /\ path = Resolved[c].path /\ to = Resolved[c].to
    BY <2>1, Place
  <2>3. c.tool \in {"fs", "viking"}
    BY <2>2 DEF OnTree
  <2>4. PathOf(c) \in Path /\ TargetOf(c) \in Path
    BY <2>1, <2>2, ChangesPaths
  <2>5. path = Resolve(PathOf(c)) /\ to = Resolve(TargetOf(c))
    BY <2>2 DEF Resolved
  <2>6. path \in Path /\ to \in Path
    BY <2>4, <2>5, ResolvedPath
  <2>7. Len(path) >= 1
    BY <2>2, <2>6, MountedPaths
  <2>8. Len(to) >= 1
    BY <2>2, <2>6, LenProperties, EmptySeq DEF NoPath, Path
  <2>9. fs' = Change(c, path, to).fs
    BY <1>2 DEF ChangeTree
  <2>10. Tree(Change(c, path, to).fs, Path)
    BY <2>1, <2>2, <2>3, <2>6, <2>7, <2>8, ChangeKeepsTree
  <2> HIDE DEF c, path, to
  <2>11. QED
    BY <2>9, <2>10 DEF Stored
<1>3. ASSUME NEW p \in Proc, Proceed(p), ~ChangeTree(p) PROVE fs' = fs
  BY <1>3 DEF Proceed, CreatePlugins, OpenKv, OpenStore, CreateCollection, CreateEmbedder, ResolveUris, LookAtTree,
    AskSize, Read, KvRead, KvScan, KvBatch, KvWrite, KvDone, RunIndex, RunServer, Query, Embed, SearchVectors, ChangeVectors, WriteCount, Exit
<1>4. QED
  BY <1>1, <1>2, <1>3 DEF Next, vars, Start, Die

(***************************************************************************)
(* The vector database: made before it is used, made once, and counted by   *)
(* one command at a time.                                                   *)
(***************************************************************************)
DiskFields == {"made", "vectors", "count", "cut"}

Sound(d) ==
  /\ IsFiniteSet(DOMAIN d.vectors) /\ (DOMAIN d.vectors # {} => d.made)
  /\ d.count \in Nat /\ d.cut \in BOOLEAN

Counted(d) == d.count = Cardinality(DOMAIN d.vectors) \/ d.cut

\* A command between its batch and its count holds the right number.
Counting(p) ==
  At(p, "count") => Persistent /\ proc[p].count \in Nat /\ Counted([disk EXCEPT !.count = proc[p].count])

Database ==
  /\ DOMAIN disk = DiskFields /\ Sound(disk)
  /\ Counted(disk) \/ \E p \in Proc : At(p, "count")
  /\ \A p \in Proc : Counting(p)
  /\ \A p \in Proc : Running(p) /\ Persistent /\ Cmd(p).tool = "viking" /\ proc[p].pc \in Storing => disk.made

\* The database with other vectors, or another count.
LEMMA Altered ==
  ASSUME DOMAIN disk = DiskFields, NEW x
  PROVE  /\ LET d == [disk EXCEPT !.vectors = x]
            IN DOMAIN d = DiskFields /\ d.vectors = x /\ d.count = disk.count /\ d.cut = disk.cut /\ d.made = disk.made
         /\ LET d == [disk EXCEPT !.count = x]
            IN DOMAIN d = DiskFields /\ d.count = x /\ d.vectors = disk.vectors /\ d.cut = disk.cut /\ d.made = disk.made
         /\ LET d == [disk EXCEPT !.cut = x]
            IN DOMAIN d = DiskFields /\ d.cut = x /\ d.vectors = disk.vectors /\ d.count = disk.count /\ d.made = disk.made
  BY DEF DiskFields

\* A batch leaves finitely many vectors.
LEMMA CommittedFinite ==
  ASSUME Sound(disk), NEW c, c.op \in {"write", "rm", "mv"}
  PROVE  IsFiniteSet(DOMAIN Committed(c))
<1> DEFINE ids == DOMAIN disk.vectors
           gone == {id \in ids : IsPrefix(c.uri, disk.vectors[id])}
<1>1. IsFiniteSet(ids)
  BY DEF Sound
<1>2. CASE c.op = "write"
  <2>1. DOMAIN Committed(c) = ids \cup {c.uri}
    BY <1>2 DEF Committed, Set
  <2>2. QED
    BY <1>1, <2>1, FS_AddElement
<1>3. CASE c.op = "rm"
  <2>1. Committed(c) = Prune(disk.vectors, gone)
    BY <1>3 DEF Committed
  <2>2. DOMAIN Committed(c) = ids \ gone
    BY <2>1 DEF Prune
  <2> HIDE DEF gone
  <2>3. QED
    BY <1>1, <2>2, FS_Subset
<1>4. CASE c.op = "mv"
  <2>1. DOMAIN Committed(c) = ids
    BY <1>4 DEF Committed
  <2>2. QED
    BY <1>1, <2>1
<1>5. QED
  BY <1>2, <1>3, <1>4

\* A process that neither is nor comes between batch and count, with the
\* database as it was: Database stays what it was about the others.
LEMMA DatabaseSame ==
  ASSUME Shape, Database, disk' = disk, setting' = setting, NEW p \in Proc,
         DOMAIN proc' = Proc, \A q \in Proc \ {p} : proc'[q] = proc[q],
         ~At(p, "count"), proc'[p].pc # "count",
         proc'[p].pc # "gone" /\ Persistent /\ proc'[p].cmd.tool = "viking" /\ proc'[p].pc \in Storing => disk.made
  PROVE  Database'
<1>1. \A q \in Proc : At(q, "count")' <=> At(q, "count")
  BY DEF At
<1>2. ASSUME NEW q \in Proc, At(q, "count")' PROVE Counting(q)'
  <2>1. q # p /\ At(q, "count")
    BY <1>1, <1>2 DEF At
  <2>2. proc'[q] = proc[q] /\ Counting(q)
    BY <2>1 DEF Database
  <2>3. Persistent /\ proc[q].count \in Nat /\ Counted([disk EXCEPT !.count = proc[q].count])
    BY <2>1, <2>2 DEF Counting
  <2>4. QED
    BY <2>2, <2>3 DEF Counting, Counted, Persistent
<1>3. \A q \in Proc : proc'[q].pc # "gone" /\ Persistent /\ proc'[q].cmd.tool = "viking" /\ proc'[q].pc \in Storing => disk.made
  BY DEF Database, Running, Cmd
<1>4. \A q \in Proc : Counting(q)'
  BY <1>2 DEF Counting
<1>5. QED
  BY <1>1, <1>3, <1>4 DEF Database, Running, Cmd, Persistent, Sound, Counted

\* Every step keeps the count.
LEMMA DatabaseStep == ASSUME Shape, Locks, Database, [Next]_vars PROVE Database'
<1>1. DOMAIN disk = DiskFields /\ Sound(disk)
  BY DEF Database
<1>2. CASE UNCHANGED vars
  <2>1. disk' = disk /\ proc' = proc /\ setting' = setting
    BY <1>2 DEF vars, dbVars
  <2>2. QED
    BY <2>1 DEF Database, Counting, Counted, Sound, Running, Cmd, Persistent, At
<1>3. ASSUME NEW p \in Proc, Start(p) PROVE Database'
  <2>1. PICK c \in Given[setting] : proc' = [proc EXCEPT ![p] = [pc |-> "registry", cmd |-> c]]
    BY <1>3 DEF Start
  <2> DEFINE r == [pc |-> "registry", cmd |-> c]
  <2>2. r.pc = "registry"
    OBVIOUS
  <2>3. proc' = [proc EXCEPT ![p] = r]
    BY <2>1
  <2> HIDE DEF r
  <2>4. DOMAIN proc' = Proc /\ proc'[p] = r /\ \A q \in Proc \ {p} : proc'[q] = proc[q]
    BY <2>3, Becoming
  <2>5. UNCHANGED <<setting, disk>> /\ ~Running(p)
    BY <1>3 DEF Start, dbVars
  <2>6. ~At(p, "count")
    BY <2>5 DEF Running, At
  <2>7. QED
    BY <2>2, <2>4, <2>5, <2>6, DatabaseSame DEF Storing
\* While one command is between batch and count no other is.
<1>4. ASSUME NEW p \in Proc, At(p, "count") PROVE Uses(p) /\ dbLock = p
  <2>1. Running(p)
    BY <1>4 DEF At, Running
  <2>2. Cmd(p).tool = "viking"
    BY <1>4, <2>1, Place, Steps DEF At
  <2>3. Uses(p)
    BY <1>4, <2>1, <2>2 DEF Database, Counting, Uses, At, Storing
  <2>4. QED
    BY <2>3 DEF Locks
<1>5. ASSUME NEW p \in Proc, Exit(p) PROVE Database'
  <2>1. proc' = [proc EXCEPT ![p] = Gone] /\ ~At(p, "count") /\ UNCHANGED <<setting, disk>>
    BY <1>5 DEF Exit, At
  <2>2. DOMAIN proc' = Proc /\ proc'[p].pc = "gone" /\ \A q \in Proc \ {p} : proc'[q] = proc[q]
    BY <2>1, Ending
  <2>3. QED
    BY <2>1, <2>2, DatabaseSame
<1>6. ASSUME NEW p \in Proc, Die(p) PROVE Database'
  <2>1. proc' = [proc EXCEPT ![p] = Gone] /\ setting' = setting
    BY <1>6 DEF Die
  <2>2. DOMAIN proc' = Proc /\ proc'[p].pc = "gone" /\ \A q \in Proc \ {p} : proc'[q] = proc[q]
    BY <2>1, Ending
  <2>3. CASE ~At(p, "count")
    <3>1. disk' = disk
      BY <1>6, <2>3 DEF Die
    <3>2. QED
      BY <2>1, <2>2, <2>3, <3>1, DatabaseSame
  <2>4. CASE At(p, "count")
    <3>1. disk' = [disk EXCEPT !.cut = TRUE]
      BY <1>6, <2>4 DEF Die
    <3>2. DOMAIN disk' = DiskFields /\ disk'.cut = TRUE /\ disk'.vectors = disk.vectors /\ disk'.count = disk.count /\ disk'.made = disk.made
      BY <1>1, <3>1, Altered
    <3>3. Sound(disk)' /\ Counted(disk)'
      BY <1>1, <3>2 DEF Sound, Counted
    <3>4. \A q \in Proc : At(q, "count")' => FALSE
      BY <1>4, <2>2, <2>4 DEF At
    <3>5. \A q \in Proc : proc'[q].pc # "gone" /\ Persistent /\ proc'[q].cmd.tool = "viking" /\ proc'[q].pc \in Storing => disk.made
      BY <2>2 DEF Database, Running, Cmd
    <3>6. \A q \in Proc : Counting(q)'
      BY <3>4 DEF Counting
    <3>7. QED
      BY <2>1, <3>2, <3>3, <3>5, <3>6 DEF Database, Running, Cmd, Persistent
  <2>5. QED
    BY <2>3, <2>4
<1>7. ASSUME NEW p \in Proc, Proceed(p), ~Exit(p) PROVE Database'
  <2>1. Running(p) /\ setting' = setting /\ Onward(p)
    BY <1>7, OnwardStep
  <2>2. DOMAIN proc' = Proc /\ (\A q \in Proc \ {p} : proc'[q] = proc[q]) /\ proc'[p].pc # "gone" /\ proc'[p].cmd = Cmd(p)
    BY <2>1 DEF Onward
  <2>3. ASSUME Uses(p), DOMAIN disk' = DiskFields, Sound(disk'), disk'.made,
               Counted(disk') \/ proc'[p].pc = "count",
               proc'[p].pc = "count" => proc'[p].count \in Nat /\ Counted([disk' EXCEPT !.count = proc'[p].count])
        PROVE  Database'
    <3>1. Persistent
      BY <2>3 DEF Uses
    <3>2. \A q \in Proc \ {p} : proc'[q].pc # "count"
      BY <1>4, <2>2, <2>3 DEF At, Locks
    <3>3. \A q \in Proc : Counting(q)'
      BY <2>1, <2>3, <3>1, <3>2 DEF Counting, At, Persistent, Counted
    <3>4. Counted(disk)' \/ \E q \in Proc : At(q, "count")'
      BY <2>3 DEF Counted, At
    <3>5. Sound(disk)'
      BY <2>3 DEF Sound
    <3>6. QED
      BY <2>3, <3>3, <3>4, <3>5 DEF Database
  <2>4. CASE disk' = disk /\ ~At(p, "count") /\ ~ChangeVectors(p) /\ (~At(p, "collection") \/ ~Persistent \/ proc'[p].pc \notin Storing \/ disk.made)
    <3>1. proc'[p].pc # "count"
      BY <2>1, <2>4 DEF Onward
    <3>2. Persistent /\ proc'[p].cmd.tool = "viking" /\ proc'[p].pc \in Storing => disk.made
      BY <2>1, <2>2, <2>4 DEF Onward, Database, Running, Cmd
    <3>3. QED
      BY <2>1, <2>2, <2>4, <3>1, <3>2, DatabaseSame
  <2>5. CASE CreateCollection(p)
    <3>1. ~At(p, "count") /\ At(p, "collection") /\ ~ChangeVectors(p)
      BY <2>5 DEF CreateCollection, ChangeVectors, At
    <3>2. CASE ~Persistent
      BY <2>4, <2>5, <3>1, <3>2 DEF CreateCollection, Persistent
    <3>3. CASE Persistent /\ disk.made
      BY <2>4, <2>5, <3>1, <3>3 DEF CreateCollection, Persistent
    <3>4. CASE Persistent /\ ~disk.made
      <4>1. disk' = Fresh /\ Goto(p, "embedder")
        BY <2>5, <3>4 DEF CreateCollection, Persistent
      <4>2. Cmd(p).tool = "viking"
        BY <2>1, <3>1, Place, Steps DEF At
      <4>3. Uses(p)
        BY <2>1, <3>1, <3>4, <4>2 DEF Uses, At
      <4>4. DOMAIN disk' = DiskFields /\ disk'.made /\ disk'.count = 0 /\ disk'.vectors = disk.vectors /\ disk'.cut = disk.cut
        BY <1>1, <4>1 DEF Fresh, DiskFields
      <4>5. DOMAIN disk.vectors = {}
        BY <1>1, <3>4 DEF Sound
      <4>6. Sound(disk') /\ Counted(disk')
        BY <1>1, <4>4, <4>5, FS_EmptySet DEF Sound, Counted
      <4>7. proc'[p].pc = "embedder"
        BY <2>1, <4>1, Going
      <4>8. QED
        BY <2>3, <4>3, <4>4, <4>6, <4>7
    <3>5. QED
      BY <3>2, <3>3, <3>4
  <2>6. CASE ChangeVectors(p)
    <3> DEFINE c == Cmd(p)
               vectors == Committed(c)
               n == CountAfter(vectors)
               r == [pc |-> "count", cmd |-> c, count |-> n]
    <3>1. At(p, "vectors") /\ c.op \in {"write", "rm", "mv"} /\ ~At(p, "count") /\ ~At(p, "collection")
      BY <2>6 DEF ChangeVectors, At
    <3>2. c.tool = "viking"
      BY <2>1, <3>1, Place, Steps DEF At
    <3>3. Persistent => Uses(p) /\ disk.made
      BY <2>1, <3>1, <3>2 DEF Uses, Database, At, Storing
    <3>4. ASSUME disk' = disk, UserError(p) \/ Done(p) PROVE Database'
      <4>1. proc'[p].pc = "exit"
        BY <2>1, <3>4, Answering DEF UserError, Done
      <4>2. QED
        BY <2>1, <2>2, <3>1, <3>4, <4>1, DatabaseSame DEF Storing
    <3>5. CASE ~Persistent \/ Refused(c)
      BY <2>6, <3>4, <3>5 DEF ChangeVectors
    <3>6. CASE Persistent /\ ~Refused(c)
      <4>1. disk' = [disk EXCEPT !.vectors = vectors]
        BY <2>6, <3>6 DEF ChangeVectors
      <4>2. IF n = disk.count THEN Done(p) ELSE proc' = [proc EXCEPT ![p] = r]
        BY <2>6, <3>6 DEF ChangeVectors
      <4>3. DOMAIN disk' = DiskFields /\ disk'.vectors = vectors /\ disk'.count = disk.count /\ disk'.cut = disk.cut /\ disk'.made = disk.made
        BY <1>1, <4>1, Altered
      <4>4. IsFiniteSet(DOMAIN vectors)
        BY <1>1, <3>1, CommittedFinite
      <4>5. \A q \in Proc : ~At(q, "count")
        BY <1>4, <3>1, <3>3, <3>6 DEF Locks
      <4>6. disk.count = Cardinality(DOMAIN disk.vectors) \/ disk.cut
        BY <4>5 DEF Database, Counted
      <4>7. Cardinality(DOMAIN vectors) \in Nat /\ Cardinality(DOMAIN disk.vectors) \in Nat /\ disk.count \in Nat
        BY <1>1, <4>4, FS_CardinalityType DEF Sound
      <4>8. n \in Nat /\ (n = Cardinality(DOMAIN vectors) \/ disk.cut)
        BY <4>6, <4>7 DEF CountAfter
      <4> HIDE DEF vectors, n
      <4>9. Sound(disk') /\ disk'.made
        BY <1>1, <3>3, <3>6, <4>3, <4>4 DEF Sound
      <4>10. Counted([disk' EXCEPT !.count = n])
        <5> DEFINE d == [disk' EXCEPT !.count = n]
        <5>1. d.count = n /\ d.vectors = vectors /\ d.cut = disk.cut
          BY <4>3 DEF DiskFields
        <5> HIDE DEF d
        <5>2. Counted(d)
          BY <4>8, <5>1 DEF Counted
        <5>3. QED
          BY <5>2 DEF d
      <4>11. CASE n = disk.count
        <5>1. Counted(disk')
          BY <4>3, <4>8, <4>11 DEF Counted
        <5>2. proc'[p].pc = "exit"
          BY <2>1, <4>2, <4>11, Answering DEF Done
        <5>3. QED
          BY <2>3, <3>3, <3>6, <4>3, <4>9, <5>1, <5>2
      <4>12. CASE n # disk.count
        <5>1. r.pc = "count" /\ r.count = n
          OBVIOUS
        <5> HIDE DEF r
        <5>2. proc'[p] = r
          BY <4>2, <4>12, Becoming
        <5>3. QED
          BY <2>3, <3>3, <3>6, <4>3, <4>8, <4>9, <4>10, <5>1, <5>2
      <4>13. QED
        BY <4>11, <4>12
    <3>7. QED
      BY <3>5, <3>6
  <2>7. CASE WriteCount(p)
    <3>1. At(p, "count") /\ Done(p) /\ disk' = [disk EXCEPT !.count = proc[p].count]
      BY <2>7 DEF WriteCount
    <3> DEFINE n == proc[p].count
    <3>2. n \in Nat /\ Counted([disk EXCEPT !.count = n]) /\ Persistent /\ Uses(p)
      BY <1>4, <3>1 DEF Database, Counting
    <3>3. DOMAIN disk' = DiskFields /\ disk'.count = n /\ disk'.vectors = disk.vectors /\ disk'.cut = disk.cut /\ disk'.made = disk.made
      BY <1>1, <3>1, Altered
    <3>4. Sound(disk')
      BY <1>1, <3>2, <3>3 DEF Sound
    <3>5. Counted(disk') /\ disk'.made
      BY <2>1, <3>1, <3>2, <3>3 DEF Database, Uses, At, Storing
    <3>6. proc'[p].pc = "exit"
      BY <2>1, <3>1, Answering DEF Done
    <3>7. QED
      BY <2>3, <3>2, <3>3, <3>4, <3>5, <3>6
  <2>8. CASE ~CreateCollection(p) /\ ~ChangeVectors(p) /\ ~WriteCount(p)
    <3>1. disk' = disk /\ ~At(p, "count")
      BY <1>7, <2>8 DEF Proceed, CreatePlugins, OpenKv, OpenStore, CreateEmbedder, ResolveUris, LookAtTree,
        ChangeTree, AskSize, Read, KvRead, KvScan, KvBatch, KvWrite, KvDone, RunIndex, RunServer, Query, Embed,
        SearchVectors, dbVars, AtTree, At
    <3>2. ~At(p, "collection")
      BY <1>7, <2>8 DEF Proceed, CreatePlugins, OpenKv, OpenStore, CreateEmbedder, ResolveUris, LookAtTree,
        ChangeTree, AskSize, Read, KvRead, KvScan, KvBatch, KvWrite, KvDone, RunIndex, RunServer, Query, Embed,
        SearchVectors, AtTree, At
    <3>3. QED
      BY <2>4, <2>8, <3>1, <3>2
  <2>9. QED
    BY <2>5, <2>6, <2>7, <2>8
<1>8. QED
  BY <1>2, <1>3, <1>5, <1>6, <1>7 DEF Next

(***************************************************************************)
(* The keys: what a running batch has written is there, as the last of its  *)
(* writes to a key left it.                                                 *)
(***************************************************************************)
Before(writes, n, k) == {i \in 1..n : writes[i].key = k}

Keys ==
  /\ kv \in [Key -> Value \cup {None}] /\ owed \in [Key -> Value \cup {None}] /\ torn \subseteq Key
  /\ \A p \in Proc : At(p, "batch") => \A k \in Key :
       LET writes == Cmd(p).writes
           before == Before(writes, proc[p].next - 1, k)
       IN before # {} => kv[k] = writes[Max(before)].value
  /\ KvKept

\* One more write.
LEMMA BeforeOneMore ==
  ASSUME NEW writes \in Seq([key : Key, value : Value \cup {None}]), NEW n \in 1..Len(writes), NEW k,
         NEW map \in [Key -> Value \cup {None}],
         Before(writes, n - 1, k) # {} => map[k] = writes[Max(Before(writes, n - 1, k))].value,
         k \in Key, Before(writes, n, k) # {}
  PROVE  Apply(map, writes[n])[k] = writes[Max(Before(writes, n, k))].value
<1>1. n \in Nat /\ Before(writes, n, k) \in SUBSET (1..n) /\ n \in 1..n
  <2>1. Len(writes) \in Nat
    BY LenProperties
  <2>2. QED
    BY <2>1 DEF Before
<1>2. writes[n] \in [key : Key, value : Value \cup {None}]
  BY ElementOfSeq
<1>3. CASE writes[n].key = k
  <2>1. n \in Before(writes, n, k)
    BY <1>1, <1>3 DEF Before
  <2>2. Max(Before(writes, n, k)) \in Before(writes, n, k) /\ \A j \in Before(writes, n, k) : j <= Max(Before(writes, n, k))
    BY <1>1, <2>1, MaxExists
  <2>3. Max(Before(writes, n, k)) \in 1..n /\ n <= Max(Before(writes, n, k))
    BY <1>1, <2>1, <2>2
  <2>4. Max(Before(writes, n, k)) = n
    BY <1>1, <2>3
  <2>5. Apply(map, writes[n])[k] = writes[n].value
    BY <1>2, <1>3 DEF Apply
  <2>6. QED
    BY <2>4, <2>5
<1>4. CASE writes[n].key # k
  <2>1. Before(writes, n, k) = Before(writes, n - 1, k)
    BY <1>1, <1>4 DEF Before
  <2>2. Apply(map, writes[n])[k] = map[k]
    BY <1>2, <1>4 DEF Apply
  <2>3. QED
    BY <2>1, <2>2
<1>5. QED
  BY <1>3, <1>4

\* A step that leaves the keys alone, and no batch begins or ends.
LEMMA KeysSame ==
  ASSUME Keys, UNCHANGED <<kv, owed, torn>>,
         \A p \in Proc : proc'[p].pc = "batch" <=> At(p, "batch"),
         \A p \in Proc : At(p, "batch") => proc'[p] = proc[p]
  PROVE  Keys'
<1>1. \A p \in Proc : At(p, "batch") => proc'[p].pc = "batch" /\ proc'[p].cmd = Cmd(p) /\ proc'[p].next = proc[p].next
  BY DEF At, Cmd
<1>2. KvKept'
  BY <1>1 DEF Keys, KvKept, At, Cmd, KeysOf
<1>3. ASSUME NEW p \in Proc, proc'[p].pc = "batch", NEW k \in Key,
             Before(proc'[p].cmd.writes, proc'[p].next - 1, k) # {}
      PROVE  kv'[k] = proc'[p].cmd.writes[Max(Before(proc'[p].cmd.writes, proc'[p].next - 1, k))].value
  BY <1>1, <1>3 DEF Keys
<1>4. QED
  BY <1>2, <1>3 DEF Keys, At, Cmd, Before

\* Every step keeps what the keys are owed.
LEMMA KeysStep == ASSUME Shape, Locks, Keys, [Next]_vars PROVE Keys'
<1>1. CASE UNCHANGED vars
  BY <1>1, KeysSame DEF vars, kvVars, At
<1>2. ASSUME NEW p \in Proc, Start(p) PROVE Keys'
  <2>1. PICK c \in Given[setting] : proc' = [proc EXCEPT ![p] = [pc |-> "registry", cmd |-> c]]
    BY <1>2 DEF Start
  <2> DEFINE r == [pc |-> "registry", cmd |-> c]
  <2>2. r.pc = "registry"
    OBVIOUS
  <2>3. proc' = [proc EXCEPT ![p] = r]
    BY <2>1
  <2> HIDE DEF r
  <2>4. proc'[p] = r /\ \A q \in Proc \ {p} : proc'[q] = proc[q]
    BY <2>3, Becoming
  <2>5. UNCHANGED <<kv, owed, torn>> /\ ~At(p, "batch")
    BY <1>2 DEF Start, kvVars, Running, At
  <2>6. QED
    BY <2>2, <2>4, <2>5, KeysSame DEF At
<1>3. \A p, q \in Proc : At(p, "batch") /\ At(q, "batch") => p = q
  <2>1. \A p \in Proc : At(p, "batch") => kvLock = p
    BY Place DEF Locks, At, Running
  <2>2. QED
    BY <2>1
<1>4. ASSUME NEW p \in Proc, Exit(p) PROVE Keys'
  <2>1. proc'[p].pc = "gone" /\ \A q \in Proc \ {p} : proc'[q] = proc[q]
    BY <1>4, Ending DEF Exit
  <2>2. UNCHANGED <<kv, owed, torn>> /\ ~At(p, "batch")
    BY <1>4 DEF Exit, At
  <2>3. QED
    BY <2>1, <2>2, KeysSame DEF At
<1>5. ASSUME NEW p \in Proc, At(p, "batch"), Running(p)
      PROVE  /\ Cmd(p).writes \in Seq([key : Key, value : Value \cup {None}]) /\ Len(Cmd(p).writes) \in Nat
             /\ proc[p].next \in 1..Len(Cmd(p).writes) + 1 /\ "next" \in DOMAIN proc[p]
             /\ KeysOf(Cmd(p)) = {k \in Key : Before(Cmd(p).writes, Len(Cmd(p).writes), k) # {}}
  <2> DEFINE writes == Cmd(p).writes
  <2>1. writes \in Seq([key : Key, value : Value \cup {None}]) /\ proc[p].next \in 1..Len(writes) + 1
        /\ "next" \in DOMAIN proc[p]
    BY <1>5, Place, CommandShape
  <2> HIDE DEF writes
  <2>2. DOMAIN writes = 1..Len(writes) /\ Len(writes) \in Nat
    BY <2>1, LenProperties
  <2>3. \A i \in 1..Len(writes) : writes[i].key \in Key
    <3>1. \A i \in 1..Len(writes) : writes[i] \in [key : Key, value : Value \cup {None}]
      BY <2>1, ElementOfSeq
    <3>2. QED
      BY <3>1
  <2>4. KeysOf(Cmd(p)) = {writes[i].key : i \in DOMAIN writes}
    BY DEF KeysOf, writes
  <2>5. {writes[i].key : i \in DOMAIN writes} = {k \in Key : Before(writes, Len(writes), k) # {}}
    BY <2>2, <2>3 DEF Before
  <2>6. QED
    BY <2>1, <2>2, <2>4, <2>5 DEF writes
<1>6. ASSUME NEW p \in Proc, Die(p) PROVE Keys'
  <2>1. proc'[p].pc = "gone" /\ \A q \in Proc \ {p} : proc'[q] = proc[q]
    BY <1>6, Ending DEF Die
  <2>2. UNCHANGED <<kv, owed>> /\ Running(p)
    BY <1>6 DEF Die
  <2>3. CASE ~At(p, "batch")
    <3>1. torn' = torn
      BY <1>6, <2>3 DEF Die
    <3>2. QED
      BY <2>1, <2>2, <2>3, <3>1, KeysSame DEF At
  <2>4. CASE At(p, "batch")
    <3>1. torn' = torn \cup KeysOf(Cmd(p)) /\ KeysOf(Cmd(p)) \subseteq Key
      BY <1>5, <1>6, <2>2, <2>4 DEF Die
    <3>2. \A q \in Proc : proc'[q].pc # "batch"
      BY <1>3, <2>1, <2>4 DEF At
    <3>3. \A k \in Key \ torn' : kv[k] = owed[k]
      BY <1>3, <2>4, <3>1 DEF Keys, KvKept
    <3>4. QED
      BY <2>2, <3>1, <3>2, <3>3 DEF Keys, KvKept, At
  <2>5. QED
    BY <2>3, <2>4
<1>7. ASSUME NEW p \in Proc, KvBatch(p) PROVE Keys'
  <2> DEFINE r == [pc |-> "batch", cmd |-> Cmd(p), next |-> 1]
  <2>1. r.pc = "batch" /\ r.cmd = Cmd(p) /\ r.next = 1
    OBVIOUS
  <2>2. proc' = [proc EXCEPT ![p] = r] /\ At(p, "work") /\ Cmd(p).tool = "kv" /\ UNCHANGED <<kv, owed, torn>>
    BY <1>7 DEF KvBatch, kvVars
  <2> HIDE DEF r
  <2>3. proc'[p] = r /\ \A q \in Proc \ {p} : proc'[q] = proc[q]
    BY <2>2, Becoming
  <2>4. \A q \in Proc : ~At(q, "batch")
    <3>1. kvLock = p
      BY <2>2 DEF Locks
    <3>2. \A q \in Proc : At(q, "batch") => kvLock = q
      BY Place DEF Locks, At, Running
    <3>3. QED
      BY <2>2, <3>1, <3>2 DEF At
  <2>5. ASSUME NEW k \in Key PROVE Before(r.cmd.writes, r.next - 1, k) = {}
    BY <2>1 DEF Before
  <2>6. \A k \in Key \ torn : kv[k] = owed[k]
    BY <2>4 DEF Keys, KvKept
  <2>7. \A q \in Proc : proc'[q].pc = "batch" => q = p
    BY <2>3, <2>4 DEF At
  <2>8. KvKept'
    BY <2>2, <2>6 DEF KvKept
  <2>9. QED
    BY <2>2, <2>3, <2>5, <2>7, <2>8 DEF Keys, At, Cmd
<1>8. ASSUME NEW p \in Proc, KvWrite(p) PROVE Keys'
  <2> DEFINE r == [proc[p] EXCEPT !.next = @ + 1]
             writes == Cmd(p).writes
             n == proc[p].next
  <2>1. /\ proc' = [proc EXCEPT ![p] = r] /\ At(p, "batch") /\ n <= Len(writes) /\ UNCHANGED <<owed, torn>>
        /\ kv' = Apply(kv, writes[n])
    BY <1>8 DEF KvWrite
  <2>2. Running(p)
    BY <2>1 DEF At, Running
  <2>3. /\ writes \in Seq([key : Key, value : Value \cup {None}]) /\ Len(writes) \in Nat /\ n \in 1..Len(writes) + 1
        /\ KeysOf(Cmd(p)) = {k \in Key : Before(writes, Len(writes), k) # {}}
    BY <1>5, <2>1, <2>2
  <2>4. {"pc", "cmd", "next"} \subseteq DOMAIN proc[p]
    BY <1>5, <2>1, <2>2, Place
  <2>5. r.pc = proc[p].pc /\ r.cmd = Cmd(p) /\ r.next = n + 1
    BY <2>4 DEF Cmd
  <2> HIDE DEF r
  <2>6. proc'[p] = r /\ \A q \in Proc \ {p} : proc'[q] = proc[q]
    BY <2>1, Becoming
  <2>7. n \in 1..Len(writes) /\ n + 1 - 1 = n
    BY <2>1, <2>3
  <2>8. writes[n] \in [key : Key, value : Value \cup {None}]
    BY <2>3, <2>7, ElementOfSeq
  <2>9. kv' \in [Key -> Value \cup {None}]
    BY <2>1, <2>8 DEF Keys, Apply
  <2>10. ASSUME NEW k \in Key, Before(writes, n, k) # {}
         PROVE  kv'[k] = writes[Max(Before(writes, n, k))].value
    <3>1. Before(writes, n - 1, k) # {} => kv[k] = writes[Max(Before(writes, n - 1, k))].value
      BY <2>1 DEF Keys
    <3>2. kv \in [Key -> Value \cup {None}]
      BY DEF Keys
    <3> HIDE DEF writes, n
    <3>3. QED
      BY <2>1, <2>3, <2>7, <2>10, <3>1, <3>2, BeforeOneMore
  <2>11. \A q \in Proc : proc'[q].pc = "batch" <=> q = p
    BY <1>3, <2>1, <2>5, <2>6 DEF At
  <2>12. ASSUME NEW k \in Key \ torn, k \notin KeysOf(Cmd(p)) PROVE kv'[k] = owed[k]
    <3>1. kv[k] = owed[k]
      BY <1>3, <2>1, <2>12 DEF Keys, KvKept
    <3>2. writes[n].key # k
      BY <2>3, <2>7, <2>12 DEF Before
    <3>3. kv'[k] = kv[k]
      BY <2>1, <2>8, <3>2 DEF Keys, Apply
    <3>4. QED
      BY <3>1, <3>3
  <2>13. KvKept'
    <3>1. proc'[p].cmd = Cmd(p) /\ proc'[p].pc = "batch"
      BY <2>1, <2>5, <2>6 DEF At
    <3>2. QED
      BY <2>1, <2>12, <3>1 DEF KvKept, At, Cmd, KeysOf
  <2>14. ASSUME NEW q \in Proc, proc'[q].pc = "batch", NEW k \in Key, Before(proc'[q].cmd.writes, proc'[q].next - 1, k) # {}
         PROVE  kv'[k] = proc'[q].cmd.writes[Max(Before(proc'[q].cmd.writes, proc'[q].next - 1, k))].value
    <3>1. q = p
      BY <2>11, <2>14
    <3>2. proc'[q].cmd.writes = writes /\ proc'[q].next - 1 = n
      BY <2>3, <2>5, <2>6, <3>1
    <3> HIDE DEF writes, n
    <3>3. QED
      BY <2>10, <2>14, <3>2
  <2>15. owed' \in [Key -> Value \cup {None}] /\ torn' \subseteq Key
    BY <2>1 DEF Keys
  <2> HIDE DEF writes, n
  <2>16. QED
    BY <2>9, <2>13, <2>14, <2>15 DEF Keys, At, Cmd, Before
<1>9. ASSUME NEW p \in Proc, KvDone(p) PROVE Keys'
  <2> DEFINE writes == Cmd(p).writes
             n == Len(writes)
             mine == KeysOf(Cmd(p))
  <2>1. /\ At(p, "batch") /\ proc[p].next > n /\ Done(p) /\ kv' = kv /\ torn' = torn \ mine
        /\ owed' = [k \in Key |-> IF k \in mine THEN LastWrite(writes, k) ELSE owed[k]]
    BY <1>9 DEF KvDone
  <2>2. Running(p)
    BY <2>1 DEF At, Running
  <2>3. /\ writes \in Seq([key : Key, value : Value \cup {None}]) /\ n \in Nat /\ proc[p].next \in 1..n + 1
        /\ mine = {k \in Key : Before(writes, n, k) # {}}
    BY <1>5, <2>1, <2>2
  <2>4. proc[p].next - 1 = n
    BY <2>1, <2>3
  <2>5. proc'[p].pc = "exit" /\ \A q \in Proc \ {p} : proc'[q] = proc[q]
    BY <2>1, Answering DEF Done
  <2>6. \A q \in Proc : proc'[q].pc # "batch"
    BY <1>3, <2>1, <2>5 DEF At
  <2>7. ASSUME NEW k \in mine PROVE kv[k] = LastWrite(writes, k) /\ k \in Key
    <3>1. k \in Key /\ Before(writes, n, k) # {}
      BY <2>3
    <3>2. kv[k] = writes[Max(Before(writes, n, k))].value
      BY <2>1, <2>4, <3>1 DEF Keys
    <3>3. DOMAIN writes = 1..n
      BY <2>3, LenProperties
    <3>4. QED
      BY <3>1, <3>2, <3>3 DEF LastWrite, Before
  <2>8. ASSUME NEW k \in Key \ torn, k \notin mine PROVE kv[k] = owed[k]
    BY <1>3, <2>1, <2>8 DEF Keys, KvKept
  <2>9. kv \in [Key -> Value \cup {None}] /\ owed \in [Key -> Value \cup {None}] /\ torn \subseteq Key
    BY DEF Keys
  <2> HIDE DEF writes, n, mine
  <2>10. \A k \in Key \ torn' : kv'[k] = owed'[k]
    BY <2>1, <2>7, <2>8
  <2>11. owed' \in [Key -> Value \cup {None}]
    BY <2>1, <2>7, <2>9
  <2>12. torn' \subseteq Key /\ kv' \in [Key -> Value \cup {None}]
    BY <2>1, <2>9
  <2>13. QED
    BY <2>6, <2>10, <2>11, <2>12 DEF Keys, KvKept, At
<1>10. ASSUME NEW p \in Proc, Proceed(p), ~Exit(p), ~KvBatch(p), ~KvWrite(p), ~KvDone(p) PROVE Keys'
  <2>1. Running(p) /\ setting' = setting /\ Onward(p)
    BY <1>10, OnwardStep
  <2>2. UNCHANGED <<kv, owed, torn>> /\ ~At(p, "batch")
    BY <1>10 DEF Proceed, CreatePlugins, OpenKv, OpenStore, CreateCollection, CreateEmbedder, ResolveUris, LookAtTree,
      ChangeTree, AskSize, Read, KvRead, KvScan, RunIndex, RunServer, Query, Embed, SearchVectors, ChangeVectors, WriteCount, kvVars, AtTree, At
  <2>3. \A q \in Proc : (proc'[q].pc = "batch" <=> At(q, "batch")) /\ (At(q, "batch") => proc'[q] = proc[q])
    BY <1>10, <2>1, <2>2 DEF Onward, At
  <2>4. QED
    BY <2>2, <2>3, KeysSame
<1>11. QED
  BY <1>1, <1>2, <1>4, <1>6, <1>7, <1>8, <1>9, <1>10 DEF Next

(***************************************************************************)
(* The theorems.                                                            *)
(***************************************************************************)
Inv == Shape /\ Locks /\ Stored /\ Database /\ Keys

\* It holds before the first command.
LEMMA InvInit == Init => Inv
<1> SUFFICES ASSUME Init PROVE Inv
  OBVIOUS
<1>1. setting \in Setting /\ fs = <<>> /\ proc = [p \in Proc |-> Gone] /\ kvLock = None /\ dbLock = None
      /\ disk = [made |-> FALSE, vectors |-> <<>>, count |-> 0, cut |-> FALSE] /\ kv = [k \in Key |-> None] /\ owed = kv /\ torn = {}
  BY DEF Init
<1>2. \A p \in Proc : proc[p].pc = "gone"
  BY <1>1 DEF Gone
<1>3. Shape
  BY <1>1, <1>2 DEF Shape, Running
<1>4. Locks
  BY <1>1, <1>2 DEF Locks, Uses, Running, At
<1>5. Stored
  <2>1. DOMAIN <<>> = {}
    OBVIOUS
  <2>2. QED
    BY <1>1, <2>1 DEF Stored, Tree
<1>6. Database
  <2>1. DOMAIN disk = DiskFields /\ disk.vectors = <<>> /\ disk.count = 0 /\ disk.cut = FALSE
    BY <1>1 DEF DiskFields
  <2>2. DOMAIN disk.vectors = {}
    BY <2>1
  <2>3. IsFiniteSet(DOMAIN disk.vectors) /\ Cardinality(DOMAIN disk.vectors) = 0
    BY <2>2, FS_EmptySet
  <2>4. disk.count \in Nat
    BY <2>1
  <2>5. disk.cut \in BOOLEAN
    BY <2>1
  <2>6. disk.count \in Nat /\ disk.cut \in BOOLEAN
    BY <2>4, <2>5
  <2>7. Sound(disk) /\ Counted(disk)
    BY <2>1, <2>2, <2>3, <2>6 DEF Sound, Counted
  <2>8. QED
    BY <1>2, <2>1, <2>7 DEF Database, Counting, Running, At
<1>7. Keys
  <2>1. kv \in [Key -> Value \cup {None}]
    BY <1>1
  <2>2. QED
    BY <1>1, <1>2, <2>1 DEF Keys, KvKept, At
<1>8. QED
  BY <1>3, <1>4, <1>5, <1>6, <1>7 DEF Inv

\* It holds of every state.
LEMMA Invariant == Spec => []Inv
<1>1. Inv /\ [Next]_vars => Inv'
  BY ShapeStep, LocksStep, StoredStep, DatabaseStep, KeysStep DEF Inv
<1>2. QED
  BY <1>1, InvInit, PTL DEF Spec

\* Every process is at a step of its command, holds the locks of its steps and
\* no others, the tree is one, and the vector database is made before vectors
\* are in it.
THEOREM Typed == Spec => []TypeOK
<1>1. Inv => TypeOK
  <2> SUFFICES ASSUME Inv PROVE TypeOK
    OBVIOUS
  <2>1. setting \in Setting
    BY DEF Inv, Shape
  <2>2. \A f \in DOMAIN fs : \A q \in Parents(f) : IsDir(fs, q)
    BY DEF Inv, Stored, Tree
  <2>3. kv \in [Key -> Value \cup {None}] /\ owed \in [Key -> Value \cup {None}] /\ torn \subseteq Key
    BY DEF Inv, Keys
  <2>4. (kvLock # None => Running(kvLock) /\ Cmd(kvLock).tool = "kv")
        /\ (dbLock # None => Running(dbLock) /\ setting.store = "rocksdb")
    BY DEF Inv, Locks
  <2>5. \A p \in Proc : Running(p) => proc[p].pc \in StepsOf[Cmd(p).tool] \cup {"registry", "exit"}
    BY Place DEF Inv
  <2>6. DOMAIN disk.vectors # {} => disk.made
    BY DEF Inv, Database, Sound
  <2>7. QED
    BY <2>1, <2>2, <2>3, <2>4, <2>5, <2>6 DEF TypeOK
<1>2. QED
  BY <1>1, Invariant, PTL

\* What a completed kv command left is there until a later one, or one that
\* died, wrote the same key: a batch writes one key at a time, and the
\* database's lock lets no other batch in between.
THEOREM WritesKept == Spec => []KvKept
<1>1. Inv => KvKept
  BY DEF Inv, Keys
<1>2. QED
  BY <1>1, Invariant, PTL

\* The collection's count is that of its vectors, over any number of commands,
\* except between a command's batch and its count and after a death there.
THEOREM CountKept == Spec => []CountMatches
<1>1. Inv => CountMatches
  BY DEF Inv, Database, Counted, CountMatches
<1>2. QED
  BY <1>1, Invariant, PTL

(***************************************************************************)
(* Viking URIs, of any length: what is printed is parsed back, a URI lies   *)
(* below its parent and is the parent of what is joined to it, and a normal  *)
(* form is normal.  Strings are cut at their slashes and put together again. *)
(***************************************************************************)

\* A piece element by element.
LEMMA PieceIs ==
  ASSUME NEW s \in Path, NEW m \in Nat, 1 <= m, NEW n \in Nat, n <= Len(s)
  PROVE  /\ SubSeq(s, m, n) \in Path
         /\ Len(SubSeq(s, m, n)) = IF m <= n THEN n - m + 1 ELSE 0
         /\ \A i \in 1..n - m + 1 : SubSeq(s, m, n)[i] = s[m + i - 1]
<1>1. m \in Int /\ n \in Int /\ Len(s) \in Nat
  BY LenProperties DEF Path
<1>2. \A i \in m..n : s[i] \in STRING
  BY <1>1, ElementOfSeq DEF Path
<1>3. QED
  BY <1>1, <1>2, SubSeqProperties DEF Path

\* Sequences are pieced together as they were cut.
LEMMA Glue ==
  ASSUME NEW r \in Path, NEW i \in 1..Len(r), NEW m \in i..Len(r), r[i] = "/"
  PROVE  SubSeq(r, 1, i - 1) \o <<"/">> \o SubSeq(r, i + 1, m) = SubSeq(r, 1, m)
<1>1. Len(r) \in Nat /\ r \in Seq(STRING) /\ i \in Nat /\ 1 <= i /\ i <= Len(r)
  BY LenProperties DEF Path
<1>2. SubSeq(r, i, i) = <<"/">>
  <2>1. Len(SubSeq(r, i, i)) = 1 /\ SubSeq(r, i, i)[1] = "/" /\ SubSeq(r, i, i) \in Seq(STRING)
    BY <1>1, SubSeqProperties
  <2>2. SubSeq(r, i, i) = [j \in 1..1 |-> SubSeq(r, i, i)[j]]
    BY <2>1, LenProperties
  <2>3. QED
    BY <2>1, <2>2
<1>3. SubSeq(r, 1, i - 1) \o SubSeq(r, i, i) = SubSeq(r, 1, i)
  BY <1>1, ConcatAdjacentSubSeq
<1>4. SubSeq(r, 1, i) \o SubSeq(r, i + 1, m) = SubSeq(r, 1, m)
  BY <1>1, ConcatAdjacentSubSeq
<1>5. QED
  BY <1>2, <1>3, <1>4

\* A piece of a beginning.
LEMMA PieceOfPrefix ==
  ASSUME NEW r \in Path, NEW m \in Nat, m <= Len(r), NEW a \in Nat, 1 <= a, NEW b \in Nat, b <= m
  PROVE  SubSeq(SubSeq(r, 1, m), a, b) = SubSeq(r, a, b)
<1> DEFINE q == SubSeq(r, 1, m)
           x == SubSeq(q, a, b)
           y == SubSeq(r, a, b)
           len == IF a <= b THEN b - a + 1 ELSE 0
<1>1. q \in Path /\ Len(q) = m /\ \A j \in 1..m : q[j] = r[j]
  <2>1. q \in Path /\ Len(q) = (IF 1 <= m THEN m - 1 + 1 ELSE 0) /\ \A j \in 1..m - 1 + 1 : q[j] = r[1 + j - 1]
    BY PieceIs
  <2>2. QED
    BY <2>1
<1> HIDE DEF q
<1>2. x \in Path /\ Len(x) = len /\ \A j \in 1..b - a + 1 : x[j] = q[a + j - 1]
  BY <1>1, PieceIs
<1>3. b <= Len(r)
  BY LenProperties DEF Path
<1>4. y \in Path /\ Len(y) = len /\ \A j \in 1..b - a + 1 : y[j] = r[a + j - 1]
  BY <1>3, PieceIs
<1> HIDE DEF x, y
<1>5. ASSUME NEW j \in 1..len PROVE x[j] = y[j]
  <2>1. j \in 1..b - a + 1 /\ a + j - 1 \in 1..m
    OBVIOUS
  <2>2. QED
    BY <1>1, <1>2, <1>4, <2>1
<1>6. x \in Seq(STRING) /\ y \in Seq(STRING) /\ Len(x) = Len(y)
  BY <1>2, <1>4 DEF Path
<1>7. x = y
  BY <1>2, <1>5, <1>6, SeqEqual
<1>8. QED
  BY <1>7 DEF x, y, q

\* What is trimmed has ink at either end, ...
LEMMA TrimmedEnds ==
  ASSUME NEW s \in Path, TrimBlanks(s) # <<>>
  PROVE  LET t == TrimBlanks(s)
         IN Len(t) \in Nat /\ 1 <= Len(t) /\ t[1] # Blank /\ t[Len(t)] # Blank
<1> DEFINE ink == {i \in DOMAIN s : s[i] # Blank}
           t == TrimBlanks(s)
<1>1. Len(s) \in Nat /\ ink \in SUBSET (1..Len(s)) /\ s \in Seq(STRING)
  BY LenProperties DEF Path
<1>2. ink # {}
  BY DEF TrimBlanks
<1>3. Min(ink) \in ink /\ Max(ink) \in ink /\ Min(ink) <= Max(ink)
  <2> HIDE DEF ink
  <2>1. QED
    BY <1>1, <1>2, MinExists, MaxExists
<1>4. Min(ink) \in 1..Len(s) /\ Max(ink) \in 1..Len(s) /\ s[Min(ink)] # Blank /\ s[Max(ink)] # Blank
  BY <1>1, <1>3
<1>5. t = SubSeq(s, Min(ink), Max(ink))
  BY <1>2 DEF TrimBlanks
<1> DEFINE a == Min(ink) b == Max(ink)
<1>6. a \in 1..Len(s) /\ b \in 1..Len(s) /\ a <= b /\ s[a] # Blank /\ s[b] # Blank /\ t = SubSeq(s, a, b)
  BY <1>3, <1>4, <1>5
<1> HIDE DEF a, b, ink, t
<1>7. a \in Nat /\ 1 <= a /\ a <= b /\ b \in Nat /\ b <= Len(s) /\ 1 \in 1..b - a + 1 /\ b - a + 1 \in 1..b - a + 1
      /\ a + 1 - 1 = a /\ a + (b - a + 1) - 1 = b
  BY <1>1, <1>6
<1>8. Len(t) = b - a + 1 /\ t[1] = s[a + 1 - 1] /\ t[b - a + 1] = s[a + (b - a + 1) - 1]
  BY <1>6, <1>7, PieceIs
<1>9. Len(t) \in Nat /\ 1 <= Len(t)
  BY <1>7, <1>8
<1>10. t[1] # Blank /\ t[Len(t)] # Blank
  BY <1>6, <1>7, <1>8
<1>11. QED
  BY <1>9, <1>10 DEF t

\* ... and what has, is.
LEMMA TrimmedSame ==
  ASSUME NEW w \in Path, Len(w) # 0, w[1] # Blank, w[Len(w)] # Blank
  PROVE  TrimBlanks(w) = w
<1> DEFINE ink == {i \in DOMAIN w : w[i] # Blank}
           n == Len(w)
<1>1. n \in Nat /\ 1 <= n /\ DOMAIN w = 1..n /\ w \in Seq(STRING)
  BY LenProperties DEF Path
<1>2. 1 \in ink /\ n \in ink /\ ink \in SUBSET (1..n)
  <2>1. 1 \in 1..n /\ n \in 1..n
    BY <1>1
  <2>2. w[1] # Blank /\ w[n] # Blank
    OBVIOUS
  <2> HIDE DEF n
  <2>3. QED
    BY <1>1, <2>1, <2>2
<1> HIDE DEF ink
<1>3. Min(ink) \in ink /\ (\A j \in ink : Min(ink) <= j) /\ Max(ink) \in ink /\ \A j \in ink : j <= Max(ink)
  BY <1>1, <1>2, MinExists, MaxExists
<1>4. Min(ink) = 1 /\ Max(ink) = n
  <2>1. Min(ink) \in 1..n /\ Max(ink) \in 1..n /\ Min(ink) <= 1 /\ n <= Max(ink)
    BY <1>2, <1>3
  <2> HIDE DEF n
  <2>2. QED
    BY <1>1, <2>1
<1>5. SubSeq(w, 1, n) = w
  BY <1>1, SubSeqFull
<1>6. TrimBlanks(w) = SubSeq(w, Min(ink), Max(ink))
  BY <1>2 DEF TrimBlanks, ink
<1>7. QED
  BY <1>4, <1>5, <1>6

LEMMA SchemeInk == Scheme # Blank
  BY DEF Scheme, Blank

\* Behind the scheme: scope, account and what may follow, cut at slashes.
LEMMA Parts ==
  ASSUME NEW r \in Path, Slashes(r) # {}
  PROVE  \E i \in 1..Len(r), k \in 1..Len(r) + 1 :
           /\ i < k /\ r[i] = "/" /\ (k <= Len(r) => r[k] = "/")
           /\ \A j \in 1..k - 1 : r[j] = "/" => j = i
           /\ Split3(r) = [scope |-> SubSeq(r, 1, i - 1), account |-> SubSeq(r, i + 1, k - 1),
                           path |-> <<"/">> \o SubSeq(r, k + 1, Len(r))]
<1> DEFINE n == Len(r)
           first == Min(Slashes(r))
           more == {i \in Slashes(r) : i > first}
           second == IF more = {} THEN Len(r) + 1 ELSE Min(more)
<1>1. n \in Nat /\ Slashes(r) \in SUBSET (1..n) /\ \A i \in 1..n : i \in Slashes(r) <=> r[i] = "/"
  BY LenProperties DEF Path, Slashes
<1>2. first \in Slashes(r) /\ \A j \in Slashes(r) : first <= j
  BY <1>1, MinExists
<1>3. more \in SUBSET (1..n)
  BY <1>1
<1>4. first \in 1..n /\ r[first] = "/" /\ \A j \in 1..n : r[j] = "/" => j = first \/ j \in more
  <2>1. first \in 1..n
    BY <1>1, <1>2
  <2> HIDE DEF first
  <2>2. \A j \in 1..n : r[j] = "/" => j = first \/ j \in more
    BY <1>1, <1>2, <2>1
  <2>3. QED
    BY <1>1, <1>2, <2>1, <2>2
<1>5. \A j \in more : first < j /\ r[j] = "/"
  <2>1. \A j \in more : j \in Slashes(r) /\ first < j
    BY <1>1, <1>4
  <2>2. QED
    BY <1>1, <2>1
<1>6. /\ second \in 1..n + 1 /\ first < second /\ (second <= n => r[second] = "/")
      /\ \A j \in more : second <= j
  <2> HIDE DEF more, first
  <2>1. CASE more = {}
    <3>1. second = n + 1
      BY <2>1
    <3>2. QED
      BY <1>1, <1>4, <2>1, <3>1
  <2>2. CASE more # {}
    <3>1. Min(more) \in more /\ \A j \in more : Min(more) <= j
      BY <1>1, <1>3, <2>2, MinExists
    <3>2. second = Min(more)
      BY <2>2
    <3> HIDE DEF second
    <3>3. Min(more) \in 1..n /\ first < Min(more) /\ r[Min(more)] = "/"
      BY <1>3, <1>5, <3>1
    <3> HIDE DEF n
    <3>4. second \in 1..n + 1 /\ first < second /\ r[second] = "/"
      BY <1>1, <3>2, <3>3
    <3>5. \A j \in more : second <= j
      BY <3>1, <3>2
    <3>6. QED
      BY <3>4, <3>5
  <2>3. QED
    BY <2>1, <2>2
<1>7. Split3(r) = [scope |-> SubSeq(r, 1, first - 1), account |-> SubSeq(r, first + 1, second - 1),
                   path |-> <<"/">> \o SubSeq(r, second + 1, Len(r))]
  BY DEF Split3
<1> HIDE DEF first, second, more
<1>8. \A j \in 1..second - 1 : r[j] = "/" => j = first
  BY <1>1, <1>4, <1>6
<1>9. QED
  BY <1>4, <1>6, <1>7, <1>8

\* The cut is the only one of its kind.
LEMMA PartsUnique ==
  ASSUME NEW r \in Path, NEW i \in 1..Len(r), NEW k \in 1..Len(r) + 1,
         i < k, r[i] = "/", k <= Len(r) => r[k] = "/", \A j \in 1..k - 1 : r[j] = "/" => j = i
  PROVE  /\ Slashes(r) # {}
         /\ Split3(r) = [scope |-> SubSeq(r, 1, i - 1), account |-> SubSeq(r, i + 1, k - 1),
                         path |-> <<"/">> \o SubSeq(r, k + 1, Len(r))]
<1>1. Len(r) \in Nat /\ DOMAIN r = 1..Len(r)
  BY LenProperties DEF Path
<1>2. Slashes(r) # {}
  BY <1>1 DEF Slashes
<1>3. PICK a \in 1..Len(r), b \in 1..Len(r) + 1 :
           /\ a < b /\ r[a] = "/" /\ (b <= Len(r) => r[b] = "/")
           /\ \A j \in 1..b - 1 : r[j] = "/" => j = a
           /\ Split3(r) = [scope |-> SubSeq(r, 1, a - 1), account |-> SubSeq(r, a + 1, b - 1),
                           path |-> <<"/">> \o SubSeq(r, b + 1, Len(r))]
  BY <1>2, Parts
<1>4. a = i
  <2>1. a <= i
    <3>1. SUFFICES ASSUME i < a PROVE FALSE
      BY <1>1
    <3>2. i \in 1..b - 1
      BY <1>1, <1>3, <3>1
    <3>3. QED
      BY <1>3, <3>1, <3>2
  <2>2. i <= a
    <3>1. SUFFICES ASSUME a < i PROVE FALSE
      BY <1>1
    <3>2. a \in 1..k - 1
      BY <1>1, <3>1
    <3>3. QED
      BY <1>3, <3>1, <3>2
  <2>3. QED
    BY <2>1, <2>2
<1>5. b = k
  <2>1. ~(b < k)
    <3>1. SUFFICES ASSUME b < k PROVE FALSE
      OBVIOUS
    <3>2. b \in 1..k - 1 /\ r[b] = "/"
      BY <1>1, <1>3, <3>1
    <3>3. QED
      BY <1>3, <1>4, <3>2
  <2>2. ~(k < b)
    <3>1. SUFFICES ASSUME k < b PROVE FALSE
      OBVIOUS
    <3>2. k \in 1..b - 1 /\ r[k] = "/"
      BY <1>1, <1>3, <3>1
    <3>3. QED
      BY <1>3, <1>4, <3>2
  <2>3. QED
    BY <2>1, <2>2
<1>6. QED
  BY <1>2, <1>3, <1>4, <1>5

LEMMA Reassociate ==
  ASSUME NEW a \in Path, NEW b \in Path, NEW c \in Path
  PROVE  (a \o b) \o c = a \o (b \o c)
  BY ConcatAssociative DEF Path

LEMMA Joined == ASSUME NEW a \in Path, NEW b \in Path PROVE a \o b \in Path
  BY ConcatProperties DEF Path

LEMMA OneIn == ASSUME NEW S, NEW x \in S PROVE <<x>> \in Seq(S)
  OBVIOUS

LEMMA OneIsPath == ASSUME NEW x, x \in STRING PROVE <<x>> \in Path /\ Len(<<x>>) = 1 /\ <<x>>[1] = x
<1>1. Len(<<x>>) = 1 /\ <<x>>[1] = x
  OBVIOUS
<1>2. <<x>> \in Path
  BY OneIn DEF Path
<1>3. QED
  BY <1>1, <1>2

\* What is printed of a URI is read as that URI.
LEMMA PrintedIsParsed ==
  ASSUME NEW s \in Path, Parse(s) # InvalidUri, ~Padded(Parse(s))
  PROVE  Parse(ToUriString(Parse(s))) = Parse(s)
<1> DEFINE t == TrimBlanks(s)
           r == Tail(t)
           n == Len(r)
           u == Parse(s)
<1>1. t # <<>> /\ Head(t) = Scheme /\ Slashes(r) # {} /\ u = Split3(r) /\ Valid(u)
  BY DEF Parse
<1>2. t \in Path /\ Len(t) \in Nat /\ 1 <= Len(t) /\ t[Len(t)] # Blank
  BY <1>1, Trimmed, TrimmedEnds
<1>3. r \in Path /\ n = Len(t) - 1 /\ \A j \in 1..n : r[j] = t[j + 1]
  BY <1>1, <1>2, HeadTailProperties DEF Path
<1> HIDE DEF t, r
<1>4. PICK i \in 1..Len(r), k \in 1..Len(r) + 1 :
           /\ i < k /\ r[i] = "/" /\ (k <= Len(r) => r[k] = "/")
           /\ \A j \in 1..k - 1 : r[j] = "/" => j = i
           /\ Split3(r) = [scope |-> SubSeq(r, 1, i - 1), account |-> SubSeq(r, i + 1, k - 1),
                           path |-> <<"/">> \o SubSeq(r, k + 1, Len(r))]
  BY <1>1, <1>3, Parts
<1> DEFINE x == SubSeq(r, 1, i - 1)
           y == SubSeq(r, i + 1, k - 1)
           z == SubSeq(r, k + 1, n)
           m == IF k < n THEN n ELSE k - 1
           r2 == SubSeq(r, 1, m)
           suffix == IF k < n THEN <<"/">> \o z ELSE <<>>
<1>5. /\ n \in Nat /\ i \in Nat /\ k \in Nat /\ 1 <= i /\ i < k /\ k <= n + 1 /\ i <= n
      /\ r[i] = "/" /\ (k <= n => r[k] = "/") /\ \A j \in 1..k - 1 : r[j] = "/" => j = i
  BY <1>2, <1>3, <1>4
<1>6. u.scope = x /\ u.account = y /\ u.path = <<"/">> \o z
      /\ u = [scope |-> x, account |-> y, path |-> <<"/">> \o z]
  <2> DEFINE zz == <<"/">> \o z
  <2>1. u = [scope |-> x, account |-> y, path |-> zz]
    BY <1>1, <1>4
  <2> HIDE DEF u, x, y, zz
  <2>2. u.scope = x /\ u.account = y /\ u.path = zz
    BY <2>1
  <2>3. QED
    BY <2>1, <2>2 DEF zz
<1> HIDE DEF u
<1>7. m \in Nat /\ m <= n /\ i <= m /\ k - 1 <= m /\ 1 <= m
  BY <1>5
<1>8. /\ x \in Path /\ y \in Path /\ z \in Path /\ r2 \in Path
      /\ Len(y) = (IF i + 1 <= k - 1 THEN k - 1 - (i + 1) + 1 ELSE 0)
      /\ (\A j \in 1..k - 1 - (i + 1) + 1 : y[j] = r[i + 1 + j - 1])
      /\ Len(z) = IF k + 1 <= n THEN n - (k + 1) + 1 ELSE 0
  <2> HIDE DEF n, m
  <2>1. n <= Len(r) /\ m <= Len(r)
    BY <1>5, <1>7 DEF n
  <2>2. x \in Path
    BY <1>3, <1>5, <2>1, PieceIs
  <2>3. y \in Path /\ Len(y) = (IF i + 1 <= k - 1 THEN k - 1 - (i + 1) + 1 ELSE 0)
        /\ (\A j \in 1..k - 1 - (i + 1) + 1 : y[j] = r[i + 1 + j - 1])
    BY <1>3, <1>5, <2>1, PieceIs
  <2>4. z \in Path /\ Len(z) = IF k + 1 <= n THEN n - (k + 1) + 1 ELSE 0
    BY <1>3, <1>5, <2>1, PieceIs
  <2>5. r2 \in Path
    BY <1>3, <1>7, <2>1, PieceIs
  <2>6. QED
    BY <2>2, <2>3, <2>4, <2>5
<1>9. Len(r2) = m /\ \A j \in 1..m : r2[j] = r[j]
  <2> HIDE DEF n, m
  <2>1. m <= Len(r)
    BY <1>5, <1>7 DEF n
  <2>2. Len(r2) = (IF 1 <= m THEN m - 1 + 1 ELSE 0) /\ \A j \in 1..m - 1 + 1 : r2[j] = r[1 + j - 1]
    BY <1>3, <1>7, <2>1, PieceIs
  <2> HIDE DEF r2
  <2>3. QED
    BY <1>7, <2>2
<1> HIDE DEF n
<1>10. "/" \in STRING /\ Scheme \in STRING
  <2>1. r[i] \in STRING
    BY <1>3, <1>4, ElementOfSeq DEF Path
  <2>2. Head(t) \in STRING
    BY <1>1, <1>2, HeadTailProperties DEF Path
  <2>3. QED
    BY <1>1, <1>5, <2>1, <2>2
<1>11. <<"/">> \in Path /\ <<Scheme>> \in Path /\ <<>> \in Path
  BY <1>10, OneIsPath, EmptySeq DEF Path
<1>12. u.path = <<"/">> <=> ~(k < n)
  <2>1. Len(<<"/">> \o z) = 1 + Len(z) /\ Len(<<"/">>) = 1
    BY <1>8, <1>11, ConcatProperties DEF Path
  <2>2. CASE k < n
    <3>1. Len(<<"/">> \o z) # 1
      BY <1>5, <1>8, <2>1, <2>2
    <3>2. QED
      BY <1>6, <2>1, <2>2, <3>1
  <2>3. CASE ~(k < n)
    <3>1. Len(z) = 0
      BY <1>5, <1>8, <2>3
    <3>2. z = <<>>
      BY <1>8, <3>1, EmptySeq DEF Path
    <3>3. QED
      BY <1>6, <1>11, <2>3, <3>2, ConcatEmptySeq DEF Path
  <2>4. QED
    BY <2>2, <2>3
<1>13. ToUriString(u) = <<Scheme>> \o r2
  <2>1. ToUriString(u) = <<Scheme>> \o x \o <<"/">> \o y \o suffix
    BY <1>6, <1>12 DEF ToUriString
  <2>2. suffix \in Path
    BY <1>8, <1>11, ConcatProperties DEF Path
  <2> HIDE DEF suffix
  <2>3. ToUriString(u) = <<Scheme>> \o (x \o <<"/">> \o y \o suffix)
    <3> HIDE DEF x, y
    <3> DEFINE h == <<Scheme>>
               l == <<"/">>
               xl == x \o l
               xly == xl \o y
    <3>1. x \in Path /\ y \in Path /\ h \in Path /\ l \in Path
      BY <1>8, <1>11
    <3>2. ToUriString(u) = h \o x \o l \o y \o suffix
      BY <2>1
    <3> HIDE DEF h, l
    <3>3. xl \in Path
      BY <3>1, Joined
    <3>4. h \o x \o l = h \o xl
      BY <3>1, Reassociate
    <3> HIDE DEF xl
    <3>5. xly \in Path
      BY <3>1, <3>3, Joined
    <3>6. (h \o xl) \o y = h \o xly
      BY <3>1, <3>3, Reassociate
    <3> HIDE DEF xly
    <3>7. (h \o xly) \o suffix = h \o (xly \o suffix)
      <4>1. suffix \in Path
        BY <2>2
      <4>2. h \in Path
        BY <3>1
      <4>3. xly \in Path
        BY <3>5
      <4>4. (h \o xly) \o suffix = h \o (xly \o suffix)
        BY <4>1, <4>2, <4>3, Reassociate
      <4>5. QED
        BY <4>4
    <3>8. ToUriString(u) = h \o (xly \o suffix)
      BY <3>2, <3>4, <3>6, <3>7
    <3>9. QED
      BY <3>8 DEF h, l, xl, xly
  <2>4. x \o <<"/">> \o y = SubSeq(r, 1, k - 1)
    <3>1. i \in 1..Len(r) /\ k - 1 \in i..Len(r)
      BY <1>5 DEF n
    <3>2. QED
      BY <1>3, <1>5, <3>1, Glue
  <2>5. x \o <<"/">> \o y \o suffix = r2
    <3>1. CASE k < n
      <4>1. k \in 1..Len(r) /\ n \in k..Len(r) /\ r[k] = "/" /\ m = n
        BY <1>5, <3>1 DEF n
      <4> HIDE DEF m
      <4>2. SubSeq(r, 1, k - 1) \o <<"/">> \o z = r2
        BY <1>3, <4>1, Glue
      <4>3. SubSeq(r, 1, k - 1) \in Path
        BY <1>3, <1>5, PieceIs DEF n
      <4>4. SubSeq(r, 1, k - 1) \o (<<"/">> \o z) = r2
        <5> DEFINE q == SubSeq(r, 1, k - 1)
        <5>1. q \in Path /\ z \in Path
          BY <1>8, <4>3
        <5> HIDE DEF q, z
        <5>2. (q \o <<"/">>) \o z = q \o (<<"/">> \o z)
          BY <1>11, <5>1, ConcatAssociative DEF Path
        <5>3. QED
          BY <4>2, <5>2 DEF q
      <4>5. QED
        BY <2>4, <3>1, <4>4 DEF suffix
    <3>2. CASE ~(k < n)
      <4>1. suffix = <<>> /\ m = k - 1
        BY <3>2 DEF suffix
      <4>2. QED
        BY <1>8, <2>4, <4>1, ConcatEmptySeq DEF Path
    <3>3. QED
      BY <3>1, <3>2
  <2>6. QED
    BY <2>3, <2>5
<1>14. r2[m] # Blank
  <2>1. CASE k < n
    <3>1. m = n /\ n \in 1..n /\ n + 1 = Len(t)
      BY <1>2, <1>3, <1>5, <2>1 DEF n
    <3>2. r2[n] = r[n] /\ r[n] = t[n + 1]
      BY <1>3, <1>9, <3>1 DEF n
    <3>3. QED
      BY <1>2, <3>1, <3>2
  <2>2. CASE ~(k < n)
    <3>1. y # <<>>
      BY <1>1, <1>6 DEF Valid, u
    <3>2. Len(y) # 0
      BY <1>8, <3>1, EmptySeq DEF Path
    <3>3. Len(y) = k - 1 - i /\ k - 1 - i >= 1
      BY <1>5, <1>8, <3>2
    <3>4. y[k - 1 - i] # Blank
      <4>1. Last(u.account) # Blank
        BY <1>12, <2>2 DEF Padded, u
      <4> HIDE DEF y
      <4>2. QED
        BY <1>6, <3>3, <4>1 DEF Last
    <3>5. y[k - 1 - i] = r[k - 1]
      <4>1. k - 1 - i \in 1..k - 1 - (i + 1) + 1 /\ i + 1 + (k - 1 - i) - 1 = k - 1
        BY <1>5, <3>3
      <4>2. QED
        BY <1>8, <4>1
    <3>6. m = k - 1 /\ k - 1 \in 1..m
      BY <1>5, <2>2
    <3>7. QED
      BY <1>9, <3>4, <3>5, <3>6
  <2>3. QED
    BY <2>1, <2>2
<1> DEFINE w == <<Scheme>> \o r2
<1> HIDE DEF m, r2
<1>15. w \in Path /\ Len(w) = m + 1 /\ w[1] = Scheme /\ \A j \in 2..m + 1 : w[j] = r2[j - 1]
  <2>1. Len(<<Scheme>>) = 1 /\ <<Scheme>>[1] = Scheme
    BY <1>10, OneIsPath
  <2>2. w \in Path /\ Len(w) = 1 + m
        /\ \A j \in 1..1 + m : w[j] = IF j <= 1 THEN <<Scheme>>[j] ELSE r2[j - 1]
    BY <1>8, <1>9, <1>11, <2>1, ConcatProperties DEF Path
  <2> HIDE DEF w
  <2>3. QED
    BY <1>7, <2>1, <2>2
<1> HIDE DEF w
<1>16. TrimBlanks(w) = w
  <2>1. Len(w) # 0 /\ m + 1 \in 2..m + 1 /\ (m + 1) - 1 = m
    BY <1>7, <1>15
  <2>2. w[Len(w)] = r2[m]
    BY <1>15, <2>1
  <2>3. QED
    BY <1>14, <1>15, <2>1, <2>2, SchemeInk, TrimmedSame
<1>17. w # <<>> /\ Head(w) = Scheme /\ Tail(w) = r2
  <2>1. w # <<>>
    BY <1>7, <1>15, EmptySeq
  <2>2. Head(w) = Scheme
    BY <1>15, <2>1 DEF Path
  <2>3. Tail(w) \in Path /\ Len(Tail(w)) = m /\ \A j \in 1..m : Tail(w)[j] = w[j + 1]
    <3>1. w \in Seq(STRING) /\ Len(w) - 1 = m
      BY <1>7, <1>15 DEF Path
    <3>2. QED
      BY <2>1, <3>1, HeadTailProperties DEF Path
  <2>4. ASSUME NEW j \in 1..m PROVE Tail(w)[j] = r2[j]
    <3>1. j + 1 \in 2..m + 1 /\ (j + 1) - 1 = j
      BY <1>7
    <3>2. QED
      BY <1>15, <2>3, <3>1
  <2>5. Tail(w) = r2
    BY <1>8, <1>9, <2>3, <2>4, SeqEqual DEF Path
  <2>6. QED
    BY <2>1, <2>2, <2>5
<1>18. Slashes(r2) # {} /\ Split3(r2) = u
  <2>1. i \in 1..Len(r2) /\ k \in 1..Len(r2) + 1
    BY <1>5, <1>7, <1>9
  <2>2. r2[i] = "/" /\ (k <= Len(r2) => r2[k] = "/") /\ \A j \in 1..k - 1 : r2[j] = "/" => j = i
    BY <1>5, <1>7, <1>9
  <2>3. /\ Slashes(r2) # {}
        /\ Split3(r2) = [scope |-> SubSeq(r2, 1, i - 1), account |-> SubSeq(r2, i + 1, k - 1),
                         path |-> <<"/">> \o SubSeq(r2, k + 1, Len(r2))]
    BY <1>5, <1>8, <2>1, <2>2, PartsUnique
  <2>4. SubSeq(r2, 1, i - 1) = x /\ SubSeq(r2, i + 1, k - 1) = y
    <3>1. m <= Len(r)
      BY <1>7 DEF n
    <3>2. i - 1 \in Nat /\ i - 1 <= m /\ i + 1 \in Nat /\ 1 <= i + 1 /\ k - 1 \in Nat /\ k - 1 <= m
      BY <1>5, <1>7
    <3>3. QED
      BY <1>3, <1>7, <3>1, <3>2, PieceOfPrefix DEF r2
  <2>5. SubSeq(r2, k + 1, Len(r2)) = z
    <3>1. CASE k < n
      <4>1. m = n
        BY <3>1 DEF m
      <4>2. r2 = r
        BY <1>3, <4>1, SubSeqFull DEF r2, Path, n
      <4>3. QED
        BY <4>2 DEF n
    <3>2. CASE ~(k < n)
      <4>1. m = k - 1 /\ Len(r2) < k + 1 /\ n < k + 1
        BY <1>5, <1>9, <3>2 DEF m
      <4>2. SubSeq(r2, k + 1, Len(r2)) = <<>> /\ z = <<>>
        BY <1>5, <1>7, <1>9, <4>1, SubSeqEmpty
      <4>3. QED
        BY <4>2
    <3>3. QED
      BY <3>1, <3>2
  <2>6. QED
    BY <1>6, <2>3, <2>4, <2>5
<1>19. Valid(u)
  BY <1>1 DEF u
<1>20. Parse(w) = u
  BY <1>16, <1>17, <1>18, <1>19 DEF Parse
<1>21. QED
  BY <1>13, <1>20 DEF w, u

LEMMA JoinedIs ==
  ASSUME NEW a \in Path, NEW b \in Path
  PROVE  /\ a \o b \in Path /\ Len(a \o b) = Len(a) + Len(b)
         /\ \A j \in 1..Len(a) + Len(b) : (a \o b)[j] = IF j <= Len(a) THEN a[j] ELSE b[j - Len(a)]
  BY ConcatProperties DEF Path

\* What is left of a path without the slashes at its end.
LEMMA TrimEndIs ==
  ASSUME NEW p \in Path
  PROVE  \/ TrimEnd(p) = <<>> /\ \A j \in 1..Len(p) : p[j] = "/"
         \/ \E m \in 1..Len(p) : /\ TrimEnd(p) = SubSeq(p, 1, m) /\ p[m] # "/"
                                 /\ \A j \in m + 1..Len(p) : p[j] = "/"
<1> DEFINE ink == {i \in DOMAIN p : p[i] # "/"}
<1>1. Len(p) \in Nat /\ DOMAIN p = 1..Len(p) /\ ink \in SUBSET (1..Len(p))
  BY LenProperties DEF Path
<1>2. CASE ink = {}
  BY <1>1, <1>2 DEF TrimEnd
<1>3. CASE ink # {}
  <2> DEFINE m == Max(ink)
  <2>1. TrimEnd(p) = SubSeq(p, 1, m)
    BY <1>3 DEF TrimEnd
  <2>2. \A j \in 1..Len(p) : p[j] # "/" => j \in ink
    BY <1>1
  <2>3. \A j \in ink : j \in 1..Len(p) /\ p[j] # "/"
    BY <1>1
  <2> HIDE DEF ink
  <2>4. m \in ink /\ \A j \in ink : j <= m
    BY <1>1, <1>3, MaxExists
  <2> HIDE DEF m
  <2>5. m \in 1..Len(p) /\ p[m] # "/"
    BY <2>3, <2>4
  <2>6. \A j \in m + 1..Len(p) : p[j] = "/"
    BY <1>1, <2>2, <2>4, <2>5
  <2>7. QED
    BY <2>1, <2>5, <2>6
<1>4. QED
  BY <1>2, <1>3

\* A path that ends in a name is left alone.
LEMMA TrimEndSame ==
  ASSUME NEW p \in Path, Len(p) >= 1, p[Len(p)] # "/"
  PROVE  TrimEnd(p) = p
<1>1. Len(p) \in Nat /\ Len(p) \in 1..Len(p)
  BY LenProperties DEF Path
<1>2. PICK m \in 1..Len(p) : TrimEnd(p) = SubSeq(p, 1, m) /\ \A j \in m + 1..Len(p) : p[j] = "/"
  BY <1>1, TrimEndIs
<1>3. m = Len(p)
  BY <1>1, <1>2
<1>4. QED
  BY <1>2, <1>3, SubSeqFull DEF Path

\* The slash alone.
LEMMA TrimEndRoot == ASSUME "/" \in STRING PROVE TrimEnd(<<"/">>) = <<>> /\ <<"/">> \in Path
<1>1. <<"/">> \in Path /\ Len(<<"/">>) = 1 /\ <<"/">>[1] = "/"
  BY OneIsPath
<1>2. \A m \in 1..Len(<<"/">>) : <<"/">>[m] = "/"
  BY <1>1
<1>3. QED
  BY <1>1, <1>2, TrimEndIs

\* The last slash of a path that begins with one.
LEMMA LastSlash ==
  ASSUME NEW p \in Path, Len(p) >= 1, p[1] = "/"
  PROVE  LET slash == Max(Slashes(p))
         IN slash \in 1..Len(p) /\ p[slash] = "/" /\ \A j \in slash + 1..Len(p) : p[j] # "/"
<1> DEFINE S == Slashes(p)
           slash == Max(S)
<1>1. Len(p) \in Nat /\ S \in SUBSET (1..Len(p)) /\ \A j \in 1..Len(p) : j \in S <=> p[j] = "/"
  BY LenProperties DEF Path, Slashes
<1>2. 1 \in S
  BY <1>1
<1> HIDE DEF S
<1>3. slash \in S /\ \A j \in S : j <= slash
  BY <1>1, <1>2, MaxExists
<1> HIDE DEF slash
<1>4. slash \in 1..Len(p) /\ p[slash] = "/"
  BY <1>1, <1>3
<1>5. \A j \in slash + 1..Len(p) : p[j] # "/"
  BY <1>1, <1>3, <1>4
<1>6. QED
  BY <1>4, <1>5 DEF slash, S

\* A URI as it is parsed.
ProperUri(u) ==
  /\ u = [scope |-> u.scope, account |-> u.account, path |-> u.path]
  /\ u.path \in Path /\ Len(u.path) >= 1 /\ u.path[1] = "/"

LEMMA WithPath ==
  ASSUME NEW u, ProperUri(u), NEW p
  PROVE  LET v == [u EXCEPT !.path = p]
         IN v.scope = u.scope /\ v.account = u.account /\ v.path = p
            /\ v = [scope |-> u.scope, account |-> u.account, path |-> p]
<1> DEFINE a == u.scope
           b == u.account
           c == u.path
           v == [u EXCEPT !.path = p]
<1>1. u = [scope |-> a, account |-> b, path |-> c]
  BY DEF ProperUri
<1> HIDE DEF a, b, c
<1>2. v = [scope |-> a, account |-> b, path |-> p]
  BY <1>1
<1> HIDE DEF v
<1>3. v.scope = a /\ v.account = b /\ v.path = p
  BY <1>2
<1>4. QED
  BY <1>2, <1>3 DEF a, b, v

\* A URI lies below its parent, and not the parent below it.
LEMMA BelowParent ==
  ASSUME NEW u, ProperUri(u), HasParent(u)
  PROVE  StartsWith(u, Parent(u)) /\ ~StartsWith(Parent(u), u)
<1> DEFINE p == u.path
           t == TrimEnd(p)
           slash == Max(Slashes(t))
           q == Parent(u).path
           tq == TrimEnd(q)
<1>1. p \in Path /\ Len(p) \in Nat /\ Len(p) >= 1 /\ p[1] = "/"
  BY LenProperties DEF ProperUri, Path
<1>2. PICK m \in 1..Len(p) : t = SubSeq(p, 1, m) /\ p[m] # "/"
  BY <1>1, TrimEndIs DEF HasParent
<1>3. t \in Path /\ Len(t) = m /\ (\A j \in 1..m : t[j] = p[j]) /\ m \in Nat /\ m >= 1
  <2>1. m \in Nat /\ 1 <= m /\ m <= Len(p)
    BY <1>1, <1>2
  <2>2. t \in Path /\ Len(t) = (IF 1 <= m THEN m - 1 + 1 ELSE 0) /\ \A j \in 1..m - 1 + 1 : t[j] = p[1 + j - 1]
    BY <1>1, <1>2, <2>1, PieceIs
  <2> HIDE DEF t
  <2>3. QED
    BY <2>1, <2>2
<1> HIDE DEF t
<1>4. t[m] # "/" /\ t[1] = "/" /\ t # <<>> /\ m > 1
  <2>1. m \in 1..m /\ 1 \in 1..m
    BY <1>3
  <2>2. t[m] # "/" /\ t[1] = "/"
    BY <1>1, <1>2, <1>3, <2>1
  <2>3. QED
    BY <1>3, <2>2, EmptySeq
<1>5. slash \in 1..m /\ t[slash] = "/"
  BY <1>3, <1>4, LastSlash
<1>6. slash \in Nat /\ 1 <= slash /\ slash < m
  BY <1>3, <1>4, <1>5
<1>7. /\ q = (IF slash = 1 THEN <<"/">> ELSE SubSeq(t, 1, slash - 1))
      /\ Parent(u).scope = u.scope /\ Parent(u).account = u.account
  BY WithPath DEF Parent, t
<1> HIDE DEF slash, q
<1>8. \/ tq = <<>>
      \/ \E a \in 1..slash - 1 : tq = SubSeq(t, 1, a) /\ t[a + 1] = "/"
  <2>1. CASE slash = 1
    <3>1. "/" \in STRING
      BY <1>1, ElementOfSeq DEF Path
    <3>2. QED
      BY <1>7, <2>1, <3>1, TrimEndRoot
  <2>2. CASE slash # 1
    <3>1. q = SubSeq(t, 1, slash - 1) /\ slash - 1 \in Nat /\ 1 <= slash - 1 /\ slash - 1 <= Len(t)
      BY <1>3, <1>6, <1>7, <2>2
    <3>2. q \in Path /\ Len(q) = slash - 1 /\ \A j \in 1..slash - 1 : q[j] = t[j]
      <4>1. q \in Path /\ Len(q) = (IF 1 <= slash - 1 THEN slash - 1 - 1 + 1 ELSE 0)
            /\ \A j \in 1..slash - 1 - 1 + 1 : q[j] = t[1 + j - 1]
        BY <1>3, <3>1, PieceIs
      <4>2. QED
        BY <1>6, <3>1, <4>1
    <3>3. SUFFICES ASSUME tq # <<>>
                   PROVE  \E a \in 1..slash - 1 : tq = SubSeq(t, 1, a) /\ t[a + 1] = "/"
      OBVIOUS
    <3>4. PICK a \in 1..slash - 1 : tq = SubSeq(q, 1, a) /\ \A j \in a + 1..slash - 1 : q[j] = "/"
      BY <3>2, <3>3, TrimEndIs
    <3>5. tq = SubSeq(t, 1, a)
      <4>1. a \in Nat /\ a <= slash - 1
        BY <1>6, <3>4
      <4>2. SubSeq(SubSeq(t, 1, slash - 1), 1, a) = SubSeq(t, 1, a)
        BY <1>3, <3>1, <4>1, PieceOfPrefix
      <4>3. QED
        BY <3>1, <3>4, <4>2
    <3>6. t[a + 1] = "/"
      <4>1. CASE a = slash - 1
        BY <1>5, <1>6, <4>1
      <4>2. CASE a # slash - 1
        <5>1. a + 1 \in a + 1..slash - 1 /\ a + 1 \in 1..slash - 1
          BY <1>6, <3>4, <4>2
        <5>2. QED
          BY <3>2, <3>4, <5>1
      <4>3. QED
        BY <4>1, <4>2
    <3>7. QED
      BY <3>4, <3>5, <3>6
  <2>3. QED
    BY <2>1, <2>2
<1> HIDE DEF tq
<1>9. tq \in Path /\ Len(tq) \in Nat /\ Len(tq) < slash
      /\ (tq # <<>> => IsPrefix(Append(tq, "/"), t))
  <2>1. CASE tq = <<>>
    BY <1>6, <2>1, EmptySeq DEF Path
  <2>2. CASE tq # <<>>
    <3>1. PICK a \in 1..slash - 1 : tq = SubSeq(t, 1, a) /\ t[a + 1] = "/"
      BY <1>8, <2>2
    <3>2. a \in Nat /\ 1 <= a /\ a < slash /\ a + 1 <= m /\ a <= m
      BY <1>6, <3>1
    <3>3. tq \in Path /\ Len(tq) = a
      <4>1. tq \in Path /\ Len(tq) = IF 1 <= a THEN a - 1 + 1 ELSE 0
        BY <1>3, <3>1, <3>2, PieceIs
      <4>2. QED
        BY <3>2, <4>1
    <3>4. Append(tq, "/") = SubSeq(t, 1, a + 1)
      <4>1. SubSeq(t, 1, a + 1) = SubSeq(t, 1, a + 1 - 1) \o <<t[a + 1]>>
        <5>1. t \in Seq(STRING) /\ 1 \in 1..Len(t) /\ a + 1 \in 1..Len(t)
          BY <1>3, <3>2 DEF Path
        <5>2. QED
          BY <5>1, SubSeqRecursiveSecond
      <4>2. SubSeq(t, 1, a + 1) = tq \o <<"/">>
        BY <3>1, <3>2, <4>1
      <4>3. "/" \in STRING
        BY <1>1, ElementOfSeq DEF Path
      <4>4. QED
        BY <3>3, <4>2, <4>3, AppendIsConcat DEF Path
    <3>5. Len(Append(tq, "/")) = a + 1
      <4>1. SubSeq(t, 1, a + 1) \in Path /\ Len(SubSeq(t, 1, a + 1)) = IF 1 <= a + 1 THEN a + 1 - 1 + 1 ELSE 0
        BY <1>3, <3>2, PieceIs
      <4>2. QED
        BY <3>2, <3>4, <4>1
    <3>6. IsPrefix(Append(tq, "/"), t)
      BY <1>3, <3>2, <3>4, <3>5 DEF IsPrefix
    <3>7. QED
      BY <3>2, <3>3, <3>6
  <2>3. QED
    BY <2>1, <2>2
<1>10. StartsWith(u, Parent(u))
  BY <1>7, <1>9 DEF StartsWith, tq, t, q
<1>11. ~StartsWith(Parent(u), u)
  <2>1. tq # t
    BY <1>3, <1>6, <1>9
  <2>2. ~IsPrefix(Append(t, "/"), tq)
    <3>1. "/" \in STRING
      BY <1>1, ElementOfSeq DEF Path
    <3>2. Len(Append(t, "/")) = m + 1
      BY <1>3, <3>1, AppendProperties DEF Path
    <3>3. QED
      BY <1>3, <1>6, <1>9, <3>2 DEF IsPrefix
  <2>3. QED
    BY <1>4, <2>1, <2>2 DEF StartsWith, tq, t, q
<1>12. QED
  BY <1>10, <1>11

\* The parent of a name joined to a URI is that URI.
LEMMA ParentOfJoined ==
  ASSUME NEW u, ProperUri(u), NEW c \in Path, c # <<>>, \A j \in 1..Len(c) : c[j] # "/"
  PROVE  TrimEnd(Parent(Join(u, c)).path) = TrimEnd(u.path)
<1> DEFINE p == u.path
           t == TrimEnd(p)
           w == t \o <<"/">> \o c
           n == Len(t)
           k == Len(c)
           v == Join(u, c)
<1>1. p \in Path /\ Len(p) \in Nat /\ Len(p) >= 1 /\ p[1] = "/"
  BY LenProperties DEF ProperUri, Path
<1>2. "/" \in STRING
  BY <1>1, ElementOfSeq DEF Path
<1>3. t \in Path /\ n \in Nat /\ (t # <<>> => t[n] # "/" /\ t[1] = "/")
  <2>1. CASE t = <<>>
    BY <2>1, EmptySeq DEF Path
  <2>2. CASE t # <<>>
    <3>1. PICK m \in 1..Len(p) : t = SubSeq(p, 1, m) /\ p[m] # "/"
      BY <1>1, <2>2, TrimEndIs
    <3>2. m \in Nat /\ 1 <= m /\ m <= Len(p)
      BY <1>1, <3>1
    <3>3. t \in Path /\ n = (IF 1 <= m THEN m - 1 + 1 ELSE 0) /\ \A j \in 1..m - 1 + 1 : t[j] = p[1 + j - 1]
      BY <1>1, <3>1, <3>2, PieceIs
    <3> HIDE DEF t, n
    <3>4. n = m /\ t[m] = p[m] /\ t[1] = p[1]
      BY <3>2, <3>3
    <3>5. QED
      BY <1>1, <3>1, <3>2, <3>3, <3>4
  <2>3. QED
    BY <2>1, <2>2
<1>4. (IF p = <<"/">> THEN <<>> ELSE TrimEnd(p)) = t
  BY <1>2, TrimEndRoot
<1>5. k \in Nat /\ k >= 1 /\ DOMAIN c = 1..k
  BY LenProperties, EmptySeq DEF Path
<1>6. TrimStart(c) = c
  <2> DEFINE ink == {i \in DOMAIN c : c[i] # "/"}
  <2>1. ink = 1..k
    BY <1>5
  <2>2. TrimStart(c) = IF ink = {} THEN <<>> ELSE SubSeq(c, Min(ink), k)
    BY DEF TrimStart
  <2> HIDE DEF ink
  <2>3. 1 \in ink /\ ink \in SUBSET (1..k) /\ ink # {}
    BY <1>5, <2>1
  <2>4. Min(ink) \in ink /\ Min(ink) <= 1
    BY <1>5, <2>3, MinExists
  <2>5. Min(ink) = 1
    BY <1>5, <2>1, <2>4
  <2>6. SubSeq(c, 1, k) = c
    BY SubSeqFull DEF Path
  <2>7. QED
    BY <2>2, <2>3, <2>5, <2>6
<1>7. v = [u EXCEPT !.path = w]
  BY <1>4, <1>6 DEF Join
<1> HIDE DEF v
<1>8. /\ v.path = w /\ v.scope = u.scope /\ v.account = u.account
      /\ v = [scope |-> u.scope, account |-> u.account, path |-> w]
  <2> HIDE DEF w
  <2>1. QED
    BY <1>7, WithPath
<1>9. /\ w \in Path /\ Len(w) = n + 1 + k /\ (\A j \in 1..n : w[j] = t[j])
      /\ w[n + 1] = "/" /\ \A j \in n + 2..n + 1 + k : w[j] # "/"
  <2> DEFINE l == <<"/">>
             tl == t \o l
  <2>1. l \in Path /\ Len(l) = 1 /\ l[1] = "/"
    BY <1>2, OneIsPath
  <2>2. w = tl \o c
    OBVIOUS
  <2> HIDE DEF t, l, w
  <2>3. tl \in Path /\ Len(tl) = n + 1
        /\ \A j \in 1..n + 1 : tl[j] = IF j <= n THEN t[j] ELSE l[j - n]
    <3>1. tl \in Path /\ Len(tl) = Len(t) + Len(l)
          /\ \A j \in 1..Len(t) + Len(l) : tl[j] = IF j <= Len(t) THEN t[j] ELSE l[j - Len(t)]
      BY <1>3, <2>1, JoinedIs
    <3> HIDE DEF tl
    <3>2. QED
      BY <2>1, <3>1
  <2> HIDE DEF tl, n, k
  <2>4. w \in Path /\ Len(w) = (n + 1) + k
        /\ \A j \in 1..(n + 1) + k : w[j] = IF j <= n + 1 THEN tl[j] ELSE c[j - (n + 1)]
    <3>1. tl \o c \in Path /\ Len(tl \o c) = Len(tl) + Len(c)
          /\ \A j \in 1..Len(tl) + Len(c) : (tl \o c)[j] = IF j <= Len(tl) THEN tl[j] ELSE c[j - Len(tl)]
      BY <2>3, JoinedIs
    <3>2. Len(tl) = n + 1 /\ Len(c) = k
      BY <2>3 DEF k
    <3>3. QED
      BY <2>2, <3>1, <3>2
  <2>5. \A j \in 1..n : w[j] = t[j]
    BY <1>3, <1>5, <2>3, <2>4
  <2>6. w[n + 1] = "/"
    <3>1. n + 1 \in 1..n + 1 /\ n + 1 \in 1..(n + 1) + k /\ (n + 1) - n = 1 /\ n + 1 <= n + 1 /\ ~(n + 1 <= n)
      BY <1>3, <1>5
    <3>2. w[n + 1] = tl[n + 1] /\ tl[n + 1] = l[(n + 1) - n]
      BY <2>3, <2>4, <3>1
    <3>3. QED
      BY <2>1, <3>1, <3>2
  <2>7. ASSUME NEW j \in n + 2..n + 1 + k PROVE w[j] # "/"
    <3>1. j \in 1..(n + 1) + k /\ ~(j <= n + 1) /\ j - (n + 1) \in 1..k
      BY <1>3, <1>5
    <3>2. w[j] = c[j - (n + 1)]
      BY <2>4, <3>1
    <3>3. QED
      BY <3>1, <3>2 DEF k
  <2>8. QED
    BY <1>3, <1>5, <2>4, <2>5, <2>6, <2>7
<1> HIDE DEF w, t, n, k
<1>10. w[1] = "/"
  <2>1. CASE n = 0
    BY <1>9, <2>1
  <2>2. CASE n # 0
    <3>1. t # <<>> /\ 1 \in 1..n
      BY <1>3, <2>2, EmptySeq DEF n
    <3>2. QED
      BY <1>3, <1>9, <3>1
  <2>3. QED
    BY <2>1, <2>2
<1>11. ProperUri(v)
  <2>1. Len(w) >= 1
    BY <1>3, <1>5, <1>9
  <2>2. QED
    BY <1>8, <1>9, <1>10, <2>1 DEF ProperUri
<1>12. TrimEnd(w) = w
  <2>1. Len(w) >= 1 /\ Len(w) \in n + 2..n + 1 + k
    BY <1>3, <1>5, <1>9
  <2>2. QED
    BY <1>9, <2>1, TrimEndSame
<1> DEFINE slash == Max(Slashes(w))
<1>13. slash = n + 1
  <2>1. Len(w) >= 1
    BY <1>3, <1>5, <1>9
  <2>2. slash \in 1..Len(w) /\ w[slash] = "/" /\ \A j \in slash + 1..Len(w) : w[j] # "/"
    BY <1>9, <1>10, <2>1, LastSlash
  <2> HIDE DEF slash
  <2>3. slash \in 1..n + 1 + k /\ ~(slash \in n + 2..n + 1 + k)
    BY <1>9, <2>2
  <2>4. ~(slash < n + 1)
    <3>1. ASSUME slash < n + 1 PROVE FALSE
      <4>1. n + 1 \in slash + 1..Len(w)
        BY <1>3, <1>5, <1>9, <2>3, <3>1
      <4>2. QED
        BY <1>9, <2>2, <4>1
    <3>2. QED
      BY <3>1
  <2>5. QED
    BY <1>3, <1>5, <2>3, <2>4
<1>14. Parent(v).path = IF n + 1 = 1 THEN <<"/">> ELSE SubSeq(w, 1, (n + 1) - 1)
  <2>1. Parent(v) = [v EXCEPT !.path = IF n + 1 = 1 THEN <<"/">> ELSE SubSeq(w, 1, (n + 1) - 1)]
    BY <1>8, <1>12, <1>13 DEF Parent
  <2>2. QED
    BY <1>11, <2>1, WithPath
<1>15. TrimEnd(Parent(v).path) = t
  <2>1. CASE n = 0
    <3>1. t = <<>>
      BY <1>3, <2>1, EmptySeq DEF n, Path
    <3>2. Parent(v).path = <<"/">>
      BY <1>14, <2>1
    <3>3. QED
      BY <1>2, <3>1, <3>2, TrimEndRoot
  <2>2. CASE n # 0
    <3>1. n + 1 # 1 /\ (n + 1) - 1 = n /\ n >= 1 /\ n <= Len(w)
      BY <1>3, <1>5, <1>9, <2>2
    <3>2. SubSeq(w, 1, n) = t
      <4> DEFINE x == SubSeq(w, 1, n)
      <4>1. x \in Path /\ Len(x) = (IF 1 <= n THEN n - 1 + 1 ELSE 0) /\ \A j \in 1..n - 1 + 1 : x[j] = w[1 + j - 1]
        BY <1>3, <1>9, <3>1, PieceIs
      <4> HIDE DEF x
      <4>2. Len(x) = Len(t)
        BY <1>3, <3>1, <4>1 DEF n
      <4>3. \A j \in 1..n : x[j] = t[j]
        BY <1>3, <1>9, <3>1, <4>1
      <4>4. x = t
        BY <1>3, <4>1, <4>2, <4>3, SeqEqual DEF Path, n
      <4>5. QED
        BY <4>4 DEF x
    <3>3. t # <<>>
      BY <1>3, <2>2, EmptySeq DEF n, Path
    <3>4. TrimEnd(t) = t
      BY <1>3, <3>1, <3>3, TrimEndSame DEF n
    <3>5. QED
      BY <1>14, <3>1, <3>2, <3>4
  <2>3. QED
    BY <2>1, <2>2
<1>16. QED
  BY <1>15 DEF v, t

(***************************************************************************)
(* Normal forms.                                                            *)
(***************************************************************************)
\* A name that a normal path has.
Plain ==
  {c \in Path : c \notin {<<>>, <<".">>, <<"..">>} /\ \A j \in 1..Len(c) : c[j] # "/"}

LEMMA PushIs ==
  ASSUME NEW stack \in Seq(Plain), NEW c \in Path, \A j \in 1..Len(c) : c[j] # "/"
  PROVE  /\ Push(stack, c) \in Seq(Plain)
         /\ c = <<>> => Push(stack, c) = stack
         /\ c \in Plain => Push(stack, c) = Append(stack, c)
<1>1. CASE c \in {<<>>, <<".">>}
  <2>1. Push(stack, c) = stack
    BY <1>1 DEF Push
  <2>2. QED
    BY <1>1, <2>1 DEF Plain
<1>2. CASE c \notin {<<>>, <<".">>} /\ c = <<"..">>
  <2>1. Push(stack, c) = IF stack = <<>> THEN stack ELSE Front(stack)
    BY <1>2 DEF Push
  <2>2. stack # <<>> => Front(stack) \in Seq(Plain)
    <3>1. ASSUME stack # <<>> PROVE Front(stack) \in Seq(Plain)
      <4>1. Len(stack) \in Nat /\ Len(stack) >= 1 /\ \A i \in 1..Len(stack) - 1 : stack[i] \in Plain
        BY <3>1, LenProperties, EmptySeq, ElementOfSeq
      <4>2. Front(stack) = SubSeq(stack, 1, Len(stack) - 1)
        BY DEF Front
      <4>3. QED
        BY <4>1, <4>2, SubSeqProperties
    <3>2. QED
      BY <3>1
  <2>3. QED
    BY <1>2, <2>1, <2>2 DEF Plain
<1>3. CASE c \notin {<<>>, <<".">>, <<"..">>}
  <2>1. Push(stack, c) = Append(stack, c)
    BY <1>3 DEF Push
  <2>2. c \in Plain
    BY <1>3 DEF Plain
  <2>3. QED
    BY <1>3, <2>1, <2>2, AppendProperties
<1>4. QED
  BY <1>1, <1>2, <1>3

\* The stacks up to every place of a path (see Names).
SlashesTo(p, i) == {j \in Slashes(p) : j <= i}

AreStacks(f, p, m) ==
  f = [i \in 0..m |->
         IF SlashesTo(p, i) = {} THEN Push(<<>>, SubSeq(p, 1, i))
         ELSE Push(f[Max(SlashesTo(p, i)) - 1], SubSeq(p, Max(SlashesTo(p, i)) + 1, i))]

\* The least of some numbers.
LEMMA LeastUpTo ==
  ASSUME NEW n \in Nat, NEW S \in SUBSET (0..n), S # {}
  PROVE  \E m \in S : \A y \in S : m <= y
<1> DEFINE T == {j + 1 : j \in S}
<1>1. T \in SUBSET (1..n + 1) /\ T # {} /\ n + 1 \in Nat
  <2>1. \A j \in S : j + 1 \in 1..n + 1
    OBVIOUS
  <2>2. T \in SUBSET (1..n + 1)
    BY <2>1
  <2>3. PICK j \in S : TRUE
    OBVIOUS
  <2>4. j + 1 \in T
    OBVIOUS
  <2>5. QED
    BY <2>2, <2>4
<1>2. Min(T) \in T /\ \A j \in T : Min(T) <= j
  <2> HIDE DEF T
  <2>1. QED
    BY <1>1, MinExists
<1>3. PICK m \in S : Min(T) = m + 1
  BY <1>2
<1>4. ASSUME NEW y \in S PROVE m <= y
  <2>1. y + 1 \in T
    OBVIOUS
  <2> HIDE DEF T
  <2>2. m + 1 <= y + 1
    BY <1>2, <1>3, <2>1
  <2>3. QED
    BY <2>2
<1>5. QED
  BY <1>4

\* The last slash up to a place.
LEMMA BeforeIs ==
  ASSUME NEW p \in Path, NEW i \in 0..Len(p), SlashesTo(p, i) # {}
  PROVE  LET s == Max(SlashesTo(p, i))
         IN s \in 1..i /\ p[s] = "/" /\ \A j \in s + 1..i : p[j] # "/"
<1> DEFINE S == SlashesTo(p, i)
           s == Max(S)
<1>1. Len(p) \in Nat /\ S \in SUBSET (1..i) /\ \A j \in 1..i : j \in S <=> p[j] = "/"
  BY LenProperties DEF Path, Slashes, SlashesTo
<1>2. S # {} /\ i \in Nat
  BY <1>1
<1> HIDE DEF S
<1>3. s \in S /\ \A j \in S : j <= s
  BY <1>1, <1>2, MaxExists
<1> HIDE DEF s
<1>4. s \in 1..i /\ p[s] = "/"
  BY <1>1, <1>3
<1>5. \A j \in s + 1..i : p[j] # "/"
  BY <1>1, <1>2, <1>3, <1>4
<1>6. QED
  BY <1>4, <1>5 DEF s, S

LEMMA StacksExist ==
  ASSUME NEW p \in Path
  PROVE  \E f : AreStacks(f, p, Len(p))
<1> DEFINE n == Len(p)
           Can(m) == \E f : AreStacks(f, p, m)
           S == {m \in 0..n : ~Can(m)}
<1>1. n \in Nat
  BY LenProperties DEF Path
<1> HIDE DEF Can, n
<1> SUFFICES ASSUME S # {} PROVE FALSE
  <2>1. n \in 0..n
    BY <1>1
  <2>2. S = {} => Can(n)
    BY <2>1
  <2>3. QED
    BY <2>2 DEF Can, n
<1>2. PICK m \in S : \A y \in S : m <= y
  <2>1. S \in SUBSET (0..n)
    OBVIOUS
  <2> HIDE DEF S
  <2>2. QED
    BY <1>1, <2>1, LeastUpTo
<1>3. m \in 0..n /\ m \in Nat /\ ~\E f : AreStacks(f, p, m)
  BY <1>1, <1>2 DEF Can
<1>4. \E f : \A i \in 0..m - 1 :
        f[i] = IF SlashesTo(p, i) = {} THEN Push(<<>>, SubSeq(p, 1, i))
               ELSE Push(f[Max(SlashesTo(p, i)) - 1], SubSeq(p, Max(SlashesTo(p, i)) + 1, i))
  <2>1. CASE m = 0
    BY <2>1
  <2>2. CASE m # 0
    <3>1. m - 1 \in 0..n /\ m - 1 \notin S
      <4> HIDE DEF S
      <4>1. QED
        BY <1>1, <1>2, <1>3, <2>2
    <3>2. PICK f : AreStacks(f, p, m - 1)
      BY <3>1 DEF Can
    <3>3. QED
      BY <3>2 DEF AreStacks
  <2>3. QED
    BY <2>1, <2>2
<1>5. PICK f : \A i \in 0..m - 1 :
        f[i] = IF SlashesTo(p, i) = {} THEN Push(<<>>, SubSeq(p, 1, i))
               ELSE Push(f[Max(SlashesTo(p, i)) - 1], SubSeq(p, Max(SlashesTo(p, i)) + 1, i))
  BY <1>4
<1> DEFINE new(h, i) == IF SlashesTo(p, i) = {} THEN Push(<<>>, SubSeq(p, 1, i))
                        ELSE Push(h[Max(SlashesTo(p, i)) - 1], SubSeq(p, Max(SlashesTo(p, i)) + 1, i))
           g == [i \in 0..m |-> IF i = m THEN new(f, m) ELSE f[i]]
<1>6. ASSUME NEW i \in 0..m PROVE g[i] = new(g, i)
  <2>1. g[i] = new(f, i)
    <3>1. CASE i = m
      BY <3>1
    <3>2. CASE i # m
      <4>1. i \in 0..m - 1
        BY <1>3, <3>2
      <4>2. QED
        BY <1>5, <3>2, <4>1
    <3>3. QED
      BY <3>1, <3>2
  <2>2. new(f, i) = new(g, i)
    <3>1. CASE SlashesTo(p, i) = {}
      BY <3>1
    <3>2. CASE SlashesTo(p, i) # {}
      <4>1. i \in 0..Len(p)
        BY <1>1, <1>3 DEF n
      <4>2. Max(SlashesTo(p, i)) \in 1..i
        BY <3>2, <4>1, BeforeIs
      <4>3. Max(SlashesTo(p, i)) - 1 \in 0..m /\ Max(SlashesTo(p, i)) - 1 # m
        BY <1>3, <4>2
      <4>4. g[Max(SlashesTo(p, i)) - 1] = f[Max(SlashesTo(p, i)) - 1]
        BY <4>3
      <4>5. QED
        BY <3>2, <4>4
    <3>3. QED
      BY <3>1, <3>2
  <2>3. QED
    BY <2>1, <2>2
<1>7. g = [i \in 0..m |-> g[i]]
  OBVIOUS
<1> HIDE DEF g
<1>8. g = [i \in 0..m |-> new(g, i)]
  <2> HIDE DEF new
  <2>1. QED
    BY <1>6, <1>7
<1>9. AreStacks(g, p, m)
  BY <1>8 DEF AreStacks
<1>10. QED
  BY <1>3, <1>9

\* What is between the last slash and a place goes on what is before it.
LEMMA NamesAre ==
  ASSUME NEW p \in Path
  PROVE  \E f : /\ Names(p) = f[Len(p)]
                /\ \A i \in 0..Len(p) : (\A j \in 1..i : p[j] # "/") => f[i] = Push(<<>>, SubSeq(p, 1, i))
                /\ \A i \in 0..Len(p), s \in 1..Len(p) :
                     s <= i /\ p[s] = "/" /\ (\A j \in s + 1..i : p[j] # "/")
                       => f[i] = Push(f[s - 1], SubSeq(p, s + 1, i))
<1> DEFINE n == Len(p)
           f == CHOOSE g : AreStacks(g, p, n)
<1>1. n \in Nat
  BY LenProperties DEF Path
<1>2. AreStacks(f, p, n)
  BY StacksExist
<1>3. Names(p) = f[n]
  BY DEF Names, AreStacks, SlashesTo
<1> HIDE DEF f
<1>4. ASSUME NEW i \in 0..n
      PROVE  f[i] = IF SlashesTo(p, i) = {} THEN Push(<<>>, SubSeq(p, 1, i))
                    ELSE Push(f[Max(SlashesTo(p, i)) - 1], SubSeq(p, Max(SlashesTo(p, i)) + 1, i))
  BY <1>2 DEF AreStacks
<1>5. ASSUME NEW i \in 0..n, \A j \in 1..i : p[j] # "/"
      PROVE  f[i] = Push(<<>>, SubSeq(p, 1, i))
  <2>1. SlashesTo(p, i) = {}
    <3>1. DOMAIN p = 1..n
      BY LenProperties DEF Path
    <3>2. \A j \in DOMAIN p : ~(p[j] = "/" /\ j <= i)
      BY <1>1, <1>5, <3>1
    <3>3. QED
      BY <3>2 DEF SlashesTo, Slashes
  <2>2. QED
    BY <1>4, <2>1
<1>6. ASSUME NEW i \in 0..n, NEW s \in 1..n, s <= i, p[s] = "/", \A j \in s + 1..i : p[j] # "/"
      PROVE  f[i] = Push(f[s - 1], SubSeq(p, s + 1, i))
  <2>1. s \in SlashesTo(p, i)
    <3>1. s \in DOMAIN p
      BY LenProperties DEF Path
    <3>2. QED
      BY <1>6, <3>1 DEF SlashesTo, Slashes
  <2>2. SlashesTo(p, i) # {}
    BY <2>1
  <2> DEFINE l == Max(SlashesTo(p, i))
  <2>3. l \in 1..i /\ p[l] = "/" /\ \A j \in l + 1..i : p[j] # "/"
    BY <2>2, BeforeIs
  <2>4. f[i] = Push(f[l - 1], SubSeq(p, l + 1, i))
    BY <1>4, <2>2
  <2> HIDE DEF l
  <2>5. ~(l < s)
    <3>1. ASSUME l < s PROVE FALSE
      <4>1. s \in l + 1..i
        BY <1>1, <1>6, <2>3, <3>1
      <4>2. QED
        BY <1>6, <2>3, <4>1
    <3>2. QED
      BY <3>1
  <2>6. ~(s < l)
    <3>1. ASSUME s < l PROVE FALSE
      <4>1. l \in s + 1..i
        BY <1>1, <1>6, <2>3, <3>1
      <4>2. QED
        BY <1>6, <2>3, <4>1
    <3>2. QED
      BY <3>1
  <2>7. l = s
    BY <1>1, <2>3, <2>5, <2>6
  <2>8. QED
    BY <2>4, <2>7
<1>7. QED
  BY <1>3, <1>5, <1>6

\* The names of a path are plain.
LEMMA NamesPlain ==
  ASSUME NEW p \in Path
  PROVE  Names(p) \in Seq(Plain)
<1> DEFINE n == Len(p)
<1>1. n \in Nat /\ n \in 0..n
  BY LenProperties DEF Path
<1>2. PICK f :
        /\ Names(p) = f[n]
        /\ \A i \in 0..n : (\A j \in 1..i : p[j] # "/") => f[i] = Push(<<>>, SubSeq(p, 1, i))
        /\ \A i \in 0..n, s \in 1..n :
             s <= i /\ p[s] = "/" /\ (\A j \in s + 1..i : p[j] # "/")
               => f[i] = Push(f[s - 1], SubSeq(p, s + 1, i))
  BY NamesAre
<1> DEFINE S == {i \in 0..n : f[i] \notin Seq(Plain)}
<1>3. SUFFICES ASSUME S # {} PROVE FALSE
  <2>1. S = {} => f[n] \in Seq(Plain)
    BY <1>1
  <2>2. QED
    BY <1>2, <2>1
<1>4. PICK i \in S : \A y \in S : i <= y
  <2>1. S \in SUBSET (0..n)
    OBVIOUS
  <2> HIDE DEF S
  <2>2. QED
    BY <1>1, <1>3, <2>1, LeastUpTo
<1>5. i \in 0..n /\ i \in Nat /\ i <= Len(p) /\ f[i] \notin Seq(Plain)
  BY <1>1, <1>4
<1>6. \A y \in 0..n : y < i => f[y] \in Seq(Plain)
  <2>1. ASSUME NEW y \in 0..n, y < i PROVE f[y] \in Seq(Plain)
    <3>1. y \notin S
      <4> HIDE DEF S
      <4>1. QED
        BY <1>4, <1>5, <2>1
    <3>2. QED
      BY <3>1
  <2>2. QED
    BY <2>1
<1> HIDE DEF S
<1>7. CASE SlashesTo(p, i) = {}
  <2>1. \A j \in 1..i : p[j] # "/"
    <3>1. \A j \in 1..i : j \in DOMAIN p
      BY <1>1, <1>5, LenProperties DEF Path
    <3>2. QED
      BY <1>7, <3>1 DEF SlashesTo, Slashes
  <2>2. f[i] = Push(<<>>, SubSeq(p, 1, i))
    BY <1>2, <1>5, <2>1
  <2> DEFINE c == SubSeq(p, 1, i)
  <2>3. c \in Path /\ Len(c) = (IF 1 <= i THEN i - 1 + 1 ELSE 0) /\ \A j \in 1..i - 1 + 1 : c[j] = p[1 + j - 1]
    BY <1>5, PieceIs
  <2> HIDE DEF c
  <2>4. \A j \in 1..Len(c) : c[j] # "/"
    BY <1>5, <2>1, <2>3
  <2>5. <<>> \in Seq(Plain)
    BY EmptySeq
  <2>6. QED
    BY <1>5, <2>2, <2>3, <2>4, <2>5, PushIs DEF c
<1>8. CASE SlashesTo(p, i) # {}
  <2> DEFINE s == Max(SlashesTo(p, i))
  <2>1. s \in 1..i /\ p[s] = "/" /\ \A j \in s + 1..i : p[j] # "/"
    BY <1>5, <1>8, BeforeIs
  <2> HIDE DEF s
  <2>2. s \in 1..n /\ s <= i /\ s - 1 \in 0..n /\ s - 1 < i /\ s + 1 \in Nat /\ 1 <= s + 1
    BY <1>1, <1>5, <2>1
  <2>3. f[i] = Push(f[s - 1], SubSeq(p, s + 1, i))
    BY <1>2, <1>5, <2>1, <2>2
  <2>4. f[s - 1] \in Seq(Plain)
    BY <1>6, <2>2
  <2> DEFINE c == SubSeq(p, s + 1, i)
  <2>5. c \in Path /\ Len(c) = (IF s + 1 <= i THEN i - (s + 1) + 1 ELSE 0)
        /\ \A j \in 1..i - (s + 1) + 1 : c[j] = p[s + 1 + j - 1]
    BY <1>5, <2>2, PieceIs
  <2> HIDE DEF c
  <2>6. ASSUME NEW j \in 1..Len(c) PROVE c[j] # "/"
    <3>1. j \in 1..i - (s + 1) + 1 /\ s + 1 + j - 1 \in s + 1..i
      BY <1>5, <2>2, <2>5
    <3>2. QED
      BY <2>1, <2>5, <3>1
  <2>7. QED
    BY <1>5, <2>3, <2>4, <2>5, <2>6, PushIs DEF c
<1>9. QED
  BY <1>7, <1>8

\* The root has none.
LEMMA NamesOfRoot == ASSUME "/" \in STRING PROVE Names(<<"/">>) = <<>>
<1> DEFINE p == <<"/">>
<1>1. p \in Path /\ Len(p) = 1 /\ p[1] = "/"
  BY OneIsPath
<1> HIDE DEF p
<1>2. PICK f :
        /\ Names(p) = f[Len(p)]
        /\ \A i \in 0..Len(p) : (\A j \in 1..i : p[j] # "/") => f[i] = Push(<<>>, SubSeq(p, 1, i))
        /\ \A i \in 0..Len(p), s \in 1..Len(p) :
             s <= i /\ p[s] = "/" /\ (\A j \in s + 1..i : p[j] # "/")
               => f[i] = Push(f[s - 1], SubSeq(p, s + 1, i))
  BY <1>1, NamesAre
<1>3. <<>> \in Seq(Plain) /\ <<>> \in Path /\ \A c : c = <<>> => \A j \in 1..Len(c) : c[j] # "/"
  BY EmptySeq DEF Path
<1>4. Push(<<>>, <<>>) = <<>>
  BY DEF Push
<1>5. f[0] = <<>>
  <2>1. 0 \in 0..Len(p) /\ \A j \in 1..0 : p[j] # "/"
    BY <1>1
  <2>2. f[0] = Push(<<>>, SubSeq(p, 1, 0))
    BY <1>2, <2>1
  <2>3. SubSeq(p, 1, 0) = <<>>
    BY SubSeqEmpty
  <2>4. QED
    BY <1>4, <2>2, <2>3
<1>6. f[1] = <<>>
  <2>1. 1 \in 0..Len(p) /\ 1 \in 1..Len(p) /\ 1 <= 1 /\ \A j \in 1 + 1..1 : p[j] # "/"
    BY <1>1
  <2>2. f[1] = Push(f[1 - 1], SubSeq(p, 1 + 1, 1))
    BY <1>1, <1>2, <2>1
  <2>3. SubSeq(p, 1 + 1, 1) = <<>>
    BY SubSeqEmpty
  <2>4. 1 - 1 = 0
    OBVIOUS
  <2>5. QED
    BY <1>4, <1>5, <2>2, <2>3, <2>4
<1>7. QED
  BY <1>1, <1>2, <1>6 DEF p

\* The strings that the names make one by one (see Slashed).
AreJoined(f, names, m) ==
  f = [k \in 0..m |-> IF k = 0 THEN <<>> ELSE f[k - 1] \o <<"/">> \o names[k]]

LEMMA JoinedExist ==
  ASSUME NEW names, NEW n \in Nat
  PROVE  \E f : AreJoined(f, names, n)
<1> DEFINE Can(m) == \E f : AreJoined(f, names, m)
           S == {m \in 0..n : ~Can(m)}
<1> HIDE DEF Can
<1> SUFFICES ASSUME S # {} PROVE FALSE
  <2>1. n \in 0..n
    OBVIOUS
  <2>2. S = {} => Can(n)
    BY <2>1
  <2>3. QED
    BY <2>2 DEF Can
<1>1. PICK m \in S : \A y \in S : m <= y
  <2>1. S \in SUBSET (0..n)
    OBVIOUS
  <2> HIDE DEF S
  <2>2. QED
    BY <2>1, LeastUpTo
<1>2. m \in 0..n /\ m \in Nat /\ ~\E f : AreJoined(f, names, m)
  BY <1>1 DEF Can
<1>3. m # 0
  <2> DEFINE f == [k \in 0..0 |-> <<>>]
  <2>1. f = [k \in 0..0 |-> IF k = 0 THEN <<>> ELSE f[k - 1] \o <<"/">> \o names[k]]
    OBVIOUS
  <2>2. AreJoined(f, names, 0)
    BY <2>1 DEF AreJoined
  <2>3. QED
    BY <1>2, <2>2
<1>4. m - 1 \in 0..n /\ m - 1 \notin S
  <2> HIDE DEF S
  <2>1. QED
    BY <1>1, <1>2, <1>3
<1>5. PICK f : AreJoined(f, names, m - 1)
  BY <1>4 DEF Can
<1> DEFINE new(h, k) == h[k - 1] \o <<"/">> \o names[k]
           g == [k \in 0..m |-> IF k = m THEN new(f, m) ELSE f[k]]
<1>6. ASSUME NEW k \in 0..m PROVE g[k] = IF k = 0 THEN <<>> ELSE new(g, k)
  <2>1. CASE k = m
    <3>1. m - 1 \in 0..m /\ m - 1 # m
      BY <1>2, <1>3
    <3>2. g[m - 1] = f[m - 1]
      BY <3>1
    <3>3. g[k] = new(f, m)
      BY <2>1
    <3>4. QED
      BY <1>3, <2>1, <3>2, <3>3
  <2>2. CASE k # m
    <3>1. k \in 0..m - 1 /\ g[k] = f[k]
      BY <1>2, <2>2
    <3>2. f[k] = IF k = 0 THEN <<>> ELSE f[k - 1] \o <<"/">> \o names[k]
      BY <1>5, <3>1 DEF AreJoined
    <3>3. k # 0 => g[k - 1] = f[k - 1]
      BY <1>2, <3>1
    <3>4. QED
      BY <3>1, <3>2, <3>3
  <2>3. QED
    BY <2>1, <2>2
<1>7. g = [k \in 0..m |-> g[k]]
  OBVIOUS
<1> HIDE DEF g
<1>8. g = [k \in 0..m |-> IF k = 0 THEN <<>> ELSE new(g, k)]
  <2> HIDE DEF new
  <2>1. QED
    BY <1>6, <1>7
<1>9. AreJoined(g, names, m)
  BY <1>8 DEF AreJoined
<1>10. QED
  BY <1>2, <1>9

\* Every string so made is a beginning of the last.
LEMMA SlashedIs ==
  ASSUME NEW names \in Seq(Plain), "/" \in STRING
  PROVE  LET n == Len(names) w == Slashed(names)
         IN /\ n \in Nat /\ w \in Path
            /\ \E f : /\ f[0] = <<>> /\ f[n] = w
                      /\ \A k \in 0..n : f[k] \in Path /\ Len(f[k]) <= Len(w)
                                         /\ \A j \in 1..Len(f[k]) : w[j] = f[k][j]
                      /\ \A k \in 1..n : f[k] = f[k - 1] \o <<"/">> \o names[k]
<1> DEFINE n == Len(names)
           w == Slashed(names)
           f == CHOOSE g : AreJoined(g, names, n)
<1>1. n \in Nat /\ \A k \in 1..n : names[k] \in Plain
  BY LenProperties, ElementOfSeq
<1>2. AreJoined(f, names, n)
  BY <1>1, JoinedExist
<1>3. w = f[n]
  BY DEF Slashed, AreJoined
<1> HIDE DEF f, w, n
<1>4. \A k \in 0..n : f[k] = IF k = 0 THEN <<>> ELSE f[k - 1] \o <<"/">> \o names[k]
  BY <1>2 DEF AreJoined
<1>5. f[0] = <<>>
  BY <1>1, <1>4
<1>6. \A k \in 1..n : f[k] = f[k - 1] \o <<"/">> \o names[k]
  <2>1. ASSUME NEW k \in 1..n PROVE f[k] = f[k - 1] \o <<"/">> \o names[k]
    <3>1. k \in 0..n /\ k # 0
      BY <1>1
    <3>2. QED
      BY <1>4, <3>1
  <2>2. QED
    BY <2>1
<1> DEFINE Extends(m, k) == /\ f[k] \in Path /\ f[m] \in Path /\ Len(f[k]) <= Len(f[m])
                            /\ \A j \in 1..Len(f[k]) : f[m][j] = f[k][j]
           Good(m) == \A k \in 0..m : Extends(m, k)
           S == {m \in 0..n : ~Good(m)}
<1>7. Good(0)
  <2>1. <<>> \in Path /\ Len(<<>>) = 0
    BY EmptySeq DEF Path
  <2>2. Extends(0, 0)
    BY <1>5, <2>1
  <2>3. QED
    BY <2>2
<1>8. ASSUME NEW m \in 1..n, Good(m - 1) PROVE Good(m)
  <2>1. m - 1 \in 0..m - 1 /\ names[m] \in Path /\ \A k \in 0..m : k # m => k \in 0..m - 1
    BY <1>1 DEF Plain
  <2>2. f[m - 1] \in Path
    BY <1>8, <2>1
  <2> DEFINE a == f[m - 1]
             l == <<"/">>
             c == names[m]
             al == a \o l
  <2>3. l \in Path /\ Len(l) = 1
    BY OneIsPath
  <2>4. a \in Path /\ c \in Path /\ f[m] = al \o c
    BY <1>6, <2>1, <2>2
  <2> HIDE DEF a, l, c
  <2>5. al \in Path /\ Len(al) = Len(a) + Len(l)
        /\ \A j \in 1..Len(a) + Len(l) : al[j] = IF j <= Len(a) THEN a[j] ELSE l[j - Len(a)]
    BY <2>3, <2>4, JoinedIs
  <2> HIDE DEF al
  <2>6. al \o c \in Path /\ Len(al \o c) = Len(al) + Len(c)
        /\ \A j \in 1..Len(al) + Len(c) : (al \o c)[j] = IF j <= Len(al) THEN al[j] ELSE c[j - Len(al)]
    BY <2>4, <2>5, JoinedIs
  <2>7. Len(a) \in Nat /\ Len(c) \in Nat
    BY <2>4, LenProperties DEF Path
  <2>8. /\ f[m] \in Path /\ Len(a) <= Len(f[m])
        /\ \A j \in 1..Len(a) : f[m][j] = a[j]
    BY <2>3, <2>4, <2>5, <2>6, <2>7
  <2>9. ASSUME NEW k \in 0..m PROVE Extends(m, k)
    <3>1. CASE k = m
      <4>1. Len(f[m]) \in Nat
        BY <2>8, LenProperties DEF Path
      <4>2. QED
        BY <2>8, <3>1, <4>1
    <3>2. CASE k # m
      <4>1. Extends(m - 1, k)
        BY <1>8, <2>1, <3>2
      <4>2. f[k] \in Path /\ Len(f[k]) <= Len(a) /\ \A j \in 1..Len(f[k]) : a[j] = f[k][j]
        BY <4>1 DEF a
      <4>3. Len(f[k]) \in Nat /\ Len(f[m]) \in Nat
        BY <2>8, <4>2, LenProperties DEF Path
      <4>4. Len(f[k]) <= Len(f[m]) /\ \A j \in 1..Len(f[k]) : j \in 1..Len(a)
        BY <2>7, <2>8, <4>2, <4>3
      <4>5. \A j \in 1..Len(f[k]) : f[m][j] = f[k][j]
        BY <2>8, <4>2, <4>4
      <4>6. QED
        BY <2>8, <4>2, <4>4, <4>5
    <3>3. QED
      BY <3>1, <3>2
  <2>10. QED
    BY <2>9
<1> HIDE DEF Good
<1>9. Good(n)
  <2>1. SUFFICES ASSUME S # {} PROVE FALSE
    <3>1. n \in 0..n
      BY <1>1
    <3>2. QED
      BY <3>1
  <2>2. PICK m \in S : \A y \in S : m <= y
    <3>1. S \in SUBSET (0..n)
      OBVIOUS
    <3> HIDE DEF S
    <3>2. QED
      BY <1>1, <2>1, <3>1, LeastUpTo
  <2>3. m \in 0..n /\ ~Good(m)
    BY <2>2
  <2>4. m # 0
    BY <1>7, <2>3
  <2>5. m \in 1..n /\ m - 1 \in 0..n /\ m - 1 \notin S
    <3> HIDE DEF S
    <3>1. QED
      BY <1>1, <2>2, <2>3, <2>4
  <2>6. Good(m - 1)
    BY <2>5
  <2>7. QED
    BY <1>8, <2>3, <2>5, <2>6
<1>10. \A k \in 0..n : f[k] \in Path /\ Len(f[k]) <= Len(w) /\ \A j \in 1..Len(f[k]) : w[j] = f[k][j]
  BY <1>3, <1>9 DEF Good
<1>11. w \in Path
  <2>1. n \in 0..n
    BY <1>1
  <2>2. QED
    BY <1>3, <1>10, <2>1
<1>12. QED
  BY <1>1, <1>3, <1>5, <1>6, <1>10, <1>11 DEF n, w

\* Names are what is found again between the slashes.
LEMMA NamesOfSlashed ==
  ASSUME NEW names \in Seq(Plain), "/" \in STRING
  PROVE  Names(Slashed(names)) = names
<1> DEFINE n == Len(names)
           w == Slashed(names)
<1>1. n \in Nat /\ w \in Path /\ \A k \in 1..n : names[k] \in Plain
  BY SlashedIs, ElementOfSeq
<1>2. PICK f :
        /\ f[0] = <<>> /\ f[n] = w
        /\ \A k \in 0..n : f[k] \in Path /\ Len(f[k]) <= Len(w) /\ \A j \in 1..Len(f[k]) : w[j] = f[k][j]
        /\ \A k \in 1..n : f[k] = f[k - 1] \o <<"/">> \o names[k]
  BY SlashedIs
<1> HIDE DEF w
<1>3. PICK g :
        /\ Names(w) = g[Len(w)]
        /\ \A i \in 0..Len(w) : (\A j \in 1..i : w[j] # "/") => g[i] = Push(<<>>, SubSeq(w, 1, i))
        /\ \A i \in 0..Len(w), s \in 1..Len(w) :
             s <= i /\ w[s] = "/" /\ (\A j \in s + 1..i : w[j] # "/")
               => g[i] = Push(g[s - 1], SubSeq(w, s + 1, i))
  BY <1>1, NamesAre
<1> DEFINE Good(k) == g[Len(f[k])] = SubSeq(names, 1, k)
           S == {k \in 0..n : ~Good(k)}
<1>4. Len(w) \in Nat /\ \A k \in 0..n : Len(f[k]) \in Nat
  BY <1>1, <1>2, LenProperties DEF Path
<1>5. Good(0)
  <2>1. 0 \in 0..Len(w) /\ Len(f[0]) = 0 /\ \A j \in 1..0 : w[j] # "/"
    BY <1>2, <1>4
  <2>2. g[0] = Push(<<>>, SubSeq(w, 1, 0))
    BY <1>3, <2>1
  <2>3. SubSeq(w, 1, 0) = <<>> /\ SubSeq(names, 1, 0) = <<>>
    BY SubSeqEmpty
  <2>4. Push(<<>>, <<>>) = <<>>
    BY DEF Push
  <2>5. QED
    BY <2>1, <2>2, <2>3, <2>4
<1>6. ASSUME NEW k \in 1..n, Good(k - 1) PROVE Good(k)
  <2> DEFINE a == f[k - 1]
             b == f[k]
             c == names[k]
             l == <<"/">>
             al == a \o l
             s == Len(a) + 1
             i == Len(b)
  <2>1. k - 1 \in 0..n /\ k \in 0..n /\ k \in Nat /\ k >= 1
    BY <1>1
  <2>2. a \in Path /\ b \in Path /\ i <= Len(w) /\ (\A j \in 1..i : w[j] = b[j]) /\ Len(a) \in Nat /\ i \in Nat
    BY <1>2, <1>4, <2>1
  <2>3. c \in Plain /\ c \in Path /\ Len(c) \in Nat /\ \A j \in 1..Len(c) : c[j] # "/"
    BY <1>1, LenProperties DEF Plain, Path
  <2>4. l \in Path /\ Len(l) = 1 /\ l[1] = "/"
    BY OneIsPath
  <2>5. b = al \o c
    BY <1>2
  <2>6. Good(k - 1) => g[Len(a)] = SubSeq(names, 1, k - 1)
    OBVIOUS
  <2> HIDE DEF a, b, c, l
  <2>7. al \in Path /\ Len(al) = Len(a) + Len(l)
        /\ \A j \in 1..Len(a) + Len(l) : al[j] = IF j <= Len(a) THEN a[j] ELSE l[j - Len(a)]
    BY <2>2, <2>4, JoinedIs
  <2> HIDE DEF al
  <2>8. /\ Len(b) = Len(al) + Len(c)
        /\ \A j \in 1..Len(al) + Len(c) : b[j] = IF j <= Len(al) THEN al[j] ELSE c[j - Len(al)]
    BY <2>3, <2>5, <2>7, JoinedIs
  <2>9. s \in Nat /\ i = s + Len(c) /\ Len(al) = s /\ al[s] = "/"
    <3>1. Len(al) = s /\ s \in Nat
      BY <2>2, <2>4, <2>7
    <3>2. s \in 1..Len(a) + Len(l) /\ ~(s <= Len(a)) /\ s - Len(a) = 1
      BY <2>2, <2>4
    <3>3. al[s] = l[s - Len(a)]
      BY <2>7, <3>2
    <3>4. QED
      BY <2>4, <2>8, <3>1, <3>2, <3>3
  <2> HIDE DEF i
  <2>10. w[s] = "/" /\ s \in 1..Len(w) /\ s <= i /\ i \in 0..Len(w) /\ s - 1 = Len(a)
    <3>1. s \in 1..i /\ s \in 1..Len(al) + Len(c) /\ s <= Len(al)
      BY <2>2, <2>3, <2>9
    <3>2. w[s] = al[s]
      BY <2>2, <2>8, <3>1
    <3>3. QED
      BY <1>4, <2>2, <2>3, <2>9, <3>1, <3>2
  <2> HIDE DEF s
  <2>11. ASSUME NEW j \in 1..Len(c) PROVE w[s + j] = c[j]
    <3>1. s + j \in 1..i /\ s + j \in 1..Len(al) + Len(c) /\ ~(s + j <= Len(al)) /\ (s + j) - Len(al) = j
      BY <2>3, <2>9
    <3>2. w[s + j] = b[s + j]
      BY <2>2, <3>1
    <3>3. b[s + j] = c[(s + j) - Len(al)]
      BY <2>8, <3>1
    <3>4. QED
      BY <3>1, <3>2, <3>3
  <2>12. \A j \in s + 1..i : w[j] # "/"
    <3>1. ASSUME NEW j \in s + 1..i PROVE w[j] # "/"
      <4>1. j - s \in 1..Len(c) /\ s + (j - s) = j
        BY <2>3, <2>9
      <4>2. QED
        BY <2>3, <2>11, <4>1
    <3>2. QED
      BY <3>1
  <2>13. SubSeq(w, s + 1, i) = c
    <3> DEFINE d == SubSeq(w, s + 1, i)
    <3>1. s + 1 \in Nat /\ 1 <= s + 1
      BY <2>9
    <3>2. d \in Path /\ Len(d) = (IF s + 1 <= i THEN i - (s + 1) + 1 ELSE 0)
          /\ \A j \in 1..i - (s + 1) + 1 : d[j] = w[s + 1 + j - 1]
      BY <1>1, <2>2, <3>1, PieceIs
    <3> HIDE DEF d
    <3>3. Len(d) = Len(c)
      BY <2>3, <2>9, <3>2
    <3>4. ASSUME NEW j \in 1..Len(c) PROVE d[j] = c[j]
      <4>1. j \in 1..i - (s + 1) + 1 /\ s + 1 + j - 1 = s + j
        BY <2>3, <2>9
      <4>2. d[j] = w[s + j]
        BY <3>2, <4>1
      <4>3. QED
        BY <2>11, <4>2
    <3>5. d = c
      BY <2>3, <3>2, <3>3, <3>4, SeqEqual DEF Path
    <3>6. QED
      BY <3>5 DEF d
  <2>14. g[i] = Push(g[s - 1], c)
    BY <1>3, <2>10, <2>12, <2>13
  <2>15. g[s - 1] = SubSeq(names, 1, k - 1)
    BY <1>6, <2>6, <2>10
  <2>16. SubSeq(names, 1, k - 1) \in Seq(Plain)
    <3>1. \A j \in 1..k - 1 : names[j] \in Plain
      BY <1>1, <2>1
    <3>2. QED
      BY <2>1, <3>1, SubSeqProperties
  <2>17. g[i] = Append(SubSeq(names, 1, k - 1), c)
    BY <2>3, <2>14, <2>15, <2>16, PushIs
  <2>18. SubSeq(names, 1, k) = SubSeq(names, 1, k - 1) \o <<c>>
    <3>1. 1 \in 1..Len(names) /\ k \in 1..Len(names)
      BY <1>1, <2>1
    <3>2. QED
      BY <3>1, SubSeqRecursiveSecond DEF c
  <2>19. g[i] = SubSeq(names, 1, k)
    BY <2>3, <2>16, <2>17, <2>18, AppendIsConcat
  <2>20. QED
    BY <2>19 DEF i, b
<1> HIDE DEF Good
<1>7. Good(n)
  <2>1. SUFFICES ASSUME S # {} PROVE FALSE
    <3>1. n \in 0..n
      BY <1>1
    <3>2. QED
      BY <3>1
  <2>2. PICK k \in S : \A y \in S : k <= y
    <3>1. S \in SUBSET (0..n)
      OBVIOUS
    <3> HIDE DEF S, n
    <3>2. QED
      BY <1>1, <2>1, <3>1, LeastUpTo
  <2>3. k \in 0..n /\ ~Good(k)
    BY <2>2
  <2>4. k # 0
    BY <1>5, <2>3
  <2>5. k \in 1..n /\ k - 1 \in 0..n /\ k - 1 \notin S
    <3> HIDE DEF S, n
    <3>1. QED
      BY <1>1, <2>2, <2>3, <2>4
  <2>6. Good(k - 1)
    BY <2>5
  <2>7. QED
    BY <1>6, <2>3, <2>5, <2>6
<1>8. SubSeq(names, 1, n) = names
  BY SubSeqFull
<1>9. QED
  BY <1>2, <1>3, <1>7, <1>8 DEF Good, w

\* A normal form is normal.
LEMMA NormalIsNormal ==
  ASSUME NEW u, ProperUri(u)
  PROVE  Normalize(Normalize(u)) = Normalize(u)
<1> DEFINE p == u.path
           names == Names(p)
           q == IF names = <<>> THEN <<"/">> ELSE Slashed(names)
           v == Normalize(u)
<1>1. "/" \in STRING
  BY ElementOfSeq, LenProperties DEF ProperUri, Path
<1>2. names \in Seq(Plain)
  BY NamesPlain DEF ProperUri
<1>3. v = [u EXCEPT !.path = q]
  BY DEF Normalize
<1> HIDE DEF names, v
<1>4. Names(q) = names
  <2>1. CASE names = <<>>
    BY <1>1, <2>1, NamesOfRoot
  <2>2. CASE names # <<>>
    BY <1>1, <1>2, <2>2, NamesOfSlashed
  <2>3. QED
    BY <2>1, <2>2
<1>5. v.path = q /\ v = [scope |-> u.scope, account |-> u.account, path |-> q]
  <2> HIDE DEF q
  <2>1. QED
    BY <1>3, WithPath
<1>6. Normalize(v) = [v EXCEPT !.path = q]
  <2>1. Normalize(v) = [v EXCEPT !.path = IF Names(v.path) = <<>> THEN <<"/">> ELSE Slashed(Names(v.path))]
    BY DEF Normalize
  <2>2. Names(v.path) = names
    BY <1>4, <1>5
  <2>3. QED
    BY <2>1, <2>2
<1> HIDE DEF q
<1>7. [v EXCEPT !.path = q] = v
  <2> DEFINE a == u.scope
             b == u.account
  <2>1. v = [scope |-> a, account |-> b, path |-> q]
    BY <1>5
  <2> HIDE DEF a, b
  <2>2. QED
    BY <2>1
<1>8. QED
  BY <1>6, <1>7 DEF v

\* What is parsed has an account that is a name, and a path.
LEMMA ParsedIsProper ==
  ASSUME NEW s \in Path, Parse(s) # InvalidUri
  PROVE  LET u == Parse(s)
         IN /\ ProperUri(u)
            /\ u.account \in Path /\ u.account # <<>> /\ \A j \in 1..Len(u.account) : u.account[j] # "/"
<1> DEFINE t == TrimBlanks(s)
           r == Tail(t)
           u == Parse(s)
<1>1. t # <<>> /\ Slashes(r) # {} /\ u = Split3(r) /\ Valid(u)
  BY DEF Parse
<1>2. t \in Path
  BY Trimmed
<1>3. r \in Path
  BY <1>1, <1>2, HeadTailProperties DEF Path
<1> HIDE DEF t, r
<1>4. PICK i \in 1..Len(r), k \in 1..Len(r) + 1 :
           /\ i < k /\ r[i] = "/"
           /\ \A j \in 1..k - 1 : r[j] = "/" => j = i
           /\ Split3(r) = [scope |-> SubSeq(r, 1, i - 1), account |-> SubSeq(r, i + 1, k - 1),
                           path |-> <<"/">> \o SubSeq(r, k + 1, Len(r))]
  BY <1>1, <1>3, Parts
<1> DEFINE x == SubSeq(r, 1, i - 1)
           y == SubSeq(r, i + 1, k - 1)
           z == SubSeq(r, k + 1, Len(r))
           l == <<"/">>
           p == l \o z
<1>5. u = [scope |-> x, account |-> y, path |-> p]
  BY <1>1, <1>4
<1>6. Len(r) \in Nat /\ i \in Nat /\ k \in Nat /\ 1 <= i /\ i < k /\ k <= Len(r) + 1
  BY <1>3, <1>4, LenProperties DEF Path
<1>7. y \in Path /\ Len(y) = (IF i + 1 <= k - 1 THEN k - 1 - (i + 1) + 1 ELSE 0)
      /\ \A j \in 1..k - 1 - (i + 1) + 1 : y[j] = r[i + 1 + j - 1]
  <2>1. i + 1 \in Nat /\ 1 <= i + 1 /\ k - 1 \in Nat /\ k - 1 <= Len(r)
    BY <1>6
  <2>2. QED
    BY <1>3, <2>1, PieceIs
<1>8. z \in Path
  BY <1>3, <1>6, PieceIs
<1>9. l \in Path /\ Len(l) = 1 /\ l[1] = "/"
  <2>1. r[i] \in STRING
    BY <1>3, <1>4, ElementOfSeq DEF Path
  <2>2. QED
    BY <1>4, <2>1, OneIsPath
<1> HIDE DEF u, x, y, z, l
<1>10. p \in Path /\ Len(p) >= 1 /\ p[1] = "/"
  <2>1. p \in Path /\ Len(p) = Len(l) + Len(z)
        /\ \A j \in 1..Len(l) + Len(z) : p[j] = IF j <= Len(l) THEN l[j] ELSE z[j - Len(l)]
    BY <1>8, <1>9, JoinedIs
  <2>2. Len(z) \in Nat
    BY <1>8, LenProperties DEF Path
  <2> HIDE DEF p
  <2>3. QED
    BY <1>9, <2>1, <2>2
<1> HIDE DEF p
<1>11. u.scope = x /\ u.account = y /\ u.path = p
  BY <1>5
<1>12. ProperUri(u)
  BY <1>5, <1>10, <1>11 DEF ProperUri
<1>13. ASSUME NEW j \in 1..Len(y) PROVE y[j] # "/"
  <2>1. j \in 1..k - 1 - (i + 1) + 1 /\ i + 1 + j - 1 \in 1..k - 1 /\ i + 1 + j - 1 # i
    BY <1>6, <1>7
  <2>2. QED
    BY <1>4, <1>7, <2>1
<1>14. y # <<>>
  BY <1>1, <1>11 DEF Valid, u
<1>15. QED
  BY <1>7, <1>11, <1>12, <1>13, <1>14 DEF u

\* (See Lawful.)
LEMMA LawsHold ==
  ASSUME NEW s \in Path, Parse(s) # InvalidUri
  PROVE  Lawful(Parse(s))
<1> DEFINE u == Parse(s)
<1>1. /\ ProperUri(u) /\ u.account \in Path /\ u.account # <<>>
      /\ \A j \in 1..Len(u.account) : u.account[j] # "/"
  BY ParsedIsProper
<1>2. ~Padded(u) => Parse(ToUriString(u)) = u
  BY PrintedIsParsed
<1> HIDE DEF u
<1>3. HasParent(u) => StartsWith(u, Parent(u)) /\ ~StartsWith(Parent(u), u)
  BY <1>1, BelowParent
<1>4. TrimEnd(Parent(Join(u, u.account)).path) = TrimEnd(u.path)
  BY <1>1, ParentOfJoined
<1>5. Normalize(Normalize(u)) = Normalize(u)
  BY <1>1, NormalIsNormal
<1>6. Lawful(u)
  BY <1>2, <1>3, <1>4, <1>5 DEF Lawful
<1>7. QED
  BY <1>6 DEF u

\* A URI that any command is given survives being printed and parsed again,
\* lies below its parent and not the other way round, is the parent of a name
\* joined to it, and has one normal form (viking_uri.rs 20-195).
THEOREM UrisStayLawful == Spec => []UrisLawful
<1>1. Inv => UrisLawful
  <2> SUFFICES ASSUME Inv, NEW p \in Proc, Running(p), "uri" \in DOMAIN Cmd(p), Parse(Cmd(p).uri) # InvalidUri
               PROVE  Lawful(Parse(Cmd(p).uri))
    BY DEF UrisLawful
  <2>1. Cmd(p) \in Command
    BY CommandsGiven DEF Inv, Shape, Shaped, Cmd
  <2>2. \A c \in Command : "uri" \in DOMAIN c => c.uri \in Path
    BY DEF Command, Path
  <2>3. QED
    BY <2>1, <2>2, LawsHold
<1>2. QED
  BY <1>1, Invariant, PTL
=============================================================================
