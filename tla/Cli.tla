--------------------------------- MODULE Cli ---------------------------------
(***************************************************************************)
(* The rustviking command line (main.rs, cli/): one process per command,     *)
(* several of them over one storage directory.                              *)
(*                                                                          *)
(* What processes share is on disk: the file tree, the key-value database   *)
(* and, under the rocksdb plugin, the vector database.  RocksDB lets one    *)
(* instance at a time open a directory, also within a process.  A memory    *)
(* vector store lives and dies with its process and starts empty, so it     *)
(* needs no state here.  A write, a removal or a move commits a batch of     *)
(* vectors and then writes their count (RocksStore has the steps within);   *)
(* --auto-summary and commit are in VikingSync and Aggregator.              *)
(***************************************************************************)
EXTENDS LocalFs, VikingUri

CONSTANTS
  Proc,         \* processes that can run at once
  None,
  Key, Value,
  Mounts,       \* the prefixes setup_agfs mounts local plugins at
  Setting,      \* configuration files
  Given,        \* the commands given under a configuration
  MaxRuns       \* how many of them, under each configuration

Stores == {"memory", "rocksdb", "qdrant"}

\* What can be asked on the command line.
Command ==
  [tool : {"fs"}, op : {"write", "cat", "rm", "stat", "mkdir", "ls"},
   uri : Seq(STRING), text : Seq(STRING), recursive : BOOLEAN]
    \cup [tool : {"viking"}, op : {"read", "abstract", "overview", "ls", "stat", "write", "mkdir", "rm"},
          uri : Seq(STRING), text : Seq(STRING), recursive : BOOLEAN]
    \cup [tool : {"viking"}, op : {"mv"}, uri : Seq(STRING), to : Seq(STRING)]
    \cup [tool : {"viking"}, op : {"find"}]
    \cup [tool : {"kv"}, op : {"get"}, key : Key] \cup [tool : {"kv"}, op : {"scan"}, limit : Nat]
    \cup [tool : {"kv"}, op : {"batch"}, writes : Seq([key : Key, value : Value \cup {None}])]
    \cup [tool : {"index"}, op : {"insert", "search", "delete", "info"}, fits : BOOLEAN]
    \cup [tool : {"server"}]

ASSUME CliAssumption ==
  /\ \A s \in Setting : s.store \in Stores /\ s.embed \in {"mock", "openai", "ollama"}
                        /\ s.section \in BOOLEAN /\ s.fits \in BOOLEAN
  /\ \A s \in Setting : MaxRuns[s] \in Nat /\ Given[s] \subseteq Command
  /\ Mounts \subseteq Seq(STRING) \ {<<>>}
  /\ None \notin Proc /\ Dir \notin Seq(STRING)

VARIABLES
  setting,      \* the configuration file; without one the defaults count
  fs,           \* the tree under storage.path
  kv, kvLock,   \* the key-value database and who has it open
  disk, dbLock, \* the vector database, each vector's URI under its id, and
                \* who has it open; cut once a command died before its count
  proc,
  runs,         \* commands started so far
  owed, torn    \* what completed kv commands left; keys of a command that died

vars == <<setting, fs, kv, kvLock, disk, dbLock, proc, runs, owed, torn>>

kvVars == <<kv, kvLock, owed, torn>>

dbVars == <<disk, dbLock>>

Gone == [pc |-> "gone"]

Init ==
  /\ setting \in Setting
  /\ fs = <<>>
  /\ kv = [k \in Key |-> None] /\ kvLock = None
  /\ disk = [made |-> FALSE, vectors |-> <<>>, count |-> 0, cut |-> FALSE] /\ dbLock = None
  /\ proc = [p \in Proc |-> Gone]
  /\ runs = 0
  /\ owed = kv /\ torn = {}

Running(p) == proc[p].pc # "gone"

At(p, pc) == proc[p].pc = pc

Cmd(p) == proc[p].cmd

Goto(p, pc) == proc' = [proc EXCEPT ![p].pc = pc]

\* The response is printed and the exit code set; the process then goes.
Answer(p, code, got) ==
  proc' = [proc EXCEPT ![p] = [pc |-> "exit", cmd |-> Cmd(p), code |-> code, got |-> got]]

Done(p) == Answer(p, 0, None)

UserError(p) == Answer(p, 1, None)

SystemError(p) == Answer(p, 2, None)

(***************************************************************************)
(* main and run: every command first creates the configured plugins, and    *)
(* keeps them until it exits.                                               *)
(***************************************************************************)
Start(p) ==
  /\ ~Running(p) /\ runs < MaxRuns[setting]
  /\ \E c \in Given[setting] : proc' = [proc EXCEPT ![p] = [pc |-> "registry", cmd |-> c]]
  /\ runs' = runs + 1
  /\ UNCHANGED <<setting, fs, kvVars, dbVars>>

OpensNext(p) == IF Cmd(p).tool \in {"kv", "viking"} THEN "open" ELSE "work"

\* The plugins main registers; the configuration may name others.
Registered == [stores |-> {"memory", "rocksdb"}, embedders |-> {"mock", "openai"}]

\* An instance that cannot open the database is replaced by a memory store.
CreatePlugins(p) ==
  /\ At(p, "registry")
  /\ IF setting.store \notin Registered.stores THEN UserError(p) /\ UNCHANGED dbLock
     ELSE /\ dbLock' = IF setting.store = "rocksdb" /\ dbLock = None THEN p ELSE dbLock
          /\ IF setting.embed \notin Registered.embedders THEN UserError(p) ELSE Goto(p, OpensNext(p))
  /\ UNCHANGED <<setting, fs, kvVars, disk, runs>>

\* Mutant: without the lock.
OpenKv_Shared(p) ==
  /\ At(p, "open") /\ Cmd(p).tool = "kv"
  /\ kvLock' = p /\ Goto(p, "work")
  /\ UNCHANGED <<setting, fs, kv, dbVars, runs, owed, torn>>

OpenKv(p) ==
  /\ At(p, "open") /\ Cmd(p).tool = "kv"
  /\ IF kvLock = None THEN kvLock' = p /\ Goto(p, "work")
                      ELSE SystemError(p) /\ UNCHANGED kvLock
  /\ UNCHANGED <<setting, fs, kv, dbVars, runs, owed, torn>>

(***************************************************************************)
(* VikingFS::from_config.                                                   *)
(***************************************************************************)
\* Mutant: opening waits for the lock.
OpenStore_Waits(p) ==
  /\ At(p, "open") /\ Cmd(p).tool = "viking"
  /\ setting.store = "rocksdb" => dbLock = None
  /\ dbLock' = IF setting.store = "rocksdb" THEN p ELSE dbLock
  /\ Goto(p, "collection")
  /\ UNCHANGED <<setting, fs, kvVars, disk, runs>>

OpenStore(p) ==
  /\ At(p, "open") /\ Cmd(p).tool = "viking"
  /\ IF setting.store = "rocksdb" /\ dbLock # None THEN SystemError(p) /\ UNCHANGED dbLock
     ELSE /\ dbLock' = IF setting.store = "rocksdb" THEN p ELSE dbLock
          /\ Goto(p, "collection")
  /\ UNCHANGED <<setting, fs, kvVars, disk, runs>>

Fresh == [disk EXCEPT !.made = TRUE, !.count = 0]

\* Mutant: a collection that is there is no error, and made again.
CreateCollection_Again(p) ==
  /\ At(p, "collection")
  /\ disk' = IF setting.store = "rocksdb" THEN Fresh ELSE disk
  /\ Goto(p, "embedder")
  /\ UNCHANGED <<setting, fs, kvVars, dbLock, runs>>

CreateCollection(p) ==
  /\ At(p, "collection")
  /\ IF setting.store # "rocksdb" THEN Goto(p, "embedder") /\ UNCHANGED disk
     ELSE IF disk.made THEN SystemError(p) /\ UNCHANGED disk
     ELSE Goto(p, "embedder") /\ disk' = Fresh
  /\ UNCHANGED <<setting, fs, kvVars, dbLock, runs>>

CreateEmbedder(p) ==
  /\ At(p, "embedder")
  /\ IF setting.embed = "openai" /\ ~setting.section THEN SystemError(p) ELSE Goto(p, "work")
  /\ UNCHANGED <<setting, fs, kvVars, dbVars, runs>>

(***************************************************************************)
(* Paths.                                                                   *)
(***************************************************************************)
\* The internal path of a URI; NoPath if it does not parse.
NoPath == <<>>

UriPath(string) == IF Parse(string) = InvalidUri THEN NoPath ELSE ToInternalPath(Parse(string))

\* fs also takes internal paths.
ResolvePath(string) ==
  IF string # <<>> /\ Head(string) = Scheme THEN UriPath(string) ELSE string

Mounted(path) == \E m \in Mounts : IsPrefix(m, path)

\* What a command is about: abstract and overview have files of their own.
PathOf(c) ==
  CASE c.tool = "fs" -> ResolvePath(c.uri)
    [] c.op = "abstract" /\ UriPath(c.uri) # NoPath -> Append(UriPath(c.uri), ".abstract.md")
    [] c.op = "overview" /\ UriPath(c.uri) # NoPath ->
         ToInternalPath(Join(Parse(c.uri), <<".overview.md">>))
    [] OTHER -> UriPath(c.uri)

TargetOf(c) == IF c.op = "mv" THEN UriPath(c.to) ELSE PathOf(c)

OnTree(c) == c.tool = "fs" \/ (c.tool = "viking" /\ c.op # "find")

Commands == UNION {Given[s] : s \in Setting}

\* The local plugins join the path to their base directory.
Resolved ==
  [c \in {x \in Commands : OnTree(x)} |-> [path |-> Resolve(PathOf(c)), to |-> Resolve(TargetOf(c))]]

\* A URI that does not parse or that nothing is mounted for is refused.
ResolveUris(p) ==
  LET path == Resolved[Cmd(p)].path to == Resolved[Cmd(p)].to IN
  /\ At(p, "work") /\ OnTree(Cmd(p))
  /\ IF Mounted(path) /\ to # NoPath
     THEN proc' = [proc EXCEPT ![p] = [pc |-> "tree", cmd |-> Cmd(p), path |-> path, to |-> to]]
     ELSE UserError(p)
  /\ UNCHANGED <<setting, fs, kvVars, dbVars, runs>>

(***************************************************************************)
(* fs_commands and the tree steps of viking_commands.                       *)
(***************************************************************************)
Change(c, path, to) ==
  CASE c.op = "write" -> FsWrite(fs, path, c.text)
    [] c.op = "mkdir" -> FsMkdir(fs, path)
    [] c.op = "rm" -> IF c.recursive THEN FsRemoveAll(fs, path) ELSE FsRemove(fs, path)
    [] c.op = "mv" -> FsRename(fs, path, to)

Look(c, path) ==
  CASE c.op = "cat" -> FsRead(fs, path, 0, 0)
    [] c.op = "ls" -> FsReadDir(fs, path)
    [] c.op = "stat" -> FsStat(fs, path)

AtTree(p, ops) == At(p, "tree") /\ Cmd(p).op \in ops

\* What is not there is the user's error, what the system refuses is not.
TreeError(p, path) == Answer(p, IF path \in DOMAIN fs THEN 2 ELSE 1, None)

LookAtTree(p) ==
  /\ AtTree(p, {"cat", "ls", "stat"})
  /\ LET r == Look(Cmd(p), proc[p].path)
     IN IF r.ok THEN Answer(p, 0, r.got) ELSE TreeError(p, proc[p].path)
  /\ UNCHANGED <<setting, fs, kvVars, dbVars, runs>>

\* VikingFS goes on to the vectors, except for mkdir.
ChangeTree(p) ==
  LET c == Cmd(p)
      r == Change(c, proc[p].path, proc[p].to)
  IN
  /\ AtTree(p, {"write", "mkdir", "rm", "mv"})
  /\ fs' = r.fs
  /\ IF ~r.ok THEN (IF c.op \in {"rm", "mv"} THEN TreeError(p, proc[p].path) ELSE SystemError(p))
     ELSE IF c.tool = "fs" \/ c.op = "mkdir" THEN Done(p)
     ELSE proc' = [proc EXCEPT ![p] = [pc |-> IF c.op = "write" THEN "embed" ELSE "vectors", cmd |-> c]]
  /\ UNCHANGED <<setting, kvVars, dbVars, runs>>

\* read, abstract and overview ask for the size first and read up to it.
AskSize(p) ==
  /\ AtTree(p, {"read", "abstract", "overview"})
  /\ LET r == FsSize(fs, proc[p].path)
     IN IF r.ok THEN proc' = [proc EXCEPT ![p] = [pc |-> "read", cmd |-> Cmd(p), path |-> proc[p].path, size |-> r.got]]
                ELSE UserError(p)
  /\ UNCHANGED <<setting, fs, kvVars, dbVars, runs>>

Read(p) ==
  /\ At(p, "read")
  /\ LET size == IF proc[p].size = Dir THEN 0 ELSE proc[p].size
         r == FsRead(fs, proc[p].path, 0, size)
     IN IF r.ok THEN Answer(p, 0, r.got) ELSE TreeError(p, proc[p].path)
  /\ UNCHANGED <<setting, fs, kvVars, dbVars, runs>>

(***************************************************************************)
(* store_commands: put and del are batches of one; every operation of a     *)
(* batch is a write of its own.                                             *)
(***************************************************************************)
Apply(map, w) == [map EXCEPT ![w.key] = w.value]

KeysOf(c) == {c.writes[i].key : i \in DOMAIN c.writes}

LastWrite(writes, k) == writes[Max({i \in DOMAIN writes : writes[i].key = k})].value

KvRead(p) ==
  /\ At(p, "work") /\ Cmd(p).tool = "kv" /\ Cmd(p).op = "get"
  /\ Answer(p, 0, kv[Cmd(p).key])
  /\ UNCHANGED <<setting, fs, kvVars, dbVars, runs>>

\* scan takes the first keys of the prefix, here of all keys.
KvScan(p) ==
  /\ At(p, "work") /\ Cmd(p).tool = "kv" /\ Cmd(p).op = "scan"
  /\ LET found == SetToSortSeq({k \in Key : kv[k] # None}, <)
     IN Answer(p, 0, SubSeq(found, 1, Min({Cmd(p).limit, Len(found)})))
  /\ UNCHANGED <<setting, fs, kvVars, dbVars, runs>>

KvBatch(p) ==
  /\ At(p, "work") /\ Cmd(p).tool = "kv" /\ Cmd(p).op = "batch"
  /\ proc' = [proc EXCEPT ![p] = [pc |-> "batch", cmd |-> Cmd(p), next |-> 1]]
  /\ UNCHANGED <<setting, fs, kvVars, dbVars, runs>>

KvWrite(p) ==
  /\ At(p, "batch") /\ proc[p].next <= Len(Cmd(p).writes)
  /\ kv' = Apply(kv, Cmd(p).writes[proc[p].next])
  /\ proc' = [proc EXCEPT ![p].next = @ + 1]
  /\ UNCHANGED <<setting, fs, kvLock, owed, torn, dbVars, runs>>

KvDone(p) ==
  /\ At(p, "batch") /\ proc[p].next > Len(Cmd(p).writes)
  /\ Done(p)
  /\ owed' = [k \in Key |-> IF k \in KeysOf(Cmd(p)) THEN LastWrite(Cmd(p).writes, k) ELSE owed[k]]
  /\ torn' = torn \ KeysOf(Cmd(p))
  /\ UNCHANGED <<setting, fs, kv, kvLock, dbVars, runs>>

(***************************************************************************)
(* index_commands run on an index made for this command: empty, with no     *)
(* centroids.  server and bench change nothing that is kept.                *)
(***************************************************************************)
RunIndex(p) ==
  LET c == Cmd(p) IN
  /\ At(p, "work") /\ c.tool = "index"
  /\ CASE c.op \in {"insert", "search"} /\ ~c.fits -> UserError(p)
       [] c.op = "delete" -> UserError(p)
       [] c.op = "info" -> Answer(p, 0, 0)
       [] OTHER -> Answer(p, 0, <<>>)
  /\ UNCHANGED <<setting, fs, kvVars, dbVars, runs>>

RunServer(p) ==
  /\ At(p, "work") /\ Cmd(p).tool = "server"
  /\ Done(p)
  /\ UNCHANGED <<setting, fs, kvVars, dbVars, runs>>

(***************************************************************************)
(* What viking_commands do to the vectors.                                  *)
(***************************************************************************)
Query(p) ==
  /\ At(p, "work") /\ Cmd(p).tool = "viking" /\ Cmd(p).op = "find"
  /\ Goto(p, "embed")
  /\ UNCHANGED <<setting, fs, kvVars, dbVars, runs>>

\* Only a remote provider fails.
Embed(p) ==
  /\ At(p, "embed")
  /\ Goto(p, "vectors") \/ (setting.embed = "openai" /\ SystemError(p))
  /\ UNCHANGED <<setting, fs, kvVars, dbVars, runs>>

Persistent == setting.store = "rocksdb"

Rebased(u, from, to) == IF IsPrefix(from, u) THEN to \o SubSeq(u, Len(from) + 1, Len(u)) ELSE u

\* The vectors once a command's batch is committed.  An id is made of the URI
\* first written, and a move onto a URI that has a vector keeps both.  (A removal
\* goes by the index of URIs, which names one of the two: RocksStore has it.)
Committed(c) ==
  CASE c.op = "write" -> Set(disk.vectors, {c.uri}, c.uri)
    [] c.op = "rm" -> Prune(disk.vectors, {id \in DOMAIN disk.vectors : IsPrefix(c.uri, disk.vectors[id])})
    [] c.op = "mv" -> [id \in DOMAIN disk.vectors |-> Rebased(disk.vectors[id], c.uri, c.to)]

\* The count then written, made from the one read before the batch.
CountAfter(vectors) ==
  LET n == disk.count + Cardinality(DOMAIN vectors) - Cardinality(DOMAIN disk.vectors)
  IN IF n >= 0 THEN n ELSE disk.count

\* A vector or query of the wrong dimension is refused.
Refused(c) == c.op \in {"write", "find"} /\ ~setting.fits

SearchVectors(p) ==
  /\ At(p, "vectors") /\ Cmd(p).op = "find"
  /\ IF Refused(Cmd(p)) THEN UserError(p) ELSE Answer(p, 0, IF Persistent THEN Range(disk.vectors) ELSE {})
  /\ UNCHANGED <<setting, fs, kvVars, dbVars, runs>>

\* The count is written after the batch, when it has changed.
ChangeVectors(p) ==
  LET c == Cmd(p)
      vectors == Committed(c)
      count == CountAfter(vectors)
  IN
  /\ At(p, "vectors") /\ c.op \in {"write", "rm", "mv"}
  /\ IF Refused(c) THEN UserError(p) /\ UNCHANGED disk
     ELSE IF ~Persistent THEN Done(p) /\ UNCHANGED disk
     ELSE /\ disk' = [disk EXCEPT !.vectors = vectors]
          /\ IF count = disk.count THEN Done(p)
             ELSE proc' = [proc EXCEPT ![p] = [pc |-> "count", cmd |-> c, count |-> count]]
  /\ UNCHANGED <<setting, fs, kvVars, dbLock, runs>>

WriteCount(p) ==
  /\ At(p, "count")
  /\ disk' = [disk EXCEPT !.count = proc[p].count]
  /\ Done(p)
  /\ UNCHANGED <<setting, fs, kvVars, dbLock, runs>>

(***************************************************************************)
(* A process ends, on its own or killed; its locks end with it.             *)
(***************************************************************************)
Released(lock, p) == IF lock = p THEN None ELSE lock

\* Mutant: the plugin's instance outlives the command.
Exit_Leaking(p) ==
  /\ At(p, "exit")
  /\ proc' = [proc EXCEPT ![p] = Gone]
  /\ kvLock' = Released(kvLock, p)
  /\ UNCHANGED <<setting, fs, kv, dbVars, runs, owed, torn>>

Exit(p) ==
  /\ At(p, "exit")
  /\ proc' = [proc EXCEPT ![p] = Gone]
  /\ kvLock' = Released(kvLock, p) /\ dbLock' = Released(dbLock, p)
  /\ UNCHANGED <<setting, fs, kv, disk, runs, owed, torn>>

Die(p) ==
  /\ Running(p) /\ ~At(p, "exit")
  /\ proc' = [proc EXCEPT ![p] = Gone]
  /\ kvLock' = Released(kvLock, p) /\ dbLock' = Released(dbLock, p)
  /\ torn' = IF At(p, "batch") THEN torn \cup KeysOf(Cmd(p)) ELSE torn
  /\ disk' = IF At(p, "count") THEN [disk EXCEPT !.cut = TRUE] ELSE disk
  /\ UNCHANGED <<setting, fs, kv, runs, owed>>

Proceed(p) ==
  \/ CreatePlugins(p) \/ OpenKv(p) \/ OpenStore(p) \/ CreateCollection(p) \/ CreateEmbedder(p)
  \/ ResolveUris(p) \/ LookAtTree(p) \/ ChangeTree(p) \/ AskSize(p) \/ Read(p) \/ KvRead(p) \/ KvScan(p) \/ KvBatch(p) \/ KvWrite(p) \/ KvDone(p)
  \/ RunIndex(p) \/ RunServer(p)
  \/ Query(p) \/ Embed(p) \/ SearchVectors(p) \/ ChangeVectors(p) \/ WriteCount(p) \/ Exit(p)

Next == \E p \in Proc : Start(p) \/ Proceed(p) \/ Die(p)

\* The system runs every process, and no step of a command waits for another.
Spec == Init /\ [][Next]_vars /\ \A p \in Proc : WF_vars(Proceed(p))

(***************************************************************************)
(* Properties.                                                              *)
(***************************************************************************)
StepsOf ==
  [fs |-> {"work", "tree"}, index |-> {"work"}, server |-> {"work"}, kv |-> {"open", "work", "batch"},
   viking |-> {"open", "collection", "embedder", "work", "tree", "read", "embed", "vectors", "count"}]

\* A lock is held by a running process, every process is at a step of its
\* command, and the vector database exists once something is in it.
TypeOK ==
  /\ setting \in Setting
  /\ \A f \in DOMAIN fs : \A q \in Parents(f) : IsDir(fs, q)
  /\ kv \in [Key -> Value \cup {None}] /\ owed \in [Key -> Value \cup {None}] /\ torn \subseteq Key
  /\ kvLock # None => Running(kvLock) /\ Cmd(kvLock).tool = "kv"
  /\ dbLock # None => Running(dbLock) /\ setting.store = "rocksdb"
  /\ \A p \in Proc : Running(p) =>
       proc[p].pc \in StepsOf[Cmd(p).tool] \cup {"registry", "exit"}
  /\ DOMAIN disk.vectors # {} => disk.made

\* What kv commands that completed left is there, whatever other processes did
\* meanwhile, unless one died over the same keys: the operations of a batch are
\* single writes, and only the database's lock keeps two batches apart
\* (store_commands.rs 93-154, main.rs 116).
KvKept ==
  \A k \in Key \ torn :
    (\A p \in Proc : At(p, "batch") => k \notin KeysOf(Cmd(p))) => kv[k] = owed[k]

\* The collection's count is that of its vectors, except while a command is
\* between its batch and its count, and for good once one died there: no later
\* start makes the collection anew over vectors that are there, and no two
\* commands count at once (vikingfs/mod.rs 146-158, vector_store/rocks.rs
\* 276-314, 361-373, 558-575).
CountMatches ==
  disk.count = Cardinality(DOMAIN disk.vectors) \/ disk.cut \/ \E p \in Proc : At(p, "count")

\* Every command exits: no process waits for a lock that another process, or
\* it itself, holds (main.rs 67-86, vikingfs/mod.rs 153).
Exits == \A p \in Proc : Running(p) ~> ~Running(p)

\* The slash that ends a URI without a path is not printed; parsing trims what
\* was before it.
Padded(u) == u.path = <<"/">> /\ Last(u.account) = Blank

\* A URI survives being printed and parsed again, lies below its parent and
\* not the other way round, is the parent of a name joined to it (its account
\* stands for any name), and its normal form is normal (viking_uri.rs 20-195).
Lawful(u) ==
  /\ ~Padded(u) => Parse(ToUriString(u)) = u
  /\ HasParent(u) => StartsWith(u, Parent(u)) /\ ~StartsWith(Parent(u), u)
  /\ TrimEnd(Parent(Join(u, u.account)).path) = TrimEnd(u.path)
  /\ Normalize(Normalize(u)) = Normalize(u)

UrisLawful ==
  \A p \in Proc : Running(p) /\ "uri" \in DOMAIN Cmd(p) =>
    LET u == Parse(Cmd(p).uri) IN u # InvalidUri => Lawful(u)

\* The first command of all, with no process beside it, makes its directory
\* ("Basic Usage", README.md 63-66).
ServedAlone ==
  \A p \in Proc :
    (At(p, "exit") /\ runs = 1 /\ Cmd(p).tool = "viking" /\ Cmd(p).op = "mkdir") => proc[p].code = 0
=============================================================================
