-------------------------------- MODULE Agfs --------------------------------
(***************************************************************************)
(* AGFS (agfs/mountable.rs, agfs/setup.rs): plugins mounted at paths, and   *)
(* callers whose operations are routed to one of them.                      *)
(*                                                                          *)
(* route takes the plugin with the longest key that is a string prefix of   *)
(* the path and gives up the lock on the mount table; the operation then    *)
(* runs on the plugin the caller holds, which may meanwhile have been       *)
(* unmounted or mounted over.  A rename is routed by its old path only.     *)
(*                                                                          *)
(* A plugin's own calls are single steps: the memory plugin's run under its  *)
(* lock, and of the local plugin's each is taken as one although it makes    *)
(* several system calls.                                                     *)
(***************************************************************************)
EXTENDS LocalFs, MemoryPlugin, PartialMaps

CONSTANTS
  Client,       \* concurrent callers
  Plugin,       \* the plugins there are
  IsLocal,      \* which of them are LocalFSPlugin, the others are MemoryPlugin
  Standard,     \* the mounts setup_agfs makes: mount path -> plugin
  MountPath,    \* paths something may be mounted at later
  Request,      \* the operations callers make
  MaxCalls,     \* bound on operations
  MaxMounts     \* bound on later mounts and unmounts

\* An absolute path below the root without an empty name.  AGFS does not ask
\* for one: of other paths the operating system drops the empty names, and the
\* memory plugin keeps them.
Clean(p) ==
  /\ p \in Seq(STRING) /\ Len(p) > 1 /\ p[1] = "/" /\ p[Len(p)] # "/"
  /\ \A i \in 2..Len(p) : p[i - 1] = "/" => p[i] # "/"

\* What callers ask for; the path of a mkdir may end in a slash.
Asked(r) ==
  /\ r.op \in {"create", "write", "append", "stream", "mkdir", "remove", "removeAll", "rename"}
  /\ r.path \in Seq(STRING) /\ Clean(Resolve(r.path))
  /\ r.op # "mkdir" => Clean(r.path)
  /\ r.op = "rename" => Clean(r.to)
  /\ r.op \in {"write", "append", "stream"} => r.text \in Seq(STRING)

ASSUME AgfsAssumption ==
  /\ IsLocal \in [Plugin -> BOOLEAN] /\ Dir \notin Seq(STRING)
  /\ \A r \in Request : Asked(r)
  /\ MountPath \subseteq Seq(STRING) /\ DOMAIN Standard \subseteq MountPath /\ Range(Standard) \subseteq Plugin
  /\ MaxCalls \in Nat /\ MaxMounts \in Nat

VARIABLES
  mounts,       \* the mount table: path -> plugin
  trees,        \* what each plugin holds
  held,         \* the operation a caller runs, the plugin it was routed to and,
                \* for the properties, after how many changes of mounts that was
  budget,       \* operations and changes of mounts made so far
  book,         \* history: the text each path was last reported to hold
  astray        \* history: paths that no promise is made about any more

vars == <<mounts, trees, held, budget, book, astray>>

Idle == [op |-> "none"]

Init ==
  /\ mounts = Standard
  /\ trees = [pl \in Plugin |-> IF IsLocal[pl] THEN <<>> ELSE NewMemory]
  /\ held = [c \in Client |-> Idle]
  /\ budget = [calls |-> 0, mounts |-> 0]
  /\ book = <<>>
  /\ astray = {}

(***************************************************************************)
(* Routing.                                                                 *)
(***************************************************************************)
Serving(ms, p) == {k \in DOMAIN ms : k # <<>> /\ IsPrefix(k, p)}

\* The plugin with the longest key, if there is one.
RouteIn(ms, p) ==
  {ms[k] : k \in {j \in Serving(ms, p) : \A i \in Serving(ms, p) : Len(i) <= Len(j)}}

\* Mutant: any mount that serves the path will do, here the shortest.
Route_Shortest(c) ==
  /\ held[c] = Idle
  /\ budget.calls < MaxCalls
  /\ \E r \in Request : \E k \in Serving(mounts, r.path) :
       /\ \A i \in Serving(mounts, r.path) : Len(k) <= Len(i)
       /\ held' = [held EXCEPT ![c] = [op |-> "held", request |-> r, plugin |-> mounts[k], seen |-> budget.mounts]]
  /\ budget' = [budget EXCEPT !.calls = @ + 1]
  /\ UNCHANGED <<mounts, trees, book, astray>>

\* Routing stops the operation when nothing serves its path.
Route(c) ==
  /\ held[c] = Idle
  /\ budget.calls < MaxCalls
  /\ \E r \in Request :
       held' = [held EXCEPT ![c] =
                  IF RouteIn(mounts, r.path) = {} THEN Idle
                  ELSE [op |-> "held", request |-> r,
                        plugin |-> CHOOSE pl \in RouteIn(mounts, r.path) : TRUE, seen |-> budget.mounts]]
  /\ budget' = [budget EXCEPT !.calls = @ + 1]
  /\ UNCHANGED <<mounts, trees, book, astray>>

LocalDo(fs, r) ==
  LET p == Resolve(r.path) IN
  CASE r.op = "create" -> FsCreate(fs, p)
    [] r.op = "write" -> FsWrite(fs, p, r.text)
    [] r.op = "append" -> FsAppend(fs, p, r.text)
    [] r.op = "stream" -> FsStream(fs, p, r.text, FALSE)
    [] r.op = "mkdir" -> FsMkdir(fs, p)
    [] r.op = "remove" -> FsRemove(fs, p)
    [] r.op = "removeAll" -> FsRemoveAll(fs, p)
    [] r.op = "rename" -> FsRename(fs, p, Resolve(r.to))

MemoryDo(fs, r) ==
  CASE r.op = "create" -> MemCreate(fs, r.path)
    [] r.op = "write" -> MemWrite(fs, r.path, r.text)
    [] r.op = "append" -> MemAppend(fs, r.path, r.text)
    [] r.op = "stream" -> MemStream(fs, r.path, r.text)
    [] r.op = "mkdir" -> MemMkdir(fs, r.path)
    [] r.op = "remove" -> MemRemove(fs, r.path)
    [] r.op = "removeAll" -> MemRemoveAll(fs, r.path)
    [] r.op = "rename" -> MemRename(fs, r.path, r.to)

Do(pl, fs, r) == IF IsLocal[pl] THEN LocalDo(fs, r) ELSE MemoryDo(fs, r)

ReadThrough(p) ==
  IF RouteIn(mounts, p) = {} THEN Missing
  ELSE LET pl == CHOOSE pl \in RouteIn(mounts, p) : TRUE
       IN IF IsLocal[pl] THEN FsRead(trees[pl], p, 0, 0) ELSE MemRead(trees[pl], p, 0, 0)

(***************************************************************************)
(* What a caller may count on, kept apart from the plugins: a text reported *)
(* written stays until a call replaces, moves or removes it.                *)
(***************************************************************************)
\* The paths a plugin keeps the text of: what is mounted below a path is not
\* part of it.
Kept(pl) == {p \in DOMAIN book : RouteIn(mounts, p) = {pl}}

Touched(pl, r) ==
  CASE r.op = "rename" -> {p \in Kept(pl) : Within(p, r.path) \/ Within(p, r.to)}
    [] r.op = "removeAll" -> {p \in Kept(pl) : Within(p, r.path)}
    [] OTHER -> {Resolve(r.path)}

Taken(pl, r) ==
  LET moved == {p \in Kept(pl) : Within(p, r.path)}
      name(p) == r.to \o SubSeq(p, Len(r.path) + 1, Len(p))
  IN [q \in {name(p) : p \in moved} |-> book[CHOOSE p \in moved : name(p) = q]]

Booked(pl, r) ==
  LET rest == Prune(book, Touched(pl, r)) IN
  CASE r.op = "create" -> Set(rest, {r.path}, <<>>)
    [] r.op \in {"write", "stream"} -> Set(rest, {r.path}, r.text)
    [] r.op = "append" ->
         Set(rest, {r.path}, IF r.path \in DOMAIN book THEN book[r.path] \o r.text ELSE r.text)
    [] r.op = "rename" -> Overlay(Taken(pl, r), rest)
    [] OTHER -> rest

\* A rename in the memory plugin leaves what is below its path where it was,
\* and a stream keeps nothing.
Stranded(pl, r) ==
  CASE r.op = "rename" -> {p \in DOMAIN trees[pl] : Below(p, r.path) \/ Below(p, r.to)}
                            \cup (DOMAIN Taken(pl, r) \ {r.to})
    [] r.op = "stream" -> {r.path}
    [] OTHER -> {}

Named(r) == IF r.op = "rename" THEN {r.path, r.to} ELSE {Resolve(r.path)}

\* What the call put under a path that its plugin does not serve, or no more.
Misplaced(pl, fs) == {p \in Files(fs) : RouteIn(mounts, p) # {pl}}

\* A path of the call is not, or no longer, served by the plugin it runs on,
\* or a rename takes along what no promise was made about.
Abroad(pl, r) ==
  \/ \E n \in Named(r) : RouteIn(mounts, n) # {pl}
  \/ r.op = "rename" /\ \E p \in astray : Within(p, r.path)

Scattered(pl, fs, r) ==
  Named(r) \cup {p \in Files(fs) \cup DOMAIN Booked(pl, r) \cup UNION {Files(trees[q]) : q \in Plugin} :
                  \E n \in Named(r) : Within(p, n)}

Perform(c) ==
  LET r == held[c].request
      pl == held[c].plugin
      result == Do(pl, trees[pl], r)
  IN
  /\ held[c] # Idle
  /\ trees' = [trees EXCEPT ![pl] = result.fs]
  /\ held' = [held EXCEPT ![c] = Idle]
  /\ book' = IF result.ok THEN Booked(pl, r) ELSE book
  /\ astray' = astray \cup Misplaced(pl, result.fs)
                \cup (IF Abroad(pl, r) THEN Scattered(pl, result.fs, r) ELSE {})
                \cup (IF IsLocal[pl] \/ ~result.ok THEN {} ELSE Stranded(pl, r))
  /\ UNCHANGED <<mounts, budget>>

(***************************************************************************)
(* The mount table changes under the callers.                               *)
(***************************************************************************)
Remount(ms) ==
  /\ budget.mounts < MaxMounts
  /\ mounts' = ms
  /\ budget' = [budget EXCEPT !.mounts = @ + 1]
  /\ astray' = astray \cup {p \in DOMAIN book \cup UNION {Files(trees[pl]) : pl \in Plugin} :
                              RouteIn(ms, p) # RouteIn(mounts, p)}
  /\ UNCHANGED <<trees, held, book>>

\* A second mount at a path takes its place; the priority is not looked at.
Mount == \E k \in MountPath, pl \in Plugin : Remount(Set(mounts, {k}, pl))

Unmount == \E k \in DOMAIN mounts : Remount(Prune(mounts, {k}))

Next ==
  \/ \E c \in Client : Route(c) \/ Perform(c)
  \/ Mount
  \/ Unmount

Spec == Init /\ [][Next]_vars

(***************************************************************************)
(* Properties.                                                              *)
(***************************************************************************)
\* Paths in the memory plugin begin with a slash and end in none, and in the
\* local plugin every entry lies in a directory, whatever was renamed, removed
\* or written at once with it (plugins/memory.rs 34-45, plugins/localfs.rs
\* 42-167).
TypeOK ==
  /\ DOMAIN mounts \subseteq MountPath /\ Range(mounts) \subseteq Plugin
  /\ \A c \in Client : held[c] # Idle => held[c].request \in Request /\ held[c].plugin \in Plugin
  /\ \A pl \in Plugin : ~IsLocal[pl] =>
       \A p \in DOMAIN trees[pl] : p[1] = "/" /\ (p # Root => Last(p) # "/")
  /\ \A pl \in Plugin : IsLocal[pl] =>
       \A p \in DOMAIN trees[pl] : \A q \in Parents(p) : IsDir(trees[pl], q)
  /\ budget.calls <= MaxCalls /\ budget.mounts <= MaxMounts

\* A text that a call reported written is what a read of its path returns,
\* whatever other callers did since, unless the path was mounted over, moved
\* to another mount, or lay below a path a memory plugin moved (mountable.rs
\* 60-87, plugins/memory.rs 61-241, plugins/localfs.rs 42-167).
Promised == \A p \in DOMAIN book \ astray : ReadThrough(p) = Got(book[p])

\* A rename onto a path that is served elsewhere, or has a mount below it.
Crosses(pl, r) ==
  r.op = "rename" /\ (RouteIn(mounts, r.to) # {pl} \/ \E k \in DOMAIN mounts : Below(k, r.to))

\* No call makes a file in a plugin in which no read would look for it, except
\* a rename at a target that its own mount does not serve, or not all of, and
\* a call under which the mounts changed after it was routed: a rename is
\* routed by its old path only and every call keeps the plugin it was given
\* (mountable.rs 59-87, vikingfs/mod.rs 346-352).
FilesReachable ==
  [][\A pl \in Plugin : \A p \in Files(trees'[pl]) \ Files(trees[pl]) :
       RouteIn(mounts, p) = {pl} \/
       \E c \in Client :
         /\ held[c] # Idle /\ held'[c] = Idle /\ held[c].plugin = pl
         /\ held[c].seen # budget.mounts \/ (Crosses(pl, held[c].request) /\ Within(p, held[c].request.to))]_vars

(***************************************************************************)
(* Requests on which the two plugins should do the same: the parents of     *)
(* what is written are there and no file and directory take each other's    *)
(* place.                                                                   *)
(***************************************************************************)
Fitting(fs, p) == ~IsDir(fs, p) /\ \A q \in Parents(p) : IsDir(fs, q)

Plain(fs, r) ==
  LET p == Resolve(r.path) IN
  CASE r.op \in {"create", "write", "append"} -> Fitting(fs, p)
    [] r.op = "stream" -> FALSE
    [] r.op = "mkdir" -> ~IsFile(fs, p) /\ \A q \in Parents(p) : IsDir(fs, q)
    [] r.op = "remove" -> Children(fs, p) = {}
    [] r.op = "removeAll" -> TRUE
    [] r.op = "rename" -> p \in DOMAIN fs => IsFile(fs, p) /\ Fitting(fs, r.to)

Same(fs, memory) == Prune(memory, {Root}) = fs

\* On any tree a local plugin has come to hold, a memory plugin that held the
\* same tree would do and answer the same for every plain request, and show
\* the same files: which of them a path is mounted on does not matter
\* (agfs/filesystem.rs 47-70, implemented by both).
PluginsAgree ==
  \A pl \in Plugin : IsLocal[pl] =>
    LET fs == trees[pl]
        memory == Overlay(fs, NewMemory)
    IN /\ \A r \in Request : Plain(fs, r) =>
            LET a == LocalDo(fs, r)
                b == MemoryDo(memory, r)
            IN a.ok = b.ok /\ Same(a.fs, b.fs)
       /\ \A p \in DOMAIN fs \cup {r.path : r \in Request} :
            /\ FsReadDir(fs, Resolve(p)) = MemReadDir(memory, p)
            /\ FsStat(fs, Resolve(p)) = MemStat(memory, p)
            /\ FsRead(fs, Resolve(p), 1, 1) = MemRead(memory, p, 1, 1)
            /\ IsFile(fs, p) => FsSize(fs, p) = MemSize(memory, p)
=============================================================================
