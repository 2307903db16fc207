----------------------------- MODULE VikingSync -----------------------------
(***************************************************************************)
(* VikingFS (vikingfs/mod.rs): file operations on AGFS, each followed by    *)
(* the VectorSyncManager call that keeps the vector store up to date.       *)
(*                                                                          *)
(* VikingFS holds no lock over the two: the file operation is synchronous,  *)
(* the embedding is awaited (and may fail) and the store is written last,   *)
(* so calls of different clients interleave between those steps.  AGFS is   *)
(* LocalFs, the store MemoryStore; both are used through what they do to    *)
(* the tree and to the points.                                              *)
(*                                                                          *)
(* Covered: write, write_context, rm, mv, mkdir, failed embeddings and      *)
(* summaries, and the death of the process, which takes the memory store    *)
(* with it and leaves the files.  Not covered: reads, search and commit     *)
(* (the aggregator writes files only).                                      *)
(***************************************************************************)
EXTENDS SyncManager, LocalFs

CONSTANTS
  Client,       \* concurrent callers of one VikingFS
  Text,         \* file contents
  Embed,        \* the embedding of a text, of the collection's dimension
  Summary,      \* the abstract generated for a text
  CallsOf,      \* the calls each client may make
  MaxCalls,     \* bound on the number of calls in a behaviour
  MayFail       \* whether embedding and summary providers can fail

ApiCall ==
  [op : {"write", "writeContext"}, uri : UriString, text : Text]
    \cup [op : {"rm"}, uri : UriString, recursive : BOOLEAN]
    \cup [op : {"mv"}, from : UriString, to : UriString]
    \cup [op : {"mkdir"}, uri : UriString]

ASSUME SyncFsAssumption ==
  /\ Embed \in [Text -> Fits] /\ Summary \in [Text -> Text]
  /\ CallsOf \in [Client -> SUBSET ApiCall]
  /\ MaxCalls \in Nat /\ MayFail \in BOOLEAN
  /\ Dir \notin Text

VARIABLES
  fs,           \* the tree behind AGFS
  points,       \* the points of the collection
  client,       \* what each client is doing
  made,         \* number of calls made so far
  lapsed        \* history: URIs whose vectors were moved, removed, lost or not made

vars == <<fs, points, client, made, lapsed>>

\* from_config creates the collection before it returns.
Store == INSTANCE MemoryStore WITH exists <- TRUE

NoCall == [op |-> "none"]

Resting == [pc |-> "idle", call |-> NoCall, stage |-> "main"]

Init ==
  /\ fs = <<>>
  /\ points = <<>>
  /\ client = [c \in Client |-> Resting]
  /\ made = 0
  /\ lapsed = {}

(***************************************************************************)
(* URIs.  The first element of a URI stands for "viking:/", so a URI is     *)
(* that element followed by the internal path, whose first segment stands   *)
(* for scope and account together.                                          *)
(***************************************************************************)
InternalPath(u) == Tail(u)

ParentUri(u) ==
  LET slash == Max({j \in DOMAIN u : u[j] = "/"})
  IN IF slash = 2 THEN NoUri ELSE SubSeq(u, 1, slash - 1)

AbstractUri(u) == Append(u, ".abstract.md")

(***************************************************************************)
(* Where a client is.  write_context writes the file ("main"), then its     *)
(* abstract ("abstract"), then upserts the abstract again ("again").        *)
(***************************************************************************)
Busy(c) == client[c].pc # "idle"

At(c, pc) == client[c].pc = pc

Goto(c, pc) == client' = [client EXCEPT ![c].pc = pc]

Enter(c, pc, stage) == client' = [client EXCEPT ![c].pc = pc, ![c].stage = stage]

Return(c) == client' = [client EXCEPT ![c] = Resting]

TargetUri(c) ==
  IF client[c].stage = "main" THEN client[c].call.uri ELSE AbstractUri(client[c].call.uri)

Payload(c) ==
  IF client[c].stage = "main" THEN client[c].call.text ELSE Summary[client[c].call.text]

\* The error of a write ends the call; one of the abstract is only logged.
Fail(c) ==
  IF client[c].stage = "abstract" THEN Enter(c, "embed", "again") ELSE Return(c)

FirstPc ==
  [write |-> "file", writeContext |-> "file", rm |-> "remove", mv |-> "rename", mkdir |-> "mkdir"]

Call(c) ==
  /\ ~Busy(c)
  /\ made < MaxCalls
  /\ \E r \in CallsOf[c] :
       client' = [client EXCEPT ![c] = [Resting EXCEPT !.pc = FirstPc[r.op], !.call = r]]
  /\ made' = made + 1
  /\ UNCHANGED <<fs, points, lapsed>>

(***************************************************************************)
(* write and write_context.                                                 *)
(***************************************************************************)
WriteFile(c) ==
  LET result == FsWrite(fs, InternalPath(TargetUri(c)), Payload(c)) IN
  /\ At(c, "file")
  /\ fs' = result.fs
  /\ IF result.ok THEN Goto(c, "embed") ELSE Fail(c)
  /\ UNCHANGED <<points, made, lapsed>>

EmbedFails(c) ==
  /\ At(c, "embed")
  /\ MayFail
  /\ Fail(c)
  /\ lapsed' = lapsed \cup {TargetUri(c)}
  /\ UNCHANGED <<fs, points, made>>

Parent(c) ==
  IF client[c].stage = "again" THEN client[c].call.uri ELSE ParentUri(TargetUri(c))

\* A vector stored anew makes up for the past, unless others carry its URI.
Restored(u) == lapsed' = IF \E i \in DOMAIN points' : points'[i].uri = u /\ i # IdOf[u] THEN lapsed ELSE lapsed \ {u}

\* The embedding arrives and is stored, however much happened meanwhile.
UpsertVector(c) ==
  /\ At(c, "embed")
  /\ Store!InsertPoints(OnFileCreated(TargetUri(c), Parent(c), Embed[Payload(c)]))
  /\ CASE client[c].stage = "main" /\ client[c].call.op = "writeContext" -> Goto(c, "summary")
       [] client[c].stage = "abstract" -> Enter(c, "embed", "again")
       [] OTHER -> Return(c)
  /\ Restored(TargetUri(c))
  /\ UNCHANGED <<fs, made>>

Summarise(c) ==
  /\ At(c, "summary")
  /\ Enter(c, "file", "abstract")
  /\ UNCHANGED <<fs, points, made, lapsed>>

SummaryFails(c) ==
  /\ At(c, "summary")
  /\ MayFail
  /\ Return(c)
  /\ UNCHANGED <<fs, points, made, lapsed>>

(***************************************************************************)
(* rm, mv and mkdir.                                                        *)
(***************************************************************************)
RemoveFile(c) ==
  LET call == client[c].call
      path == InternalPath(call.uri)
      result == IF call.recursive THEN FsRemoveAll(fs, path) ELSE FsRemove(fs, path)
  IN
  /\ At(c, "remove")
  /\ fs' = result.fs
  /\ IF result.ok THEN Goto(c, "unvector") ELSE Return(c)
  /\ UNCHANGED <<points, made, lapsed>>

DeleteVectors(c) ==
  /\ At(c, "unvector")
  /\ Store!DeleteUnder(OnFileDeleted(client[c].call.uri))
  /\ Return(c)
  /\ lapsed' = lapsed \cup {u \in Uri : IsPrefix(client[c].call.uri, u)}
  /\ UNCHANGED <<fs, made>>

RenameFile(c) ==
  LET call == client[c].call
      result == FsRename(fs, InternalPath(call.from), InternalPath(call.to))
  IN
  /\ At(c, "rename")
  /\ fs' = result.fs
  /\ IF result.ok THEN Goto(c, "revector") ELSE Return(c)
  /\ lapsed' = IF result.ok THEN lapsed \cup {u \in Uri : IsPrefix(call.from, u) \/ IsPrefix(call.to, u)} ELSE lapsed
  /\ UNCHANGED <<points, made>>

MoveVectors(c) ==
  /\ At(c, "revector")
  /\ Store!MoveUnder(OnFileMoved(client[c].call.from, client[c].call.to))
  /\ Return(c)
  /\ UNCHANGED <<fs, made, lapsed>>

MakeDir(c) ==
  /\ At(c, "mkdir")
  /\ fs' = FsMkdir(fs, InternalPath(client[c].call.uri)).fs
  /\ Return(c)
  /\ UNCHANGED <<points, made, lapsed>>

\* The process dies: from_config starts again with an empty memory store.
Crash ==
  /\ \E c \in Client : Busy(c)
  /\ client' = [c \in Client |-> Resting]
  /\ points' = <<>>
  /\ lapsed' = Uri
  /\ UNCHANGED <<fs, made>>

Step(c) ==
  \/ Call(c)
  \/ WriteFile(c) \/ EmbedFails(c) \/ UpsertVector(c)
  \/ Summarise(c) \/ SummaryFails(c)
  \/ RemoveFile(c) \/ DeleteVectors(c) \/ RenameFile(c) \/ MoveVectors(c)
  \/ MakeDir(c)

Serve == \E c \in Client : Step(c)

Next == Serve \/ Crash

SteadySpec == Init /\ [][Serve]_vars

Spec == Init /\ [][Next]_vars

(***************************************************************************)
(* The type invariant.                                                      *)
(***************************************************************************)
StagesOf ==
  [none |-> {"idle"}, write |-> {"file", "embed"}, rm |-> {"remove", "unvector"},
   mv |-> {"rename", "revector"}, mkdir |-> {"mkdir"},
   writeContext |-> {"file", "embed", "summary"}]

\* Every file is reached through directories, vectors are well formed and each
\* client is at a step of the call it made.
TypesFit ==
  /\ \A p \in DOMAIN fs : /\ fs[p] \in Text \cup {Dir}
                         /\ \A q \in Parents(p) : IsDir(fs, q)
  /\ MapsTo(points, Id, Point)
  /\ \A c \in Client :
       /\ client[c].call \in CallsOf[c] \cup {NoCall}
       /\ client[c].pc \in StagesOf[client[c].call.op]
       /\ client[c].stage = "main" \/ client[c].call.op = "writeContext"
  /\ made \in 0..MaxCalls /\ lapsed \subseteq Uri

(***************************************************************************)
(* "When files are created, updated, deleted, or moved in AGFS, the         *)
(* corresponding vector embeddings are automatically managed" (sync.rs      *)
(* 4-5): what that promises of a URI no call under way can still change.    *)
(***************************************************************************)
Named(call) ==
  CASE call.op = "none" -> {}
    [] call.op = "mv" -> {call.from, call.to}
    [] OTHER -> {call.uri}

Settled(u) == \A c \in Client : \A n \in Named(client[c].call) : ~IsPrefix(n, u)

FileUris == {<<"viking:/">> \o p : p \in Files(fs)}

VectorsOf(u) == {i \in DOMAIN points : points[i].uri = u}

\* No vector outlives its file: a settled vector's URI names a file (mod.rs
\* 317-360: the file goes first, the vector after it).
NoOrphans == TypesFit /\ \A i \in DOMAIN points : Settled(points[i].uri) => points[i].uri \in FileUris

\* Every settled file can be found: some vector carries its URI, unless since
\* it was last written its embedding failed, the process died, or a string prefix
\* of it was moved or removed (mod.rs 278-296, sync.rs 60-103).
FilesIndexed == \A u \in FileUris \ lapsed : Settled(u) => VectorsOf(u) # {}

\* The same without exceptions: the vectors of files created, updated, deleted or
\* moved are "automatically managed" (sync.rs 3-5).
FilesFound == \A u \in FileUris : Settled(u) => VectorsOf(u) # {}

\* A settled file's vectors are embeddings of what the file holds now, not of
\* an earlier or an overwritten version of it (with the same exceptions).
VectorsFresh ==
  \A u \in FileUris \ lapsed : Settled(u) =>
    \A i \in VectorsOf(u) : points[i].vec = Embed[fs[InternalPath(u)]]

(***************************************************************************)
(* The calls for which that can be promised: the stores match URIs as       *)
(* strings (sync.rs 110-127) and nothing orders the calls of different      *)
(* clients, so their URIs have to be apart.                                 *)
(***************************************************************************)
Abstract == ".abstract.md"

Schemed(u) == u \in Seq(STRING) /\ Len(u) >= 2 /\ u[1] = "viking:/" /\ u[2] = "/"

\* Calls of different clients are about different URIs: no name of one is a
\* prefix of a name of the other.
Owned ==
  \A c, k \in Client : c # k =>
    \A r \in CallsOf[c], s \in CallsOf[k] : \A m \in Named(r), n \in Named(s) : ~IsPrefix(m, n)

\* Names are URIs of the scheme, those written to among the ones with an id.
NamesKnown ==
  \A c \in Client : \A r \in CallsOf[c] :
    /\ \A n \in Named(r) : Schemed(n)
    /\ r.op \in {"write", "writeContext"} => r.uri \in Uri
    /\ r.op = "writeContext" => AbstractUri(r.uri) \in Uri

\* A move is of whole path segments, to URIs with an id.
MovesWhole ==
  \A c \in Client : \A r \in CallsOf[c] : r.op = "mv" =>
    \A u \in Uri : IsPrefix(r.from, u) =>
      /\ u = r.from \/ u[Len(r.from) + 1] = "/"
      /\ r.to \o SubSeq(u, Len(r.from) + 1, Len(u)) \in Uri

\* No call makes a directory with the name of an abstract.
FileName(u) == \A j \in 1..Len(u) - 1 : u[j] = Abstract => u[j + 1] # "/"
DirName(u) == FileName(u) /\ u[Len(u)] # Abstract

AbstractsAreFiles ==
  \A c \in Client : \A r \in CallsOf[c] :
    /\ r.op \in {"write", "writeContext"} => FileName(r.uri)
    /\ r.op = "mkdir" => DirName(r.uri)
    /\ r.op = "mv" => DirName(r.to)

Ownership == Owned /\ NamesKnown /\ MovesWhole /\ AbstractsAreFiles
=============================================================================
