----------------------------- MODULE Aggregator -----------------------------
(***************************************************************************)
(* DirectorySummaryAggregator (vikingfs/aggregator.rs) as VikingFS::commit  *)
(* runs it, beside clients that write and remove files of the directory.    *)
(*                                                                          *)
(* A commit lists the directory once; of every file it asks the size, reads *)
(* so many bytes, and writes the abstract, and at last an overview of the   *)
(* abstracts it made.  Each of these is a call of its own on the file       *)
(* system, with no lock over them.                                           *)
(***************************************************************************)
EXTENDS LocalFs, HeuristicSummary

CONSTANTS
  Committer,    \* concurrent commits of the directory
  Folder,       \* the directory
  Name,         \* the names of the files clients write in it
  ContentsOf,   \* what they write in each
  MaxSize,      \* larger files are left out: 10 MB
  MaxChanges,   \* bound on the clients' calls
  MaxCommits    \* bound on commits

ASSUME AggregatorAssumption ==
  /\ MaxSize \in Nat /\ MaxChanges \in Nat /\ MaxCommits \in Nat
  /\ Dir \notin UNION {ContentsOf[n] : n \in Name}

VARIABLES
  fs,           \* the tree
  commit,       \* what each committer is doing
  budget,       \* changes and commits made so far
  dirty,        \* history: the names changed under each commit
  since         \* history: what the last commits need not have caught up with

vars == <<fs, commit, budget, dirty, since>>

Resting == [pc |-> "idle", todo |-> {}, name |-> <<>>, size |-> 0, text |-> <<>>, gathered |-> <<>>]

\* Not a file's name: stands for the overview in since.
OverviewName == <<".overview.md">>

Init ==
  /\ fs = Set(<<>>, Parents(Folder) \cup {Folder}, Dir)
  /\ commit = [c \in Committer |-> Resting]
  /\ budget = [changes |-> 0, commits |-> 0]
  /\ dirty = [c \in Committer |-> {}]
  /\ since = Name \cup {OverviewName}

FilePath(name) == Append(Folder, "/") \o name
AbstractPath(name) == Append(FilePath(name), ".abstract.md")
OverviewPath == FilePath(OverviewName)

IsSummary(name) == Last(name) \in {".abstract.md", ".overview.md"}

AbstractFile(name, text) == <<"# Abstract: ">> \o name \o text
OverviewFile(text, n) == <<"# Directory Overview">> \o text \o <<"- File ", ToString(n)>>

\* Mutant: the files of earlier commits are summarised as well.
Entries_All(tree) == {e.name : e \in {x \in Listing(tree, Folder) : ~x.isDir}}

Entries(tree) == {e.name : e \in {x \in Listing(tree, Folder) : ~x.isDir /\ ~IsSummary(x.name)}}

\* What a read of a client's text can return, with the abstract of each.
Readable == UNION {{SubSeq(t, 1, n) : n \in 0..Len(t)} : t \in UNION {ContentsOf[n] : n \in Name}}
AbstractTable == [t \in Readable |-> GenerateAbstract(t)]

AbstractOf(t) == IF t \in Readable THEN AbstractTable[t] ELSE GenerateAbstract(t)

At(c, pc) == commit[c].pc = pc

Busy(c) == ~At(c, "idle")

(***************************************************************************)
(* Clients.                                                                 *)
(***************************************************************************)
Change(result, names) ==
  /\ budget.changes < MaxChanges
  /\ fs' = result.fs
  /\ budget' = [budget EXCEPT !.changes = @ + 1]
  /\ dirty' = [c \in Committer |-> dirty[c] \cup names]
  /\ since' = since \cup names \cup {OverviewName}
  /\ UNCHANGED commit

Write == \E n \in Name : \E t \in ContentsOf[n] : Change(FsWrite(fs, FilePath(n), t), {n})

RemoveFile == \E n \in Name : Change(FsRemove(fs, FilePath(n)), {n})

\* VikingFS::rm with recursive: the directory goes.
RemoveFolder == Change(FsRemoveAll(fs, Folder), Name)

(***************************************************************************)
(* Commits.                                                                 *)
(***************************************************************************)
Goto(c, r) == commit' = [commit EXCEPT ![c] = r]

\* Without the directory the commit returns at once, and reports no error.
Begin(c) ==
  /\ ~Busy(c)
  /\ budget.commits < MaxCommits
  /\ budget' = [budget EXCEPT !.commits = @ + 1]
  /\ IF IsDir(fs, Folder) THEN Goto(c, [Resting EXCEPT !.pc = "next", !.todo = Entries(fs)])
                          ELSE UNCHANGED commit
  /\ dirty' = [dirty EXCEPT ![c] = {}]
  /\ UNCHANGED <<fs, since>>

\* Mutant: a file that cannot be read is tried again.
Skip_Retry(c) ==
  Goto(c, [Resting EXCEPT !.pc = "next", !.gathered = commit[c].gathered,
                          !.todo = commit[c].todo \cup {commit[c].name}])

\* What became of the file is noted and the commit goes on.
GoOn(c, gathered) ==
  Goto(c, [Resting EXCEPT !.pc = "next", !.todo = commit[c].todo, !.gathered = gathered])

Skip(c) == GoOn(c, commit[c].gathered)

Pick(c) ==
  /\ At(c, "next")
  /\ \E n \in commit[c].todo :
       Goto(c, [commit[c] EXCEPT !.pc = "size", !.name = n, !.todo = @ \ {n}])
  /\ UNCHANGED <<fs, budget, dirty, since>>

AskSize(c) ==
  LET size == FsSize(fs, FilePath(commit[c].name)) IN
  /\ At(c, "size")
  /\ IF size.ok /\ size.got # Dir /\ size.got <= MaxSize
       THEN Goto(c, [commit[c] EXCEPT !.pc = "read", !.size = size.got])
       ELSE Skip(c)
  /\ UNCHANGED <<fs, budget, dirty, since>>

\* from_utf8: no byte that no text has, and no character cut short.
IsUtf8(t) == "bin" \notin Range(t) /\ (t = <<>> \/ Last(t) \notin {"w1", "w2", "p1", "p2"})

Panics(c) == Goto(c, Resting)

Read(c) ==
  LET data == FsRead(fs, FilePath(commit[c].name), 0, commit[c].size) IN
  /\ At(c, "read")
  /\ IF ~data.ok THEN Skip(c)
     ELSE IF ~IsUtf8(data.got) \/ Trim(data.got) = <<>> THEN Skip(c)
     ELSE IF AbstractOf(data.got) = Panic THEN Panics(c)
     ELSE Goto(c, [commit[c] EXCEPT !.pc = "write", !.text = AbstractOf(data.got)])
  /\ UNCHANGED <<fs, budget, dirty, since>>

\* Mutant: the abstracts of all files have one name.
WriteAbstract_OneName(c) ==
  LET n == commit[c].name
      result == FsWrite(fs, FilePath(<<".abstract.md">>), AbstractFile(n, commit[c].text))
  IN
  /\ At(c, "write")
  /\ fs' = result.fs
  /\ GoOn(c, Append(commit[c].gathered, commit[c].text))
  /\ UNCHANGED <<budget, dirty, since>>

\* An abstract of a text that has changed since takes the place of any newer.
WriteAbstract(c) ==
  LET n == commit[c].name
      result == FsWrite(fs, AbstractPath(n), AbstractFile(n, commit[c].text))
  IN
  /\ At(c, "write")
  /\ fs' = result.fs
  /\ IF result.ok THEN GoOn(c, Append(commit[c].gathered, commit[c].text)) ELSE Skip(c)
  /\ dirty' = [o \in Committer |-> IF n \in dirty[c] THEN dirty[o] \cup {n} ELSE dirty[o]]
  /\ since' = IF n \in dirty[c] THEN since \cup {n} ELSE since
  /\ UNCHANGED budget

\* A commit under which nothing changed has caught up with everything.
CaughtUp(c) == IF dirty[c] = {} THEN {} ELSE (since \cap dirty[c]) \cup {OverviewName}

\* Mutant: the overview leaves out the last abstract.
Finish_ButLast(c) ==
  LET made == commit[c].gathered
      overview == GenerateOverview(IF Len(made) > 1 THEN Front(made) ELSE made)
  IN
  /\ At(c, "next") /\ commit[c].todo = {}
  /\ IF made = <<>> THEN fs' = fs ELSE fs' = FsWrite(fs, OverviewPath, OverviewFile(overview, Len(made))).fs
  /\ since' = CaughtUp(c)
  /\ Goto(c, Resting)
  /\ UNCHANGED <<budget, dirty>>

\* An overview only if there are abstracts; that it cannot be written is only noted.
Finish(c) ==
  LET made == commit[c].gathered
      overview == GenerateOverview(made)
      panics == made # <<>> /\ overview = Panic
  IN
  /\ At(c, "next") /\ commit[c].todo = {}
  /\ fs' = IF made = <<>> \/ panics THEN fs
           ELSE FsWrite(fs, OverviewPath, OverviewFile(overview, Len(made))).fs
  /\ since' = IF panics THEN since ELSE CaughtUp(c)
  /\ Goto(c, Resting)
  /\ UNCHANGED <<budget, dirty>>

\* The process that commits is killed.
Die(c) ==
  /\ Busy(c)
  /\ Goto(c, Resting)
  /\ UNCHANGED <<fs, budget, dirty, since>>

Proceed(c) == Pick(c) \/ AskSize(c) \/ Read(c) \/ WriteAbstract(c) \/ Finish(c)

Next ==
  \/ Write \/ RemoveFile \/ RemoveFolder
  \/ \E c \in Committer : Begin(c) \/ Proceed(c) \/ Die(c)

\* A task that can run does run; clients need not call.
Spec == Init /\ [][Next]_vars /\ \A c \in Committer : WF_vars(Proceed(c))

(***************************************************************************)
(* Properties.                                                              *)
(***************************************************************************)
\* Nothing larger than the limit is read, and however often a directory is
\* committed, no summary is made of a summary (aggregator.rs 106-108, 154-158).
TypeOK ==
  /\ \A p \in DOMAIN fs : \A q \in Parents(p) : IsDir(fs, q)
  /\ \A p \in Files(fs) :
       IsSummary(BaseName(p)) => p = OverviewPath \/ p \in {AbstractPath(n) : n \in Name}
  /\ \A c \in Committer :
       /\ commit[c].pc \in {"idle", "next", "size", "read", "write"}
       /\ commit[c].size <= MaxSize /\ commit[c].name \notin commit[c].todo
       /\ Panic \notin {commit[c].text} \cup Range(commit[c].gathered)
  /\ budget.changes <= MaxChanges /\ budget.commits <= MaxCommits

Summarised(n) ==
  LET t == fs[FilePath(n)] IN
  IsFile(fs, FilePath(n)) /\ IsUtf8(t) /\ Trim(t) # <<>> /\ Len(t) <= MaxSize

\* read_abstract and read_overview (vikingfs/mod.rs 392-429).
ReadAbstract(n) == FsRead(fs, AbstractPath(n), 0, 0)
ReadOverview == FsRead(fs, OverviewPath, 0, 0)

\* Once a commit has returned, the abstract of every text in the directory is
\* that of what the file holds, although other commits ran beside it and
\* others were killed, until the file is changed or a commit that began
\* before the change writes what it had read (aggregator.rs 82-199).
AbstractsFresh ==
  \A n \in Name \ since :
    Summarised(n) =>
      ReadAbstract(n) = Got(AbstractFile(n, AbstractOf(fs[FilePath(n)])))

\* After a commit under which nothing changed the overview tells of every text
\* in the directory, each once and no other (aggregator.rs 126-136, 202-232).
OverviewComplete ==
  LET texts == {n \in Name : Summarised(n)}
      Told(order) == GenerateOverview([i \in DOMAIN order |-> AbstractOf(fs[FilePath(order[i])])])
  IN (OverviewName \notin since /\ texts # {}) =>
       \E order \in SetToSeqs(texts) :
         ReadOverview = Got(OverviewFile(Told(order), Cardinality(texts)))

\* A commit that is not killed comes to an end, whatever is changed, removed
\* or unreadable under it (aggregator.rs 100-124: errors are noted, and the
\* next file is taken).
Returns == \A c \in Committer : Busy(c) ~> ~Busy(c)
=============================================================================
