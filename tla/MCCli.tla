-------------------------------- MODULE MCCli --------------------------------
(***************************************************************************)
(* Instance of Cli: a configuration for every plugin and every agreement of *)
(* dimensions, each with the commands that tell something under it.         *)
(***************************************************************************)
EXTENDS Cli

CONSTANTS p1, p2

In(name) == <<Scheme, "resources", "/", "x">> \o name

f == In(<<"/", "f">>)
g == In(<<"/", "d", "/", "g">>)
d == In(<<"/", "d", "/">>)
abstract == In(<<"/", "f", ".abstract.md">>)
lost == <<Scheme, "session", "/", "x", "/", "f">>
plain == <<"/", "local", "/", "f">>

MCMounts == {<<"/", m>> : m \in {"local", "resources", "user", "agent"}}

Fs(op, u) == [tool |-> "fs", op |-> op, uri |-> u, text |-> <<"x", "y">>, recursive |-> FALSE]
Do(op, u) == [tool |-> "viking", op |-> op, uri |-> u, text |-> <<"x">>, recursive |-> FALSE]
DoAll(op, u) == [Do(op, u) EXCEPT !.recursive = TRUE]
Mv(from, to) == [tool |-> "viking", op |-> "mv", uri |-> from, to |-> to]
Find == [tool |-> "viking", op |-> "find"]
Batch(writes) == [tool |-> "kv", op |-> "batch", writes |-> writes]
Put(k, v) == [key |-> k, value |-> v]
Index(op, fits) == [tool |-> "index", op |-> op, fits |-> fits]

Config(store, embed, section, fits) ==
  [store |-> store, embed |-> embed, section |-> section, fits |-> fits]

Defaults == Config("memory", "mock", TRUE, FALSE)
Agreed == Config("memory", "mock", TRUE, TRUE)
Remote == Config("memory", "openai", TRUE, TRUE)
Rocks == Config("rocksdb", "mock", TRUE, TRUE)
Keyless == Config("rocksdb", "openai", FALSE, TRUE)
Ollama == Config("memory", "ollama", TRUE, TRUE)
Qdrant == Config("qdrant", "mock", TRUE, TRUE)

MCSetting == {Defaults, Agreed, Remote, Rocks, Keyless, Ollama, Qdrant}

Looks == {Do(op, f) : op \in {"read", "abstract", "overview", "ls", "stat"}} \cup {Find}

Changes == {Do("write", f), Do("write", g), Do("mkdir", d), DoAll("rm", d), Do("rm", f), Mv(f, abstract), Do("write", lost)}

FsCommands ==
  {Fs(op, f) : op \in {"write", "cat", "rm", "stat"}} \cup {Fs(op, d) : op \in {"mkdir", "ls"}}
    \cup {Fs("write", plain), Fs("write", lost)}

KvCommands ==
  {Batch(<<Put(1, v), Put(2, v)>>) : v \in {"v1", "v2"}}
    \cup {Batch(<<Put(1, None)>>), [tool |-> "kv", op |-> "get", key |-> 1], [tool |-> "kv", op |-> "scan", limit |-> 1]}

Others ==
  {Index(op, fits) : op \in {"insert", "search", "delete", "info"}, fits \in BOOLEAN}
    \cup {[tool |-> "server"]}

\* Names, dots and slashes in every order behind the scheme.
Strings ==
  {<<Blank, Scheme, "user", "/">> \o account \o path :
     account \in {<<>>, <<"x">>, <<"x", Blank>>}, path \in SeqOf({"/", "a", ".."}, 4)} \cup {<<"/", "a">>, <<Scheme, "a", "/", "b">>}

MCGiven ==
  (Defaults :> (Changes \cup FsCommands)) @@ (Agreed :> (Looks \cup Changes)) @@ (Remote :> KvCommands \cup {Find})
    @@ (Rocks :> {Do("write", f), Do("write", g), Do("rm", f), Mv(f, abstract), Find})
    @@ (Keyless :> {Find} \cup Others)
    @@ (Ollama :> {Fs("stat", s) : s \in Strings}) @@ (Qdrant :> {Find, Fs("stat", plain)})

MCMaxRuns ==
  (Defaults :> 2) @@ (Agreed :> 3) @@ (Remote :> 3) @@ (Rocks :> 4) @@ (Keyless :> 2) @@ (Ollama :> 1) @@ (Qdrant :> 2)

\* One directory is made, and nothing else, with a vector store that is kept.
MCAlone == {Rocks}
AloneGiven == Rocks :> {Do("mkdir", d)}
AloneRuns == Rocks :> 1
=============================================================================
