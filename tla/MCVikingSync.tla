---------------------------- MODULE MCVikingSync ----------------------------
(***************************************************************************)
(* Instances of VikingSync.  No client's URI is a string prefix of          *)
(* another's.                                                               *)
(***************************************************************************)
EXTENDS VikingSync

CONSTANTS c1, c2

InAccount(name) == <<"viking:/", "/", "p", "/">> \o name

a  == InAccount(<<"a">>)
d  == InAccount(<<"d">>)
df == InAccount(<<"d", "/", "f">>)
e  == InAccount(<<"e">>)
x  == InAccount(<<"x">>)

ef == InAccount(<<"e", "/", "f">>)

MCUri == {a, df, ef, x, AbstractUri(x), AbstractUri(a)}
MCIdOf ==
  (df :> 1) @@ (x :> 2) @@ (AbstractUri(x) :> 3) @@ (a :> 4) @@ (AbstractUri(a) :> 5) @@ (ef :> 6)

MCEmbed == [t1 |-> "v1", t2 |-> "v2", s |-> "vs"]
MCSummary == [t \in {"t1", "t2", "s"} |-> "s"]

Write(u, t) == [op |-> "write", uri |-> u, text |-> t]
WriteContext(u, t) == [op |-> "writeContext", uri |-> u, text |-> t]
Rm(u) == [op |-> "rm", uri |-> u, recursive |-> FALSE]
RmAll(u) == [op |-> "rm", uri |-> u, recursive |-> TRUE]
Mv(from, to) == [op |-> "mv", from |-> from, to |-> to]
Mkdir(u) == [op |-> "mkdir", uri |-> u]

\* Each client has files of its own; one moves them about.
OwnedCalls ==
  (c1 :> {Write(df, "t1"), Write(df, "t2"), Write(ef, "t1"), Rm(df), Mv(d, e), RmAll(e), Mkdir(e)})
    @@ (c2 :> {WriteContext(x, "t1"), WriteContext(x, "t2"), Rm(x), Write(a, "t1"), RmAll(a)})

ASSUME OwnedCallsApart == CallsOf = OwnedCalls => Ownership

\* One client writes a path again after moving the file away.
RewriteCalls == (c1 :> {Write(a, "t1"), Write(a, "t2"), Mv(a, x)}) @@ (c2 :> {})
=============================================================================
