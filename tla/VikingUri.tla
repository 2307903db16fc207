------------------------------ MODULE VikingUri ------------------------------
(***************************************************************************)
(* VikingUri (agfs/viking_uri.rs).  A string is the sequence of its pieces,  *)
(* with every slash and every blank an element and "viking://" and ".." one  *)
(* element; a parsed URI keeps scope, account and a path that begins with a  *)
(* slash.                                                                   *)
(***************************************************************************)
EXTENDS SequencesExt

Scheme == "viking://"

Blank == " "

Scopes == {<<"resources">>, <<"user">>, <<"agent">>, <<"session">>}

InvalidUri == [scope |-> <<>>, account |-> <<>>, path |-> <<>>]

TrimBlanks(s) ==
  LET ink == {i \in DOMAIN s : s[i] # Blank}
  IN IF ink = {} THEN <<>> ELSE SubSeq(s, Min(ink), Max(ink))

Slashes(s) == {i \in DOMAIN s : s[i] = "/"}

Valid(u) == u.scope \in Scopes /\ u.account # <<>>

\* splitn(3, '/') behind the scheme.
Split3(rest) ==
  LET first == Min(Slashes(rest))
      more == {i \in Slashes(rest) : i > first}
      second == IF more = {} THEN Len(rest) + 1 ELSE Min(more)
  IN [scope |-> SubSeq(rest, 1, first - 1), account |-> SubSeq(rest, first + 1, second - 1),
      path |-> <<"/">> \o SubSeq(rest, second + 1, Len(rest))]

Parse(string) ==
  LET s == TrimBlanks(string) IN
  IF s = <<>> \/ (s # <<>> /\ Head(s) # Scheme) THEN InvalidUri
  ELSE IF Slashes(Tail(s)) = {} THEN InvalidUri
  ELSE IF Valid(Split3(Tail(s))) THEN Split3(Tail(s)) ELSE InvalidUri

ToInternalPath(u) == <<"/">> \o u.scope \o <<"/">> \o u.account \o u.path

ToUriString(u) ==
  <<Scheme>> \o u.scope \o <<"/">> \o u.account \o (IF u.path = <<"/">> THEN <<>> ELSE u.path)

(***************************************************************************)
(* Paths.                                                                   *)
(***************************************************************************)
\* A name goes on the stack, ".." takes one off if there is one.
Push(stack, name) ==
  CASE name \in {<<>>, <<".">>} -> stack
    [] name = <<"..">> -> IF stack = <<>> THEN stack ELSE Front(stack)
    [] OTHER -> Append(stack, name)

\* The stack that the names between a path's slashes leave.
Names(path) ==
  LET upTo[i \in 0..Len(path)] ==
        LET before == {j \in Slashes(path) : j <= i}
        IN IF before = {} THEN Push(<<>>, SubSeq(path, 1, i))
           ELSE Push(upTo[Max(before) - 1], SubSeq(path, Max(before) + 1, i))
  IN upTo[Len(path)]

Slashed(names) ==
  LET upTo[n \in 0..Len(names)] ==
        IF n = 0 THEN <<>> ELSE upTo[n - 1] \o <<"/">> \o names[n]
  IN upTo[Len(names)]

Normalize(u) ==
  [u EXCEPT !.path = IF Names(u.path) = <<>> THEN <<"/">> ELSE Slashed(Names(u.path))]

TrimEnd(path) ==
  LET ink == {i \in DOMAIN path : path[i] # "/"}
  IN IF ink = {} THEN <<>> ELSE SubSeq(path, 1, Max(ink))

TrimStart(path) ==
  LET ink == {i \in DOMAIN path : path[i] # "/"}
  IN IF ink = {} THEN <<>> ELSE SubSeq(path, Min(ink), Len(path))

HasParent(u) == TrimEnd(u.path) # <<>>

\* Mutant: slashes at the end count.
Parent_Untrimmed(u) ==
  LET slash == Max(Slashes(u.path))
  IN [u EXCEPT !.path = IF slash = 1 THEN <<"/">> ELSE SubSeq(u.path, 1, slash - 1)]

Parent(u) ==
  LET path == TrimEnd(u.path)
      slash == Max(Slashes(path))
  IN [u EXCEPT !.path = IF slash = 1 THEN <<"/">> ELSE SubSeq(path, 1, slash - 1)]

Join(u, child) ==
  [u EXCEPT !.path = (IF u.path = <<"/">> THEN <<>> ELSE TrimEnd(u.path)) \o <<"/">> \o TrimStart(child)]

StartsWith(u, prefix) ==
  /\ u.scope = prefix.scope /\ u.account = prefix.account
  /\ LET p == TrimEnd(prefix.path) q == TrimEnd(u.path)
     IN p = <<>> \/ p = q \/ IsPrefix(Append(p, "/"), q)
=============================================================================
