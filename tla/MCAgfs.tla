------------------------------- MODULE MCAgfs -------------------------------
(***************************************************************************)
(* Instance of Agfs: a local plugin at /l and a memory plugin at /m, mounts *)
(* inside the first (/l/a, /l/a/b) and one whose name continues it (/lx).   *)
(***************************************************************************)
EXTENDS Agfs

CONSTANTS disk, mem, c1, c2

l == <<"/", "l">>
m == <<"/", "m">>
lx == <<"/", "l", "x">>
la == <<"/", "l", "/", "a">>
lab == <<"/", "l", "/", "a", "/", "b">>
ma == <<"/", "m", "/", "a">>
mab == <<"/", "m", "/", "a", "/", "b">>
lac == <<"/", "l", "/", "a", "c">>
mac == <<"/", "m", "/", "a", "c">>

MCIsLocal == (disk :> TRUE) @@ (mem :> FALSE)
MCStandard == (l :> disk) @@ (m :> mem)
MCMountPath == {l, m, lx, la, lab}

On(op, p) == [op |-> op, path |-> p]
Put(op, p) == [op |-> op, path |-> p, text |-> <<op>>]
Rename(p, q) == [op |-> "rename", path |-> p, to |-> q]

MCRequest ==
  {Put("write", p) : p \in {lx, la, lab, ma, mab}}
    \cup {Put("append", lab), Put("append", ma), Put("stream", ma), On("create", lab)}
    \cup {On(op, p) : op \in {"mkdir", "remove", "removeAll"}, p \in {la, ma}}
    \cup {On("mkdir", Append(ma, "/"))}
    \cup {Rename(la, lac), Rename(la, ma), Rename(ma, mac), Rename(lab, la)}

Swap == Permutations(Client)
=============================================================================
