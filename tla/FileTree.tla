------------------------------ MODULE FileTree ------------------------------
(***************************************************************************)
(* What the two plugins share: a tree as a map from absolute paths to Dir   *)
(* or to a file's text, and the FileSystem trait's results                  *)
(* (agfs/filesystem.rs).  A path is a sequence of names and "/".  A call     *)
(* returns the tree it leaves and whether it returned Ok.                    *)
(***************************************************************************)
EXTENDS SequencesExt

CONSTANT Dir

Below(p, dir) == IsPrefix(Append(dir, "/"), p)

Within(p, dir) == p = dir \/ Below(p, dir)

\* The directories on the way to a path.
Parents(p) == {SubSeq(p, 1, j - 1) : j \in {i \in 2..Len(p) : p[i] = "/"}}

IsDir(fs, p) == p \in DOMAIN fs /\ fs[p] = Dir

IsFile(fs, p) == p \in DOMAIN fs /\ fs[p] # Dir

Files(fs) == {p \in DOMAIN fs : fs[p] # Dir}

Rest(p, dir) == SubSeq(p, Len(dir) + 2, Len(p))

BaseName(p) == SubSeq(p, Max({0} \cup {i \in DOMAIN p : p[i] = "/"}) + 1, Len(p))

\* The direct children of a directory.
Children(fs, dir) == {p \in DOMAIN fs : Below(p, dir) /\ "/" \notin Range(Rest(p, dir))}

Set(fs, ps, x) == [p \in DOMAIN fs \cup ps |-> IF p \in ps THEN x ELSE fs[p]]

Prune(fs, ps) == [p \in DOMAIN fs \ ps |-> fs[p]]

Ok(fs) == [ok |-> TRUE, fs |-> fs]
Err(fs) == [ok |-> FALSE, fs |-> fs]

\* A call that only reads.
Got(x) == [ok |-> TRUE, got |-> x]
Missing == [ok |-> FALSE]

\* A negative offset counts as 0, size 0 means to the end.
Slice(text, offset, size) ==
  LET start == IF offset >= 0 THEN offset ELSE 0
      end == IF size = 0 THEN Len(text) ELSE Min({start + size, Len(text)})
  IN IF start >= Len(text) THEN <<>> ELSE SubSeq(text, start + 1, end)

Listing(fs, dir) == {[name |-> Rest(p, dir), isDir |-> IsDir(fs, p)] : p \in Children(fs, dir)}
=============================================================================
