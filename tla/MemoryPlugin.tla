---------------------------- MODULE MemoryPlugin ----------------------------
(***************************************************************************)
(* MemoryPlugin (plugins/memory.rs): one hash map from paths to entries     *)
(* under one lock, so every call is a single step.  Nothing ties an entry   *)
(* to its parent directory: any path can be written, and remove, rename and *)
(* mkdir work on the one entry they name.                                   *)
(***************************************************************************)
EXTENDS FileTree

Root == <<"/">>

NewMemory == [p \in {Root} |-> Dir]

Rooted(p) == IF p # <<>> /\ p[1] = "/" THEN p ELSE Root \o p

\* Mutant: the slash at the end stays.
NormalizePath_Slash(p) == Rooted(p)

\* One slash at the end is dropped, unless it is the root.
NormalizePath(p) ==
  LET q == Rooted(p) IN IF Len(q) > 1 /\ Last(q) = "/" THEN Front(q) ELSE q

MemCreate(fs, p) == Ok(Set(fs, {NormalizePath(p)}, <<>>))

MemWrite(fs, p, text) == Ok(Set(fs, {NormalizePath(p)}, text))

MemAppend(fs, p, text) ==
  LET q == NormalizePath(p)
  IN Ok(Set(fs, {q}, IF IsFile(fs, q) THEN fs[q] \o text ELSE text))

\* open_write hands out a buffer of its own; what is written to it is lost.
MemStream(fs, p, text) == Ok(fs)

MemMkdir(fs, p) == Ok(Set(fs, {NormalizePath(p)}, Dir))

MemRemove(fs, p) ==
  LET q == NormalizePath(p) IN IF q \in DOMAIN fs THEN Ok(Prune(fs, {q})) ELSE Err(fs)

\* Mutant: the prefix without its slash.
MemRemoveAll_NoSlash(fs, p) ==
  LET q == NormalizePath(p) IN Ok(Prune(fs, {r \in DOMAIN fs : IsPrefix(q, r)}))

MemRemoveAll(fs, p) ==
  LET q == NormalizePath(p) IN Ok(Prune(fs, {r \in DOMAIN fs : Within(r, q)}))

MemRename(fs, from, to) ==
  LET old == NormalizePath(from)
      new == NormalizePath(to)
  IN IF old \in DOMAIN fs THEN Ok(Set(Prune(fs, {old}), {new}, fs[old])) ELSE Err(fs)

MemRead(fs, p, offset, size) ==
  LET q == NormalizePath(p) IN IF IsFile(fs, q) THEN Got(Slice(fs[q], offset, size)) ELSE Missing

\* The prefix of the root is the root, of any other directory it ends in "/".
MemReadDir(fs, p) ==
  LET q == NormalizePath(p)
  IN IF IsDir(fs, q) THEN Got(Listing(Prune(fs, {q}), IF q = Root THEN <<>> ELSE q)) ELSE Missing

MemSize(fs, p) ==
  LET q == NormalizePath(p)
  IN IF IsFile(fs, q) THEN Got(Len(fs[q])) ELSE IF IsDir(fs, q) THEN Got(0) ELSE Missing

MemStat(fs, p) ==
  LET q == NormalizePath(p)
  IN IF q \in DOMAIN fs THEN Got([name |-> BaseName(q), isDir |-> IsDir(fs, q)]) ELSE Missing
=============================================================================
