------------------------------- MODULE LocalFs -------------------------------
(***************************************************************************)
(* LocalFSPlugin (plugins/localfs.rs) on a POSIX file system.  The plugin's  *)
(* base directory is not in the map.  Some calls leave new parent            *)
(* directories behind although they fail.                                    *)
(***************************************************************************)
EXTENDS FileTree

\* The base directory and the path; the system ignores a slash at the end.
Resolve(p) == IF Len(p) > 1 /\ Last(p) = "/" THEN Front(p) ELSE p

\* create_dir_all fails on a file in the way, before it creates anything.
Blocked(fs, p) == \E q \in Parents(p) : IsFile(fs, q)

WithParents(fs, p) == IF Blocked(fs, p) THEN fs ELSE Set(fs, Parents(p) \ DOMAIN fs, Dir)

\* Mutant: the file is opened without truncating it.
FsWrite_Over(fs, p, text) ==
  LET old == IF IsFile(fs, p) THEN fs[p] ELSE <<>> IN
  IF Blocked(fs, p) \/ IsDir(fs, p) THEN Err(WithParents(fs, p))
  ELSE Ok(Set(WithParents(fs, p), {p}, text \o SubSeq(old, Len(text) + 1, Len(old))))

FsWrite(fs, p, text) ==
  IF Blocked(fs, p) \/ IsDir(fs, p) THEN Err(WithParents(fs, p))
                                    ELSE Ok(Set(WithParents(fs, p), {p}, text))

FsAppend(fs, p, text) == FsWrite(fs, p, IF IsFile(fs, p) THEN fs[p] \o text ELSE text)

\* File::create empties a file that is there.
FsCreate(fs, p) == FsWrite(fs, p, <<>>)

\* What has gone through open_write's stream once it is dropped.
FsStream(fs, p, text, append) == IF append THEN FsAppend(fs, p, text) ELSE FsWrite(fs, p, text)

FsMkdir(fs, p) ==
  IF Blocked(fs, p) \/ IsFile(fs, p) THEN Err(WithParents(fs, p))
                                     ELSE Ok(Set(WithParents(fs, p), {p}, Dir))

\* remove_dir only takes an empty directory.
FsRemove(fs, p) ==
  IF p \in DOMAIN fs /\ \A q \in DOMAIN fs : ~Below(q, p) THEN Ok(Prune(fs, {p})) ELSE Err(fs)

\* Nothing there is not an error.
FsRemoveAll(fs, p) == Ok(Prune(fs, {q \in DOMAIN fs : Within(q, p)}))

\* rename(2): a file replaces a file, a directory only an empty directory,
\* and a directory cannot move into itself.
CanRename(fs, from, to) ==
  \/ from = to
  \/ IsFile(fs, from) /\ ~IsDir(fs, to)
  \/ /\ IsDir(fs, from) /\ ~IsFile(fs, to) /\ ~Below(to, from)
     /\ \A q \in DOMAIN fs : ~Below(q, to)

Renamed(fs, from, to) ==
  LET moved == {to \o SubSeq(p, Len(from) + 1, Len(p)) : p \in {q \in DOMAIN fs : Within(q, from)}}
      origin(p) == IF p \in moved THEN from \o SubSeq(p, Len(to) + 1, Len(p)) ELSE p
  IN [p \in {q \in DOMAIN fs : ~Within(q, from)} \cup moved |-> fs[origin(p)]]

FsRename(fs, from, to) ==
  IF from \notin DOMAIN fs THEN Err(fs)
  ELSE IF Blocked(fs, to) \/ ~CanRename(WithParents(fs, to), from, to) THEN Err(WithParents(fs, to))
  ELSE Ok(Set(Renamed(fs, from, to), Parents(to) \ DOMAIN fs, Dir))

FsRead(fs, p, offset, size) ==
  IF IsFile(fs, p) THEN Got(Slice(fs[p], offset, size)) ELSE Missing

FsReadDir(fs, p) == IF IsDir(fs, p) THEN Got(Listing(fs, p)) ELSE Missing

\* The size of a directory is the operating system's.
FsSize(fs, p) == IF IsFile(fs, p) THEN Got(Len(fs[p])) ELSE IF IsDir(fs, p) THEN Got(Dir) ELSE Missing

FsStat(fs, p) ==
  IF p \in DOMAIN fs THEN Got([name |-> BaseName(p), isDir |-> IsDir(fs, p)]) ELSE Missing
=============================================================================
