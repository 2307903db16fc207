------------------------------ MODULE MCQdrant ------------------------------
(***************************************************************************)
(* Instances of Qdrant: one client writes, removes and moves "/a"; the      *)
(* other writes "/a/f", below it, and moves that onto "/a".  The collection   *)
(* is new, or earlier moves have put three points at "/a", one more than a    *)
(* page.  Qdrant accepts their ids, not the one of "/h", whose hash is no     *)
(* decimal number.                                                          *)
(***************************************************************************)
EXTENDS Qdrant

CONSTANTS c1, c2

a  == <<"/", "a">>
af == <<"/", "a", "/", "f">>
b  == <<"/", "b">>
h  == <<"/", "h">>

MCUri == {a, af, b, h}
MCIdOf == (a :> 1) @@ (af :> 2) @@ (b :> 3) @@ (h :> 4)
MCDistance == [v |-> 1, w |-> 2, bad |-> 3]

MCCallsOf ==
  (c1 :> {OnFileCreated(a, NoUri, "v"), OnFileDeleted(a), OnFileMoved(a, b)})
    @@ (c2 :> {OnFileCreated(af, a, "w"), OnFileCreated(h, NoUri, "v"), OnFileMoved(af, a), [op |-> "delete", id |-> 1],
               [op |-> "create"]})

Moved(i) == [id |-> i, uri |-> a, parent |-> NoUri, vec |-> "w"]

MCStock == {<<>>, [i \in {1, 2, 3} |-> Moved(i)]}
=============================================================================
