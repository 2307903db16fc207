----------------------------- MODULE HnswProofs -----------------------------
(***************************************************************************)
(* What HnswIndex and its persister keep, for any number of threads, ids,   *)
(* calls, saves and restarts.                                               *)
(*                                                                          *)
(* The types, the freshness of numbers and what finished saves keep hold    *)
(* however threads share ids.  What the maps say of each other needs Owned, *)
(* calls of different threads about different ids: insert looks an id up    *)
(* under one lock and maps it under another, so two of one id both pass.    *)
(***************************************************************************)
EXTENDS HnswPersist, SequenceTheorems, FiniteSetTheorems, TLAPS

(***************************************************************************)
(* Types.  Beside what TypesFit says: what the database and the copy a save *)
(* is putting hold, and where in its call a thread is.                      *)
(***************************************************************************)
Inserting == {"number", "map", "reverse", "level", "vector", "graph"}
Deleting == {"unreverse", "unlevel", "unvector"}
Midway == Inserting \cup Deleting

\* The steps between drawing a number and linking its node.
Drawn == {"map", "reverse", "level", "vector", "graph"}

Local ==
  [pc : {"idle", "check", "unmap"} \cup Inserting \cup Deleting,
   call : InsertBatch \cup DeleteId \cup {NoCall}, at : Nat, node : Nat]

\* What the entries of one family are.
Holds(family, m) ==
  CASE family = "map" -> MapsTo(m, Id, Nat) /\ IsFiniteSet(DOMAIN m)
    [] family = "reverse" -> MapsTo(m, Nat, Id)
    [] family = "levels" -> MapsTo(m, Id, Level)
    [] family = "vectors" -> MapsTo(m, Id, Fits)
    [] family = "next" -> MapsTo(m, {1}, Nat)

Placed(t) ==
  thread[t].call.op = "insert" =>
    /\ thread[t].at \in 1..Len(thread[t].call.entries)
    /\ thread[t].pc # "check" => Current(t).vec \in Fits

ThreadTypes ==
  /\ thread \in [Thread -> Local]
  /\ \A t \in Thread :
       /\ thread[t].call \in CallsOf[t] \cup {NoCall}
       /\ thread[t].pc \in StepsOf[thread[t].call.op]
       /\ Placed(t)
       /\ \A u \in Thread \ {t} : ~({thread[t].pc, thread[u].pc} \subseteq Deleting)

IndexTypes ==
  /\ MapsTo(idMap, Id, Nat) /\ IsFiniteSet(DOMAIN idMap)
  /\ MapsTo(reverseMap, Nat, Id) /\ MapsTo(levels, Id, Level) /\ MapsTo(vectors, Id, Fits)
  /\ \A g \in graph : g.node \in Nat /\ g.vec \in Vec
  /\ nextId \in Nat

SaveTypes ==
  /\ DOMAIN db = Families /\ \A f \in Families : Holds(f, db[f])
  /\ saver.busy \in BOOLEAN /\ saver.stage \in 0..5
  /\ DOMAIN saver = {"busy", "stage", "todo"}
  /\ (~saver.busy => saver.stage = 0) /\ (saver.stage = 0 => saver.todo = <<>>)
  /\ saver.stage > 0 => Holds(Stages[saver.stage], saver.todo)
  /\ torn \in BOOLEAN /\ mixed \in BOOLEAN

TypeInv == IndexTypes /\ ThreadTypes /\ SaveTypes /\ made \in 0..MaxCalls /\ saves \in 0..MaxSaves

(***************************************************************************)
(* Numbers.  Every id the index, the database or the save under way has, or *)
(* a thread is about to map, was given a number of its own once, so there   *)
(* are no more of them than numbers were given: that is why the ids a       *)
(* restart finds and counts anew stay below the number saved after them.    *)
(***************************************************************************)
Awaited == {Current(t).id : t \in {u \in Thread : At(u, "map")}}

Copied(family) == IF saver.stage > 0 /\ Stages[saver.stage] = family THEN DOMAIN saver.todo ELSE {}

Known == DOMAIN idMap \cup DOMAIN db["map"] \cup Copied("map") \cup Awaited

AtMost(S, n) == IsFiniteSet(S) /\ Cardinality(S) <= n

NextOf(m) == IF m = <<>> THEN 0 ELSE m[1]

\* The numbers in use: in the maps, the graph and the hands of inserting threads.
NumbersBelow ==
  /\ \A id \in DOMAIN idMap : idMap[id] < nextId
  /\ \A n \in DOMAIN reverseMap : n < nextId
  /\ \A g \in graph : g.node < nextId
  /\ \A t \in Thread : thread[t].pc \in Drawn => thread[t].node < nextId

\* Between saves the next number at the path counts the ids at the path; while
\* it is put, the one put or to be put does.
SavedNext ==
  /\ ~saver.busy => AtMost(DOMAIN db["map"], NextOf(db["next"]))
  /\ saver.stage = 5 =>
       AtMost(DOMAIN db["map"], IF saver.todo = <<>> THEN NextOf(db["next"]) ELSE saver.todo[1])

FreshInv == ~torn => AtMost(Known, nextId) /\ SavedNext /\ NumbersBelow

(***************************************************************************)
(* Whoever shares ids: what is mapped has a level and a vector or a thread  *)
(* is about to store them, and what is being deleted is not mapped.         *)
(***************************************************************************)
Working(t) == IF thread[t].call.op = "insert" THEN Current(t).id ELSE Victim(t)

On(t, id, pcs) == thread[t].pc \in pcs /\ Working(t) = id

Among(id, pcs) == \E t \in Thread : On(t, id, pcs)

MappedInv ==
  /\ \A id \in DOMAIN idMap :
       /\ id \in DOMAIN levels \/ Among(id, {"reverse", "level"})
       /\ id \in DOMAIN vectors \/ Among(id, {"reverse", "level", "vector"})
  /\ \A t \in Thread : thread[t].pc \in Deleting => Working(t) \notin DOMAIN idMap

\* What a finished save found, or the one under way has found, is in the
\* index, nobody is past the check with it or deletes it, and what of it is
\* at the path or about to be put there is the same.
Agrees(id, e) ==
  /\ id \notin Doomed
  /\ ~Among(id, Inserting)
  /\ id \in DOMAIN idMap
  /\ id \in DOMAIN vectors /\ vectors[id] = e.vec
  /\ id \in DOMAIN levels /\ levels[id] = e.level
  /\ id \in Copied("levels") => saver.todo[id] = e.level
  /\ id \in Copied("vectors") => saver.todo[id] = e.vec

\* A stage has put the entry of an id.
HasPut(stage, id) == saver.stage > stage \/ (saver.stage = stage /\ id \notin DOMAIN saver.todo)

PutSoFar(id, e) ==
  /\ HasPut(1, id) => id \in DOMAIN db["map"]
  /\ HasPut(3, id) => id \in DOMAIN db["levels"] /\ db["levels"][id] = e.level
  /\ HasPut(4, id) => id \in DOMAIN db["vectors"] /\ db["vectors"][id] = e.vec

Stored(id, e) ==
  /\ id \in DOMAIN db["map"]
  /\ id \in DOMAIN db["levels"] /\ db["levels"][id] = e.level
  /\ id \in DOMAIN db["vectors"] /\ db["vectors"][id] = e.vec

KeptInv ==
  /\ \A id \in DOMAIN kept : Agrees(id, kept[id]) /\ Stored(id, kept[id])
  /\ \A id \in DOMAIN covered : Agrees(id, covered[id]) /\ PutSoFar(id, covered[id])

(***************************************************************************)
(* Calls of different threads about different ids.                          *)
(***************************************************************************)
Owned ==
  \A t, u \in Thread : t # u =>
    \A c \in CallsOf[t], d \in CallsOf[u] : Named(c) \cap Named(d) = {}

\* Exactly the ids that are mapped have a level and a vector, save those a
\* thread is in the middle of.
DomainsInv ==
  /\ \A id \in Id :
       /\ id \in DOMAIN levels <=>
            (id \in DOMAIN idMap /\ ~Among(id, {"reverse", "level"})) \/ Among(id, {"unreverse", "unlevel"})
       /\ id \in DOMAIN vectors <=>
            (id \in DOMAIN idMap /\ ~Among(id, {"reverse", "level", "vector"})) \/ Among(id, Deleting)
  /\ \A t \in Thread :
       /\ thread[t].pc \in {"number", "map"} \cup Deleting => Working(t) \notin DOMAIN idMap
       /\ thread[t].pc \in {"reverse", "level", "vector", "graph"} => Working(t) \in DOMAIN idMap

\* The two maps are inverse to each other, save where a thread has written one
\* and not yet the other; the number a thread has drawn is nobody else's.
MapsMirrored ==
  /\ \A id \in DOMAIN idMap :
       Among(id, {"reverse"}) \/ (idMap[id] \in DOMAIN reverseMap /\ reverseMap[idMap[id]] = id)
  /\ \A n \in DOMAIN reverseMap :
       \/ \E t \in Thread : On(t, reverseMap[n], {"unreverse"}) /\ thread[t].node = n
       \/ reverseMap[n] \in DOMAIN idMap /\ idMap[reverseMap[n]] = n

NumberMine(t) ==
  /\ At(t, "map") => \A id \in DOMAIN idMap : idMap[id] # thread[t].node
  /\ thread[t].pc \in {"map", "reverse"} => thread[t].node \notin DOMAIN reverseMap
  /\ thread[t].pc \in Drawn \ {"map"} => idMap[Working(t)] = thread[t].node
  /\ At(t, "unreverse") => thread[t].node \in DOMAIN reverseMap /\ reverseMap[thread[t].node] = Working(t)
  /\ \A u \in Thread \ {t} : {thread[t].pc, thread[u].pc} \subseteq Drawn => thread[t].node # thread[u].node

NumbersInv ==
  ~torn => MapsMirrored /\ \A t \in Thread : NumberMine(t)

\* A vector that is in place has one node, the number a thread has drawn none.
NodeOf(id) == {g \in graph : g.node = idMap[id]} = {[node |-> idMap[id], vec |-> Prepared[vectors[id]]]}

NodesLinked ==
  /\ \A id \in DOMAIN idMap : Among(id, Inserting) \/ NodeOf(id)
  /\ \A t \in Thread :
       /\ thread[t].pc \in Drawn => \A g \in graph : g.node # thread[t].node
       /\ At(t, "graph") => Working(t) \in DOMAIN vectors /\ vectors[Working(t)] = Current(t).vec

NodesInv == ~torn => NodesLinked

\* A thread that has stored a level has stored its entry's.
LevelsStored ==
  \A t \in Thread : thread[t].pc \in {"vector", "graph"} =>
    Working(t) \in DOMAIN levels /\ levels[Working(t)] = Current(t).level

LevelGiven(id, level) == \E e \in GivenTo(id) : e.level = level
EntryGiven(id, level, vec) == \E e \in GivenTo(id) : e.level = level /\ e.vec = vec

\* Levels are levels some call gave the id, and come with the vector of that
\* call where no insert is in the middle of the two.
GivenInv ==
  ~mixed =>
    /\ \A id \in DOMAIN levels : LevelGiven(id, levels[id])
    /\ \A id \in DOMAIN db["levels"] : LevelGiven(id, db["levels"][id])
    /\ ~torn => \A id \in DOMAIN idMap : Among(id, Inserting) \/ EntryGiven(id, levels[id], vectors[id])

\* A save that no call goes on beside puts the levels of all the vectors it
\* puts, and unless it is cut short the two belong together when it ends.
IsPut(stage, family, map) ==
  \A id \in DOMAIN idMap : HasPut(stage, id) => id \in DOMAIN db[family] /\ db[family][id] = map[id]

Copies(family, map) ==
  Copied(family) \subseteq DOMAIN idMap /\ \A id \in Copied(family) : saver.todo[id] = map[id]

SavedInv ==
  ~mixed =>
    /\ saver.busy => Quiet
    /\ DOMAIN db["vectors"] \subseteq DOMAIN db["levels"]
    /\ IsPut(3, "levels", levels) /\ IsPut(4, "vectors", vectors)
    /\ Copies("levels", levels) /\ Copies("vectors", vectors)
    /\ ~torn => \A id \in DOMAIN db["vectors"] :
         (saver.busy /\ id \in DOMAIN idMap) \/ EntryGiven(id, db["levels"][id], db["vectors"][id])
(***************************************************************************)
(* Where a thread is and what it works on.                                  *)
(***************************************************************************)
\* A call is an insert of some entries or a delete of an id, and the step a
\* thread is at is one of its call's.
LEMMA CallTypes ==
  ASSUME ThreadTypes, NEW t \in Thread
  PROVE  /\ thread[t] \in Local
         /\ thread[t].call = NoCall \/ thread[t].call \in CallsOf[t]
         /\ thread[t].pc = "idle" <=> thread[t].call = NoCall
         /\ thread[t].pc \in Inserting \cup {"check"} =>
              /\ thread[t].call \in CallsOf[t] /\ thread[t].call.op = "insert"
              /\ thread[t].call.entries \in Seq(Entry) \ {<<>>}
              /\ Current(t) \in Entry /\ Current(t).id \in Id /\ Current(t).level \in Level
              /\ Working(t) = Current(t).id
              /\ thread[t].at \in DOMAIN thread[t].call.entries
              /\ thread[t].at \in 1..Len(thread[t].call.entries)
         /\ thread[t].pc \in Inserting => Current(t).vec \in Fits
         /\ thread[t].pc \in Deleting \cup {"unmap"} =>
              /\ thread[t].call \in CallsOf[t] /\ thread[t].call.op = "delete"
              /\ Victim(t) \in Id /\ Working(t) = Victim(t)
<1>1. /\ thread[t] \in Local
      /\ thread[t].call \in CallsOf[t] \cup {NoCall}
      /\ thread[t].pc \in StepsOf[thread[t].call.op]
      /\ Placed(t)
  BY DEF ThreadTypes
<1>2. CallsOf[t] \subseteq InsertBatch \cup DeleteId
  BY IndexAssumption
<1>3. CASE thread[t].call = NoCall
  BY <1>1, <1>2, <1>3 DEF NoCall, StepsOf, InsertBatch, DeleteId, Inserting, Deleting
<1>4. CASE thread[t].call \in CallsOf[t] /\ thread[t].call \in InsertBatch
  <2>1. thread[t].call.op = "insert" /\ thread[t].call.entries \in Seq(Entry) \ {<<>>}
    BY <1>4 DEF InsertBatch
  <2>2. thread[t].pc \in Inserting \cup {"check"}
    BY <1>1, <2>1 DEF StepsOf, Inserting
  <2>3. thread[t].at \in 1..Len(thread[t].call.entries)
    BY <1>1, <2>1 DEF Placed
  <2>4. Current(t) \in Entry /\ thread[t].at \in DOMAIN thread[t].call.entries
    BY <2>1, <2>3 DEF Current
  <2>5. QED
    BY <1>1, <1>4, <2>1, <2>2, <2>3, <2>4
    DEF Entry, Placed, Inserting, Deleting, NoCall, Working
<1>5. CASE thread[t].call \in CallsOf[t] /\ thread[t].call \in DeleteId
  <2>1. thread[t].call.op = "delete" /\ thread[t].call.id \in Id
    BY <1>5 DEF DeleteId
  <2>2. thread[t].pc \in Deleting \cup {"unmap"}
    BY <1>1, <2>1 DEF StepsOf, Deleting
  <2>3. QED
    BY <1>1, <1>5, <2>1, <2>2 DEF Inserting, Deleting, NoCall, Working, Victim
<1>6. QED
  BY <1>1, <1>2, <1>3, <1>4, <1>5


\* The thread goes to a step of the entry or the id it is at.
Reaches(t, pc) ==
  /\ thread'[t].pc = pc
  /\ thread'[t].call = thread[t].call /\ thread'[t].at = thread[t].at
  /\ Current(t)' = Current(t) /\ Victim(t)' = Victim(t)

\* The step each action takes its thread from and the one it takes it to.
LEMMA Moves ==
  ASSUME thread \in [Thread -> Local], NEW t \in Thread
  PROVE  /\ Call(t) => At(t, "idle") /\ thread'[t].pc \in {"check", "unmap"} /\ thread'[t].call \in CallsOf[t]
         /\ RejectVector(t) => At(t, "check") /\ thread'[t] = Resting
         /\ CheckId(t) => At(t, "check") /\ (thread'[t] = Resting \/ (Reaches(t, "number") /\ Current(t).id \notin DOMAIN idMap))
         /\ GetNextId(t) => At(t, "number") /\ Reaches(t, "map") /\ thread'[t].node = nextId
         /\ MapId(t) => At(t, "map") /\ Reaches(t, "reverse") /\ thread'[t].node = thread[t].node
         /\ MapBack(t) => At(t, "reverse") /\ Reaches(t, "level") /\ thread'[t].node = thread[t].node
         /\ StoreLevel(t) => At(t, "level") /\ Reaches(t, "vector") /\ thread'[t].node = thread[t].node
         /\ StoreVector(t) => At(t, "vector") /\ Reaches(t, "graph") /\ thread'[t].node = thread[t].node
         /\ Link(t) => At(t, "graph") /\ (thread'[t] = Resting \/ (At(t, "check")' /\ thread'[t].call = thread[t].call))
         /\ Unmap(t) => At(t, "unmap") /\ (thread'[t] = Resting
              \/ (Reaches(t, "unreverse") /\ Victim(t) \in DOMAIN idMap /\ thread'[t].node = idMap[Victim(t)]))
         /\ Unreverse(t) => At(t, "unreverse") /\ Reaches(t, "unlevel")
         /\ Unlevel(t) => At(t, "unlevel") /\ Reaches(t, "unvector")
         /\ Unvector(t) => At(t, "unvector") /\ thread'[t] = Resting
<1> USE DEF At, Reaches, Current, Victim
<1>t. thread[t] \in Local
  OBVIOUS
<1>g. ASSUME NEW p, Goto(t, p)
      PROVE  Reaches(t, p) /\ thread'[t].node = thread[t].node
  BY <1>g, <1>t DEF Goto, Local
<1>r. Return(t) => thread'[t] = Resting
  BY DEF Return
<1>1. Call(t) => At(t, "idle") /\ thread'[t].pc \in {"check", "unmap"} /\ thread'[t].call \in CallsOf[t]
  BY DEF Call, Resting
<1>2. CheckId(t) => At(t, "check") /\ (thread'[t] = Resting \/ (Reaches(t, "number") /\ Current(t).id \notin DOMAIN idMap))
  BY <1>g, <1>r DEF CheckId
<1>3. GetNextId(t) => At(t, "number") /\ Reaches(t, "map") /\ thread'[t].node = nextId
  BY <1>t DEF GetNextId, Local
<1>4. Link(t) => At(t, "graph") /\ (thread'[t] = Resting \/ (At(t, "check")' /\ thread'[t].call = thread[t].call))
  BY <1>t, <1>r DEF Link, Local
<1>5. Unmap(t) => At(t, "unmap") /\ (thread'[t] = Resting
              \/ (Reaches(t, "unreverse") /\ Victim(t) \in DOMAIN idMap /\ thread'[t].node = idMap[Victim(t)]))
  BY <1>t, <1>r DEF Unmap, Local
<1> HIDE DEF Reaches, Current, Victim, At
<1>6. MapId(t) => At(t, "map") /\ Reaches(t, "reverse") /\ thread'[t].node = thread[t].node
  BY <1>g DEF MapId
<1>7. MapBack(t) => At(t, "reverse") /\ Reaches(t, "level") /\ thread'[t].node = thread[t].node
  BY <1>g DEF MapBack
<1>8. StoreLevel(t) => At(t, "level") /\ Reaches(t, "vector") /\ thread'[t].node = thread[t].node
  BY <1>g DEF StoreLevel
<1>9. StoreVector(t) => At(t, "vector") /\ Reaches(t, "graph") /\ thread'[t].node = thread[t].node
  BY <1>g DEF StoreVector
<1>10. Unreverse(t) => At(t, "unreverse") /\ Reaches(t, "unlevel") /\ thread'[t].node = thread[t].node
  BY <1>g DEF Unreverse
<1>11. Unlevel(t) => At(t, "unlevel") /\ Reaches(t, "unvector") /\ thread'[t].node = thread[t].node
  BY <1>g DEF Unlevel
<1>12. (RejectVector(t) => At(t, "check") /\ thread'[t] = Resting) /\ (Unvector(t) => At(t, "unvector") /\ thread'[t] = Resting)
  BY <1>r DEF RejectVector, Unvector
<1>13. QED
  BY <1>1, <1>2, <1>3, <1>4, <1>5, <1>6, <1>7, <1>8, <1>9, <1>10, <1>11, <1>12

\* A step of a thread leaves it at rest or at a step of its call, and only a
\* thread that finds id_map unlocked begins to delete.
LEMMA StepShape ==
  ASSUME IndexTypes, ThreadTypes, NEW t \in Thread, Step(t)
  PROVE  \E l \in Local :
           /\ thread' = [thread EXCEPT ![t] = l]
           /\ l.call \in CallsOf[t] \cup {NoCall} /\ l.pc \in StepsOf[l.call.op]
           /\ l.call.op = "insert" =>
                /\ l.at \in 1..Len(l.call.entries)
                /\ l.pc # "check" => l.call.entries[l.at].vec \in Fits
           /\ l.pc \in Deleting => thread[t].pc \in Deleting \/ ~IdMapLocked
<1> DEFINE Fine(l) ==
      /\ l \in Local
      /\ thread' = [thread EXCEPT ![t] = l]
      /\ l.call \in CallsOf[t] \cup {NoCall} /\ l.pc \in StepsOf[l.call.op]
      /\ l.call.op = "insert" =>
           /\ l.at \in 1..Len(l.call.entries)
           /\ l.pc # "check" => l.call.entries[l.at].vec \in Fits
      /\ l.pc \in Deleting => thread[t].pc \in Deleting \/ ~IdMapLocked
<1> SUFFICES \E l : Fine(l)
  OBVIOUS
<1>t. /\ thread \in [Thread -> Local] /\ thread[t] \in Local /\ Placed(t)
      /\ thread[t].call \in CallsOf[t] \cup {NoCall} /\ thread[t].pc \in StepsOf[thread[t].call.op]
  BY DEF ThreadTypes
<1>c. /\ thread[t].pc \in Inserting \cup {"check"} =>
           /\ thread[t].call \in CallsOf[t] /\ thread[t].call.op = "insert"
           /\ thread[t].at \in 1..Len(thread[t].call.entries)
           /\ Len(thread[t].call.entries) \in Nat
      /\ thread[t].pc \in Inserting => Current(t).vec \in Fits
      /\ thread[t].pc \in Deleting \cup {"unmap"} => thread[t].call \in CallsOf[t] /\ thread[t].call.op = "delete"
  BY CallTypes
<1>r. Return(t) => Fine(Resting)
  BY <1>t DEF Return, Resting, NoCall, Local, StepsOf, Deleting
<1>g. ASSUME NEW p, thread' = [thread EXCEPT ![t].pc = p] \/ \E n \in Nat : thread' = [thread EXCEPT ![t].pc = p, ![t].node = n],
             \/ p \in Inserting /\ thread[t].call.op = "insert" /\ Current(t).vec \in Fits
             \/ p \in Deleting /\ thread[t].call.op = "delete" /\ (thread[t].pc \in Deleting \/ ~IdMapLocked)
      PROVE  \E l : Fine(l)
  <2>1. p \in StepsOf[thread[t].call.op]
    BY <1>g DEF StepsOf, Inserting, Deleting
  <2>2. CASE thread' = [thread EXCEPT ![t].pc = p]
    <3>1. Fine([thread[t] EXCEPT !.pc = p])
      BY <1>g, <2>1, <2>2, <1>t DEF Local, Placed, Current, Inserting, Deleting
    <3>2. QED
      BY <3>1
  <2>3. ASSUME NEW n \in Nat, thread' = [thread EXCEPT ![t].pc = p, ![t].node = n]
        PROVE  \E l : Fine(l)
    <3>1. Fine([thread[t] EXCEPT !.pc = p, !.node = n])
      BY <1>g, <2>1, <2>3, <1>t DEF Local, Placed, Current, Inserting, Deleting
    <3>2. QED
      BY <3>1
  <2>4. QED
    BY <1>g, <2>2, <2>3
<1> HIDE DEF Fine
<1>1. CASE Call(t)
  <2>1. PICK c \in CallsOf[t] :
          thread' = [thread EXCEPT ![t] =
            [Resting EXCEPT !.pc = IF c.op = "insert" THEN "check" ELSE "unmap", !.call = c]]
    BY <1>1 DEF Call
  <2> DEFINE l == [Resting EXCEPT !.pc = IF c.op = "insert" THEN "check" ELSE "unmap", !.call = c]
  <2>2. c \in InsertBatch \cup DeleteId
    BY IndexAssumption
  <2>3. l \in Local /\ l.call = c /\ l.pc = (IF c.op = "insert" THEN "check" ELSE "unmap") /\ l.at = 1
    BY <2>2 DEF Resting, Local
  <2>4. c.op = "insert" => 1 \in 1..Len(c.entries)
    BY <2>2, EmptySeq, LenProperties DEF InsertBatch, DeleteId
  <2>5. l.pc \in StepsOf[c.op] /\ l.pc \notin Deleting
    BY <2>2, <2>3 DEF StepsOf, InsertBatch, DeleteId, Deleting
  <2>6. Fine(l)
    <3> HIDE DEF l
    <3>1. thread' = [thread EXCEPT ![t] = l]
      BY <2>1 DEF l
    <3>2. c.op = "insert" => l.pc = "check"
      BY <2>3
    <3>3. QED
      BY <3>1, <3>2, <2>3, <2>4, <2>5 DEF Fine
  <2> HIDE DEF l
  <2>7. QED
    BY <2>6
<1>2. CASE RejectVector(t) \/ Unvector(t)
  BY <1>2, <1>r DEF RejectVector, Unvector
<1>3. CASE CheckId(t)
  <2>1. CASE Return(t)
    BY <2>1, <1>r
  <2>2. CASE Goto(t, "number")
    BY <2>2, <1>3, <1>c, <1>g DEF CheckId, Goto, At, Inserting
  <2>3. QED
    BY <2>1, <2>2, <1>3 DEF CheckId
<1>4. CASE GetNextId(t)
  BY <1>4, <1>c, <1>g DEF IndexTypes, GetNextId, At, Inserting
<1>5. CASE MapId(t) \/ MapBack(t) \/ StoreLevel(t) \/ StoreVector(t)
  <2>1. PICK p \in Inserting : Goto(t, p) /\ thread[t].pc \in Inserting
    BY <1>5 DEF MapId, MapBack, StoreLevel, StoreVector, At, Inserting
  <2>2. QED
    BY <2>1, <1>c, <1>g DEF Goto
<1>6. CASE Link(t)
  <2>1. CASE Return(t)
    BY <2>1, <1>r
  <2>2. CASE /\ thread[t].at # Len(thread[t].call.entries)
             /\ thread' = [thread EXCEPT ![t].pc = "check", ![t].at = @ + 1]
    <3> DEFINE l == [thread[t] EXCEPT !.pc = "check", !.at = @ + 1]
    <3>1. thread[t].pc \in Inserting
      BY <1>6 DEF Link, At, Inserting
    <3>2. thread[t].at + 1 \in 1..Len(thread[t].call.entries)
      BY <1>c, <2>2, <3>1
    <3>3. Fine(l)
      BY <1>t, <1>c, <2>2, <3>1, <3>2 DEF Fine, Local, StepsOf, Deleting
    <3>4. QED
      BY <3>3
  <2>3. QED
    BY <2>1, <2>2, <1>6 DEF Link
<1>7. CASE Unmap(t)
  <2>1. CASE Return(t)
    BY <2>1, <1>r
  <2>2. CASE Victim(t) \in DOMAIN idMap /\ thread' = [thread EXCEPT ![t].pc = "unreverse", ![t].node = idMap[Victim(t)]]
    <3>1. idMap[Victim(t)] \in Nat
      BY <2>2 DEF IndexTypes, MapsTo
    <3>2. QED
      BY <2>2, <3>1, <1>7, <1>c, <1>g DEF Unmap, At, Deleting
  <2>3. QED
    BY <2>1, <2>2, <1>7 DEF Unmap
<1>8. CASE Unreverse(t) \/ Unlevel(t)
  <2>1. PICK p \in Deleting : Goto(t, p) /\ thread[t].pc \in Deleting
    BY <1>8 DEF Unreverse, Unlevel, At, Deleting
  <2>2. QED
    BY <2>1, <1>c, <1>g DEF Goto
<1>9. QED
  BY <1>1, <1>2, <1>3, <1>4, <1>5, <1>6, <1>7, <1>8 DEF Step

\* (See StepShape.)
LEMMA StepThreadTypes ==
  ASSUME IndexTypes, ThreadTypes, NEW t \in Thread, Step(t)
  PROVE  ThreadTypes'
<1>1. PICK l \in Local :
        /\ thread' = [thread EXCEPT ![t] = l]
        /\ l.call \in CallsOf[t] \cup {NoCall} /\ l.pc \in StepsOf[l.call.op]
        /\ l.call.op = "insert" =>
             /\ l.at \in 1..Len(l.call.entries)
             /\ l.pc # "check" => l.call.entries[l.at].vec \in Fits
        /\ l.pc \in Deleting => thread[t].pc \in Deleting \/ ~IdMapLocked
  BY StepShape
<1>2. /\ thread \in [Thread -> Local] /\ thread'[t] = l
      /\ \A u \in Thread \ {t} : thread'[u] = thread[u]
  BY <1>1 DEF ThreadTypes
<1>3. thread' \in [Thread -> Local]
  BY <1>1, <1>2
<1>4. \A u \in Thread : thread'[u].call \in CallsOf[u] \cup {NoCall} /\ thread'[u].pc \in StepsOf[thread'[u].call.op]
  BY <1>1, <1>2 DEF ThreadTypes
<1>5. \A u \in Thread : Placed(u)'
  BY <1>1, <1>2 DEF ThreadTypes, Placed, Current
<1>6. \A u, v \in Thread : u # v => ~({thread'[u].pc, thread'[v].pc} \subseteq Deleting)
  BY <1>1, <1>2 DEF ThreadTypes, IdMapLocked, Deleting
<1>7. QED
  BY <1>3, <1>4, <1>5, <1>6 DEF ThreadTypes

\* Writing one key of a map.
LEMMA SingleMaps ==
  ASSUME NEW K, NEW V, NEW m, MapsTo(m, K, V), NEW k \in K, NEW v \in V
  PROVE  MapsTo(Overlay([i \in {k} |-> v], m), K, V)
<1>1. MapsTo([i \in {k} |-> v], K, V)
  BY DEF MapsTo
<1>2. QED
  BY <1>1 DEF MapsTo, Overlay

\* A step of a thread keeps the index's types.
LEMMA StepIndexTypes ==
  ASSUME IndexTypes, ThreadTypes, NEW t \in Thread, Step(t)
  PROVE  IndexTypes'
<1>c. /\ thread[t].pc \in Inserting => Current(t).id \in Id /\ Current(t).level \in Level /\ Current(t).vec \in Fits
      /\ thread[t].node \in Nat
  BY CallTypes DEF Local
<1>1. CASE UNCHANGED index
  BY <1>1 DEF IndexTypes, index, maps
<1>2. CASE GetNextId(t)
  BY <1>2 DEF IndexTypes, GetNextId, maps
<1>3. CASE MapId(t)
  <2>1. MapsTo(idMap', Id, Nat)
    BY <1>3, <1>c, SingleMaps DEF IndexTypes, MapId, At, Inserting
  <2>2. IsFiniteSet(DOMAIN idMap')
    <3>1. DOMAIN idMap' = DOMAIN idMap \cup {Current(t).id}
      BY <1>3 DEF MapId, Overlay
    <3>2. QED
      BY <3>1, FS_AddElement DEF IndexTypes
  <2>3. QED
    BY <1>3, <2>1, <2>2 DEF IndexTypes, MapId
<1>4. CASE MapBack(t)
  BY <1>4, <1>c, SingleMaps DEF IndexTypes, MapBack, At, Inserting
<1>5. CASE StoreLevel(t)
  BY <1>5, <1>c, SingleMaps DEF IndexTypes, StoreLevel, At, Inserting
<1>6. CASE StoreVector(t)
  BY <1>6, <1>c, SingleMaps DEF IndexTypes, StoreVector, At, Inserting
<1>7. CASE Link(t)
  <2>1. Prepared[Current(t).vec] \in Vec
    BY <1>7, <1>c, IndexAssumption DEF Link, At, Inserting
  <2>2. QED
    BY <1>7, <1>c, <2>1 DEF IndexTypes, Link, maps
<1>8. CASE Unmap(t) /\ idMap' = Without(idMap, {Victim(t)})
  BY <1>8, FS_Subset, DOMAIN Without(idMap, {Victim(t)}) \in SUBSET DOMAIN idMap DEF IndexTypes, Unmap, MapsTo, Without
<1>9. CASE Unreverse(t)
  BY <1>9 DEF IndexTypes, Unreverse, MapsTo, Without
<1>10. CASE Unlevel(t)
  BY <1>10 DEF IndexTypes, Unlevel, MapsTo, Without
<1>11. CASE Unvector(t)
  BY <1>11 DEF IndexTypes, Unvector, MapsTo, Without
<1>12. QED
  BY <1>1, <1>2, <1>3, <1>4, <1>5, <1>6, <1>7, <1>8, <1>9, <1>10, <1>11
  DEF Step, Call, RejectVector, CheckId, Unmap, index, maps

\* What a stage copies is what its family holds, and the parts of a family a
\* save puts are of the family.
LEMMA StageTypes ==
  /\ Len(Stages) = 5
  /\ \A s \in 1..5 : Stages[s] \in Families
  /\ \A s \in 1..5 :
       /\ s = 1 <=> Stages[s] = "map"
       /\ s = 3 <=> Stages[s] = "levels"
       /\ s = 4 <=> Stages[s] = "vectors"
       /\ s = 5 <=> Stages[s] = "next"
<1>1. Stages[1] = "map" /\ Stages[2] = "reverse" /\ Stages[3] = "levels" /\ Stages[4] = "vectors" /\ Stages[5] = "next"
  BY DEF Stages
<1>2. \A s \in 1..5 : s = 1 \/ s = 2 \/ s = 3 \/ s = 4 \/ s = 5
  OBVIOUS
<1>3. Len(Stages) = 5
  BY DEF Stages
<1>4. QED
  BY <1>1, <1>2, <1>3 DEF Families

\* (See StageTypes.)
LEMMA HoldsContent ==
  ASSUME IndexTypes, NEW f \in Families
  PROVE  Holds(f, Content(f))
<1>1. MapsTo(<<nextId>>, {1}, Nat)
  BY DEF IndexTypes, MapsTo
<1>2. QED
  BY <1>1 DEF IndexTypes, Families, Holds, Content

\* (See StageTypes.)
LEMMA HoldsParts ==
  ASSUME NEW f \in Families, NEW m, NEW n, NEW ks, Holds(f, m), Holds(f, n)
  PROVE  /\ Holds(f, Overlay(Only(m, ks), n))
         /\ Holds(f, Without(m, ks))
<1>1. /\ \A K, V : MapsTo(m, K, V) /\ MapsTo(n, K, V) => MapsTo(Overlay(Only(m, ks), n), K, V)
      /\ \A K, V : MapsTo(m, K, V) => MapsTo(Without(m, ks), K, V)
  BY DEF MapsTo, Overlay, Only, Without
<1>2. /\ IsFiniteSet(DOMAIN m) /\ IsFiniteSet(DOMAIN n) => IsFiniteSet(DOMAIN Overlay(Only(m, ks), n))
      /\ IsFiniteSet(DOMAIN m) => IsFiniteSet(DOMAIN Without(m, ks))
  <2>1. /\ DOMAIN Only(m, ks) \in SUBSET DOMAIN m /\ DOMAIN Without(m, ks) \in SUBSET DOMAIN m
        /\ DOMAIN Overlay(Only(m, ks), n) = DOMAIN Only(m, ks) \cup DOMAIN n
    BY DEF Only, Overlay, Without
  <2>2. QED
    BY <2>1, FS_Subset, FS_Union
<1>3. QED
  BY <1>1, <1>2 DEF Families, Holds

\* (See StageTypes.)
LEMMA HoldsNothing == \A f \in Families : Holds(f, <<>>)
<1>1. \A K, V : MapsTo(<<>>, K, V)
  BY DEF MapsTo
<1>2. IsFiniteSet(DOMAIN <<>>)
  BY FS_EmptySet
<1>3. QED
  BY <1>1, <1>2 DEF Holds, Families

\* There is one map without keys.
LEMMA NoKeys ==
  ASSUME NEW K, NEW V, NEW m, MapsTo(m, K, V), DOMAIN m = {}
  PROVE  m = <<>>
<1>1. m \in Seq(V) /\ Len(m) = 0
  BY DOMAIN m = 1..0 DEF MapsTo
<1>2. QED
  BY <1>1, EmptySeq

\* A restart numbers finitely many ids and takes what the database has of them.
LEMMA RestoreTypes ==
  ASSUME TypeInv, RestoreIndex
  PROVE  /\ IndexTypes'
         /\ DOMAIN idMap' = Restorable /\ IsFiniteSet(Restorable)
<1>1. PICK rank \in Numberings :
        /\ idMap' = rank
        /\ reverseMap' = [n \in {rank[id] : id \in Restorable} |->
                            CHOOSE id \in Restorable : rank[id] = n]
        /\ levels' = [id \in Restorable |-> IF id \in DOMAIN db["levels"] THEN db["levels"][id] ELSE 2]
        /\ vectors' = Only(db["vectors"], Restorable)
        /\ graph' = {[node |-> rank[id], vec |-> Prepared[db["vectors"][id]]] : id \in Restorable}
        /\ nextId' = IF db["next"] = <<>> THEN 0 ELSE db["next"][1]
  BY DEF RestoreIndex
<1>2. /\ MapsTo(db["map"], Id, Nat) /\ IsFiniteSet(DOMAIN db["map"])
      /\ MapsTo(db["levels"], Id, Level) /\ MapsTo(db["vectors"], Id, Fits) /\ MapsTo(db["next"], {1}, Nat)
  BY DEF TypeInv, SaveTypes, Families, Holds
<1>3. IsFiniteSet(Restorable) /\ Restorable \subseteq Id
  BY <1>2, FS_Subset, Restorable \in SUBSET DOMAIN db["map"] DEF Restorable, MapsTo
<1>4. Cardinality(Restorable) \in Nat
  BY <1>3, FS_CardinalityType
<1>5. rank \in [Restorable -> Nat]
  BY <1>4 DEF Numberings
<1>6. MapsTo(idMap', Id, Nat) /\ DOMAIN idMap' = Restorable
  BY <1>1, <1>3, <1>5 DEF MapsTo
<1>7. MapsTo(reverseMap', Nat, Id)
  BY <1>1, <1>3, <1>5 DEF MapsTo
<1>8. MapsTo(levels', Id, Level)
  BY <1>1, <1>2, <1>3, PersistAssumption DEF MapsTo
<1>9. MapsTo(vectors', Id, Fits)
  BY <1>1, <1>2 DEF MapsTo, Only
<1>10. \A g \in graph' : g.node \in Nat /\ g.vec \in Vec
  BY <1>1, <1>2, <1>5, IndexAssumption DEF Restorable, MapsTo
<1>11. nextId' \in Nat
  <2>1. db["next"] # <<>> => 1 \in DOMAIN db["next"]
    <3>1. DOMAIN db["next"] \subseteq {1}
      BY <1>2 DEF MapsTo
    <3>2. DOMAIN db["next"] # {} => 1 \in DOMAIN db["next"]
      BY <3>1
    <3>3. QED
      BY <1>2, <3>2, NoKeys
  <2>2. QED
    BY <1>1, <1>2, <2>1 DEF MapsTo
<1>12. QED
  BY <1>3, <1>6, <1>7, <1>8, <1>9, <1>10, <1>11 DEF IndexTypes

\* Every step keeps the types.
LEMMA TypeStep ==
  ASSUME TypeInv, [Next]_vars
  PROVE  TypeInv'
<1> USE DEF TypeInv
<1>1. CASE UNCHANGED vars
  BY <1>1 DEF vars, index, maps, history, IndexTypes, ThreadTypes, SaveTypes, Placed, Current
<1>2. CASE ServeBesideSaves
  <2>1. PICK t \in Thread : Step(t)
    BY <1>2 DEF ServeBesideSaves, Serve
  <2>2. IndexTypes' /\ ThreadTypes'
    BY <2>1, StepIndexTypes, StepThreadTypes
  <2>3. SaveTypes'
    BY <1>2 DEF ServeBesideSaves, SaveTypes
  <2>4. made' \in 0..MaxCalls
    <3>1. made' = made \/ (made < MaxCalls /\ made' = made + 1)
      BY <2>1 DEF Step, Call, RejectVector, CheckId, GetNextId, MapId, MapBack, StoreLevel,
         StoreVector, Link, Unmap, Unreverse, Unlevel, Unvector
    <3>2. QED
      BY <3>1, IndexAssumption
  <2>5. QED
    BY <1>2, <2>2, <2>3, <2>4 DEF ServeBesideSaves
<1>3. ASSUME UNCHANGED <<index, thread, made>> PROVE IndexTypes' /\ ThreadTypes' /\ made' \in 0..MaxCalls
  BY <1>3 DEF index, maps, IndexTypes, ThreadTypes, Placed, Current
<1>4. CASE BeginSave
  <2>1. SaveTypes'
    BY <1>4 DEF BeginSave, NoSave, SaveTypes
  <2>2. saves' \in 0..MaxSaves
    BY <1>4, PersistAssumption DEF BeginSave
  <2>3. QED
    BY <1>3, <1>4, <2>1, <2>2 DEF BeginSave
<1>5. CASE CopyNext
  <2>1. saver.stage + 1 \in 1..5
    BY <1>5, StageTypes DEF CopyNext, SaveTypes
  <2>2. /\ DOMAIN saver' = DOMAIN saver /\ saver.busy /\ saver'.busy
        /\ saver'.stage = saver.stage + 1 /\ saver'.todo = Content(Stages[saver.stage + 1])
    BY <1>5 DEF CopyNext, SaveTypes
  <2>3. Holds(Stages[saver.stage + 1], Content(Stages[saver.stage + 1]))
    BY <2>1, StageTypes, HoldsContent
  <2>4. SaveTypes'
    <3>1. UNCHANGED <<db, torn, mixed>>
      BY <1>5 DEF CopyNext, history
    <3>2. QED
      BY <2>1, <2>2, <2>3, <3>1 DEF SaveTypes
  <2>5. QED
    BY <1>3, <1>5, <2>4 DEF CopyNext, history
<1>6. CASE PutOne
  <2>1. PICK k \in DOMAIN saver.todo :
          /\ db' = [db EXCEPT ![Stages[saver.stage]] = Overlay(Only(saver.todo, {k}), @)]
          /\ saver' = [saver EXCEPT !.todo = Without(@, {k})]
    BY <1>6 DEF PutOne
  <2>2. saver.stage # 0
    BY <2>1, DOMAIN <<>> = {} DEF SaveTypes
  <2>3. saver.stage \in 1..5 /\ Stages[saver.stage] \in Families
    BY <2>2, StageTypes DEF SaveTypes
  <2>4. /\ Holds(Stages[saver.stage], Overlay(Only(saver.todo, {k}), db[Stages[saver.stage]]))
        /\ Holds(Stages[saver.stage], Without(saver.todo, {k}))
    BY <2>3, HoldsParts DEF SaveTypes
  <2>5. /\ DOMAIN saver' = DOMAIN saver /\ saver.busy /\ saver'.busy
        /\ saver'.stage = saver.stage /\ saver'.todo = Without(saver.todo, {k})
    BY <1>6, <2>1 DEF PutOne, SaveTypes
  <2>7. DOMAIN db' = Families /\ \A f \in Families : Holds(f, db'[f])
    BY <2>1, <2>3, <2>4 DEF SaveTypes
  <2>8. SaveTypes'
    <3>1. UNCHANGED <<torn, mixed>>
      BY <1>6 DEF PutOne, history
    <3>2. QED
      BY <2>3, <2>4, <2>5, <2>7, <3>1 DEF SaveTypes
  <2>6. QED
    BY <1>3, <1>6, <2>8 DEF PutOne
<1>7. CASE EndSave
  <2>1. SaveTypes'
    BY <1>7 DEF EndSave, NoSave, SaveTypes
  <2>2. QED
    BY <1>3, <1>7, <2>1 DEF EndSave
<1>8. CASE Restart
  <2>1. IndexTypes'
    BY <1>8, RestoreTypes DEF Restart
  <2>2. ThreadTypes'
    BY <1>8 DEF Restart, ThreadTypes, Resting, Local, NoCall, StepsOf, Placed, Deleting
  <2>3. SaveTypes'
    BY <1>8 DEF Restart, NoSave, SaveTypes
  <2>4. QED
    BY <1>8, <2>1, <2>2, <2>3 DEF Restart
<1>9. QED
  BY <1>1, <1>2, <1>4, <1>5, <1>6, <1>7, <1>8 DEF Next

\* The index and the database hold what they are for at every step, and one
\* thread at most deletes past its first step (hnsw.rs 195-203).
THEOREM Typed == Spec => []TypeInv
<1>1. PersistInit => TypeInv
  <2> SUFFICES ASSUME PersistInit PROVE TypeInv
    OBVIOUS
  <2>1. IndexTypes
    BY FS_EmptySet, DOMAIN <<>> = {} DEF PersistInit, Init, NewIndex, IndexTypes, MapsTo
  <2>2. ThreadTypes
    BY DEF PersistInit, Init, ThreadTypes, Resting, Local, NoCall, StepsOf, Placed, Deleting
  <2>3. SaveTypes
    <3>1. DOMAIN db = Families /\ \A f \in Families : Holds(f, db[f])
      BY HoldsNothing DEF PersistInit
    <3>2. saver.busy = FALSE /\ saver.stage = 0 /\ saver.todo = <<>> /\ DOMAIN saver = {"busy", "stage", "todo"}
      BY DEF PersistInit, NoSave
    <3>3. torn \in BOOLEAN /\ mixed \in BOOLEAN /\ saver.busy \in BOOLEAN
      BY <3>2 DEF PersistInit
    <3>4. QED
      BY <3>1, <3>2, <3>3 DEF SaveTypes
  <2>4. QED
    BY <2>1, <2>2, <2>3, IndexAssumption, PersistAssumption DEF TypeInv, PersistInit, Init
<1>2. TypeInv /\ [Next]_vars => TypeInv'
  BY TypeStep
<1>3. QED
  BY <1>1, <1>2, PTL DEF Spec

(***************************************************************************)
(* Numbers stay fresh.                                                      *)
(***************************************************************************)
\* A smaller set has at most as many members, one more member counts one more.
LEMMA AtMostSubset ==
  ASSUME NEW S, NEW n \in Nat, AtMost(S, n), NEW T \in SUBSET S, NEW m \in Nat, n <= m
  PROVE  AtMost(T, m)
<1>1. /\ IsFiniteSet(S) /\ IsFiniteSet(T) /\ Cardinality(T) <= Cardinality(S) /\ Cardinality(S) <= n
      /\ Cardinality(S) \in Nat /\ Cardinality(T) \in Nat
  BY FS_Subset, FS_CardinalityType DEF AtMost
<1>2. QED
  BY <1>1 DEF AtMost

\* (See AtMostSubset.)
LEMMA AtMostAdd ==
  ASSUME NEW S, NEW n \in Nat, AtMost(S, n), NEW x
  PROVE  AtMost(S \cup {x}, n + 1)
<1>1. IsFiniteSet(S) /\ Cardinality(S) \in Nat /\ Cardinality(S) <= n
  BY FS_CardinalityType DEF AtMost
<1>2. /\ IsFiniteSet(S \cup {x})
      /\ Cardinality(S \cup {x}) = IF x \in S THEN Cardinality(S) ELSE Cardinality(S) + 1
  BY <1>1, FS_AddElement
<1>3. QED
  BY <1>1, <1>2 DEF AtMost

\* A step of a thread gives a number to one more id or knows of no new id.
LEMMA StepKnown ==
  ASSUME TypeInv, NEW t \in Thread, Step(t), UNCHANGED <<db, saver>>
  PROVE  \/ nextId' = nextId /\ Known' \subseteq Known
         \/ nextId' = nextId + 1 /\ \E id : Known' \subseteq Known \cup {id}
<1>1. \A u \in Thread \ {t} : thread'[u] = thread[u]
  BY StepShape DEF TypeInv, ThreadTypes
<1>2. Copied("map")' = Copied("map")
  BY DEF Copied
<1>3. \A u \in Thread \ {t} : At(u, "map")' => At(u, "map") /\ Current(u)' = Current(u)
  BY <1>1 DEF At, Current
<1>4. ASSUME ~At(t, "map")' PROVE Awaited' \subseteq Awaited
  BY <1>3, <1>4 DEF Awaited
<1>t. thread \in [Thread -> Local] /\ thread[t] \in Local
  BY DEF TypeInv, ThreadTypes
<1>5. CASE GetNextId(t)
  <2>1. Current(t)' = Current(t)
    BY <1>t, <1>5, Moves DEF Reaches
  <2>2. Awaited' \subseteq Awaited \cup {Current(t).id}
    BY <1>3, <2>1 DEF Awaited
  <2>3. nextId' = nextId + 1 /\ idMap' = idMap
    BY <1>5 DEF GetNextId, maps
  <2>4. QED
    BY <1>2, <2>2, <2>3 DEF Known
<1>6. CASE MapId(t)
  <2>1. ~At(t, "map")' /\ At(t, "map")
    BY <1>t, <1>6, Moves DEF Reaches, At
  <2>2. DOMAIN idMap' \subseteq DOMAIN idMap \cup Awaited
    BY <1>6, <2>1 DEF MapId, Overlay, Awaited
  <2>3. QED
    BY <1>2, <1>4, <1>6, <2>1, <2>2 DEF Known, MapId
<1>7. CASE ~GetNextId(t) /\ ~MapId(t)
  <2>1. ~At(t, "map")'
    BY <1>t, <1>7, Moves DEF Step, Reaches, Resting, At
  <2>2. nextId' = nextId /\ DOMAIN idMap' \subseteq DOMAIN idMap
    BY <1>7 DEF Step, Call, RejectVector, CheckId, MapBack, StoreLevel, StoreVector, Link,
         Unmap, Unreverse, Unlevel, Unvector, Without, index, maps
  <2>3. QED
    BY <1>2, <1>4, <2>1, <2>2 DEF Known
<1>8. QED
  BY <1>5, <1>6, <1>7

\* A thread that draws a number draws the next one, the others move theirs on.
LEMMA StepBelow ==
  ASSUME TypeInv, NEW t \in Thread, Step(t), NumbersBelow
  PROVE  NumbersBelow'
<1>1. \A u \in Thread \ {t} : thread'[u] = thread[u]
  BY StepShape DEF TypeInv, ThreadTypes
<1>t. /\ thread \in [Thread -> Local] /\ thread[t] \in Local /\ nextId \in Nat
      /\ \A id \in DOMAIN idMap : idMap[id] \in Nat
      /\ \A n \in DOMAIN reverseMap : n \in Nat
      /\ \A g \in graph : g.node \in Nat
  BY DEF TypeInv, ThreadTypes, IndexTypes, MapsTo
<1>n. nextId' \in Nat /\ nextId <= nextId'
  <2>1. nextId' = nextId \/ nextId' = nextId + 1
    BY DEF Step, Call, RejectVector, CheckId, GetNextId, MapId, MapBack, StoreLevel, StoreVector, Link,
         Unmap, Unreverse, Unlevel, Unvector, index, maps
  <2>2. QED
    BY <2>1, <1>t
<1>m. thread[t].pc \in Drawn => thread[t].node < nextId
  BY DEF NumbersBelow
<1>2. \A u \in Thread : thread'[u].pc \in Drawn => thread'[u].node < nextId'
  <2>1. thread'[t].pc \in Drawn => thread'[t].node < nextId'
    <3>1. CASE GetNextId(t)
      BY <1>t, <3>1 DEF GetNextId
    <3>2. CASE MapId(t) \/ MapBack(t) \/ StoreLevel(t) \/ StoreVector(t)
      <4>1. thread[t].pc \in Drawn /\ thread'[t].node = thread[t].node
        BY <1>t, <3>2, Moves DEF At, Inserting, Drawn
      <4>2. nextId' = nextId
        BY <3>2 DEF MapId, MapBack, StoreLevel, StoreVector
      <4>3. QED
        BY <1>m, <4>1, <4>2
    <3>3. CASE ~GetNextId(t) /\ ~(MapId(t) \/ MapBack(t) \/ StoreLevel(t) \/ StoreVector(t))
      <4>1. thread'[t].pc \notin Drawn
        BY <1>t, <3>3, Moves DEF Step, Reaches, Resting, At, Inserting, Drawn
      <4>2. QED
        BY <4>1
    <3>4. QED
      BY <3>1, <3>2, <3>3
  <2>2. \A u \in Thread \ {t} : thread'[u].pc \in Drawn => thread'[u].node < nextId'
    BY <1>1, <1>t, <1>n DEF NumbersBelow, ThreadTypes, TypeInv, Local
  <2>3. QED
    BY <2>1, <2>2
<1>3. CASE UNCHANGED <<idMap, reverseMap, graph>>
  BY <1>2, <1>3, <1>t, <1>n DEF NumbersBelow
<1>4. CASE MapId(t)
  BY <1>2, <1>4, <1>t, <1>m DEF MapId, NumbersBelow, Overlay, At, Inserting, Drawn
<1>5. CASE MapBack(t)
  BY <1>2, <1>5, <1>t, <1>m DEF MapBack, NumbersBelow, Overlay, At, Inserting, Drawn
<1>6. CASE Link(t)
  BY <1>2, <1>6, <1>t, <1>m DEF Link, NumbersBelow, At, Inserting, Drawn, maps
<1>7. CASE Unmap(t) /\ idMap' = Without(idMap, {Victim(t)})
  BY <1>2, <1>7 DEF Unmap, NumbersBelow, Without
<1>8. CASE Unreverse(t)
  BY <1>2, <1>8 DEF Unreverse, NumbersBelow, Without
<1>9. QED
  BY <1>3, <1>4, <1>5, <1>6, <1>7, <1>8
  DEF Step, Call, RejectVector, CheckId, GetNextId, StoreLevel, StoreVector, Unmap, Unlevel, Unvector, index, maps

\* A save copies numbers that are in use, and puts what it copied; between its
\* last copy and its last put the number to be put counts the ids at the path.
LEMMA SaveFresh ==
  ASSUME TypeInv, FreshInv, ~torn, BeginSave \/ CopyNext \/ PutOne \/ EndSave
  PROVE  AtMost(Known, nextId)' /\ SavedNext'
<1>1. nextId \in Nat /\ AtMost(Known, nextId) /\ SavedNext
  BY DEF FreshInv, TypeInv, IndexTypes
<1>2. UNCHANGED <<index, thread, torn>> /\ nextId' = nextId /\ idMap' = idMap /\ Awaited' = Awaited
  BY DEF BeginSave, CopyNext, PutOne, EndSave, history, index, maps, Awaited, Current, At
<1>k. ASSUME Known' \subseteq Known PROVE AtMost(Known, nextId)'
  <2>1. AtMost(Known', nextId)
    BY <1>1, <1>k, AtMostSubset
  <2>2. QED
    BY <2>1, <1>2 DEF AtMost
<1>s. saver.stage \in 0..5 /\ DOMAIN saver = {"busy", "stage", "todo"} /\ DOMAIN db = Families
  BY DEF TypeInv, SaveTypes
<1>3. CASE BeginSave
  <2>1. db' = db /\ saver'.busy /\ saver'.stage = 0
    BY <1>3 DEF BeginSave, NoSave
  <2>2. Known' \subseteq Known
    BY <2>1, <1>2 DEF Known, Copied
  <2>3. QED
    BY <2>1, <2>2, <1>k DEF SavedNext
<1>4. CASE CopyNext
  <2>1. /\ db' = db /\ saver'.busy /\ saver'.stage = saver.stage + 1 /\ saver'.stage \in 1..5
        /\ saver'.todo = Content(Stages[saver'.stage])
    BY <1>4, <1>s, StageTypes DEF CopyNext
  <2>2. Copied("map")' \subseteq DOMAIN idMap
    BY <2>1 DEF Copied, Content
  <2>3. Known' \subseteq Known
    BY <2>1, <2>2, <1>2 DEF Known
  <2>4. ASSUME saver'.stage = 5
        PROVE  AtMost(DOMAIN db["map"], saver'.todo[1]) /\ saver'.todo # <<>>
    <3>1. saver'.todo = <<nextId>>
      BY <2>1, <2>4, StageTypes DEF Content
    <3>2. AtMost(DOMAIN db["map"], nextId)
      BY <1>1, AtMostSubset, DOMAIN db["map"] \in SUBSET Known DEF Known
    <3>3. QED
      BY <3>1, <3>2
  <2>5. SavedNext'
    BY <2>1, <2>4 DEF SavedNext
  <2>6. QED
    BY <2>3, <2>5, <1>k
<1>5. CASE PutOne
  <2>1. PICK k \in DOMAIN saver.todo :
          /\ db' = [db EXCEPT ![Stages[saver.stage]] = Overlay(Only(saver.todo, {k}), @)]
          /\ saver' = [saver EXCEPT !.todo = Without(@, {k})]
    BY <1>5 DEF PutOne
  <2>2. saver.stage \in 1..5 /\ saver.busy
    BY <2>1, <1>5, DOMAIN <<>> = {} DEF TypeInv, SaveTypes, PutOne
  <2>3. saver'.busy /\ saver'.stage = saver.stage /\ saver'.todo = Without(saver.todo, {k})
    BY <2>1, <2>2, <1>s
  <2>4. /\ DOMAIN Overlay(Only(saver.todo, {k}), db[Stages[saver.stage]]) = DOMAIN db[Stages[saver.stage]] \cup {k}
        /\ DOMAIN Without(saver.todo, {k}) \subseteq DOMAIN saver.todo
    BY <2>1 DEF Overlay, Only, Without
  <2>5. DOMAIN db'["map"] \subseteq DOMAIN db["map"] \cup Copied("map")
    <3>1. CASE Stages[saver.stage] = "map"
      BY <3>1, <2>1, <2>2, <2>4, <1>s DEF Families, Copied
    <3>2. CASE Stages[saver.stage] # "map"
      BY <3>2, <2>1, <2>2, <1>s, StageTypes DEF Families
    <3>3. QED
      BY <3>1, <3>2
  <2>6. Copied("map")' \subseteq Copied("map")
    BY <2>3, <2>4 DEF Copied
  <2>7. Known' \subseteq Known
    BY <2>5, <2>6, <1>2 DEF Known
  <2>8. ASSUME saver.stage = 5
        PROVE  saver'.todo = <<>> /\ AtMost(DOMAIN db'["map"], NextOf(db'["next"]))
    <3>1. MapsTo(saver.todo, {1}, Nat) /\ Stages[saver.stage] = "next" /\ MapsTo(db["next"], {1}, Nat)
      BY <2>8, StageTypes DEF TypeInv, SaveTypes, Holds, Families
    <3>2. DOMAIN saver.todo = {1} /\ k = 1
      BY <3>1, <2>1 DEF MapsTo
    <3>3. MapsTo(saver'.todo, {1}, Nat) /\ DOMAIN saver'.todo = {}
      BY <3>1, <3>2, <2>3 DEF Without, MapsTo
    <3>4. saver'.todo = <<>>
      BY <3>3, NoKeys
    <3>5. db'["map"] = db["map"] /\ db'["next"] = Overlay(Only(saver.todo, {1}), db["next"])
      BY <3>1, <3>2, <2>1, <1>s DEF Families
    <3>6. 1 \in DOMAIN db'["next"] /\ db'["next"][1] = saver.todo[1]
      BY <3>2, <3>5 DEF Overlay, Only
    <3>7. db'["next"] # <<>> /\ saver.todo # <<>>
      BY <3>2, <3>6, DOMAIN <<>> = {}
    <3>8. AtMost(DOMAIN db["map"], saver.todo[1])
      BY <1>1, <2>8, <3>7 DEF SavedNext
    <3>9. QED
      BY <3>4, <3>5, <3>6, <3>7, <3>8 DEF NextOf
  <2>9. SavedNext'
    BY <2>3, <2>8 DEF SavedNext
  <2>10. QED
    BY <2>7, <2>9, <1>k
<1>6. CASE EndSave
  <2>1. db' = db /\ ~saver'.busy /\ saver'.stage = 0 /\ saver.stage = 5 /\ saver.todo = <<>>
    BY <1>6, StageTypes DEF EndSave, NoSave
  <2>2. Known' \subseteq Known
    BY <2>1, <1>2 DEF Known, Copied
  <2>3. AtMost(DOMAIN db["map"], NextOf(db["next"]))
    BY <2>1, <1>1 DEF SavedNext
  <2>4. QED
    BY <2>1, <2>2, <2>3, <1>k DEF SavedNext
<1>7. QED
  BY <1>3, <1>4, <1>5, <1>6

\* What the index is after a restart: the ids that have a number and a vector at
\* the path, numbered anew without gaps.
LEMMA Restored ==
  ASSUME TypeInv, RestoreIndex
  PROVE  /\ DOMAIN idMap' = Restorable /\ IsFiniteSet(Restorable) /\ Cardinality(Restorable) \in Nat
         /\ \A id \in Restorable : idMap'[id] \in 0..Cardinality(Restorable) - 1
         /\ \A i, j \in Restorable : i # j => idMap'[i] # idMap'[j]
         /\ DOMAIN reverseMap' = {idMap'[id] : id \in Restorable}
         /\ \A id \in Restorable : reverseMap'[idMap'[id]] = id
         /\ DOMAIN levels' = Restorable
         /\ \A id \in Restorable : levels'[id] = IF id \in DOMAIN db["levels"] THEN db["levels"][id] ELSE 2
         /\ DOMAIN vectors' = Restorable
         /\ \A id \in Restorable : vectors'[id] = db["vectors"][id]
         /\ graph' = {[node |-> idMap'[id], vec |-> Prepared[vectors'[id]]] : id \in Restorable}
         /\ nextId' = NextOf(db["next"])
<1>1. PICK rank \in Numberings :
        /\ idMap' = rank
        /\ reverseMap' = [n \in {rank[id] : id \in Restorable} |->
                            CHOOSE id \in Restorable : rank[id] = n]
        /\ levels' = [id \in Restorable |-> IF id \in DOMAIN db["levels"] THEN db["levels"][id] ELSE 2]
        /\ vectors' = Only(db["vectors"], Restorable)
        /\ graph' = {[node |-> rank[id], vec |-> Prepared[db["vectors"][id]]] : id \in Restorable}
        /\ nextId' = IF db["next"] = <<>> THEN 0 ELSE db["next"][1]
  BY DEF RestoreIndex
<1>2. DOMAIN idMap' = Restorable /\ IsFiniteSet(Restorable) /\ Cardinality(Restorable) \in Nat
  BY RestoreTypes, FS_CardinalityType
<1>3. /\ \A id \in Restorable : rank[id] \in 0..Cardinality(Restorable) - 1
      /\ \A i, j \in Restorable : i # j => rank[i] # rank[j]
  BY DEF Numberings
<1>4. \A id \in Restorable : reverseMap'[rank[id]] = id
  BY <1>1, <1>3
<1>5. DOMAIN vectors' = Restorable /\ \A id \in Restorable : vectors'[id] = db["vectors"][id]
  BY <1>1 DEF Only, Restorable
<1>6. graph' = {[node |-> idMap'[id], vec |-> Prepared[vectors'[id]]] : id \in Restorable}
  BY <1>1, <1>5
<1>7. QED
  BY <1>1, <1>2, <1>3, <1>4, <1>5, <1>6 DEF NextOf

\* Numbers stay fresh through saves, restarts and calls.
LEMMA FreshStep ==
  ASSUME TypeInv, FreshInv, [Next]_vars
  PROVE  FreshInv'
<1> SUFFICES ASSUME ~torn' PROVE AtMost(Known, nextId)' /\ SavedNext' /\ NumbersBelow'
  BY DEF FreshInv
<1>n. nextId \in Nat /\ TypeInv' /\ nextId' \in Nat
  BY TypeStep DEF TypeInv, IndexTypes
<1>1. CASE UNCHANGED vars
  BY <1>1 DEF vars, index, maps, history, FreshInv, Known, Copied, Awaited, SavedNext, NumbersBelow, Current, At, AtMost, NextOf
<1>2. CASE ServeBesideSaves
  <2>1. PICK t \in Thread : Step(t)
    BY <1>2 DEF ServeBesideSaves, Serve
  <2>2. UNCHANGED <<db, saver, torn>> /\ ~torn
    BY <1>2 DEF ServeBesideSaves
  <2>3. AtMost(Known, nextId) /\ SavedNext /\ NumbersBelow
    BY <2>2 DEF FreshInv
  <2>4. AtMost(Known', nextId')
    <3>1. CASE nextId' = nextId /\ Known' \subseteq Known
      BY <3>1, <2>3, <1>n, AtMostSubset
    <3>2. ASSUME nextId' = nextId + 1, NEW id, Known' \subseteq Known \cup {id}
          PROVE  AtMost(Known', nextId')
      <4>1. AtMost(Known \cup {id}, nextId + 1)
        BY <2>3, <1>n, AtMostAdd
      <4>2. QED
        BY <3>2, <4>1, <1>n, AtMostSubset
    <3>3. QED
      BY <2>1, <2>2, <3>1, <3>2, StepKnown
  <2>5. SavedNext'
    BY <2>2, <2>3 DEF SavedNext, AtMost, NextOf
  <2>6. NumbersBelow'
    BY <2>1, <2>3, StepBelow
  <2>7. QED
    BY <2>4, <2>5, <2>6 DEF AtMost
<1>3. CASE BeginSave \/ CopyNext \/ PutOne \/ EndSave
  <2>1. UNCHANGED <<index, thread, torn>>
    BY <1>3 DEF BeginSave, CopyNext, PutOne, EndSave, history
  <2>2. NumbersBelow'
    BY <2>1 DEF FreshInv, NumbersBelow, index, maps
  <2>3. QED
    BY <1>3, <2>1, <2>2, SaveFresh
<1>4. CASE Restart
  <2>1. RestoreIndex /\ ~torn /\ ~saver.busy /\ db' = db /\ saver' = NoSave
    BY <1>4 DEF Restart
  <2>2. \A t \in Thread : thread'[t].pc = "idle"
    BY <1>4 DEF Restart, Resting
  <2>3. AtMost(DOMAIN db["map"], NextOf(db["next"])) /\ nextId' = NextOf(db["next"])
    BY <2>1, Restored DEF FreshInv, SavedNext
  <2>4. Known' \subseteq DOMAIN db["map"]
    BY <2>1, <2>2, Restored DEF Known, Copied, Awaited, At, NoSave, Restorable
  <2>5. AtMost(Known', nextId')
    BY <2>3, <2>4, <1>n, AtMostSubset
  <2>6. Cardinality(Restorable) <= nextId' /\ Cardinality(Restorable) \in Nat
    <3>1. AtMost(Restorable, nextId')
      BY <2>3, <1>n, AtMostSubset, Restorable \in SUBSET DOMAIN db["map"] DEF Restorable
    <3>2. QED
      BY <2>1, <3>1, Restored DEF AtMost
  <2>7. NumbersBelow'
    <3>1. \A id \in Restorable : idMap'[id] < nextId'
      BY <2>1, <2>6, <1>n, Restored
    <3>2. \A n \in DOMAIN reverseMap' : n < nextId'
      BY <2>1, <3>1, Restored
    <3>3. \A g \in graph' : g.node < nextId'
      BY <2>1, <3>1, Restored
    <3>4. QED
      BY <2>1, <2>2, <3>1, <3>2, <3>3, Restored DEF NumbersBelow, Drawn
  <2>8. SavedNext'
    BY <2>1, <2>3 DEF SavedNext, NoSave, AtMost, NextOf
  <2>9. QED
    BY <2>5, <2>7, <2>8 DEF AtMost
<1>5. QED
  BY <1>1, <1>2, <1>3, <1>4 DEF Next

\* Before the first call nothing has a number.
LEMMA FreshInitially == PersistInit => FreshInv
<1> SUFFICES ASSUME PersistInit PROVE FreshInv
  OBVIOUS
<1>1. /\ DOMAIN idMap = {} /\ DOMAIN reverseMap = {} /\ graph = {} /\ nextId = 0
      /\ \A t \in Thread : thread[t].pc = "idle"
      /\ db["map"] = <<>> /\ db["next"] = <<>> /\ saver.stage = 0
  BY DOMAIN <<>> = {} DEF PersistInit, Init, NewIndex, Resting, NoSave, Families
<1>2. Known = {} /\ DOMAIN db["map"] = {}
  BY <1>1, DOMAIN <<>> = {} DEF Known, Copied, Awaited, At
<1>3. AtMost({}, 0)
  BY FS_EmptySet DEF AtMost
<1>4. QED
  BY <1>1, <1>2, <1>3 DEF FreshInv, SavedNext, NumbersBelow, NextOf, Drawn

\* No insert takes a node that is another vector's, unless a save was cut short
\* (hnsw_persist.rs 138, "Set next_id to the correct value").
THEOREM NumbersFresh == Spec => []FreshNodes
<1>1. TypeInv /\ FreshInv /\ [Next]_vars => FreshInv'
  BY FreshStep
<1>2. FreshInv => FreshNodes
  BY DEF FreshInv, NumbersBelow, FreshNodes
<1>3. QED
  BY <1>1, <1>2, FreshInitially, Typed, PTL DEF Spec

(***************************************************************************)
(* Calls of different threads about different ids: what a step of a thread  *)
(* does is about the one id it works on, and nobody else works on it.       *)
(***************************************************************************)
\* The id a thread works on is one its call names.
LEMMA WorkingNamed ==
  ASSUME ThreadTypes, NEW t \in Thread, thread[t].pc # "idle"
  PROVE  /\ thread[t].call \in CallsOf[t] /\ Working(t) \in Id
         /\ Working(t) \in Named(thread[t].call)
<1>1. thread[t].pc \in Inserting \cup {"check"} \/ thread[t].pc \in Deleting \cup {"unmap"}
  BY DEF ThreadTypes, Local
<1>2. CASE thread[t].pc \in Inserting \cup {"check"}
  BY <1>2, CallTypes DEF Named, Current
<1>3. CASE thread[t].pc \in Deleting \cup {"unmap"}
  BY <1>3, CallTypes DEF Named, Victim
<1>4. QED
  BY <1>1, <1>2, <1>3

\* (See WorkingNamed.)
LEMMA WorkingApart ==
  ASSUME Owned, ThreadTypes, NEW t \in Thread, NEW u \in Thread, t # u,
         thread[t].pc # "idle", thread[u].pc # "idle"
  PROVE  Working(t) # Working(u)
<1>1. Named(thread[t].call) \cap Named(thread[u].call) = {}
  BY WorkingNamed DEF Owned
<1>2. QED
  BY <1>1, WorkingNamed

\* Which actions write which part of the index.
LEMMA Writes ==
  ASSUME NEW t \in Thread, Step(t)
  PROVE  /\ idMap' = idMap \/ MapId(t) \/ (Unmap(t) /\ idMap' = Without(idMap, {Victim(t)}))
         /\ reverseMap' = reverseMap \/ MapBack(t) \/ Unreverse(t)
         /\ levels' = levels \/ StoreLevel(t) \/ Unlevel(t)
         /\ vectors' = vectors \/ StoreVector(t) \/ Unvector(t)
         /\ graph' = graph \/ Link(t)
         /\ nextId' = nextId \/ GetNextId(t)
  BY DEF Step, Call, RejectVector, CheckId, GetNextId, MapId, MapBack, StoreLevel, StoreVector, Link, Unmap,
     Unreverse, Unlevel, Unvector, index, maps

\* Where a step takes a thread in its call.
LEMMA StepWorking ==
  ASSUME IndexTypes, ThreadTypes, NEW t \in Thread, Step(t)
  PROVE  /\ \A u \in Thread \ {t} : thread'[u] = thread[u] /\ Working(u)' = Working(u)
         /\ thread'[t].pc \in Midway =>
              /\ thread[t].pc # "idle"
              /\ Working(t)' = Working(t) /\ Current(t)' = Current(t)
<1>1. \A u \in Thread \ {t} : thread'[u] = thread[u]
  BY StepShape DEF ThreadTypes
<1>2. \A u \in Thread \ {t} : Working(u)' = Working(u)
  BY <1>1 DEF Working, Current, Victim
<1>3. thread'[t].pc \in Midway => thread[t].pc # "idle" /\ \E p : Reaches(t, p)
  <2>1. thread \in [Thread -> Local]
    BY DEF ThreadTypes
  <2>2. QED
    BY <2>1, Moves DEF Step, At, Resting, Midway, Inserting, Deleting
<1>4. ASSUME NEW p, Reaches(t, p) PROVE Working(t)' = Working(t) /\ Current(t)' = Current(t)
  BY <1>4 DEF Reaches, Working
<1>5. QED
  BY <1>1, <1>2, <1>3, <1>4

\* (See WorkingNamed.)
LEMMA StepAmong ==
  ASSUME Owned, IndexTypes, ThreadTypes, NEW t \in Thread, Step(t), NEW pcs \in SUBSET Midway
  PROVE  \A id : IF thread[t].pc # "idle" /\ id = Working(t)
                   THEN (Among(id, pcs) <=> thread[t].pc \in pcs) /\ (Among(id, pcs)' <=> thread'[t].pc \in pcs)
                   ELSE Among(id, pcs)' <=> Among(id, pcs)
<1>1. /\ \A u \in Thread \ {t} : thread'[u] = thread[u] /\ Working(u)' = Working(u)
      /\ thread'[t].pc \in pcs => thread[t].pc # "idle" /\ Working(t)' = Working(t)
  BY StepWorking
<1>2. "idle" \notin pcs
  BY DEF Midway, Inserting, Deleting
<1>3. ASSUME NEW id, thread[t].pc # "idle", id = Working(t)
      PROVE  (Among(id, pcs) <=> thread[t].pc \in pcs) /\ (Among(id, pcs)' <=> thread'[t].pc \in pcs)
  <2>1. \A u \in Thread \ {t} : thread[u].pc \in pcs => Working(u) # id
    BY <1>2, <1>3, WorkingApart
  <2>2. Among(id, pcs) <=> thread[t].pc \in pcs
    BY <1>3, <2>1 DEF Among, On
  <2>3. Among(id, pcs)' <=> thread'[t].pc \in pcs
    BY <1>1, <1>3, <2>1 DEF Among, On
  <2>4. QED
    BY <2>2, <2>3
<1>4. ASSUME NEW id, ~(thread[t].pc # "idle" /\ id = Working(t))
      PROVE  Among(id, pcs)' <=> Among(id, pcs)
  <2>1. ~On(t, id, pcs) /\ ~On(t, id, pcs)'
    BY <1>1, <1>2, <1>4 DEF On
  <2>2. QED
    BY <1>1, <2>1 DEF Among, On
<1>5. QED
  BY <1>3, <1>4

\* A thread's step adds or removes only the id it works on, when the maps say so.
LEMMA StepDomains ==
  ASSUME Owned, IndexTypes, ThreadTypes, DomainsInv, NEW t \in Thread, Step(t)
  PROVE  DomainsInv'
<1> DEFINE w == Working(t)
<1>t. thread \in [Thread -> Local] /\ Working(t) = w
  BY DEF ThreadTypes
<1>w. /\ \A u \in Thread \ {t} : thread'[u] = thread[u] /\ Working(u)' = Working(u)
      /\ thread'[t].pc \in Midway => thread[t].pc # "idle" /\ Working(t)' = w
  BY StepWorking
<1>c. /\ thread[t].pc \in Inserting \cup {"check"} => Current(t).id = w
      /\ thread[t].pc \in Deleting \cup {"unmap"} => Victim(t) = w
  BY CallTypes
<1>a. \A id : \A pcs \in SUBSET Midway :
        IF thread[t].pc # "idle" /\ id = w
          THEN (Among(id, pcs) <=> thread[t].pc \in pcs) /\ (Among(id, pcs)' <=> thread'[t].pc \in pcs)
          ELSE Among(id, pcs)' <=> Among(id, pcs)
  BY StepAmong
<1>p. \A u \in Thread \ {t} : thread[u].pc \in Midway => thread[t].pc = "idle" \/ Working(u) # w
  BY WorkingApart DEF Midway, Inserting, Deleting
<1> HIDE DEF w
<1>m. /\ At(t, "map") \/ At(t, "level") \/ At(t, "vector") => Current(t).id = w
      /\ At(t, "unmap") \/ At(t, "unlevel") \/ At(t, "unvector") => Victim(t) = w
  BY <1>c DEF At, Inserting, Deleting
\* Of the other ids nothing changes.
<1>i. \A id : (thread[t].pc = "idle" \/ id # w) =>
        /\ id \in DOMAIN idMap' <=> id \in DOMAIN idMap
        /\ id \in DOMAIN levels' <=> id \in DOMAIN levels
        /\ id \in DOMAIN vectors' <=> id \in DOMAIN vectors
  <2>1. \A id : (thread[t].pc = "idle" \/ id # w) => (id \in DOMAIN idMap' <=> id \in DOMAIN idMap)
    <3>1. CASE idMap' = idMap
      BY <3>1
    <3>2. CASE MapId(t)
      BY <3>2, <1>m DEF MapId, Overlay, At
    <3>3. CASE Unmap(t) /\ idMap' = Without(idMap, {Victim(t)})
      BY <3>3, <1>m DEF Unmap, Without, At
    <3>4. QED
      BY <3>1, <3>2, <3>3, Writes
  <2>2. \A id : (thread[t].pc = "idle" \/ id # w) => (id \in DOMAIN levels' <=> id \in DOMAIN levels)
    <3>1. CASE levels' = levels
      BY <3>1
    <3>2. CASE StoreLevel(t)
      BY <3>2, <1>m DEF StoreLevel, Overlay, At
    <3>3. CASE Unlevel(t)
      BY <3>3, <1>m DEF Unlevel, Without, At
    <3>4. QED
      BY <3>1, <3>2, <3>3, Writes
  <2>3. \A id : (thread[t].pc = "idle" \/ id # w) => (id \in DOMAIN vectors' <=> id \in DOMAIN vectors)
    <3>1. CASE vectors' = vectors
      BY <3>1
    <3>2. CASE StoreVector(t)
      BY <3>2, <1>m DEF StoreVector, Overlay, At
    <3>3. CASE Unvector(t)
      BY <3>3, <1>m DEF Unvector, Without, At
    <3>4. QED
      BY <3>1, <3>2, <3>3, Writes
  <2>4. QED
    BY <2>1, <2>2, <2>3
\* Of the id it works on.
<1>d. thread[t].pc # "idle" =>
        /\ w \in DOMAIN levels <=>
             (w \in DOMAIN idMap /\ thread[t].pc \notin {"reverse", "level"}) \/ thread[t].pc \in {"unreverse", "unlevel"}
        /\ w \in DOMAIN vectors <=>
             (w \in DOMAIN idMap /\ thread[t].pc \notin {"reverse", "level", "vector"}) \/ thread[t].pc \in Deleting
        /\ thread[t].pc \in {"number", "map"} \cup Deleting => w \notin DOMAIN idMap
        /\ thread[t].pc \in {"reverse", "level", "vector", "graph"} => w \in DOMAIN idMap
  <2>1. thread[t].pc # "idle" => w \in Id
    BY <1>t, WorkingNamed
  <2>2. {"reverse", "level"} \in SUBSET Midway /\ {"unreverse", "unlevel"} \in SUBSET Midway
        /\ {"reverse", "level", "vector"} \in SUBSET Midway /\ Deleting \in SUBSET Midway
    BY DEF Midway, Inserting, Deleting
  <2>3. QED
    BY <1>t, <1>a, <2>1, <2>2 DEF DomainsInv
<1>1. ASSUME thread[t].pc # "idle"
      PROVE  /\ w \in DOMAIN levels' <=>
                  (w \in DOMAIN idMap' /\ thread'[t].pc \notin {"reverse", "level"}) \/ thread'[t].pc \in {"unreverse", "unlevel"}
             /\ w \in DOMAIN vectors' <=>
                  (w \in DOMAIN idMap' /\ thread'[t].pc \notin {"reverse", "level", "vector"}) \/ thread'[t].pc \in Deleting
             /\ thread'[t].pc \in {"number", "map"} \cup Deleting => w \notin DOMAIN idMap'
             /\ thread'[t].pc \in {"reverse", "level", "vector", "graph"} => w \in DOMAIN idMap'
  <2> USE <1>1, <1>d, <1>m, <1>t, Moves DEF At, Reaches, Deleting, Resting
  <2>1. CASE RejectVector(t)
    BY <2>1 DEF RejectVector, index, maps
  <2>2. CASE CheckId(t)
    BY <2>2, <1>c DEF CheckId, index, maps
  <2>3. CASE GetNextId(t)
    BY <2>3 DEF GetNextId, maps
  <2>4. CASE MapId(t)
    BY <2>4 DEF MapId, Overlay
  <2>5. CASE MapBack(t)
    BY <2>5 DEF MapBack
  <2>6. CASE StoreLevel(t)
    BY <2>6 DEF StoreLevel, Overlay
  <2>7. CASE StoreVector(t)
    BY <2>7 DEF StoreVector, Overlay
  <2>8. CASE Link(t)
    <3>1. UNCHANGED <<idMap, levels, vectors>>
      BY <2>8 DEF Link, maps
    <3>2. QED
      BY <2>8, <3>1
  <2>9. CASE Unmap(t)
    BY <2>9 DEF Unmap, Without
  <2>10. CASE Unreverse(t)
    BY <2>10 DEF Unreverse
  <2>11. CASE Unlevel(t)
    BY <2>11 DEF Unlevel, Without
  <2>12. CASE Unvector(t)
    BY <2>12 DEF Unvector, Without
  <2>13. QED
    BY <2>1, <2>2, <2>3, <2>4, <2>5, <2>6, <2>7, <2>8, <2>9, <2>10, <2>11, <2>12 DEF Step, Call
<1>2. \A id \in Id :
       /\ id \in DOMAIN levels' <=>
            (id \in DOMAIN idMap' /\ ~Among(id, {"reverse", "level"})') \/ Among(id, {"unreverse", "unlevel"})'
       /\ id \in DOMAIN vectors' <=>
            (id \in DOMAIN idMap' /\ ~Among(id, {"reverse", "level", "vector"})') \/ Among(id, Deleting)'
  <2> TAKE id \in Id
  <2>1. {"reverse", "level"} \in SUBSET Midway /\ {"unreverse", "unlevel"} \in SUBSET Midway
        /\ {"reverse", "level", "vector"} \in SUBSET Midway /\ Deleting \in SUBSET Midway
    BY DEF Midway, Inserting, Deleting
  <2>2. CASE thread[t].pc # "idle" /\ id = w
    BY <2>1, <2>2, <1>1, <1>a
  <2>3. CASE ~(thread[t].pc # "idle" /\ id = w)
    BY <2>1, <2>3, <1>i, <1>a DEF DomainsInv
  <2>4. QED
    BY <2>2, <2>3
<1>3. \A u \in Thread :
       /\ thread'[u].pc \in {"number", "map"} \cup Deleting => Working(u)' \notin DOMAIN idMap'
       /\ thread'[u].pc \in {"reverse", "level", "vector", "graph"} => Working(u)' \in DOMAIN idMap'
  <2> TAKE u \in Thread
  <2>1. CASE u = t
    BY <2>1, <1>1, <1>w DEF Midway, Inserting
  <2>2. CASE u # t
    BY <2>2, <1>w, <1>p, <1>i DEF DomainsInv, Midway, Inserting
  <2>3. QED
    BY <2>1, <2>2
<1>4. QED
  BY <1>2, <1>3 DEF DomainsInv

\* The numbers: a thread draws one nobody has, and enters it in both maps.
LEMMA StepNumbers ==
  ASSUME Owned, TypeInv, NumbersBelow, DomainsInv, MapsMirrored, \A u \in Thread : NumberMine(u),
         NEW t \in Thread, Step(t)
  PROVE  MapsMirrored' /\ \A u \in Thread : NumberMine(u)'
<1> DEFINE w == Working(t)
           n == thread[t].node
<1>t. thread \in [Thread -> Local] /\ thread[t] \in Local /\ w = Working(t) /\ n = thread[t].node
      /\ IndexTypes /\ ThreadTypes
  BY DEF TypeInv, ThreadTypes
<1>w. /\ \A u \in Thread \ {t} : thread'[u] = thread[u] /\ Working(u)' = Working(u)
      /\ thread'[t].pc \in Midway => thread[t].pc # "idle" /\ Working(t)' = w
  BY <1>t, StepWorking
<1>c. /\ thread[t].pc \in Inserting \cup {"check"} => Current(t).id = w
      /\ thread[t].pc \in Deleting \cup {"unmap"} => Victim(t) = w
  BY <1>t, CallTypes
<1>m. /\ At(t, "map") \/ At(t, "reverse") => Current(t).id = w
      /\ At(t, "unmap") => Victim(t) = w
  BY <1>c DEF At, Inserting
<1>a. \A id : \A pcs \in SUBSET Midway :
        IF thread[t].pc # "idle" /\ id = w
          THEN (Among(id, pcs) <=> thread[t].pc \in pcs) /\ (Among(id, pcs)' <=> thread'[t].pc \in pcs)
          ELSE Among(id, pcs)' <=> Among(id, pcs)
  BY <1>t, StepAmong
<1>p. \A u \in Thread \ {t} : thread[u].pc \in Midway => thread[t].pc = "idle" \/ Working(u) # w
  BY <1>t, WorkingApart DEF Midway, Inserting, Deleting
<1>r. {"reverse"} \in SUBSET Midway
  BY DEF Midway, Inserting
<1>d. /\ At(t, "map") \/ At(t, "unreverse") => w \notin DOMAIN idMap
      /\ \A u \in Thread : thread[u].pc \in Drawn \ {"map"} => Working(u) \in DOMAIN idMap
  BY <1>t DEF DomainsInv, At, Deleting, Drawn
<1>n. /\ thread[t].pc \in {"map", "reverse"} => n \notin DOMAIN reverseMap
      /\ At(t, "reverse") => idMap[w] = n
      /\ At(t, "unreverse") => n \in DOMAIN reverseMap /\ reverseMap[n] = w
      /\ \A u \in Thread \ {t} : {thread[t].pc, thread[u].pc} \subseteq Drawn => thread[u].node # n
  BY <1>t DEF NumberMine, At, Drawn
<1>i. /\ nextId \in Nat /\ \A id \in DOMAIN idMap : idMap[id] \in Nat
      /\ \A k \in DOMAIN reverseMap : k \in Nat /\ \A u \in Thread : thread[u].node \in Nat
  BY <1>t DEF IndexTypes, MapsTo, Local
<1> HIDE DEF w, n
\* What a thread has drawn stays its own.
<1>k. thread'[t].pc \in Drawn =>
        \/ thread'[t].pc = "map" /\ thread'[t].node = nextId
        \/ thread'[t].pc # "map" /\ thread[t].pc \in Drawn /\ thread'[t].node = n
  BY <1>t, Moves DEF Step, Reaches, Resting, At, Drawn
<1>q. \A u, v \in Thread : u # v =>
        ({thread'[u].pc, thread'[v].pc} \subseteq Drawn => thread'[u].node # thread'[v].node)
  <2>1. \A u \in Thread \ {t} : {thread'[t].pc, thread'[u].pc} \subseteq Drawn => thread'[t].node # thread'[u].node
    BY <1>i, <1>k, <1>n, <1>w DEF NumbersBelow
  <2>2. \A u, v \in Thread \ {t} : u # v =>
          ({thread'[u].pc, thread'[v].pc} \subseteq Drawn => thread'[u].node # thread'[v].node)
    BY <1>w DEF NumberMine
  <2>3. QED
    BY <2>1, <2>2
<1>1. CASE UNCHANGED <<idMap, reverseMap>> /\ ~MapId(t) /\ ~MapBack(t) /\ ~Unreverse(t)
           /\ thread'[t].pc # "unreverse"
  <2>1. /\ thread[t].pc \notin {"map", "reverse", "unreverse"} /\ thread'[t].pc \notin {"reverse", "unreverse"}
        /\ thread'[t].pc \in Drawn \ {"map"} =>
             thread[t].pc \in Drawn \ {"map"} /\ thread'[t].node = n
        /\ thread'[t].pc = "map" => thread'[t].node = nextId
    BY <1>1, <1>t, Moves DEF Step, Reaches, Resting, At, Drawn
  <2>2. MapsMirrored'
    <3>1. \A id \in DOMAIN idMap : Among(id, {"reverse"}) => Among(id, {"reverse"})'
      BY <1>a, <1>r, <2>1
    <3>2. \A u \in Thread : thread[u].pc = "unreverse" => u # t
      BY <2>1
    <3>3. \A k \in DOMAIN reverseMap : \A u \in Thread :
            On(u, reverseMap[k], {"unreverse"}) /\ thread[u].node = k
              => (On(u, reverseMap[k], {"unreverse"}) /\ thread[u].node = k)'
      BY <1>1, <1>w, <3>2 DEF On
    <3>4. QED
      BY <1>1, <3>1, <3>3 DEF MapsMirrored
  <2>3. ASSUME NEW u \in Thread PROVE NumberMine(u)'
    <3>1. CASE u = t
      <4>1. CASE thread'[t].pc = "map"
        <5>1. \A id \in DOMAIN idMap : idMap[id] # nextId
          BY <1>i DEF NumbersBelow
        <5>2. nextId \notin DOMAIN reverseMap
          BY <1>i DEF NumbersBelow
        <5>3. QED
          BY <1>1, <1>q, <2>1, <3>1, <4>1, <5>1, <5>2 DEF NumberMine, At, Drawn
      <4>2. CASE thread'[t].pc # "map"
        BY <1>1, <1>w, <1>q, <2>1, <3>1, <4>2, <1>t DEF NumberMine, At, Drawn, Midway, Inserting
      <4>3. QED
        BY <4>1, <4>2
    <3>2. CASE u # t
      BY <1>1, <1>w, <1>q, <3>2 DEF NumberMine, At
    <3>3. QED
      BY <3>1, <3>2
  <2>4. QED
    BY <2>2, <2>3
<1>2. CASE MapId(t)
  <2>1. /\ thread[t].pc = "map" /\ thread'[t].pc = "reverse" /\ thread'[t].node = n /\ Working(t)' = w
        /\ w \notin DOMAIN idMap /\ reverseMap' = reverseMap
        /\ idMap' = Overlay([i \in {w} |-> n], idMap)
    BY <1>2, <1>t, <1>w, <1>m, <1>d, Moves DEF MapId, Reaches, At, Midway, Inserting
  <2>2. /\ DOMAIN idMap' = DOMAIN idMap \cup {w} /\ idMap'[w] = n
        /\ \A id \in DOMAIN idMap : id # w /\ idMap'[id] = idMap[id]
    BY <2>1 DEF Overlay
  <2>3. MapsMirrored'
    <3>1. /\ \A id : id = w => Among(id, {"reverse"})'
          /\ \A id \in DOMAIN idMap : Among(id, {"reverse"})' <=> Among(id, {"reverse"})
      BY <1>a, <1>r, <2>1, <2>2
    <3>2. \A k \in DOMAIN reverseMap : \A u \in Thread :
            On(u, reverseMap[k], {"unreverse"}) /\ thread[u].node = k
              => (On(u, reverseMap[k], {"unreverse"}) /\ thread[u].node = k)'
      BY <1>w, <2>1 DEF On
    <3>3. \A id \in DOMAIN idMap' :
            Among(id, {"reverse"})' \/ (idMap'[id] \in DOMAIN reverseMap /\ reverseMap[idMap'[id]] = id)
      BY <2>1, <2>2, <3>1 DEF MapsMirrored
    <3>4. QED
      BY <2>1, <2>2, <3>2, <3>3 DEF MapsMirrored
  <2>4. ASSUME NEW u \in Thread PROVE NumberMine(u)'
    <3>1. CASE u = t
      BY <1>n, <1>q, <2>1, <2>2, <3>1 DEF NumberMine, At, Drawn
    <3>2. CASE u # t
      <4>1. thread[u].pc \in Drawn => thread[u].node # n
        BY <1>n, <2>1, <3>2 DEF Drawn
      <4>2. thread[u].pc \in Drawn \ {"map"} => Working(u) \in DOMAIN idMap
        BY <1>d
      <4>3. QED
        BY <1>w, <1>q, <2>1, <2>2, <3>2, <4>1, <4>2 DEF NumberMine, At, Drawn
    <3>3. QED
      BY <3>1, <3>2
  <2>5. QED
    BY <2>3, <2>4
<1>3. CASE MapBack(t)
  <2>1. /\ thread[t].pc = "reverse" /\ thread'[t].pc = "level" /\ thread'[t].node = n /\ Working(t)' = w
        /\ n \notin DOMAIN reverseMap /\ idMap[w] = n /\ idMap' = idMap /\ w \in DOMAIN idMap
        /\ reverseMap' = Overlay([i \in {n} |-> w], reverseMap)
    BY <1>3, <1>t, <1>w, <1>m, <1>d, <1>n, Moves DEF MapBack, Reaches, At, Midway, Inserting, Drawn
  <2>2. /\ DOMAIN reverseMap' = DOMAIN reverseMap \cup {n} /\ reverseMap'[n] = w
        /\ \A k \in DOMAIN reverseMap : k # n /\ reverseMap'[k] = reverseMap[k]
    BY <2>1 DEF Overlay
  <2>3. MapsMirrored'
    <3>1. \A id \in DOMAIN idMap : id # w => (Among(id, {"reverse"})' <=> Among(id, {"reverse"}))
      BY <1>a, <1>r
    <3>2. \A k \in DOMAIN reverseMap : \A u \in Thread :
            On(u, reverseMap[k], {"unreverse"}) /\ thread[u].node = k
              => thread'[u].pc = "unreverse" /\ Working(u)' = reverseMap'[k] /\ thread'[u].node = k
      BY <1>w, <2>1, <2>2 DEF On
    <3>3. QED
      BY <2>1, <2>2, <3>1, <3>2 DEF MapsMirrored, On
  <2>4. ASSUME NEW u \in Thread PROVE NumberMine(u)'
    <3>1. CASE u = t
      BY <1>q, <2>1, <2>2, <3>1 DEF NumberMine, At, Drawn
    <3>2. CASE u # t
      <4>1. thread[u].pc \in Drawn => thread[u].node # n
        BY <1>n, <2>1, <3>2 DEF Drawn
      <4>2. QED
        BY <1>w, <1>q, <2>1, <2>2, <3>2, <4>1 DEF NumberMine, At, Drawn
    <3>3. QED
      BY <3>1, <3>2
  <2>5. QED
    BY <2>3, <2>4
<1>4. CASE Unmap(t) /\ idMap' = Without(idMap, {Victim(t)}) /\ Reaches(t, "unreverse")
  <2>1. /\ thread[t].pc = "unmap" /\ thread'[t].pc = "unreverse" /\ Working(t)' = w
        /\ w \in DOMAIN idMap /\ thread'[t].node = idMap[w]
        /\ reverseMap' = reverseMap /\ idMap' = Without(idMap, {w})
    BY <1>4, <1>t, <1>w, <1>m, Moves DEF Unmap, Reaches, At, Midway, Deleting, Resting
  <2>2. /\ DOMAIN idMap' = DOMAIN idMap \ {w}
        /\ \A id \in DOMAIN idMap' : idMap'[id] = idMap[id]
    BY <2>1 DEF Without
  <2>3. idMap[w] \in DOMAIN reverseMap /\ reverseMap[idMap[w]] = w
    BY <1>a, <1>r, <2>1 DEF MapsMirrored
  <2>4. MapsMirrored'
    <3>1. \A id \in DOMAIN idMap' : Among(id, {"reverse"})' <=> Among(id, {"reverse"})
      BY <1>a, <1>r, <2>2
    <3>2. \A k \in DOMAIN reverseMap : \A u \in Thread :
            On(u, reverseMap[k], {"unreverse"}) /\ thread[u].node = k
              => thread'[u].pc = "unreverse" /\ Working(u)' = reverseMap'[k] /\ thread'[u].node = k
      BY <1>w, <2>1 DEF On
    <3>3. \A k \in DOMAIN reverseMap : reverseMap[k] = w /\ idMap[w] = k
              => thread'[t].pc = "unreverse" /\ Working(t)' = reverseMap'[k] /\ thread'[t].node = k
      BY <2>1
    <3>4. \A id \in DOMAIN idMap' :
            Among(id, {"reverse"})' \/ (idMap'[id] \in DOMAIN reverseMap' /\ reverseMap'[idMap'[id]] = id)
      BY <2>1, <2>2, <3>1 DEF MapsMirrored
    <3>5. \A k \in DOMAIN reverseMap' :
            \/ \E u \in Thread : thread'[u].pc = "unreverse" /\ Working(u)' = reverseMap'[k] /\ thread'[u].node = k
            \/ reverseMap'[k] \in DOMAIN idMap' /\ idMap'[reverseMap'[k]] = k
      <4> TAKE k \in DOMAIN reverseMap'
      <4>1. CASE reverseMap[k] \in DOMAIN idMap /\ idMap[reverseMap[k]] = k
        BY <2>1, <2>2, <3>3, <4>1
      <4>2. CASE \E u \in Thread : On(u, reverseMap[k], {"unreverse"}) /\ thread[u].node = k
        BY <2>1, <3>2, <4>2
      <4>3. QED
        BY <2>1, <4>1, <4>2 DEF MapsMirrored
    <3>6. QED
      BY <3>4, <3>5 DEF MapsMirrored, On
  <2>5. ASSUME NEW u \in Thread PROVE NumberMine(u)'
    <3>1. CASE u = t
      BY <1>q, <2>1, <2>3, <3>1 DEF NumberMine, At, Drawn
    <3>2. CASE u # t
      <4>1. thread[u].pc \in Drawn \ {"map"} => Working(u) \in DOMAIN idMap'
        BY <1>d, <1>p, <2>1, <2>2, <3>2 DEF Drawn, Midway, Inserting
      <4>2. QED
        <5>1. At(u, "map") => \A id \in DOMAIN idMap' : idMap'[id] # thread[u].node
          BY <2>1, <2>2 DEF NumberMine
        <5>2. thread[u].pc \in Drawn \ {"map"} => idMap'[Working(u)] = thread[u].node
          BY <2>1, <2>2, <4>1 DEF NumberMine
        <5>3. /\ thread[u].pc \in {"map", "reverse"} => thread[u].node \notin DOMAIN reverseMap'
              /\ At(u, "unreverse") => thread[u].node \in DOMAIN reverseMap' /\ reverseMap'[thread[u].node] = Working(u)
          BY <2>1, <2>2, <4>1 DEF NumberMine
        <5>4. QED
          BY <1>w, <1>q, <3>2, <5>1, <5>2, <5>3 DEF NumberMine, At
    <3>3. QED
      BY <3>1, <3>2
  <2>6. QED
    BY <2>4, <2>5
<1>5. CASE Unreverse(t)
  <2>1. /\ thread[t].pc = "unreverse" /\ thread'[t].pc = "unlevel"
        /\ w \notin DOMAIN idMap /\ n \in DOMAIN reverseMap /\ reverseMap[n] = w
        /\ idMap' = idMap /\ reverseMap' = Without(reverseMap, {n})
    BY <1>5, <1>t, <1>d, <1>n, Moves DEF Unreverse, Reaches, At
  <2>2. /\ DOMAIN reverseMap' = DOMAIN reverseMap \ {n}
        /\ \A k \in DOMAIN reverseMap' : reverseMap'[k] = reverseMap[k]
    BY <2>1 DEF Without
  <2>3. MapsMirrored'
    <3>1. \A id \in DOMAIN idMap : Among(id, {"reverse"})' <=> Among(id, {"reverse"})
      BY <1>a, <1>r, <2>1
    <3>2. \A k \in DOMAIN reverseMap' : \A u \in Thread :
            On(u, reverseMap[k], {"unreverse"}) /\ thread[u].node = k
              => thread'[u].pc = "unreverse" /\ Working(u)' = reverseMap'[k] /\ thread'[u].node = k
      BY <1>w, <1>t, <2>1, <2>2 DEF On
    <3>4. \A id \in DOMAIN idMap' :
            Among(id, {"reverse"})' \/ (idMap'[id] \in DOMAIN reverseMap' /\ reverseMap'[idMap'[id]] = id)
      <4> TAKE id \in DOMAIN idMap'
      <4>1. CASE idMap[id] \in DOMAIN reverseMap /\ reverseMap[idMap[id]] = id
        <5>1. idMap[id] # n
          BY <2>1, <4>1
        <5>2. QED
          BY <2>1, <2>2, <4>1, <5>1
      <4>2. CASE Among(id, {"reverse"})
        BY <2>1, <3>1, <4>2
      <4>3. QED
        BY <2>1, <4>1, <4>2 DEF MapsMirrored
    <3>5. \A k \in DOMAIN reverseMap' :
            \/ \E u \in Thread : thread'[u].pc = "unreverse" /\ Working(u)' = reverseMap'[k] /\ thread'[u].node = k
            \/ reverseMap'[k] \in DOMAIN idMap' /\ idMap'[reverseMap'[k]] = k
      <4> TAKE k \in DOMAIN reverseMap'
      <4>1. CASE reverseMap[k] \in DOMAIN idMap /\ idMap[reverseMap[k]] = k
        BY <2>1, <2>2, <4>1
      <4>2. CASE \E u \in Thread : On(u, reverseMap[k], {"unreverse"}) /\ thread[u].node = k
        BY <2>1, <3>2, <4>2
      <4>3. QED
        BY <2>1, <2>2, <4>1, <4>2 DEF MapsMirrored
    <3>6. QED
      BY <3>4, <3>5 DEF MapsMirrored, On
  <2>4. ASSUME NEW u \in Thread PROVE NumberMine(u)'
    <3>1. CASE u = t
      BY <1>q, <2>1, <2>2, <3>1 DEF NumberMine, At, Drawn
    <3>2. CASE u # t
      <4>1. At(u, "unreverse") => thread[u].node # n
        BY <1>p, <2>1, <3>2 DEF NumberMine, At, Midway, Deleting
      <4>2. QED
        <5>1. At(u, "map") => \A id \in DOMAIN idMap' : idMap'[id] # thread[u].node
          BY <2>1, <2>2 DEF NumberMine
        <5>2. thread[u].pc \in Drawn \ {"map"} => idMap'[Working(u)] = thread[u].node
          BY <2>1, <2>2, <4>1 DEF NumberMine
        <5>3. /\ thread[u].pc \in {"map", "reverse"} => thread[u].node \notin DOMAIN reverseMap'
              /\ At(u, "unreverse") => thread[u].node \in DOMAIN reverseMap' /\ reverseMap'[thread[u].node] = Working(u)
          BY <2>1, <2>2, <4>1 DEF NumberMine
        <5>4. QED
          BY <1>w, <1>q, <3>2, <5>1, <5>2, <5>3 DEF NumberMine, At
    <3>3. QED
      BY <3>1, <3>2
  <2>5. QED
    BY <2>3, <2>4
<1>6. QED
  <2>1. CASE Unmap(t) /\ Victim(t) \in DOMAIN idMap
    <3>1. idMap' = Without(idMap, {Victim(t)}) /\ thread'[t].pc = "unreverse"
      BY <2>1, <1>t DEF Unmap, Local
    <3>2. Reaches(t, "unreverse")
      BY <2>1, <3>1, <1>t, Moves DEF Resting
    <3>3. QED
      BY <1>4, <2>1, <3>1, <3>2
  <2>2. CASE Unmap(t) /\ Victim(t) \notin DOMAIN idMap
    <3>1. thread'[t].pc # "unreverse" /\ UNCHANGED <<idMap, reverseMap>> /\ At(t, "unmap")
      BY <2>2, <1>t, Moves DEF Unmap, Return, Resting
    <3>2. QED
      BY <1>1, <3>1, <1>t, Moves DEF At
  <2>3. CASE ~Unmap(t) /\ ~MapId(t) /\ ~MapBack(t) /\ ~Unreverse(t)
    <3>1. UNCHANGED <<idMap, reverseMap>>
      BY <2>3, Writes
    <3>2. thread'[t].pc # "unreverse"
      BY <2>3, <1>t, Moves DEF Step, Reaches, Resting, At
    <3>3. QED
      BY <1>1, <2>3, <3>1, <3>2
  <2>4. QED
    BY <1>2, <1>3, <1>5, <2>1, <2>2, <2>3

\* Numbers of different ids differ, unless a thread is still at one of the two.
LEMMA MappedApart ==
  ASSUME MapsMirrored, NEW i \in DOMAIN idMap, NEW j \in DOMAIN idMap, idMap[i] = idMap[j],
         ~Among(i, {"reverse"}), ~Among(j, {"reverse"})
  PROVE  i = j
  BY DEF MapsMirrored

\* The graph: a thread links the node of the number it drew, and then the vector
\* is in place.
LEMMA StepNodes ==
  ASSUME Owned, TypeInv, NumbersBelow, DomainsInv, MapsMirrored, \A u \in Thread : NumberMine(u),
         NodesLinked, NEW t \in Thread, Step(t)
  PROVE  NodesLinked'
<1> DEFINE w == Working(t)
           n == thread[t].node
<1>t. thread \in [Thread -> Local] /\ w = Working(t) /\ n = thread[t].node /\ IndexTypes /\ ThreadTypes
  BY DEF TypeInv, ThreadTypes
<1>w. /\ \A u \in Thread \ {t} : thread'[u] = thread[u] /\ Working(u)' = Working(u) /\ Current(u)' = Current(u)
      /\ thread'[t].pc \in Midway => thread[t].pc # "idle" /\ Working(t)' = w /\ Current(t)' = Current(t)
  BY <1>t, StepWorking DEF Current
<1>m. /\ At(t, "map") \/ At(t, "vector") => Current(t).id = w
      /\ At(t, "unvector") \/ At(t, "unmap") => Victim(t) = w
  BY <1>t, CallTypes DEF At, Inserting, Deleting
<1>a. \A id :
        IF thread[t].pc # "idle" /\ id = w
          THEN (Among(id, Inserting) <=> thread[t].pc \in Inserting) /\ (Among(id, Inserting)' <=> thread'[t].pc \in Inserting)
          ELSE Among(id, Inserting)' <=> Among(id, Inserting)
  BY <1>t, StepAmong DEF Midway
<1>p. \A u \in Thread \ {t} : thread[u].pc \in Midway => thread[t].pc = "idle" \/ Working(u) # w
  BY <1>t, WorkingApart DEF Midway, Inserting, Deleting
<1>n. /\ thread[t].pc \in Drawn => \A g \in graph : g.node # n
      /\ At(t, "graph") => vectors[w] = Current(t).vec
      /\ thread[t].pc \in Drawn \ {"map"} => idMap[w] = n /\ w \in DOMAIN idMap
      /\ thread[t].pc \in Deleting => w \notin DOMAIN idMap
      /\ \A u \in Thread \ {t} : {thread[t].pc, thread[u].pc} \subseteq Drawn => thread[u].node # n
  BY <1>t DEF NodesLinked, NumberMine, DomainsInv, Drawn
<1>i. nextId \in Nat /\ \A g \in graph : g.node # nextId
  BY <1>t DEF IndexTypes, NumbersBelow
<1> HIDE DEF w, n
<1>k. thread'[t].pc \in Drawn =>
        \/ thread'[t].pc = "map" /\ thread'[t].node = nextId /\ graph' = graph
        \/ thread'[t].pc # "map" /\ thread[t].pc \in Drawn /\ thread'[t].node = n /\ graph' = graph
  <2>1. thread'[t].pc \in Drawn =>
        \/ thread'[t].pc = "map" /\ thread'[t].node = nextId
        \/ thread'[t].pc # "map" /\ thread[t].pc \in Drawn /\ thread'[t].node = n
    BY <1>t, Moves DEF Step, Reaches, Resting, At, Drawn
  <2>2. Link(t) => thread'[t].pc \notin Drawn
    BY <1>t, Moves DEF Resting, At, Drawn
  <2>3. graph' = graph \/ Link(t)
    BY Writes
  <2>4. QED
    BY <2>1, <2>2, <2>3
\* What is true of the nodes of the threads.
<1>1. \A u \in Thread : thread'[u].pc \in Drawn => \A g \in graph' : g.node # thread'[u].node
  <2>1. \A g \in graph' : thread'[t].pc \in Drawn => g.node # thread'[t].node
    BY <1>k, <1>n, <1>i
  <2>2. ASSUME NEW u \in Thread \ {t}, thread[u].pc \in Drawn, NEW g \in graph'
        PROVE  g.node # thread[u].node
    <3>1. CASE g \in graph
      BY <2>2, <3>1 DEF NodesLinked
    <3>2. CASE g \notin graph
      <4>1. Link(t) /\ At(t, "graph")
        BY <3>2, <1>t, Writes, Moves
      <4>2. g.node = n /\ thread[u].node # n
        BY <4>1, <3>2, <2>2, <1>n, <1>t DEF Link, At, Drawn
      <4>3. QED
        BY <4>2
    <3>3. QED
      BY <3>1, <3>2
  <2>3. QED
    BY <2>1, <2>2, <1>w
\* What is true of the vectors they stored.
<1>v. \A id : id # w /\ id \in DOMAIN vectors => id \in DOMAIN vectors' /\ vectors'[id] = vectors[id]
  <2>1. CASE StoreVector(t)
    BY <2>1, <1>m DEF StoreVector, Overlay, At
  <2>2. CASE Unvector(t)
    BY <2>2, <1>m DEF Unvector, Without, At
  <2>3. QED
    BY <2>1, <2>2, Writes
<1>2. \A u \in Thread : At(u, "graph")' =>
        Working(u)' \in DOMAIN vectors' /\ vectors'[Working(u)'] = Current(u)'.vec
  <2>1. ASSUME At(t, "graph")' PROVE w \in DOMAIN vectors' /\ vectors'[w] = Current(t).vec
    <3>1. StoreVector(t)
      BY <2>1, <1>t, Moves DEF Step, Reaches, Resting, At
    <3>2. QED
      BY <3>1, <1>m DEF StoreVector, Overlay
  <2>2. ASSUME NEW u \in Thread \ {t}, At(u, "graph")
        PROVE  Working(u) \in DOMAIN vectors' /\ vectors'[Working(u)] = Current(u).vec
    <3>1. /\ vectors[Working(u)] = Current(u).vec /\ Working(u) \in DOMAIN vectors
          /\ thread[t].pc = "idle" \/ Working(u) # w
      BY <2>2, <1>p DEF NodesLinked, At, Midway, Inserting
    <3>2. CASE Working(u) # w
      BY <3>1, <3>2, <1>v
    <3>3. CASE thread[t].pc = "idle"
      BY <3>1, <3>3, Writes DEF StoreVector, Unvector, At
    <3>4. QED
      BY <3>1, <3>2, <3>3
  <2>3. QED
    BY <2>1, <2>2, <1>w DEF At, Midway, Inserting
\* What is true of the ids in place.
<1>3. ASSUME NEW id \in DOMAIN idMap', ~Among(id, Inserting)' PROVE NodeOf(id)'
  <2>1. CASE thread[t].pc # "idle" /\ id = w
    <3>1. thread'[t].pc \notin Inserting
      BY <1>a, <1>3, <2>1
    <3>2. CASE Link(t)
      <4>1. /\ idMap' = idMap /\ vectors' = vectors /\ At(t, "graph")
            /\ graph' = graph \cup {[node |-> n, vec |-> Prepared[Current(t).vec]]}
        BY <3>2, <1>t DEF Link, maps
      <4>2. idMap[w] = n /\ vectors[w] = Current(t).vec /\ \A g \in graph : g.node # n
        BY <4>1, <1>n DEF At, Drawn
      <4>3. QED
        BY <2>1, <4>1, <4>2 DEF NodeOf
    <3>3. CASE ~Link(t)
      <4>1. thread[t].pc \notin Inserting /\ ~StoreVector(t)
        BY <3>1, <3>3, <1>t, Moves DEF Step, Reaches, Resting, At, Inserting
      <4>2. ~Unmap(t) \/ idMap' = idMap
        BY <1>3, <2>1, <1>m DEF Unmap, Without
      <4>3. thread[t].pc \notin Deleting \/ idMap' # idMap
        BY <1>3, <2>1, <1>n
      <4>4. idMap' = idMap /\ vectors' = vectors /\ graph' = graph
        <5>1. ~MapId(t)
          BY <4>1, <1>t, Moves DEF At, Inserting
        <5>2. idMap' = idMap
          BY <4>2, <5>1, Writes
        <5>3. ~Unvector(t)
          BY <4>3, <5>2, <1>t, Moves DEF At, Deleting
        <5>4. QED
          BY <3>3, <4>1, <5>2, <5>3, Writes
      <4>5. ~Among(id, Inserting)
        BY <1>a, <2>1, <4>1
      <4>6. QED
        BY <1>3, <4>4, <4>5 DEF NodesLinked, NodeOf
    <3>4. QED
      BY <3>2, <3>3
  <2>2. CASE ~(thread[t].pc # "idle" /\ id = w)
    <3>1. ~Among(id, Inserting)
      BY <1>a, <1>3, <2>2
    <3>2. id \in DOMAIN idMap /\ idMap'[id] = idMap[id]
      <4>1. CASE MapId(t)
        BY <1>3, <2>2, <4>1, <1>m DEF MapId, Overlay, At
      <4>2. CASE Unmap(t) /\ idMap' = Without(idMap, {Victim(t)})
        BY <1>3, <4>2 DEF Without
      <4>3. QED
        BY <1>3, <4>1, <4>2, Writes
    <3>3. id \in DOMAIN vectors /\ vectors'[id] = vectors[id]
      <4>1. id \in Id /\ ~Among(id, {"reverse", "level", "vector"})
        BY <1>t, <3>1, <3>2 DEF IndexTypes, MapsTo, Among, On, Inserting
      <4>2. id \in DOMAIN vectors
        BY <3>2, <4>1 DEF DomainsInv
      <4>3. thread[t].pc = "idle" => vectors' = vectors
        BY Writes DEF StoreVector, Unvector, At
      <4>4. QED
        BY <1>v, <2>2, <4>2, <4>3
    <3>4. CASE graph' = graph
      BY <3>1, <3>2, <3>3, <3>4 DEF NodesLinked, NodeOf
    <3>5. CASE Link(t)
      <4>1. /\ graph' = graph \cup {[node |-> n, vec |-> Prepared[Current(t).vec]]}
            /\ At(t, "graph")
        BY <3>5, <1>t DEF Link
      <4>2. idMap[w] = n /\ w \in DOMAIN idMap /\ id # w
        BY <4>1, <2>2, <1>n DEF At, Drawn
      <4>3. ~Among(w, {"reverse"}) /\ ~Among(id, {"reverse"})
        <5>1. ~Among(id, {"reverse"})
          BY <3>1 DEF Among, On, Inserting
        <5>2. \A u \in Thread \ {t} : thread[u].pc = "reverse" => Working(u) # w
          BY <1>p, <4>1 DEF At, Midway, Inserting
        <5>3. QED
          BY <4>1, <5>1, <5>2 DEF Among, On, At
      <4>4. idMap[id] # n
        BY <3>2, <4>2, <4>3, MappedApart
      <4>5. QED
        BY <3>1, <3>2, <3>3, <4>1, <4>4 DEF NodesLinked, NodeOf
    <3>6. QED
      BY <3>4, <3>5, Writes
  <2>3. QED
    BY <2>1, <2>2
<1>4. QED
  BY <1>1, <1>2, <1>3 DEF NodesLinked

\* A restart mends the maps, the graph and the threads: it builds them all from
\* the same set of ids.
LEMMA RestartMends ==
  ASSUME TypeInv, Restart
  PROVE  DomainsInv' /\ MapsMirrored' /\ (\A t \in Thread : NumberMine(t)') /\ NodesLinked'
<1>1. RestoreIndex /\ \A t \in Thread : thread'[t].pc = "idle"
  BY DEF Restart, Resting
<1>2. \A id : \A pcs \in SUBSET Midway : ~Among(id, pcs)'
  BY <1>1 DEF Among, On, Midway, Inserting, Deleting
<1>3. DomainsInv'
  <2>1. {"reverse", "level"} \in SUBSET Midway /\ {"unreverse", "unlevel"} \in SUBSET Midway
        /\ {"reverse", "level", "vector"} \in SUBSET Midway /\ Deleting \in SUBSET Midway
    BY DEF Midway, Inserting, Deleting
  <2>2. QED
    BY <1>1, <1>2, <2>1, Restored DEF DomainsInv, Drawn, Deleting
<1>4. MapsMirrored'
  BY <1>1, Restored DEF MapsMirrored
<1>5. \A t \in Thread : NumberMine(t)'
  BY <1>1 DEF NumberMine, At, Drawn
<1>6. \A id \in DOMAIN idMap' : NodeOf(id)'
  <2> TAKE id \in DOMAIN idMap'
  <2>1. \A g \in graph' : g.node = idMap'[id] <=> g = [node |-> idMap'[id], vec |-> Prepared[vectors'[id]]]
    BY <1>1, Restored
  <2>2. [node |-> idMap'[id], vec |-> Prepared[vectors'[id]]] \in graph'
    BY <1>1, Restored
  <2>3. QED
    BY <2>1, <2>2 DEF NodeOf
<1>7. NodesLinked'
  BY <1>1, <1>6 DEF NodesLinked, At, Drawn
<1>8. QED
  BY <1>3, <1>4, <1>5, <1>7

\* The invariant of the index at rest and in the middle of calls.
IndexInv == FreshInv /\ DomainsInv /\ NumbersInv /\ NodesInv

\* (See IndexInv.)
LEMMA IndexStep ==
  ASSUME Owned, TypeInv, IndexInv, [Next]_vars
  PROVE  IndexInv'
<1> USE DEF IndexInv
<1>f. FreshInv'
  BY FreshStep
<1>1. CASE UNCHANGED <<index, thread, torn>>
  <2>1. DomainsInv'
    BY <1>1 DEF index, maps, DomainsInv, Among, On, Working, Current, Victim
  <2>2. MapsMirrored' <=> MapsMirrored
    BY <1>1 DEF index, maps, MapsMirrored, Among, On, Working, Current, Victim
  <2>3. \A t \in Thread : NumberMine(t)' <=> NumberMine(t)
    BY <1>1 DEF index, maps, NumberMine, At, Working, Current, Victim
  <2>4. NodesLinked' <=> NodesLinked
    BY <1>1 DEF index, maps, NodesLinked, NodeOf, Among, On, At, Working, Current, Victim
  <2>5. QED
    BY <1>1, <1>f, <2>1, <2>2, <2>3, <2>4 DEF NumbersInv, NodesInv
<1>2. CASE ServeBesideSaves
  <2>1. PICK t \in Thread : Step(t)
    BY <1>2 DEF ServeBesideSaves, Serve
  <2>2. torn' = torn
    BY <1>2 DEF ServeBesideSaves
  <2>3. DomainsInv'
    BY <2>1, StepDomains DEF TypeInv
  <2>4. ASSUME ~torn PROVE MapsMirrored' /\ (\A u \in Thread : NumberMine(u)') /\ NodesLinked'
    <3>1. NumbersBelow /\ MapsMirrored /\ (\A u \in Thread : NumberMine(u)) /\ NodesLinked
      BY <2>4 DEF FreshInv, NumbersInv, NodesInv
    <3>2. QED
      BY <2>1, <3>1, StepNumbers, StepNodes
  <2>5. QED
    BY <1>f, <2>2, <2>3, <2>4 DEF NumbersInv, NodesInv
<1>3. CASE BeginSave \/ CopyNext \/ PutOne \/ EndSave
  BY <1>1, <1>3 DEF BeginSave, CopyNext, PutOne, EndSave, history
<1>4. CASE Restart
  BY <1>4, <1>f, RestartMends DEF NumbersInv, NodesInv
<1>5. QED
  BY <1>1, <1>2, <1>3, <1>4 DEF Next, vars, history

\* (See IndexInv.)
LEMMA IndexInitially == PersistInit => IndexInv
<1> SUFFICES ASSUME PersistInit PROVE IndexInv
  OBVIOUS
<1>1. /\ DOMAIN idMap = {} /\ DOMAIN reverseMap = {} /\ DOMAIN levels = {} /\ DOMAIN vectors = {}
      /\ graph = {} /\ \A t \in Thread : thread[t].pc = "idle"
  BY DOMAIN <<>> = {} DEF PersistInit, Init, NewIndex, Resting
<1>2. FreshInv
  BY FreshInitially
<1>3. DomainsInv
  BY <1>1 DEF DomainsInv, Among, On, Drawn, Deleting
<1>4. NumbersInv
  BY <1>1 DEF NumbersInv, MapsMirrored, NumberMine, At, Drawn
<1>5. NodesInv
  BY <1>1 DEF NodesInv, NodesLinked, At, Drawn
<1>6. QED
  BY <1>2, <1>3, <1>4, <1>5 DEF IndexInv

\* Nobody works on a settled id.
LEMMA SettledIdle ==
  ASSUME ThreadTypes, NEW id, Settled(id), NEW pcs \in SUBSET Midway
  PROVE  ~Among(id, pcs)
<1>1. \A t \in Thread : thread[t].pc \in Midway => Working(t) \in Named(thread[t].call)
  BY WorkingNamed DEF Midway, Inserting, Deleting
<1>2. QED
  BY <1>1 DEF Settled, Among, On

\* What the invariant says of ids no call under way is about.
LEMMA IndexAtRest ==
  ASSUME TypeInv, IndexInv
  PROVE  MapsInverse /\ Searchable
<1>1. TypesFit
  BY DEF TypeInv, IndexTypes, ThreadTypes, TypesFit, Deleting
<1>2. ThreadTypes /\ {"reverse", "level"} \in SUBSET Midway /\ {"unreverse", "unlevel"} \in SUBSET Midway
      /\ {"reverse", "level", "vector"} \in SUBSET Midway /\ Deleting \in SUBSET Midway /\ Inserting \in SUBSET Midway
      /\ {"reverse"} \in SUBSET Midway /\ {"unreverse"} \in SUBSET Midway
  BY DEF TypeInv, Midway, Inserting, Deleting
<1>3. \A id : Settled(id) => \A pcs \in SUBSET Midway : ~Among(id, pcs)
  BY <1>2, SettledIdle
<1>4. \A id \in Id : Settled(id) =>
        (id \in DOMAIN idMap <=> id \in DOMAIN levels) /\ (id \in DOMAIN idMap <=> id \in DOMAIN vectors)
  BY <1>2, <1>3 DEF IndexInv, DomainsInv
<1>5. ASSUME ~torn
      PROVE  /\ \A id \in Held : idMap[id] \in DOMAIN reverseMap /\ reverseMap[idMap[id]] = id
             /\ \A n \in DOMAIN reverseMap : Settled(reverseMap[n]) =>
                  reverseMap[n] \in DOMAIN idMap /\ idMap[reverseMap[n]] = n
  <2>1. MapsMirrored
    BY <1>5 DEF IndexInv, NumbersInv
  <2>2. \A n \in DOMAIN reverseMap : Settled(reverseMap[n]) =>
          ~\E t \in Thread : On(t, reverseMap[n], {"unreverse"})
    BY <1>2, <1>3 DEF Among
  <2>3. QED
    BY <1>2, <1>3, <2>1, <2>2 DEF MapsMirrored, Held
<1>6. ASSUME ~torn, NEW id \in Held
      PROVE  ReportedAs(id) = {[node |-> idMap[id], vec |-> Prepared[vectors[id]]]}
  <2>1. NodeOf(id) /\ id \in DOMAIN idMap /\ Settled(id)
    BY <1>2, <1>3, <1>6 DEF IndexInv, NodesInv, NodesLinked, Held
  <2>2. \A g \in graph : (g.node \in DOMAIN reverseMap /\ reverseMap[g.node] = id) <=> g.node = idMap[id]
    BY <1>5, <1>6, <2>1
  <2>3. ReportedAs(id) = {g \in graph : g.node = idMap[id]}
    BY <2>2 DEF ReportedAs, Live, ExternalId
  <2>4. QED
    BY <2>1, <2>3 DEF NodeOf
<1>7. Held = {id \in DOMAIN levels : Settled(id)} /\ Held = {id \in DOMAIN vectors : Settled(id)}
  BY <1>4 DEF Held, TypeInv, IndexTypes, MapsTo
<1>8. QED
  BY <1>1, <1>5, <1>6, <1>7 DEF MapsInverse, Searchable

\* At rest the maps are inverse to each other and hold levels and vectors for
\* what they map, whatever saves and calls went on at once and whenever the
\* process died between saves (hnsw.rs 115-228).
THEOREM MapsStayInverse == ASSUME Owned PROVE Spec => []MapsInverse
<1>1. TypeInv /\ IndexInv /\ [Next]_vars => IndexInv'
  BY IndexStep
<1>2. TypeInv /\ IndexInv => MapsInverse
  BY IndexAtRest
<1>3. QED
  BY <1>1, <1>2, Typed, IndexInitially, PTL DEF Spec

\* Every vector the index holds at rest has one live node, where it belongs, and
\* none other is reported under its id (hnsw.rs 115-174).
THEOREM VectorsStayFound == ASSUME Owned PROVE Spec => []Searchable
<1>1. TypeInv /\ IndexInv /\ [Next]_vars => IndexInv'
  BY IndexStep
<1>2. TypeInv /\ IndexInv => Searchable
  BY IndexAtRest
<1>3. QED
  BY <1>1, <1>2, Typed, IndexInitially, PTL DEF Spec

(***************************************************************************)
(* What finished saves found is kept, whoever shares ids.                   *)
(***************************************************************************)
\* A thread that maps an id finds nobody deleting and stores the rest itself.
LEMMA StepMapped ==
  ASSUME IndexTypes, ThreadTypes, MappedInv, NEW t \in Thread, Step(t)
  PROVE  MappedInv'
<1> DEFINE w == Working(t)
<1>t. thread \in [Thread -> Local] /\ w = Working(t)
  BY DEF ThreadTypes
<1>w. /\ \A u \in Thread \ {t} : thread'[u] = thread[u] /\ Working(u)' = Working(u)
      /\ thread'[t].pc \in Midway => thread[t].pc # "idle" /\ Working(t)' = w
  BY StepWorking
<1>m. /\ At(t, "map") \/ At(t, "level") \/ At(t, "vector") => Current(t).id = w
      /\ At(t, "unmap") \/ At(t, "unlevel") \/ At(t, "unvector") => Victim(t) = w
  BY CallTypes DEF At, Inserting, Deleting
<1>d. \A u \in Thread : thread[u].pc \in Deleting => Working(u) \notin DOMAIN idMap
  BY DEF MappedInv
<1> HIDE DEF w
<1>1. \A u \in Thread : thread'[u].pc \in Deleting => Working(u)' \notin DOMAIN idMap'
  <2>1. CASE MapId(t)
    <3>1. thread'[t].pc = "reverse" /\ ~IdMapLocked
      BY <2>1, <1>t, Moves DEF MapId, Reaches
    <3>2. QED
      BY <3>1, <1>w DEF IdMapLocked, Deleting
  <2>2. CASE Unmap(t)
    <3>1. thread'[t].pc \in Deleting => w \notin DOMAIN idMap' /\ Working(t)' = w
      BY <2>2, <1>t, <1>m, <1>w, Moves DEF Unmap, Without, Return, Resting, Deleting, Midway
    <3>2. DOMAIN idMap' \subseteq DOMAIN idMap
      BY <2>2 DEF Unmap, Without
    <3>3. QED
      BY <3>1, <3>2, <1>w, <1>d
  <2>3. CASE ~MapId(t) /\ ~Unmap(t)
    <3>1. idMap' = idMap
      BY <2>3, Writes
    <3>2. thread'[t].pc \in Deleting => thread[t].pc \in Deleting /\ Working(t)' = w
      BY <2>3, <1>t, <1>w, Moves DEF Step, Reaches, Resting, At, Deleting, Midway
    <3>3. QED
      BY <3>1, <3>2, <1>t, <1>w, <1>d
  <2>4. QED
    BY <2>1, <2>2, <2>3
\* The steps before a thread stores the level, and before it stores the vector.
<1>a. ASSUME NEW id, NEW pcs \in SUBSET Midway, Among(id, pcs), ~Among(id, pcs)'
      PROVE  thread[t].pc \in pcs /\ thread'[t].pc \notin pcs /\ id = w
  BY <1>a, <1>w, <1>t DEF Among, On
<1>2. ASSUME NEW id \in DOMAIN idMap' PROVE id \in DOMAIN levels' \/ Among(id, {"reverse", "level"})'
  <2>1. CASE id \notin DOMAIN idMap
    <3>1. MapId(t) /\ id = w
      BY <1>2, <2>1, <1>m, Writes DEF MapId, Overlay, Without
    <3>2. thread'[t].pc = "reverse" /\ Working(t)' = w
      BY <3>1, <1>t, <1>w, Moves DEF Reaches, Midway, Inserting
    <3>3. QED
      BY <3>1, <3>2 DEF Among, On
  <2>2. CASE id \in DOMAIN levels /\ id \in DOMAIN idMap
    <3>1. Unlevel(t) => id # w
      BY <2>2, <1>t, <1>d, Moves DEF At, Deleting
    <3>2. QED
      BY <2>2, <3>1, <1>m, Writes DEF StoreLevel, Unlevel, Overlay, Without, At
  <2>3. CASE Among(id, {"reverse", "level"})
    <3>1. ASSUME ~Among(id, {"reverse", "level"})' PROVE id \in DOMAIN levels'
      <4>1. thread[t].pc \in {"reverse", "level"} /\ thread'[t].pc \notin {"reverse", "level"} /\ id = w
        BY <1>a, <2>3, <3>1 DEF Midway, Inserting
      <4>2. StoreLevel(t)
        BY <4>1, <1>t, Moves DEF Step, Reaches, At
      <4>3. QED
        BY <4>1, <4>2, <1>m DEF StoreLevel, Overlay
    <3>2. QED
      BY <3>1
  <2>4. QED
    BY <2>1, <2>2, <2>3 DEF MappedInv
<1>3. ASSUME NEW id \in DOMAIN idMap' PROVE id \in DOMAIN vectors' \/ Among(id, {"reverse", "level", "vector"})'
  <2>1. CASE id \notin DOMAIN idMap
    <3>1. MapId(t) /\ id = w
      BY <1>3, <2>1, <1>m, Writes DEF MapId, Overlay, Without
    <3>2. thread'[t].pc = "reverse" /\ Working(t)' = w
      BY <3>1, <1>t, <1>w, Moves DEF Reaches, Midway, Inserting
    <3>3. QED
      BY <3>1, <3>2 DEF Among, On
  <2>2. CASE id \in DOMAIN vectors /\ id \in DOMAIN idMap
    <3>1. Unvector(t) => id # w
      BY <2>2, <1>t, <1>d, Moves DEF At, Deleting
    <3>2. QED
      BY <2>2, <3>1, <1>m, Writes DEF StoreVector, Unvector, Overlay, Without, At
  <2>3. CASE Among(id, {"reverse", "level", "vector"})
    <3>1. ASSUME ~Among(id, {"reverse", "level", "vector"})' PROVE id \in DOMAIN vectors'
      <4>1. thread[t].pc \in {"reverse", "level", "vector"} /\ thread'[t].pc \notin {"reverse", "level", "vector"} /\ id = w
        BY <1>a, <2>3, <3>1 DEF Midway, Inserting
      <4>2. StoreVector(t)
        BY <4>1, <1>t, Moves DEF Step, Reaches, At
      <4>3. QED
        BY <4>1, <4>2, <1>m DEF StoreVector, Overlay
    <3>2. QED
      BY <3>1
  <2>4. QED
    BY <2>1, <2>2, <2>3 DEF MappedInv
<1>4. QED
  BY <1>1, <1>2, <1>3 DEF MappedInv

\* While an id is neither deleted nor past the check of an insert, nobody
\* changes what the index has of it.
LEMMA StepAgrees ==
  ASSUME TypeInv, NEW t \in Thread, Step(t), UNCHANGED saver,
         NEW id, NEW e, Agrees(id, e), id \notin Doomed'
  PROVE  Agrees(id, e)'
<1> DEFINE w == Working(t)
<1>t. thread \in [Thread -> Local] /\ w = Working(t) /\ IndexTypes /\ ThreadTypes
  BY DEF TypeInv, ThreadTypes
<1>w. /\ \A u \in Thread \ {t} : thread'[u] = thread[u] /\ Working(u)' = Working(u)
      /\ thread'[t].pc \in Midway => thread[t].pc # "idle" /\ Working(t)' = w
  BY <1>t, StepWorking
<1>i. thread[t].pc \in Inserting \cup {"check"} => Current(t).id = w
  BY <1>t, CallTypes
<1>1. thread[t].pc \in Deleting \cup {"unmap"} => Victim(t) # id
  <2>1. SUFFICES ASSUME thread[t].pc \in Deleting \cup {"unmap"}, Victim(t) = id PROVE FALSE
    OBVIOUS
  <2>2. thread[t].call.op = "delete" /\ id \in Named(thread[t].call)
    BY <1>t, <2>1, CallTypes DEF Named, Victim
  <2>3. id \in Doomed
    BY <2>2 DEF Doomed
  <2>4. QED
    BY <2>3 DEF Agrees
<1>2. thread[t].pc \in Inserting => w # id
  BY <1>t DEF Agrees, Among, On
<1> HIDE DEF w
<1>3. ~Among(id, Inserting)'
  <2>1. thread'[t].pc \in Inserting => w # id
    <3>1. CASE CheckId(t)
      BY <1>t, <1>i, <3>1, Moves DEF Reaches, Resting, At, Agrees, Inserting
    <3>2. CASE ~CheckId(t)
      <4>1. thread'[t].pc \in Inserting => thread[t].pc \in Inserting
        BY <1>t, <3>2, Moves DEF Step, Reaches, Resting, At, Inserting
      <4>2. QED
        BY <1>2, <4>1
    <3>3. QED
      BY <3>1, <3>2
  <2>2. QED
    BY <1>w, <2>1 DEF Agrees, Among, On, Midway
<1>4. id \in DOMAIN idMap'
  BY <1>1, Writes DEF Agrees, MapId, Unmap, Overlay, Without, At
<1>5. id \in DOMAIN vectors' /\ vectors'[id] = e.vec
  <2>1. CASE StoreVector(t)
    BY <1>2, <1>i, <2>1 DEF Agrees, StoreVector, Overlay, At, Inserting
  <2>2. CASE Unvector(t)
    BY <1>1, <2>2 DEF Agrees, Unvector, Without, At, Deleting
  <2>3. QED
    BY <2>1, <2>2, Writes DEF Agrees
<1>6. id \in DOMAIN levels' /\ levels'[id] = e.level
  <2>1. CASE StoreLevel(t)
    BY <1>2, <1>i, <2>1 DEF Agrees, StoreLevel, Overlay, At, Inserting
  <2>2. CASE Unlevel(t)
    BY <1>1, <2>2 DEF Agrees, Unlevel, Without, At, Deleting
  <2>3. QED
    BY <2>1, <2>2, Writes DEF Agrees
<1>7. QED
  BY <1>3, <1>4, <1>5, <1>6 DEF Agrees, Copied

\* What a save finds at its beginning agrees with the index.
LEMMA BeginAgrees ==
  ASSUME TypeInv, MappedInv, BeginSave, NEW id \in Held
  PROVE  Agrees(id, [vec |-> vectors[id], level |-> levels[id]])'
<1>1. id \in DOMAIN idMap /\ Settled(id) /\ ThreadTypes
  BY DEF Held, TypeInv
<1>2. ~Among(id, Inserting) /\ ~Among(id, {"reverse", "level"}) /\ ~Among(id, {"reverse", "level", "vector"})
  BY <1>1, SettledIdle DEF Midway, Inserting
<1>3. id \notin Doomed
  BY <1>1 DEF Doomed, Settled
<1>4. id \in DOMAIN levels /\ id \in DOMAIN vectors
  BY <1>1, <1>2 DEF MappedInv
<1>5. UNCHANGED <<index, thread>> /\ saver'.stage = 0
  BY DEF BeginSave, NoSave
<1>6. id \notin Doomed' /\ ~Among(id, Inserting)'
  BY <1>2, <1>3, <1>5 DEF Doomed, Among, On, Working, Current, Victim
<1>7. QED
  BY <1>1, <1>4, <1>5, <1>6 DEF Agrees, Copied, index, maps

\* A stage copies what the index has.
LEMMA CopyAgrees ==
  ASSUME TypeInv, CopyNext, NEW id, NEW e, Agrees(id, e)
  PROVE  Agrees(id, e)' /\ (PutSoFar(id, e) => PutSoFar(id, e)')
<1>1. /\ UNCHANGED <<index, thread, db>> /\ saver.todo = <<>>
      /\ saver'.stage = saver.stage + 1 /\ saver.stage \in 0..4
      /\ saver'.todo = Content(Stages[saver.stage + 1])
  BY StageTypes DEF CopyNext, TypeInv, SaveTypes
<1>2. /\ saver'.stage = 1 => saver'.todo = idMap
      /\ saver'.stage = 3 => saver'.todo = levels
      /\ saver'.stage = 4 => saver'.todo = vectors
  BY <1>1, StageTypes DEF Content
<1>3. /\ id \in Copied("levels")' => saver'.todo[id] = e.level
      /\ id \in Copied("vectors")' => saver'.todo[id] = e.vec
  BY <1>1, <1>2, StageTypes DEF Copied, Agrees
<1>4. Agrees(id, e)'
  <2>1. id \notin Doomed' /\ ~Among(id, Inserting)'
    BY <1>1 DEF Agrees, Doomed, Among, On, Working, Current, Victim
  <2>2. QED
    BY <1>1, <1>3, <2>1 DEF Agrees, index, maps
<1>5. /\ HasPut(1, id)' => HasPut(1, id)
      /\ HasPut(3, id)' => HasPut(3, id)
      /\ HasPut(4, id)' => HasPut(4, id)
  BY <1>1, <1>2, DOMAIN <<>> = {} DEF HasPut, Agrees
<1>6. QED
  BY <1>1, <1>4, <1>5 DEF PutSoFar

\* A put writes what the index has.
LEMMA PutAgrees ==
  ASSUME TypeInv, PutOne, NEW id, NEW e, Agrees(id, e)
  PROVE  /\ Agrees(id, e)'
         /\ PutSoFar(id, e) => PutSoFar(id, e)'
         /\ Stored(id, e) => Stored(id, e)'
<1>1. PICK k \in DOMAIN saver.todo :
        /\ db' = [db EXCEPT ![Stages[saver.stage]] = Overlay(Only(saver.todo, {k}), @)]
        /\ saver' = [saver EXCEPT !.todo = Without(@, {k})]
  BY DEF PutOne
<1>2. /\ saver.stage \in 1..5 /\ DOMAIN saver = {"busy", "stage", "todo"} /\ DOMAIN db = Families
      /\ Stages[saver.stage] \in Families
  BY <1>1, StageTypes, DOMAIN <<>> = {} DEF TypeInv, SaveTypes
<1>3. UNCHANGED <<index, thread>> /\ saver'.stage = saver.stage /\ saver'.todo = Without(saver.todo, {k})
  BY <1>1, <1>2 DEF PutOne
<1>4. /\ DOMAIN saver'.todo = DOMAIN saver.todo \ {k}
      /\ \A i \in DOMAIN saver'.todo : saver'.todo[i] = saver.todo[i]
  BY <1>3 DEF Without
<1>5. \A f \in Families :
        IF f = Stages[saver.stage]
          THEN /\ DOMAIN db'[f] = DOMAIN db[f] \cup {k} /\ db'[f][k] = saver.todo[k]
               /\ \A i \in DOMAIN db[f] : i # k => db'[f][i] = db[f][i]
          ELSE db'[f] = db[f]
  BY <1>1, <1>2 DEF Overlay, Only
<1>6. Agrees(id, e)'
  <2>1. id \notin Doomed' /\ ~Among(id, Inserting)'
    BY <1>3 DEF Agrees, Doomed, Among, On, Working, Current, Victim
  <2>2. /\ id \in Copied("levels")' => id \in Copied("levels") /\ saver'.todo[id] = saver.todo[id]
        /\ id \in Copied("vectors")' => id \in Copied("vectors") /\ saver'.todo[id] = saver.todo[id]
    BY <1>3, <1>4 DEF Copied
  <2>3. QED
    BY <1>3, <2>1, <2>2 DEF Agrees, index, maps
<1>7. /\ id \in DOMAIN db["map"] => id \in DOMAIN db'["map"]
      /\ id \in DOMAIN db["levels"] /\ db["levels"][id] = e.level => id \in DOMAIN db'["levels"] /\ db'["levels"][id] = e.level
      /\ id \in DOMAIN db["vectors"] /\ db["vectors"][id] = e.vec => id \in DOMAIN db'["vectors"] /\ db'["vectors"][id] = e.vec
  <2>1. Stages[saver.stage] = "levels" /\ k = id => saver.todo[k] = e.level
    BY <1>2 DEF Agrees, Copied
  <2>2. Stages[saver.stage] = "vectors" /\ k = id => saver.todo[k] = e.vec
    BY <1>2 DEF Agrees, Copied
  <2>3. QED
    BY <1>5, <2>1, <2>2 DEF Families
<1>8. PutSoFar(id, e) => PutSoFar(id, e)'
  <2>1. HasPut(1, id)' => HasPut(1, id) \/ (Stages[saver.stage] = "map" /\ id = k)
    BY <1>2, <1>3, <1>4, StageTypes DEF HasPut
  <2>2. HasPut(3, id)' => HasPut(3, id) \/ (Stages[saver.stage] = "levels" /\ id = k)
    BY <1>2, <1>3, <1>4, StageTypes DEF HasPut
  <2>3. HasPut(4, id)' => HasPut(4, id) \/ (Stages[saver.stage] = "vectors" /\ id = k)
    BY <1>2, <1>3, <1>4, StageTypes DEF HasPut
  <2>4. /\ Stages[saver.stage] = "map" /\ id = k => id \in DOMAIN db'["map"]
        /\ Stages[saver.stage] = "levels" /\ id = k => id \in DOMAIN db'["levels"] /\ db'["levels"][id] = e.level
        /\ Stages[saver.stage] = "vectors" /\ id = k => id \in DOMAIN db'["vectors"] /\ db'["vectors"][id] = e.vec
    BY <1>2, <1>5 DEF Families, Agrees, Copied
  <2>5. QED
    BY <1>7, <2>1, <2>2, <2>3, <2>4 DEF PutSoFar
<1>9. QED
  BY <1>6, <1>7, <1>8 DEF Stored

\* What is kept agrees with the index and is at the path, what the save under
\* way covers agrees with the index and is at the path as far as it has got.
LEMMA KeptStep ==
  ASSUME TypeInv, MappedInv, KeptInv, [Next]_vars
  PROVE  MappedInv' /\ KeptInv'
<1>t. IndexTypes /\ ThreadTypes /\ saver.stage \in 0..5
  BY DEF TypeInv, SaveTypes
<1>i. UNCHANGED <<index, thread>> => MappedInv'
  BY DEF MappedInv, index, maps, Among, On, Working, Current, Victim
<1>k. /\ \A id \in DOMAIN kept : Agrees(id, kept[id]) /\ Stored(id, kept[id])
      /\ \A id \in DOMAIN covered : Agrees(id, covered[id]) /\ PutSoFar(id, covered[id])
  BY DEF KeptInv
<1>1. CASE UNCHANGED vars
  <2>1. \A id, e : /\ Agrees(id, e)' <=> Agrees(id, e)
                   /\ PutSoFar(id, e)' <=> PutSoFar(id, e)
                   /\ Stored(id, e)' <=> Stored(id, e)
    BY <1>1 DEF vars, index, maps, Agrees, PutSoFar, Stored, HasPut, Copied, Doomed, Among, On, Working, Current, Victim
  <2>2. kept' = kept /\ covered' = covered
    BY <1>1 DEF vars, history
  <2>3. QED
    BY <1>1, <1>i, <1>k, <2>1, <2>2 DEF KeptInv, vars
<1>2. CASE ServeBesideSaves
  <2>1. PICK t \in Thread : Step(t)
    BY <1>2 DEF ServeBesideSaves, Serve
  <2>2. UNCHANGED <<db, saver>> /\ kept' = Without(kept, Doomed') /\ covered' = Without(covered, Doomed')
    BY <1>2 DEF ServeBesideSaves
  <2>3. \A id, e : Agrees(id, e) /\ id \notin Doomed' => Agrees(id, e)'
    BY <2>1, <2>2, StepAgrees
  <2>4. \A id, e : (PutSoFar(id, e) => PutSoFar(id, e)') /\ (Stored(id, e) => Stored(id, e)')
    BY <2>2 DEF PutSoFar, HasPut, Stored
  <2>5. /\ \A id \in DOMAIN kept' : id \in DOMAIN kept /\ id \notin Doomed' /\ kept'[id] = kept[id]
        /\ \A id \in DOMAIN covered' : id \in DOMAIN covered /\ id \notin Doomed' /\ covered'[id] = covered[id]
    BY <2>2 DEF Without
  <2>6. KeptInv'
    BY <1>k, <2>3, <2>4, <2>5 DEF KeptInv
  <2>7. QED
    BY <1>t, <2>1, <2>6, StepMapped
<1>3. CASE BeginSave
  <2>1. /\ UNCHANGED <<index, thread, db>> /\ kept' = kept /\ saver'.stage = 0
        /\ covered' = [id \in Held |-> [vec |-> vectors[id], level |-> levels[id]]]
    BY <1>3 DEF BeginSave, NoSave
  <2>2. \A id, e : id \in DOMAIN covered' /\ e = covered'[id] => Agrees(id, e)'
    <3> SUFFICES ASSUME NEW id, NEW e, id \in DOMAIN covered', e = covered'[id] PROVE Agrees(id, e)'
      OBVIOUS
    <3>1. id \in Held /\ e = [vec |-> vectors[id], level |-> levels[id]]
      BY <2>1
    <3>2. Agrees(id, [vec |-> vectors[id], level |-> levels[id]])'
      BY <1>3, <3>1, BeginAgrees
    <3>3. vectors' = vectors /\ levels' = levels
      BY <2>1 DEF index, maps
    <3>4. QED
      BY <3>1, <3>2, <3>3
  <2>3. \A id, e : PutSoFar(id, e)'
    BY <2>1 DEF PutSoFar, HasPut
  <2>4. \A id, e : Agrees(id, e) => Agrees(id, e)'
    BY <2>1 DEF Agrees, index, maps, Copied, Doomed, Among, On, Working, Current, Victim
  <2>5. \A id, e : Stored(id, e) => Stored(id, e)'
    BY <2>1 DEF Stored
  <2>6. KeptInv'
    BY <1>k, <2>1, <2>2, <2>3, <2>4, <2>5 DEF KeptInv
  <2>7. QED
    BY <1>i, <2>1, <2>6
<1>4. CASE CopyNext
  <2>1. UNCHANGED <<index, thread, db, kept, covered>>
    BY <1>4 DEF CopyNext, history
  <2>2. \A id, e : Agrees(id, e) => Agrees(id, e)' /\ (PutSoFar(id, e) => PutSoFar(id, e)')
    BY <1>4, CopyAgrees
  <2>3. \A id, e : Stored(id, e) => Stored(id, e)'
    BY <2>1 DEF Stored
  <2>4. QED
    BY <1>i, <1>k, <2>1, <2>2, <2>3 DEF KeptInv
<1>5. CASE PutOne
  <2>1. UNCHANGED <<index, thread, kept, covered>>
    BY <1>5 DEF PutOne, history
  <2>2. \A id, e : Agrees(id, e) => Agrees(id, e)' /\ (PutSoFar(id, e) => PutSoFar(id, e)') /\ (Stored(id, e) => Stored(id, e)')
    BY <1>5, PutAgrees
  <2>3. QED
    BY <1>i, <1>k, <2>1, <2>2 DEF KeptInv
<1>6. CASE EndSave
  <2>1. /\ UNCHANGED <<index, thread, db>> /\ saver'.stage = 0 /\ saver'.todo = <<>>
        /\ saver.stage = 5 /\ saver.todo = <<>>
        /\ kept' = Overlay(covered, kept) /\ DOMAIN covered' = {}
    BY <1>6, StageTypes, DOMAIN <<>> = {} DEF EndSave, NoSave
  <2>2. \A id, e : Agrees(id, e) => Agrees(id, e)'
    BY <2>1 DEF Agrees, index, maps, Copied, Doomed, Among, On, Working, Current, Victim
  <2>3. \A id, e : PutSoFar(id, e) => Stored(id, e)'
    BY <2>1 DEF PutSoFar, HasPut, Stored
  <2>4. \A id, e : Stored(id, e) => Stored(id, e)'
    BY <2>1 DEF Stored
  <2>5. /\ DOMAIN kept' = DOMAIN covered \cup DOMAIN kept
        /\ \A id \in DOMAIN kept' : kept'[id] = IF id \in DOMAIN covered THEN covered[id] ELSE kept[id]
    BY <2>1 DEF Overlay
  <2>6. \A id, e : id \in DOMAIN kept' /\ e = kept'[id] => Agrees(id, e)' /\ Stored(id, e)'
    <3> SUFFICES ASSUME NEW id, NEW e, id \in DOMAIN kept', e = kept'[id] PROVE Agrees(id, e)' /\ Stored(id, e)'
      OBVIOUS
    <3>1. CASE id \in DOMAIN covered
      BY <3>1, <1>k, <2>2, <2>3, <2>4, <2>5
    <3>2. CASE id \notin DOMAIN covered
      BY <3>2, <1>k, <2>2, <2>4, <2>5
    <3>3. QED
      BY <3>1, <3>2
  <2>7. KeptInv'
    BY <2>1, <2>6 DEF KeptInv
  <2>8. QED
    BY <1>i, <2>1, <2>7
<1>7. CASE Restart
  <2>1. /\ RestoreIndex /\ db' = db /\ kept' = kept /\ DOMAIN covered' = {} /\ saver'.stage = 0
        /\ \A t \in Thread : thread'[t].pc = "idle" /\ thread'[t].call = NoCall
    BY <1>7, DOMAIN <<>> = {} DEF Restart, Resting, NoSave
  <2>2. Doomed' = {} /\ (\A id : ~Among(id, Inserting)') /\ Copied("levels")' = {} /\ Copied("vectors")' = {}
    BY <2>1 DEF Doomed, Among, On, Inserting, Copied, NoCall
  <2>3. \A id, e : Stored(id, e) => Agrees(id, e)' /\ Stored(id, e)'
    <3> SUFFICES ASSUME NEW id, NEW e, Stored(id, e) PROVE Agrees(id, e)' /\ Stored(id, e)'
      OBVIOUS
    <3>1. id \in Restorable
      BY DEF Stored, Restorable
    <3>2. id \in DOMAIN idMap' /\ id \in DOMAIN vectors' /\ id \in DOMAIN levels'
      BY <2>1, <3>1, Restored
    <3>3. vectors'[id] = e.vec /\ levels'[id] = e.level
      BY <2>1, <3>1, Restored DEF Stored
    <3>4. QED
      BY <2>1, <2>2, <3>2, <3>3 DEF Agrees, Stored
  <2>4. KeptInv'
    BY <1>k, <2>1, <2>3 DEF KeptInv
  <2>5. MappedInv'
    BY <2>1, Restored DEF MappedInv, Deleting
  <2>6. QED
    BY <2>4, <2>5
<1>8. QED
  BY <1>1, <1>2, <1>3, <1>4, <1>5, <1>6, <1>7 DEF Next

\* What a finished save found is in the index, with the vector and the level it
\* had, until a call deletes it: whatever threads share ids, whatever goes on
\* beside the saves, and however often the process dies (hnsw_persist.rs 67-142).
THEOREM FinishedSavesKept == Spec => []KeptHeld
<1>1. PersistInit => MappedInv /\ KeptInv
  <2> SUFFICES ASSUME PersistInit PROVE MappedInv /\ KeptInv
    OBVIOUS
  <2>1. DOMAIN idMap = {} /\ DOMAIN kept = {} /\ DOMAIN covered = {} /\ \A t \in Thread : thread[t].pc = "idle"
    BY DOMAIN <<>> = {} DEF PersistInit, Init, NewIndex, Resting
  <2>2. QED
    BY <2>1 DEF MappedInv, KeptInv, Deleting
<1>2. TypeInv /\ MappedInv /\ KeptInv /\ [Next]_vars => (MappedInv /\ KeptInv)'
  BY KeptStep
<1>3. KeptInv => KeptHeld
  BY DEF KeptInv, Agrees, KeptHeld
<1>4. QED
  BY <1>1, <1>2, <1>3, Typed, PTL DEF Spec

(***************************************************************************)
(* Levels come from the calls, where saves have the index to themselves.    *)
(***************************************************************************)
\* What a thread inserts was given to its id.
LEMMA CurrentGiven ==
  ASSUME ThreadTypes, NEW t \in Thread, thread[t].pc \in Inserting
  PROVE  Current(t) \in GivenTo(Working(t))
<1>1. /\ thread[t].call \in CallsOf[t] /\ thread[t].call.op = "insert"
      /\ Current(t) \in Entry /\ Current(t).id = Working(t) /\ thread[t].at \in DOMAIN thread[t].call.entries
  BY CallTypes
<1>2. QED
  BY <1>1 DEF GivenTo, Given, Current

\* A thread stores its entry's level before its vector and links it after both.
LEMMA StepLevels ==
  ASSUME Owned, IndexTypes, ThreadTypes, LevelsStored, NEW t \in Thread, Step(t)
  PROVE  LevelsStored'
<1>w. /\ \A u \in Thread \ {t} : thread'[u] = thread[u] /\ Working(u)' = Working(u)
      /\ thread'[t].pc \in Midway =>
           thread[t].pc # "idle" /\ Working(t)' = Working(t) /\ Current(t)' = Current(t)
  BY StepWorking
<1>t. thread \in [Thread -> Local]
  BY DEF ThreadTypes
<1>c. /\ thread[t].pc \in Inserting => Current(t).id = Working(t)
      /\ thread[t].pc \in Deleting => Victim(t) = Working(t)
  BY CallTypes
<1>1. ASSUME NEW id, thread[t].pc = "idle" \/ id # Working(t), id \in DOMAIN levels
      PROVE  id \in DOMAIN levels' /\ levels'[id] = levels[id]
  <2>1. CASE StoreLevel(t)
    BY <1>1, <1>c, <2>1 DEF StoreLevel, At, Inserting, Overlay
  <2>2. CASE Unlevel(t)
    BY <1>1, <1>c, <2>2 DEF Unlevel, At, Deleting, Without
  <2>3. QED
    BY <1>1, <2>1, <2>2, Writes
<1>2. ASSUME NEW u \in Thread \ {t}, thread'[u].pc \in {"vector", "graph"}
      PROVE  Working(u)' \in DOMAIN levels' /\ levels'[Working(u)'] = Current(u)'.level
  <2>1. /\ thread[u].pc \in {"vector", "graph"} /\ Working(u)' = Working(u) /\ Current(u)' = Current(u)
        /\ Working(u) \in DOMAIN levels /\ levels[Working(u)] = Current(u).level
    BY <1>2, <1>w DEF LevelsStored, Current
  <2>2. thread[t].pc = "idle" \/ Working(u) # Working(t)
    BY <2>1, WorkingApart
  <2>3. QED
    BY <1>1, <2>1, <2>2
<1>3. ASSUME thread'[t].pc \in {"vector", "graph"}
      PROVE  Working(t)' \in DOMAIN levels' /\ levels'[Working(t)'] = Current(t)'.level
  <2>1. StoreLevel(t) \/ StoreVector(t)
    BY <1>3, <1>t, Moves DEF Step, Reaches, Resting, At
  <2>2. Working(t)' = Working(t) /\ Current(t)' = Current(t)
    BY <1>3, <1>w DEF Midway, Inserting
  <2>3. CASE StoreLevel(t)
    BY <2>2, <2>3, <1>c DEF StoreLevel, Overlay, At, Inserting
  <2>4. CASE StoreVector(t)
    BY <2>2, <2>4 DEF StoreVector, LevelsStored, At
  <2>5. QED
    BY <2>1, <2>3, <2>4
<1>4. QED
  BY <1>2, <1>3 DEF LevelsStored

\* What a thread's step leaves in the index some call gave it.
LEMMA StepGiven ==
  ASSUME TypeInv, DomainsInv, NodesInv, LevelsStored, GivenInv, ~mixed, NEW t \in Thread, Step(t)
  PROVE  /\ \A id \in DOMAIN levels' : LevelGiven(id, levels'[id])
         /\ ~torn => \A id \in DOMAIN idMap' : Among(id, Inserting)' \/ EntryGiven(id, levels'[id], vectors'[id])
<1> DEFINE w == Working(t)
<1>t. IndexTypes /\ ThreadTypes /\ thread \in [Thread -> Local] /\ w = Working(t)
  BY DEF TypeInv, ThreadTypes
<1>w. /\ \A u \in Thread \ {t} : thread'[u] = thread[u] /\ Working(u)' = Working(u)
      /\ thread'[t].pc \in Midway => thread[t].pc # "idle" /\ Working(t)' = w
  BY <1>t, StepWorking
<1>c. /\ thread[t].pc \in Inserting => Current(t).id = w /\ Current(t) \in GivenTo(w)
      /\ thread[t].pc \in Deleting \cup {"unmap"} => Victim(t) = w
  BY <1>t, CallTypes, CurrentGiven
<1>g. /\ \A id \in DOMAIN levels : LevelGiven(id, levels[id])
      /\ ~torn => \A id \in DOMAIN idMap : Among(id, Inserting) \/ EntryGiven(id, levels[id], vectors[id])
  BY DEF GivenInv
<1> HIDE DEF w
<1>1. \A id \in DOMAIN levels' : LevelGiven(id, levels'[id])
  <2>1. CASE StoreLevel(t)
    <3>1. LevelGiven(w, Current(t).level)
      BY <2>1, <1>c DEF LevelGiven, StoreLevel, At, Inserting
    <3>2. \A id \in DOMAIN levels' : \/ id = w /\ levels'[id] = Current(t).level
                                     \/ id \in DOMAIN levels /\ levels'[id] = levels[id]
      BY <2>1, <1>c DEF StoreLevel, Overlay, At, Inserting
    <3>3. QED
      BY <3>1, <3>2, <1>g
  <2>2. CASE Unlevel(t)
    <3>1. \A id \in DOMAIN levels' : id \in DOMAIN levels /\ levels'[id] = levels[id]
      BY <2>2 DEF Unlevel, Without
    <3>2. QED
      BY <3>1, <1>g
  <2>3. CASE levels' = levels
    BY <2>3, <1>g
  <2>4. QED
    BY <2>1, <2>2, <2>3, Writes
<1>2. ASSUME ~torn, NEW id \in DOMAIN idMap', ~Among(id, Inserting)'
      PROVE  EntryGiven(id, levels'[id], vectors'[id])
  <2>1. ~(thread'[t].pc \in Inserting /\ id = w)
    BY <1>2, <1>w DEF Among, On, Midway
  <2>2. id \in DOMAIN idMap
    <3>1. CASE MapId(t)
      <4>1. thread'[t].pc \in Inserting
        BY <3>1, <1>t, Moves DEF Reaches, Inserting
      <4>2. QED
        BY <3>1, <4>1, <2>1, <1>c, <1>2 DEF MapId, Overlay, At, Inserting
    <3>2. QED
      BY <3>1, <1>2, Writes DEF Without
  <2>3. CASE Among(id, Inserting)
    <3>1. thread[t].pc \in Inserting /\ thread'[t].pc \notin Inserting /\ id = w
      BY <2>1, <2>3, <1>2, <1>w, <1>t DEF Among, On
    <3>2. Link(t)
      BY <3>1, <1>t, Moves DEF Step, Reaches, At, Inserting
    <3>3. levels[w] = Current(t).level /\ vectors[w] = Current(t).vec /\ levels' = levels /\ vectors' = vectors
      BY <3>2, <1>2, <1>t DEF Link, maps, LevelsStored, NodesInv, NodesLinked, At
    <3>4. QED
      BY <3>1, <3>3, <1>c DEF EntryGiven
  <2>4. CASE ~Among(id, Inserting)
    <3>1. ~(thread[t].pc \in Inserting /\ id = w)
      BY <2>4, <1>t DEF Among, On
    <3>2. ~(thread[t].pc \in Deleting /\ id = w)
      BY <2>2, <1>t DEF DomainsInv
    <3>d. id \in DOMAIN levels /\ id \in DOMAIN vectors
      <4>1. id \in Id /\ ~Among(id, {"reverse", "level"}) /\ ~Among(id, {"reverse", "level", "vector"})
        BY <2>2, <2>4, <1>t DEF Among, On, Inserting, IndexTypes, MapsTo
      <4>2. QED
        BY <2>2, <4>1 DEF DomainsInv
    <3>3. levels'[id] = levels[id]
      <4>1. CASE StoreLevel(t)
        BY <4>1, <3>1, <3>d, <1>c DEF StoreLevel, Overlay, At, Inserting
      <4>2. CASE Unlevel(t)
        BY <4>2, <3>2, <3>d, <1>c DEF Unlevel, Without, At, Deleting
      <4>3. QED
        BY <4>1, <4>2, Writes
    <3>4. vectors'[id] = vectors[id]
      <4>1. CASE StoreVector(t)
        BY <4>1, <3>1, <3>d, <1>c DEF StoreVector, Overlay, At, Inserting
      <4>2. CASE Unvector(t)
        BY <4>2, <3>2, <3>d, <1>c DEF Unvector, Without, At, Deleting
      <4>3. QED
        BY <4>1, <4>2, Writes
    <3>5. QED
      BY <3>3, <3>4, <2>2, <2>4, <1>2, <1>g
  <2>5. QED
    BY <2>3, <2>4
<1>3. QED
  BY <1>1, <1>2

\* While no call is under way, exactly what is mapped has a level and a vector.
LEMMA QuietDomains ==
  ASSUME IndexTypes, DomainsInv, Quiet
  PROVE  DOMAIN levels = DOMAIN idMap /\ DOMAIN vectors = DOMAIN idMap /\ \A id : ~Among(id, Inserting)
<1>1. \A id : \A pcs \in SUBSET Midway : ~Among(id, pcs)
  BY DEF Quiet, At, Among, On, Midway, Inserting, Deleting
<1>2. {"reverse", "level"} \in SUBSET Midway /\ {"unreverse", "unlevel"} \in SUBSET Midway
      /\ {"reverse", "level", "vector"} \in SUBSET Midway /\ Deleting \in SUBSET Midway /\ Inserting \in SUBSET Midway
  BY DEF Midway, Inserting, Deleting
<1>3. DOMAIN levels \subseteq Id /\ DOMAIN idMap \subseteq Id /\ DOMAIN vectors \subseteq Id
  BY DEF IndexTypes, MapsTo
<1>4. QED
  BY <1>1, <1>2, <1>3 DEF DomainsInv

\* A copy is what the index has, and a stage that begins has put nothing.
LEMMA CopySaved ==
  ASSUME TypeInv, DomainsInv, SavedInv, ~mixed, CopyNext
  PROVE  SavedInv'
<1>1. /\ UNCHANGED <<index, thread, db, torn, mixed>> /\ saver.busy /\ saver'.busy /\ saver.todo = <<>>
      /\ saver'.stage = saver.stage + 1 /\ saver.stage \in 0..4
      /\ saver'.todo = Content(Stages[saver.stage + 1])
  BY StageTypes DEF CopyNext, TypeInv, SaveTypes, history
<1>2. /\ saver'.stage = 3 => saver'.todo = levels
      /\ saver'.stage = 4 => saver'.todo = vectors
  BY <1>1, StageTypes DEF Content
<1>3. Quiet /\ DOMAIN levels = DOMAIN idMap /\ DOMAIN vectors = DOMAIN idMap
  BY <1>1, QuietDomains DEF SavedInv, TypeInv
<1>4. UNCHANGED <<idMap, levels, vectors>> /\ Quiet'
  BY <1>1, <1>3 DEF index, maps, Quiet, At
<1>5. \A id \in DOMAIN idMap : (HasPut(3, id)' => HasPut(3, id)) /\ (HasPut(4, id)' => HasPut(4, id))
  BY <1>1, <1>2, <1>3, DOMAIN <<>> = {} DEF HasPut
<1>6. IsPut(3, "levels", levels)' /\ IsPut(4, "vectors", vectors)'
  BY <1>1, <1>4, <1>5 DEF SavedInv, IsPut
<1>7. Copies("levels", levels)' /\ Copies("vectors", vectors)'
  BY <1>1, <1>2, <1>3, <1>4, StageTypes DEF Copies, Copied
<1>8. QED
  BY <1>1, <1>4, <1>6, <1>7 DEF SavedInv

\* A put writes what the index has, the vector of an id after its level.
LEMMA PutSaved ==
  ASSUME TypeInv, DomainsInv, GivenInv, SavedInv, ~mixed, PutOne
  PROVE  GivenInv' /\ SavedInv'
<1>1. PICK k \in DOMAIN saver.todo :
        /\ db' = [db EXCEPT ![Stages[saver.stage]] = Overlay(Only(saver.todo, {k}), @)]
        /\ saver' = [saver EXCEPT !.todo = Without(@, {k})]
  BY DEF PutOne
<1>2. /\ saver.stage \in 1..5 /\ DOMAIN saver = {"busy", "stage", "todo"} /\ DOMAIN db = Families
      /\ Stages[saver.stage] \in Families /\ saver.busy
  BY <1>1, StageTypes, DOMAIN <<>> = {} DEF TypeInv, SaveTypes
<1>3. /\ UNCHANGED <<index, thread, torn, mixed>> /\ saver'.stage = saver.stage /\ saver'.busy
      /\ saver'.todo = Without(saver.todo, {k})
  BY <1>1, <1>2 DEF PutOne, history
<1>4. /\ DOMAIN saver'.todo = DOMAIN saver.todo \ {k}
      /\ \A i \in DOMAIN saver'.todo : saver'.todo[i] = saver.todo[i]
  BY <1>3 DEF Without
<1>5. \A f \in Families :
        IF f = Stages[saver.stage]
          THEN /\ DOMAIN db'[f] = DOMAIN db[f] \cup {k} /\ db'[f][k] = saver.todo[k]
               /\ \A i \in DOMAIN db[f] : i # k => db'[f][i] = db[f][i]
          ELSE db'[f] = db[f]
  BY <1>1, <1>2 DEF Overlay, Only
<1>q. Quiet /\ DOMAIN levels = DOMAIN idMap /\ DOMAIN vectors = DOMAIN idMap
  BY <1>2, QuietDomains DEF SavedInv, TypeInv
<1>u. UNCHANGED <<idMap, levels, vectors>> /\ Quiet' /\ \A id : Among(id, Inserting)' <=> Among(id, Inserting)
  BY <1>3, <1>q DEF index, maps, Quiet, At, Among, On, Working, Current, Victim
\* What is put is mapped, and the index has it.
<1>6. ASSUME NEW f \in {"levels", "vectors"}, f = Stages[saver.stage]
      PROVE  k \in DOMAIN idMap /\ saver.todo[k] = (IF f = "levels" THEN levels ELSE vectors)[k]
  BY <1>2, <1>6 DEF SavedInv, Copies, Copied
<1>7. \A id \in DOMAIN idMap :
        /\ HasPut(3, id)' => HasPut(3, id) \/ (Stages[saver.stage] = "levels" /\ id = k)
        /\ HasPut(4, id)' => HasPut(4, id) \/ (Stages[saver.stage] = "vectors" /\ id = k)
  BY <1>2, <1>3, <1>4, StageTypes DEF HasPut
<1>8. IsPut(3, "levels", levels)' /\ IsPut(4, "vectors", vectors)'
  <2>1. \A id \in DOMAIN idMap : HasPut(3, id)' => id \in DOMAIN db'["levels"] /\ db'["levels"][id] = levels[id]
    BY <1>5, <1>6, <1>7 DEF SavedInv, IsPut, Families
  <2>2. \A id \in DOMAIN idMap : HasPut(4, id)' => id \in DOMAIN db'["vectors"] /\ db'["vectors"][id] = vectors[id]
    BY <1>5, <1>6, <1>7 DEF SavedInv, IsPut, Families
  <2>3. QED
    BY <1>u, <2>1, <2>2 DEF IsPut
<1>9. Copies("levels", levels)' /\ Copies("vectors", vectors)'
  BY <1>3, <1>4, <1>u DEF SavedInv, Copies, Copied
<1>10. DOMAIN db'["vectors"] \subseteq DOMAIN db'["levels"]
  <2>1. Stages[saver.stage] = "vectors" => k \in DOMAIN db["levels"]
    <3>1. SUFFICES ASSUME Stages[saver.stage] = "vectors" PROVE k \in DOMAIN db["levels"]
      OBVIOUS
    <3>2. saver.stage = 4 /\ k \in DOMAIN idMap
      BY <1>2, <1>6, <3>1, StageTypes
    <3>3. HasPut(3, k)
      BY <3>2 DEF HasPut
    <3>4. QED
      BY <3>2, <3>3 DEF SavedInv, IsPut
  <2>2. QED
    BY <2>1, <1>5 DEF SavedInv, Families
<1>11. ASSUME ~torn, NEW id \in DOMAIN db'["vectors"], id \notin DOMAIN idMap
       PROVE  EntryGiven(id, db'["levels"][id], db'["vectors"][id])
  <2>1. /\ Stages[saver.stage] = "levels" => id # k
        /\ Stages[saver.stage] = "vectors" => id # k
    BY <1>6, <1>11
  <2>2. id \in DOMAIN db["vectors"] /\ id \in DOMAIN db["levels"]
    BY <2>1, <1>5, <1>11 DEF Families, SavedInv
  <2>3. db'["vectors"][id] = db["vectors"][id] /\ db'["levels"][id] = db["levels"][id]
    BY <2>1, <2>2, <1>5 DEF Families
  <2>4. QED
    BY <2>2, <2>3, <1>11 DEF SavedInv
<1>12. \A id \in DOMAIN db'["levels"] : LevelGiven(id, db'["levels"][id])
  <2>1. Stages[saver.stage] = "levels" => LevelGiven(k, saver.todo[k])
    BY <1>6, <1>q DEF GivenInv
  <2>2. QED
    BY <2>1, <1>5 DEF GivenInv, Families
<1>13. GivenInv'
  BY <1>3, <1>u, <1>12 DEF GivenInv
<1>14. SavedInv'
  BY <1>3, <1>u, <1>8, <1>9, <1>10, <1>11 DEF SavedInv
<1>15. QED
  BY <1>13, <1>14

\* A restart that finds whole saves finds levels and vectors that go together.
LEMMA RestartGiven ==
  ASSUME TypeInv, GivenInv, SavedInv, ~mixed, Restart
  PROVE  LevelsStored' /\ GivenInv' /\ SavedInv'
<1>1. /\ RestoreIndex /\ UNCHANGED <<db, mixed>> /\ saver' = NoSave /\ torn' = (torn \/ saver.busy)
      /\ \A t \in Thread : thread'[t].pc = "idle"
  BY DEF Restart, Resting
<1>2. /\ DOMAIN idMap' = Restorable /\ DOMAIN levels' = Restorable
      /\ \A id \in Restorable : id \in DOMAIN db["vectors"] /\ id \in DOMAIN db["levels"]
      /\ \A id \in Restorable : levels'[id] = db["levels"][id] /\ vectors'[id] = db["vectors"][id]
  BY <1>1, Restored DEF Restorable, SavedInv
<1>3. \A id : ~Among(id, Inserting)'
  BY <1>1 DEF Among, On, Inserting
<1>4. GivenInv'
  <2>1. \A id \in Restorable : LevelGiven(id, levels'[id])
    BY <1>2 DEF GivenInv
  <2>2. ~torn' => \A id \in Restorable : EntryGiven(id, levels'[id], vectors'[id])
    BY <1>1, <1>2 DEF SavedInv
  <2>3. QED
    BY <1>1, <1>2, <2>1, <2>2 DEF GivenInv
<1>5. saver'.stage = 0 /\ ~saver'.busy
  BY <1>1 DEF NoSave
<1>6. SavedInv'
  <2>1. /\ IsPut(3, "levels", levels)' /\ IsPut(4, "vectors", vectors)'
        /\ Copies("levels", levels)' /\ Copies("vectors", vectors)'
    BY <1>5 DEF IsPut, Copies, HasPut, Copied
  <2>2. ~torn' => \A id \in DOMAIN db["vectors"] : EntryGiven(id, db["levels"][id], db["vectors"][id])
    BY <1>1 DEF SavedInv
  <2>3. QED
    BY <1>1, <1>5, <2>1, <2>2 DEF SavedInv
<1>7. LevelsStored'
  BY <1>1 DEF LevelsStored
<1>8. QED
  BY <1>4, <1>6, <1>7

\* The invariant behind LevelsAsGiven.
LevelsInv == LevelsStored /\ GivenInv /\ SavedInv

\* (See LevelsInv.)
LEMMA LevelsStep ==
  ASSUME Owned, TypeInv, IndexInv, LevelsInv, [Next]_vars
  PROVE  LevelsInv'
<1>t. IndexTypes /\ ThreadTypes /\ DomainsInv /\ NodesInv
  BY DEF TypeInv, IndexInv
<1>l. LevelsStored /\ GivenInv /\ SavedInv
  BY DEF LevelsInv
<1>s. UNCHANGED <<index, thread>> => LevelsStored'
  BY <1>l DEF LevelsStored, index, maps, Working, Current, Victim
<1>g. UNCHANGED <<index, thread, db, torn>> /\ (mixed' \/ mixed' = mixed) => GivenInv'
  BY <1>l DEF GivenInv, index, maps, Among, On, Working, Current, Victim
<1>1. CASE UNCHANGED vars
  <2>1. SavedInv'
    BY <1>1, <1>l DEF vars, index, maps, history, SavedInv, IsPut, Copies, HasPut, Copied, Quiet, At
  <2>2. QED
    BY <1>1, <1>s, <1>g, <2>1 DEF LevelsInv, vars, history
<1>2. CASE ServeBesideSaves
  <2>1. PICK t \in Thread : Step(t)
    BY <1>2 DEF ServeBesideSaves, Serve
  <2>2. UNCHANGED <<db, saver, torn>> /\ (~mixed' => ~mixed /\ ~saver.busy)
    BY <1>2, <1>t DEF ServeBesideSaves, TypeInv, SaveTypes
  <2>3. LevelsStored'
    BY <1>t, <1>l, <2>1, StepLevels
  <2>4. GivenInv'
    <3>1. SUFFICES ASSUME ~mixed' PROVE GivenInv'
      BY DEF GivenInv
    <3>2. /\ \A id \in DOMAIN levels' : LevelGiven(id, levels'[id])
          /\ ~torn => \A id \in DOMAIN idMap' : Among(id, Inserting)' \/ EntryGiven(id, levels'[id], vectors'[id])
      BY <1>t, <1>l, <2>1, <2>2, <3>1, StepGiven
    <3>3. QED
      BY <1>l, <2>2, <3>1, <3>2 DEF GivenInv
  <2>5. SavedInv'
    <3>1. SUFFICES ASSUME ~mixed' PROVE SavedInv'
      BY DEF SavedInv
    <3>2. saver' = saver /\ saver.stage = 0 /\ ~saver.busy
      BY <2>2, <3>1 DEF TypeInv, SaveTypes
    <3>3. /\ IsPut(3, "levels", levels)' /\ IsPut(4, "vectors", vectors)'
          /\ Copies("levels", levels)' /\ Copies("vectors", vectors)'
      BY <3>2 DEF IsPut, Copies, HasPut, Copied
    <3>4. QED
      BY <1>l, <2>2, <3>1, <3>2, <3>3 DEF SavedInv
  <2>6. QED
    BY <2>3, <2>4, <2>5 DEF LevelsInv
<1>3. CASE BeginSave
  <2>1. /\ UNCHANGED <<index, thread, db, torn>> /\ saver'.stage = 0 /\ ~saver.busy
        /\ mixed' = (mixed \/ ~Quiet)
    BY <1>3 DEF BeginSave, NoSave
  <2>2. GivenInv'
    BY <2>1, <1>l DEF GivenInv, index, maps, Among, On, Working, Current, Victim
  <2>3. SavedInv'
    <3>1. SUFFICES ASSUME ~mixed' PROVE SavedInv'
      BY DEF SavedInv
    <3>2. Quiet' /\ ~mixed
      BY <2>1, <3>1 DEF Quiet, At
    <3>3. /\ IsPut(3, "levels", levels)' /\ IsPut(4, "vectors", vectors)'
          /\ Copies("levels", levels)' /\ Copies("vectors", vectors)'
      BY <2>1 DEF IsPut, Copies, HasPut, Copied
    <3>4. QED
      BY <1>l, <2>1, <3>2, <3>3 DEF SavedInv
  <2>4. QED
    BY <1>s, <2>1, <2>2, <2>3 DEF LevelsInv
<1>4. CASE CopyNext
  <2>1. UNCHANGED <<index, thread, db, torn, mixed>>
    BY <1>4 DEF CopyNext, history
  <2>2. SavedInv'
    BY <1>4, <1>t, <1>l, <2>1, CopySaved DEF SavedInv
  <2>3. QED
    BY <1>s, <1>g, <2>1, <2>2 DEF LevelsInv
<1>5. CASE PutOne
  <2>1. UNCHANGED <<index, thread, mixed>>
    BY <1>5 DEF PutOne, history
  <2>2. GivenInv' /\ SavedInv'
    <3>1. CASE mixed
      BY <3>1, <2>1 DEF GivenInv, SavedInv
    <3>2. CASE ~mixed
      BY <3>2, <1>5, <1>t, <1>l, PutSaved
    <3>3. QED
      BY <3>1, <3>2
  <2>3. QED
    BY <1>s, <2>1, <2>2 DEF LevelsInv
<1>6. CASE EndSave
  <2>1. /\ UNCHANGED <<index, thread, db, torn, mixed>> /\ saver'.stage = 0 /\ ~saver'.busy
        /\ saver.stage = 5 /\ saver.busy
    BY <1>6, StageTypes DEF EndSave, NoSave
  <2>2. SavedInv'
    <3>1. SUFFICES ASSUME ~mixed PROVE SavedInv'
      BY <2>1 DEF SavedInv
    <3>2. /\ IsPut(3, "levels", levels)' /\ IsPut(4, "vectors", vectors)'
          /\ Copies("levels", levels)' /\ Copies("vectors", vectors)'
      BY <2>1 DEF IsPut, Copies, HasPut, Copied
    <3>3. ASSUME ~torn, NEW id \in DOMAIN db["vectors"]
          PROVE  EntryGiven(id, db["levels"][id], db["vectors"][id])
      <4>1. CASE id \in DOMAIN idMap
        <5>1. db["levels"][id] = levels[id] /\ db["vectors"][id] = vectors[id]
          BY <4>1, <3>1, <2>1, <1>l DEF SavedInv, IsPut, HasPut
        <5>2. ~Among(id, Inserting)
          BY <3>1, <2>1, <1>t, <1>l, QuietDomains DEF SavedInv
        <5>3. QED
          BY <4>1, <5>1, <5>2, <3>1, <3>3, <1>l DEF GivenInv
      <4>2. CASE id \notin DOMAIN idMap
        BY <4>2, <3>1, <3>3, <1>l DEF SavedInv
      <4>3. QED
        BY <4>1, <4>2
    <3>4. QED
      BY <1>l, <2>1, <3>1, <3>2, <3>3 DEF SavedInv
  <2>3. QED
    BY <1>s, <1>g, <2>1, <2>2 DEF LevelsInv
<1>7. CASE Restart
  <2>1. mixed' = mixed
    BY <1>7 DEF Restart
  <2>2. CASE mixed
    <3>1. LevelsStored'
      BY <1>7 DEF Restart, Resting, LevelsStored
    <3>2. QED
      BY <3>1, <2>1, <2>2 DEF LevelsInv, GivenInv, SavedInv
  <2>3. CASE ~mixed
    BY <2>3, <1>7, <1>l, RestartGiven DEF LevelsInv
  <2>4. QED
    BY <2>2, <2>3
<1>8. QED
  BY <1>1, <1>2, <1>3, <1>4, <1>5, <1>6, <1>7 DEF Next

\* An id has a level it was inserted with, and unless a save was cut short the
\* vector of the same insert, where saves have the index to themselves: so
\* restoring never falls back to level 2 on its own account (hnsw_persist.rs
\* 121-136).
THEOREM LevelsStayGiven == ASSUME Owned PROVE Spec => []LevelsAsGiven
<1>1. PersistInit => LevelsInv
  <2> SUFFICES ASSUME PersistInit PROVE LevelsInv
    OBVIOUS
  <2>1. /\ DOMAIN idMap = {} /\ DOMAIN levels = {} /\ \A t \in Thread : thread[t].pc = "idle"
        /\ ~saver.busy /\ saver.stage = 0 /\ \A f \in Families : DOMAIN db[f] = {}
    BY DOMAIN <<>> = {} DEF PersistInit, Init, NewIndex, Resting, NoSave
  <2>2. DOMAIN db["levels"] = {} /\ DOMAIN db["vectors"] = {}
    BY <2>1 DEF Families
  <2>3. LevelsStored /\ GivenInv
    BY <2>1, <2>2 DEF LevelsStored, GivenInv
  <2>4. SavedInv
    BY <2>1, <2>2 DEF SavedInv, IsPut, Copies, HasPut, Copied
  <2>5. QED
    BY <2>3, <2>4 DEF LevelsInv
<1>2. TypeInv /\ IndexInv /\ LevelsInv /\ [Next]_vars => LevelsInv' /\ IndexInv'
  BY LevelsStep, IndexStep
<1>3. TypeInv /\ IndexInv /\ LevelsInv => LevelsAsGiven
  <2> SUFFICES ASSUME TypeInv, IndexInv, LevelsInv, ~mixed, NEW id \in Held
               PROVE  \E e \in GivenTo(id) : e.level = levels[id] /\ (~torn => e.vec = vectors[id])
    BY DEF LevelsAsGiven
  <2>1. id \in DOMAIN idMap /\ Settled(id) /\ ThreadTypes /\ id \in Id
    BY DEF Held, TypeInv, IndexTypes, MapsTo
  <2>2. ~Among(id, Inserting) /\ ~Among(id, {"reverse", "level"})
    BY <2>1, SettledIdle DEF Midway, Inserting
  <2>3. id \in DOMAIN levels
    BY <2>1, <2>2 DEF IndexInv, DomainsInv
  <2>4. LevelGiven(id, levels[id]) /\ (~torn => EntryGiven(id, levels[id], vectors[id]))
    BY <2>1, <2>2, <2>3 DEF LevelsInv, GivenInv
  <2>5. QED
    BY <2>4 DEF LevelGiven, EntryGiven
<1>4. QED
  BY <1>1, <1>2, <1>3, Typed, IndexInitially, PTL DEF Spec
=============================================================================
