------------------------------- MODULE Qdrant -------------------------------
(***************************************************************************)
(* QdrantVectorStore (vector_store/qdrant.rs): every operation is one       *)
(* message to a Qdrant server, update_uri one message to find the points     *)
(* and one more for each of them.                                           *)
(*                                                                          *)
(* The client gives a message timeout_ms; what it gave up on may be lost or  *)
(* still arrive.  The server logs a change and applies the log in order: it  *)
(* answers an upsert when it is logged, and the changes asked for with       *)
(* wait(true) when they are applied.  Scrolls and searches read what has     *)
(* been applied.                                                            *)
(***************************************************************************)
EXTENDS SyncManager, VectorSearch

CONSTANTS
  Client,       \* concurrent callers of one store
  NoClient,     \* the sender of a message nobody waits for
  Usable,       \* the ids Qdrant accepts: 64-bit numbers and UUIDs
  CallsOf,      \* the calls each client may make
  Page,         \* the points one scroll returns: 1000 in the code
  Stock,        \* what a collection that exists already may hold
  MaxCalls      \* bound on the number of calls in a behaviour

ASSUME QdrantAssumption ==
  /\ Usable \subseteq Id
  /\ CallsOf \in [Client -> SUBSET Request]
  /\ NoClient \notin Client /\ {"unknown", "absent"} \cap Vec = {}
  /\ Page \in Nat \ {0} /\ MaxCalls \in Nat
  /\ \A ps \in Stock : MapsTo(ps, Usable, Point) /\ \A i \in DOMAIN ps : ps[i].id = i /\ ps[i].vec \in Fits

VARIABLES
  exists, points,   \* the collection, as applied
  log,              \* messages the server has accepted and not yet applied
  wire,             \* messages on their way
  task,             \* what each client is doing
  made,             \* number of calls made so far
  after             \* history: what the last call that named a URI left there

vars == <<exists, points, log, wire, task, made, after>>

\* `todo` are the points still to be moved, `beyond` those on no page of the
\* scroll; `sure`: nothing has come between this call and what it was told.
Resting == [pc |-> "idle", req |-> NoRequest, todo |-> {}, beyond |-> {}, sure |-> FALSE]

\* What a URI is said to hold, and how many points of it a move may have left.
Says(what, left) == [says |-> what, left |-> left]

Unknown == Says("unknown", {})

Init ==
  /\ exists \in BOOLEAN /\ points \in (IF exists THEN Stock ELSE {<<>>}) /\ log = <<>> /\ wire = {}
  /\ task = [t \in Client |-> Resting]
  /\ made = 0
  /\ after = [u \in Uri |-> Unknown]

Busy(t) == task[t].pc # "idle"

(***************************************************************************)
(* Messages.                                                                *)
(***************************************************************************)
\* Matching a string keyword compares whole strings: a removal "by prefix"
\* names one URI.
FirstMessage(r) ==
  CASE r.op = "deletePrefix" -> [op |-> "deleteAt", uri |-> r.prefix]
    [] r.op = "updateUri" -> [op |-> "scroll", uri |-> r.old]
    [] OTHER -> r

\* Mutant: nothing is waited for.
Waited_Not(act) == FALSE

Waited(act) == act.op \in {"delete", "deleteAt", "setUri"}

At(ps, u) == {i \in DOMAIN ps : ps[i].uri = u}

\* set_payload replaces the one field; parent_uri stays.
Apply(ps, act) ==
  CASE act.op = "upsert" -> Overlay(ById(act.points), ps)
    [] act.op = "delete" -> Without(ps, {act.id})
    [] act.op = "deleteAt" -> Without(ps, At(ps, act.uri))
    [] act.op = "setUri" -> [i \in DOMAIN ps |-> IF i = act.id THEN [ps[i] EXCEPT !.uri = act.uri] ELSE ps[i]]

\* What the points are when so many messages of the log have been applied.
Replayed(ps, msgs) ==
  LET now[n \in 0..Len(msgs)] == IF n = 0 THEN ps ELSE Apply(now[n - 1], msgs[n].act)
  IN now

Views == Replayed(points, log)

\* What the points will be once the log has been applied.
View == Views[Len(log)]

\* A collection is created once; every other message needs it, ids Qdrant can
\* read and vectors of its dimension.
Refuses(act) ==
  \/ exists = (act.op = "create")
  \/ act.op = "upsert" /\ \E j \in DOMAIN act.points : act.points[j].id \notin Usable \/ act.points[j].vec \notin Fits
  \/ act.op = "delete" /\ act.id \notin Usable

(***************************************************************************)
(* History: the URIs a message can change the points of.  Of the URIs below *)
(* a removed prefix nothing is known afterwards: the trait names a prefix    *)
(* (traits.rs 44), the server matches the one URI.                          *)
(***************************************************************************)
UrisOf(ps, ids) == {ps[i].uri : i \in ids \cap DOMAIN ps} \cap Uri

Affects(act) ==
  CASE act.op = "upsert" -> LET ps == ById(act.points) IN UrisOf(ps, DOMAIN ps) \cup UrisOf(View, DOMAIN ps)
    [] act.op = "delete" -> UrisOf(View, {act.id})
    [] act.op = "deleteAt" -> {u \in Uri : Under(u, act.uri)}
    [] act.op = "setUri" -> {act.uri} \cup UrisOf(View, {act.id})
    [] OTHER -> {}

Names(r) ==
  CASE r.op = "upsert" -> {r.points[j].uri : j \in DOMAIN r.points}
    [] r.op = "deletePrefix" -> {r.prefix}
    [] r.op = "updateUri" -> {r.old, r.new}
    [] OTHER -> {}

Forget(us) == [u \in Uri |-> IF u \in us THEN Unknown ELSE after[u]]

Learned(t) ==
  LET r == task[t].req
      ps == ById(r.points)
  IN
  IF ~task[t].sure THEN after ELSE
  CASE r.op = "upsert" ->
         [u \in Uri |-> IF At(ps, u) # {} THEN Says(ps[CHOOSE i \in At(ps, u) : TRUE].vec, {}) ELSE after[u]]
    [] r.op = "deletePrefix" -> [after EXCEPT ![r.prefix] = Says("absent", {})]
    [] r.op = "updateUri" /\ r.old # r.new -> [after EXCEPT ![r.old] = Says("absent", task[t].beyond)]
    [] OTHER -> after

Abandoned(m) == [m EXCEPT !.of = NoClient]

(***************************************************************************)
(* The server.                                                              *)
(***************************************************************************)
\* The answer reaches no one when the client has given up; a change that comes
\* between a call's own and its return spoils what the call can say.
Answer(m, pc) ==
  task' = [t \in Client |->
    IF t = m.of THEN [task[t] EXCEPT !.pc = pc, !.sure = m.act.op = "setUri" => @]
    ELSE [task[t] EXCEPT !.sure = @ /\ Names(task[t].req) \cap Affects(m.act) = {}]]

\* A scroll returns the first ids; update_uri asks for one page only.
FirstPage(ids) == {i \in ids : Cardinality({j \in ids : j < i}) < Page}

Refuse(m) ==
  /\ m \in wire /\ Refuses(m.act)
  /\ wire' = wire \ {m}
  /\ Answer(m, "refused")
  /\ UNCHANGED <<exists, points, log, made, after>>

CreateCollection(m) ==
  /\ m \in wire /\ ~Refuses(m.act) /\ m.act.op = "create"
  /\ exists' = TRUE
  /\ wire' = wire \ {m}
  /\ Answer(m, "answered")
  /\ UNCHANGED <<points, log, made, after>>

Scroll(m) ==
  LET u == m.act.uri
      found == At(points, u)
  IN
  /\ m \in wire /\ ~Refuses(m.act) /\ m.act.op = "scroll"
  /\ wire' = wire \ {m}
  /\ task' = IF m.of = NoClient THEN task
             ELSE [task EXCEPT ![m.of].pc = "answered",
                               ![m.of].todo = FirstPage(found), ![m.of].beyond = found \ FirstPage(found),
                               ![m.of].sure = \A l \in Range(log) : u \notin Affects(l.act)]
  /\ UNCHANGED <<exists, points, log, made, after>>

Accept(m) ==
  /\ m \in wire /\ ~Refuses(m.act) /\ m.act.op \notin {"create", "scroll"}
  /\ wire' = wire \ {m}
  /\ log' = Append(log, IF Waited(m.act) THEN m ELSE Abandoned(m))
  /\ Answer(m, IF Waited(m.act) THEN "waiting" ELSE "answered")
  /\ after' = Forget(Affects(m.act))
  /\ UNCHANGED <<exists, points, made>>

ApplyNext ==
  /\ log # <<>>
  /\ points' = Apply(points, Head(log).act)
  /\ log' = Tail(log)
  /\ task' = IF Head(log).of = NoClient THEN task ELSE [task EXCEPT ![Head(log).of].pc = "answered"]
  /\ UNCHANGED <<exists, wire, made, after>>

\* The network loses a message.
Lose(m) ==
  /\ m \in wire
  /\ wire' = wire \ {m}
  /\ UNCHANGED <<exists, points, log, task, made, after>>

(***************************************************************************)
(* The clients.                                                             *)
(***************************************************************************)
Send(t, act, with) ==
  /\ wire' = wire \cup {[of |-> t, act |-> act]}
  /\ task' = [task EXCEPT ![t] = [with EXCEPT !.pc = "waiting"]]

Call(t) ==
  /\ ~Busy(t) /\ made < MaxCalls
  /\ made' = made + 1
  /\ \E r \in CallsOf[t] : Send(t, FirstMessage(r), [Resting EXCEPT !.req = r])
  /\ UNCHANGED <<exists, points, log, after>>

Fail(t) ==
  /\ task[t].pc = "refused"
  /\ task' = [task EXCEPT ![t] = Resting]
  /\ UNCHANGED <<exists, points, log, wire, made, after>>

\* Mutant: one point is moved, whatever the scroll found.
MoveOne_First(t) ==
  /\ task[t].pc = "answered" /\ task[t].todo # {}
  /\ Send(t, [op |-> "setUri", id |-> Min(task[t].todo), uri |-> task[t].req.new], [task[t] EXCEPT !.todo = {}])
  /\ UNCHANGED <<exists, points, log, made, after>>

MoveOne(t) ==
  /\ task[t].pc = "answered" /\ task[t].todo # {}
  /\ LET i == Min(task[t].todo)
     IN Send(t, [op |-> "setUri", id |-> i, uri |-> task[t].req.new], [task[t] EXCEPT !.todo = @ \ {i}])
  /\ UNCHANGED <<exists, points, log, made, after>>

Return(t) ==
  /\ task[t].pc = "answered" /\ task[t].todo = {}
  /\ after' = Learned(t)
  /\ task' = [task EXCEPT ![t] = Resting]
  /\ UNCHANGED <<exists, points, log, wire, made>>

\* Of two equal messages given up on, one at most arrives.
GiveUp(t) ==
  LET given(m) == IF m.of = t THEN Abandoned(m) ELSE m IN
  /\ task' = [task EXCEPT ![t] = Resting]
  /\ wire' = {given(m) : m \in wire}
  /\ log' = [j \in DOMAIN log |-> given(log[j])]
  /\ UNCHANGED <<exists, points, made, after>>

\* Mutant: only what cannot be delivered has a timeout.
TimeOut_Undelivered(t) ==
  /\ Busy(t) /\ \E m \in wire : m.of = t
  /\ GiveUp(t)

\* The message, the server's work or the answer takes too long: the call fails
\* and what was sent stays sent.
TimeOut(t) ==
  /\ Busy(t)
  /\ GiveUp(t)

Proceed(t) == Fail(t) \/ MoveOne(t) \/ Return(t)

Next ==
  \/ \E t \in Client : Call(t) \/ Fail(t) \/ MoveOne(t) \/ Return(t) \/ TimeOut(t)
  \/ \E m \in wire : Refuse(m) \/ CreateCollection(m) \/ Scroll(m) \/ Accept(m) \/ Lose(m)
  \/ ApplyNext

\* The timeout is the client's own clock; nothing is asked of the network or
\* of the server.
Fairness == \A t \in Client : WF_vars(Proceed(t) \/ TimeOut(t))

Spec == Init /\ [][Next]_vars /\ Fairness

(***************************************************************************)
(* Properties.                                                              *)
(***************************************************************************)
\* Every stored point has an id Qdrant can read and a vector of the collection's
\* dimension, and a client waits for one message at a time.
TypesFit ==
  /\ exists \in BOOLEAN
  /\ MapsTo(points, Usable, Point) /\ \A i \in DOMAIN points : points[i].vec \in Fits
  /\ \A t \in Client :
       /\ task[t].pc \in {"idle", "waiting", "answered", "refused"}
       /\ task[t].req \in CallsOf[t] \cup {NoRequest}
       /\ task[t].todo \cup task[t].beyond \subseteq Id /\ task[t].sure \in BOOLEAN
       /\ Cardinality({m \in wire \cup Range(log) : m.of = t}) <= IF task[t].pc = "waiting" THEN 1 ELSE 0
  /\ after \in [Uri -> [says : Vec \cup {"unknown", "absent"}, left : SUBSET Id]]

\* What a call that returned Ok did stays done although upserts are answered
\* before they are applied, messages given up on arrive late and a move is a
\* message for each point: what was stored is in the points or still logged, no
\* point is left at exactly the URI that was removed, and of those that were at
\* a URI moved away none but the ones beyond the scroll's page, which update_uri
\* leaves behind and says nothing of (qdrant.rs 359-370, 421-506).  Nothing is
\* said of the URIs below a removed prefix.
KeepsItsWord ==
  TypesFit /\ \A u \in Uri :
    /\ after[u].says = "absent" => At(View, u) \subseteq after[u].left
    /\ after[u].says \in Vec => \E i \in At(View, u) : View[i].vec = after[u].says

\* Of what was removed or moved away no search finds more than the points beyond
\* the page, from the moment the call returns (qdrant.rs 447-453, 493-499: wait(true)).
RemovedUnseen == \A u \in Uri : after[u].says = "absent" => At(points, u) \subseteq after[u].left

\* On the filters VikingFS::find makes from a target alone or a level alone,
\* Qdrant lets through the points the other stores do (qdrant.rs 75-149,
\* rocks.rs 106-127).  For both at once it does not: only Qdrant reads And.
FiltersAgree ==
  \A i \in DOMAIN points, u \in Uri, n \in {0, 1} :
    \A flt \in {FindFilter(u, NoLevel), FindFilter(NoUri, n), FindFilter(NoUri, NoLevel)} :
      Compiled(points[i], flt) = MatchesFilter(points[i], flt)

\* Every call returns, whatever the network loses and the server leaves undone
\* (qdrant.rs 38: timeout_ms covers every message).
Returns == \A t \in Client : Busy(t) ~> ~Busy(t)
=============================================================================
