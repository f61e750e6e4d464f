----------------------------- MODULE GraphQuery -----------------------------
(***************************************************************************)
(* One query of the graph backend: RyuGraphBackend.execute with the        *)
(* operation "path_between" (build_shortest_paths: one breadth-first       *)
(* search per seed, stopped at the first target) or any of the             *)
(* neighbourhood operations (build_neighbors: one breadth-first search     *)
(* from all seeds, to a depth, up to a limit of results).                  *)
(*                                                                         *)
(* Rows come from the database in no particular order, so a scan takes the *)
(* adjacent rows in any order.  A node's kind, path and names are          *)
(* abstracted to whether its kind passes the request's filter.             *)
(***************************************************************************)
EXTENDS Integers, Sequences

CONSTANTS
  N,         \* nodes of the graph are 1..N
  EdgeType,  \* edge types of the graph
  Graphs,    \* the graphs a query may find
  Requests   \* the requests a caller may make

ASSUME NAssumption == N \in Nat

Node == 1..N
Unseen == -1
Root   == 0      \* parent of a node the search started from

Edge == [from : Node, type : EdgeType, to : Node]

\* A request after its defaults are filled in and its names are resolved:
\* seeds are distinct rows, kinds is the set of nodes the filter lets through
\* and types the edge types asked for (all of them when none is).
Request == [op : {"neighbors", "path"}, seeds : Seq(Node), targets : SUBSET Node,
            dir : {"outgoing", "incoming", "both"}, types : SUBSET EdgeType,
            kinds : SUBSET Node, depth : Nat, limit : Nat \ {0}]

ASSUME GraphAssumption == \A g \in Graphs : g \subseteq Edge
ASSUME RequestAssumption ==
  \A q \in Requests :
    /\ q \in Request
    /\ \A i, j \in DOMAIN q.seeds : q.seeds[i] = q.seeds[j] => i = j

VARIABLES
  graph,    \* the edges of the database, which the query only reads
  req,      \* the request
  pc,
  todo,     \* path: seeds not searched yet
  source,   \* path: the seed searched from, Root before the first
  queue,    \* nodes to expand
  via,      \* via[n]: the node n was reached from, Root or Unseen
  level,    \* level[n]: depth at which n was reached (neighbors; history in path)
  current,  \* the node being expanded
  rest,     \* its rows the scan has not looked at
  path,     \* path: the part of the path found that has been walked back
  results,
  answer    \* what the query returns, <<>> before

request == <<graph, req>>
search  == <<queue, via, level, current, rest>>
vars    == <<request, search, pc, todo, source, path, results, answer>>

Row == [node : Node, type : EdgeType, dir : {"outgoing", "incoming"}]
Hit == [node : Node, type : EdgeType, dir : {"outgoing", "incoming"}, depth : Nat]

IsPath == req.op = "path"
Result == IF IsPath THEN Seq(Node) ELSE Hit

TypeOK ==
  /\ graph \in SUBSET Edge
  /\ req \in Request
  /\ pc \in {"seed", "pop", "scan", "trace", "done"}
  /\ todo \in Seq(Node)
  /\ source \in Node \cup {Root}
  /\ queue \in Seq(Node)
  /\ via \in [Node -> Node \cup {Root, Unseen}]
  /\ level \in [Node -> Nat]
  /\ current \in Node \cup {Root}
  /\ rest \in SUBSET Row
  /\ path \in Seq(Node)
  /\ results \in Seq(Result) /\ answer \in Seq(Result)

SetOf(s) == {s[i] : i \in DOMAIN s}

Seen == {n \in Node : via[n] # Unseen}

\* query_adjacency
Adjacent(n) ==
  {[node |-> e.to, type |-> e.type, dir |-> "outgoing"] :
     e \in {x \in graph : x.from = n /\ x.type \in req.types /\ req.dir # "incoming"}}
  \cup
  {[node |-> e.from, type |-> e.type, dir |-> "incoming"] :
     e \in {x \in graph : x.to = n /\ x.type \in req.types /\ req.dir # "outgoing"}}

\* the node_kinds filter; a target of a path passes whatever its kind
Passes(m) == m \in req.kinds \/ (IsPath /\ m \in req.targets)

Init ==
  /\ graph \in Graphs /\ req \in Requests
  /\ path = <<>> /\ results = <<>> /\ answer = <<>>
  /\ source = Root /\ current = Root /\ rest = {}
  /\ level = [n \in Node |-> 0]
  /\ IF IsPath
       THEN /\ todo = req.seeds /\ queue = <<>>
            /\ via = [n \in Node |-> Unseen]
            /\ pc = "seed"
       ELSE /\ todo = <<>> /\ queue = req.seeds
            /\ via = [n \in Node |-> IF n \in SetOf(req.seeds) THEN Root ELSE Unseen]
            /\ pc = "pop"

-----------------------------------------------------------------------------
(* Both searches.                                                          *)

Full == Len(results) >= req.limit

\* the request's depth is at least one level
Depth == IF req.depth < 1 THEN 1 ELSE req.depth

DepthForAll(n) == level[n] >= Depth                         \* mutant of TooDeep
\* neighbors does not expand a node as deep as the request goes
TooDeep(n) == ~ IsPath /\ level[n] >= Depth

Pop ==
  /\ pc = "pop" /\ queue # <<>> /\ (IsPath \/ ~ Full)
  /\ queue' = Tail(queue)
  /\ IF TooDeep(Head(queue))
       THEN UNCHANGED <<current, rest, pc>>
       ELSE current' = Head(queue) /\ rest' = Adjacent(Head(queue)) /\ pc' = "scan"
  /\ UNCHANGED <<request, via, level, todo, source, path, results, answer>>

\* a row that leads nowhere new
SkipRow(r) ==
  /\ pc = "scan" /\ r \in rest
  /\ ~ Passes(r.node) \/ (IsPath /\ r.node \in Seen)
  /\ rest' = rest \ {r}
  /\ UNCHANGED <<request, queue, via, level, current, pc, todo, source, path, results, answer>>

ScanDone ==
  /\ pc = "scan" /\ rest = {}
  /\ pc' = "pop"
  /\ UNCHANGED <<request, search, todo, source, path, results, answer>>

FromSeed(m) ==                                              \* mutant of Reach
  /\ via' = [via EXCEPT ![m] = IF IsPath THEN source ELSE current]
  /\ level' = [level EXCEPT ![m] = level[current] + 1]
Reach(m) ==
  /\ via' = [via EXCEPT ![m] = current]
  /\ level' = [level EXCEPT ![m] = level[current] + 1]

Stacked(m) == queue' = <<m>> \o queue                         \* mutant of Enqueue
Enqueue(m) == queue' = Append(queue, m)

-----------------------------------------------------------------------------
(* build_shortest_paths                                                    *)

NextSeed ==
  /\ pc = "seed" /\ todo # <<>> /\ req.targets # {} /\ ~ Full
  /\ source' = Head(todo) /\ todo' = Tail(todo)
  /\ queue' = <<Head(todo)>>
  /\ via' = [n \in Node |-> IF n = Head(todo) THEN Root ELSE Unseen]
  /\ level' = [n \in Node |-> 0]
  /\ pc' = "pop"
  /\ UNCHANGED <<request, current, rest, path, results, answer>>

PathRow(r) ==
  /\ pc = "scan" /\ IsPath /\ r \in rest
  /\ Passes(r.node) /\ r.node \notin Seen
  /\ Reach(r.node)
  /\ IF r.node \in req.targets
       THEN /\ pc' = "trace" /\ rest' = {} /\ path' = <<>> /\ current' = r.node
            /\ UNCHANGED queue
       ELSE /\ Enqueue(r.node) /\ rest' = rest \ {r}
            /\ UNCHANGED <<pc, path, current>>
  /\ UNCHANGED <<request, todo, source, results, answer>>

NotFound ==
  /\ pc = "pop" /\ IsPath /\ queue = <<>>
  /\ pc' = "seed"
  /\ UNCHANGED <<request, search, todo, source, path, results, answer>>

\* parents are followed back from the target, now in current, to the seed
Trace ==
  /\ pc = "trace"
  /\ path' = <<current>> \o path
  /\ IF via[current] = Root
       THEN results' = Append(results, path') /\ pc' = "seed" /\ UNCHANGED current
       ELSE current' = via[current] /\ UNCHANGED <<results, pc>>
  /\ UNCHANGED <<request, queue, via, level, rest, todo, source, answer>>

-----------------------------------------------------------------------------
(* build_neighbors                                                         *)

HitAt(r, k) == [node |-> r.node, type |-> r.type, dir |-> r.dir, depth |-> k + 1]
HitOf(r) == HitAt(r, level[current])
IsNew(h) == h \notin SetOf(results)

NeighborRow(r) ==
  /\ pc = "scan" /\ ~ IsPath /\ r \in rest
  /\ Passes(r.node)
  /\ IF IsNew(HitOf(r))
       THEN /\ results' = Append(results, HitOf(r))
            /\ IF r.node \in Seen
                 THEN UNCHANGED <<via, level, queue>>
                 ELSE Reach(r.node) /\ Enqueue(r.node)
            /\ IF Len(results') >= req.limit
                 THEN rest' = {} /\ pc' = "pop"
                 ELSE rest' = rest \ {r} /\ UNCHANGED pc
       ELSE rest' = rest \ {r} /\ UNCHANGED <<results, via, level, queue, pc>>
  /\ UNCHANGED <<request, current, todo, source, path, answer>>

-----------------------------------------------------------------------------
(* The answer: results sorted by hops or depth, ties by type and names.    *)

Weight(x) == IF IsPath THEN Len(x) ELSE x.depth

LimitForgotten ==                                           \* mutant of Searched
  IF IsPath THEN pc = "seed" /\ (todo = <<>> \/ req.targets = {})
            ELSE pc = "pop" /\ queue = <<>>
Searched ==
  IF IsPath THEN pc = "seed" /\ (todo = <<>> \/ req.targets = {} \/ Full)
            ELSE pc = "pop" /\ (queue = <<>> \/ Full)

Answer ==
  /\ Searched
  /\ \E order \in [DOMAIN results -> DOMAIN results] :
       /\ \A i, j \in DOMAIN results : order[i] = order[j] => i = j
       /\ \A i, j \in DOMAIN results :
            i < j => Weight(results[order[i]]) <= Weight(results[order[j]])
       /\ answer' = [i \in DOMAIN results |-> results[order[i]]]
  /\ pc' = "done"
  /\ UNCHANGED <<request, search, todo, source, path, results>>

Next ==
  \/ NextSeed \/ Pop \/ ScanDone \/ NotFound \/ Trace \/ Answer
  \/ \E r \in rest : SkipRow(r) \/ PathRow(r) \/ NeighborRow(r)

Spec == Init /\ [][Next]_vars

(* A query is one thread that runs to its end.                             *)
FairSpec == Spec /\ WF_vars(Next)

-----------------------------------------------------------------------------
(* The nodes within k rows of S, by definition.                            *)
Linked(a, b) == Passes(b) /\ \E r \in Adjacent(a) : r.node = b
Links == {p \in Node \X Node : Linked(p[1], p[2])}

Onward(L, A) == A \cup {m \in Node : \E n \in A : <<n, m>> \in L}

Within(L, S) ==
  LET W[k \in Nat] == IF k = 0 THEN S ELSE Onward(L, W[k - 1])
  IN  W

Ball(S) == Within(Links, S)

Goals(s) == req.targets \ {s}

(* A path returned is a path of the graph: from a seed to a target, along  *)
(* rows of the requested types and direction, never twice through a node,  *)
(* and between its ends only through nodes the filter lets pass that are   *)
(* no targets themselves.                                                  *)
IsPathTo(p, s) ==
  /\ Len(p) >= 2 /\ p[1] = s /\ p[Len(p)] \in Goals(s)
  /\ \A i \in 1..(Len(p) - 1) : Linked(p[i], p[i + 1])
  /\ \A i \in 2..(Len(p) - 1) : p[i] \notin req.targets
  /\ \A i, j \in DOMAIN p : p[i] = p[j] => i = j

PathsAreReal ==
  IsPath => \A i \in DOMAIN results : \E s \in SetOf(req.seeds) : IsPathTo(results[i], s)

(* hop_count is the distance from the seed to the nearest of the other     *)
(* targets, in whatever order the database yields its rows.                *)
PathsAreShortest ==
  IsPath => \A i \in DOMAIN results :
    LET p == results[i] IN Ball({p[1]})[Len(p) - 2] \cap Goals(p[1]) = {}

(* A seed left without a path has none: some set of nodes holds the seed   *)
(* and no other target, and no row leads out of it.                        *)
Barren(s) ==
  \E C \in SUBSET Node :
    /\ s \in C /\ C \cap Goals(s) = {}
    /\ \A a \in C, b \in Node : Linked(a, b) => b \in C

NoPathMissed ==
  pc = "done" /\ IsPath /\ Len(results) < req.limit =>
    \A s \in SetOf(req.seeds) :
      Barren(s) \/ \E i \in DOMAIN results : results[i][1] = s

(* build_neighbors by definition: a row of a node at distance k from the   *)
(* seeds is a hit of depth k + 1.                                          *)
Distant(n, k) ==
  LET B == Ball(SetOf(req.seeds))
  IN  n \in B[k] /\ (k > 0 => n \notin B[k - 1])

RowsAt(k) == {r \in Row : Passes(r.node) /\ \E n \in Node : Distant(n, k) /\ r \in Adjacent(n)}

Hits == UNION {{HitAt(r, k) : r \in RowsAt(k)} : k \in 0..(Depth - 1)}

(* The limit drops the farthest: what is returned are hits, each once, and *)
(* a hit is left out only when the answer is full of hits no deeper.       *)
NeighborsAreNearest ==
  pc = "done" /\ ~ IsPath =>
    /\ Len(answer) <= req.limit
    /\ SetOf(answer) \subseteq Hits
    /\ \A i, j \in DOMAIN answer : answer[i] = answer[j] => i = j
    /\ \A i, j \in DOMAIN answer : i < j => answer[i].depth <= answer[j].depth
    /\ \A h \in Hits \ SetOf(answer) :
         Len(answer) = req.limit /\ \A i \in DOMAIN answer : answer[i].depth <= h.depth

(* Cycles of the graph and of the parents never trap a query.              *)
QueryAnswers == <>(pc = "done")
=============================================================================
