-------------------------- MODULE GraphQueryProofs --------------------------
(***************************************************************************)
(* What the two searches promise holds for every graph, every request and  *)
(* every order of the rows of the database: first that the paths are real  *)
(* and none is missed, which the tree of parents shows, then that paths    *)
(* are shortest and neighbours the nearest, for which the layers of the    *)
(* search are compared with the balls around its start.                    *)
(***************************************************************************)
EXTENDS GraphQuery, SequenceTheorems, FiniteSetTheorems, WellFoundedInduction, TLAPS

\* What the searches keep: only nodes that were reached are expanded, and
\* each was reached from another or is where the search started.
Shape ==
  /\ pc \in {"seed", "trace"} => IsPath
  /\ pc \in {"scan", "trace"} => current \in Seen
  /\ pc = "trace" => rest = {}
  /\ rest \subseteq Adjacent(current)
  /\ SetOf(queue) \subseteq Seen
  /\ \A n \in Node : via[n] \in Node => via[n] \in Seen

TInv == TypeOK /\ Shape

-----------------------------------------------------------------------------
(* Sequences as the sets of their elements.                                *)

LEMMA Elements ==
  ASSUME NEW S, NEW s \in Seq(S)
  PROVE  SetOf(s) \subseteq S /\ (s # <<>> => s[1] \in SetOf(s) /\ s[Len(s)] \in SetOf(s))
  BY LenProperties, EmptySeq, ElementOfSeq DEF SetOf

LEMMA Appended ==
  ASSUME NEW S, NEW s \in Seq(S), NEW e \in S
  PROVE  Append(s, e) \in Seq(S) /\ SetOf(Append(s, e)) = SetOf(s) \cup {e}
  <1>1. /\ Append(s, e) \in Seq(S) /\ Len(s) \in Nat /\ Len(Append(s, e)) = Len(s) + 1
        /\ DOMAIN s = 1..Len(s) /\ DOMAIN Append(s, e) = 1..(Len(s) + 1)
        /\ \A i \in 1..Len(s) : Append(s, e)[i] = s[i]
        /\ Append(s, e)[Len(s) + 1] = e
    BY AppendProperties, LenProperties
  <1>2. SetOf(Append(s, e)) \subseteq SetOf(s) \cup {e}
    BY <1>1 DEF SetOf
  <1>3. \A i \in 1..Len(s) : s[i] \in SetOf(Append(s, e))
    <2> SUFFICES ASSUME NEW i \in 1..Len(s) PROVE s[i] \in SetOf(Append(s, e))
      OBVIOUS
    <2>1. i \in DOMAIN Append(s, e) /\ Append(s, e)[i] = s[i]
      BY <1>1
    <2> QED BY <2>1 DEF SetOf
  <1>4. e \in SetOf(Append(s, e))
    <2>1. Len(s) + 1 \in DOMAIN Append(s, e)
      BY <1>1
    <2> QED BY <1>1, <2>1 DEF SetOf
  <1>5. SetOf(s) \subseteq SetOf(Append(s, e))
    BY <1>1, <1>3 DEF SetOf
  <1> QED BY <1>1, <1>2, <1>4, <1>5

LEMMA Split ==
  ASSUME NEW S, NEW s \in Seq(S), s # <<>>
  PROVE  /\ Head(s) \in S /\ Tail(s) \in Seq(S)
         /\ SetOf(s) = {Head(s)} \cup SetOf(Tail(s))
  <1>1. /\ Head(s) = s[1] /\ Head(s) \in S /\ Tail(s) \in Seq(S)
        /\ Len(s) \in Nat \ {0} /\ Len(Tail(s)) = Len(s) - 1
        /\ \A i \in 1..(Len(s) - 1) : Tail(s)[i] = s[i + 1]
        /\ DOMAIN s = 1..Len(s) /\ DOMAIN Tail(s) = 1..(Len(s) - 1)
    BY HeadTailProperties, LenProperties, EmptySeq
  <1>2. ASSUME NEW x \in SetOf(s) PROVE x \in {Head(s)} \cup SetOf(Tail(s))
    <2>1. PICK i \in 1..Len(s) : x = s[i]
      BY <1>1 DEF SetOf
    <2>2. CASE i = 1
      BY <2>1, <2>2, <1>1
    <2>3. CASE i # 1
      <3>1. i - 1 \in 1..(Len(s) - 1) /\ Tail(s)[i - 1] = s[i]
        BY <2>1, <2>3, <1>1
      <3> QED BY <2>1, <3>1, <1>1 DEF SetOf
    <2> QED BY <2>2, <2>3
  <1>3. ASSUME NEW x \in {Head(s)} \cup SetOf(Tail(s)) PROVE x \in SetOf(s)
    <2>1. CASE x = Head(s)
      BY <2>1, <1>1 DEF SetOf
    <2>2. CASE x \in SetOf(Tail(s))
      <3>1. PICK i \in 1..(Len(s) - 1) : x = Tail(s)[i]
        BY <2>2, <1>1 DEF SetOf
      <3>2. i + 1 \in DOMAIN s /\ x = s[i + 1]
        BY <3>1, <1>1
      <3> QED BY <3>2 DEF SetOf
    <2> QED BY <2>1, <2>2
  <1> QED BY <1>1, <1>2, <1>3

-----------------------------------------------------------------------------
(* Types.                                                                  *)

LEMMA RowsTyped == TypeOK => \A n : Adjacent(n) \subseteq Row
  BY DEF TypeOK, Adjacent, Row, Edge

LEMMA InitTyped == Init => TInv
  <1> SUFFICES ASSUME Init PROVE TInv
    OBVIOUS
  <1>1. graph \in SUBSET Edge /\ req \in Request
    BY GraphAssumption, RequestAssumption DEF Init
  <1>2. req.seeds \in Seq(Node)
    BY <1>1 DEF Request
  <1>3. /\ todo \in Seq(Node) /\ queue \in Seq(Node) /\ path \in Seq(Node)
        /\ results \in Seq(Result) /\ answer \in Seq(Result)
    BY <1>2, EmptySeq DEF Init
  <1>4. TypeOK
    BY <1>1, <1>3 DEF Init, TypeOK
  <1>5. SetOf(queue) \subseteq Seen
    <2>1. CASE IsPath
      BY <2>1 DEF Init, SetOf
    <2>2. CASE ~IsPath
      <3>1. SetOf(queue) \subseteq Node
        BY <1>3, Elements
      <3> QED BY <2>2, <3>1 DEF Init, Seen, Root, Unseen
    <2> QED BY <2>1, <2>2
  <1>6. \A n \in Node : via[n] \notin Node
    <2>1. \A n \in Node : via[n] \in {Root, Unseen}
      BY DEF Init
    <2>2. Root \notin Node /\ Unseen \notin Node
      BY NAssumption DEF Root, Unseen, Node
    <2> QED BY <2>1, <2>2
  <1>7. Shape
    BY <1>5, <1>6 DEF Init, Shape
  <1> QED BY <1>4, <1>7 DEF TInv

LEMMA StepTyped == TInv /\ [Next]_vars => TInv'
  <1> SUFFICES ASSUME TInv, [Next]_vars PROVE TInv'
    OBVIOUS
  <1> USE DEF TInv
  <1>0. /\ TypeOK /\ Shape
        /\ queue \in Seq(Node) /\ todo \in Seq(Node) /\ path \in Seq(Node)
    BY DEF TypeOK
  <1>a. ASSUME UNCHANGED request
        PROVE  IsPath' = IsPath /\ Result' = Result /\ \A n : Adjacent(n)' = Adjacent(n)
    BY <1>a DEF request, IsPath, Result, Adjacent
  <1>b. \A n \in Node : n \in Seen <=> via[n] # Unseen
    BY DEF Seen
  <1>1. CASE NextSeed
    <2>1. /\ pc' = "pop" /\ source' \in Node /\ todo' \in Seq(Node) /\ source' = Head(todo)
          /\ UNCHANGED <<request, current, rest, path, results, answer>>
      BY <1>0, <1>1, Split DEF NextSeed
    <2>2. queue' = <<source'>> /\ queue' \in Seq(Node) /\ SetOf(queue') = {source'}
      BY <1>1, <2>1 DEF NextSeed, SetOf
    <2>3. via' = [n \in Node |-> IF n = source' THEN Root ELSE Unseen] /\ level' = [n \in Node |-> 0]
      BY <1>1, <2>1 DEF NextSeed
    <2>4. TypeOK'
      BY <1>a, <2>1, <2>2, <2>3 DEF TypeOK, request
    <2>5. Shape'
      BY <1>a, <2>1, <2>2, <2>3 DEF Shape, Seen, Root, Unseen, Node
    <2> QED BY <2>4, <2>5
  <1>2. CASE Pop
    <2>1. /\ Head(queue) \in Node /\ queue' \in Seq(Node) /\ queue' = Tail(queue)
          /\ SetOf(queue') \subseteq SetOf(queue) /\ Head(queue) \in SetOf(queue)
      BY <1>0, <1>2, Split DEF Pop
    <2>2. UNCHANGED <<request, via, level, todo, source, path, results, answer>>
      BY <1>2 DEF Pop
    <2>3. CASE TooDeep(Head(queue))
      BY <1>0, <1>2, <1>a, <2>1, <2>2, <2>3 DEF Pop, TypeOK, Shape, Seen, request
    <2>4. CASE ~TooDeep(Head(queue))
      <3>1. current' = Head(queue) /\ rest' = Adjacent(Head(queue)) /\ pc' = "scan"
        BY <1>2, <2>4 DEF Pop
      <3>2. rest' \in SUBSET Row
        BY <3>1, RowsTyped
      <3>3. TypeOK'
        BY <1>a, <2>1, <2>2, <3>1, <3>2 DEF TypeOK, request
      <3>4. Shape'
        BY <1>a, <2>1, <2>2, <3>1 DEF Shape, Seen
      <3> QED BY <3>3, <3>4
    <2> QED BY <2>3, <2>4
  <1>3. CASE ScanDone
    BY <1>3, <1>a DEF ScanDone, TypeOK, Shape, Seen, request, search
  <1>4. CASE NotFound
    BY <1>4, <1>a DEF NotFound, TypeOK, Shape, Seen, request, search
  <1>5. CASE Trace
    <2>1. /\ pc = "trace" /\ IsPath /\ current \in Seen /\ current \in Node
          /\ UNCHANGED <<request, queue, via, level, rest, todo, source, answer>>
          /\ rest = {}
      BY <1>5 DEF Trace, Shape, Seen
    <2>2. path' \in Seq(Node)
      <3>1. <<current>> \in Seq(Node)
        BY <2>1
      <3> QED BY <1>0, <1>5, <3>1, ConcatProperties DEF Trace
    <2>3. CASE via[current] = Root
      <3>1. results' \in Seq(Result)
        <4>1. results \in Seq(Result) /\ path' \in Result /\ results' = Append(results, path')
          BY <1>5, <2>1, <2>2, <2>3 DEF Trace, TypeOK, Result
        <4> QED BY <4>1, Appended
      <3>2. pc' = "seed" /\ current' = current
        BY <1>5, <2>3 DEF Trace
      <3> QED BY <1>a, <2>1, <2>2, <3>1, <3>2 DEF TypeOK, Shape, Seen, request
    <2>4. CASE via[current] # Root
      <3>1. current' = via[current] /\ via[current] \in Node /\ UNCHANGED <<results, pc>>
        BY <1>5, <2>1, <2>4 DEF Trace, TypeOK, Seen
      <3> QED BY <1>a, <2>1, <2>2, <3>1 DEF TypeOK, Shape, Seen, request
    <2> QED BY <2>3, <2>4
  <1>6. CASE Answer
    <2>1. PICK order \in [DOMAIN results -> DOMAIN results] :
            answer' = [i \in DOMAIN results |-> results[order[i]]]
      BY <1>6 DEF Answer
    <2>2. answer' \in Seq(Result)
      <3>1. /\ results \in Seq(Result) /\ DOMAIN results = 1..Len(results)
            /\ Len(results) \in Nat
        BY LenProperties DEF TypeOK
      <3>2. \A i \in 1..Len(results) : results[order[i]] \in Result
        BY <3>1, ElementOfSeq
      <3>3. answer' \in [1..Len(results) -> Result]
        BY <2>1, <3>1, <3>2
      <3> QED BY <3>1, <3>3, SeqDef
    <2>3. pc' = "done" /\ UNCHANGED <<request, search, todo, source, path, results>>
      BY <1>6 DEF Answer
    <2> QED BY <1>a, <2>2, <2>3 DEF TypeOK, Shape, Seen, request, search
  <1>7. ASSUME NEW r \in rest, SkipRow(r) PROVE TInv'
    BY <1>7, <1>a DEF SkipRow, TypeOK, Shape, Seen, request
  <1> DEFINE Scanned(r) == r.node \in Node /\ current \in Node /\ current \in Seen /\ r \in Row
  <1>r. ASSUME NEW r \in rest, pc = "scan" PROVE Scanned(r)
    <2>1. r \in Row /\ current \in Seen
      BY <1>r DEF TypeOK, Shape
    <2> QED BY <2>1 DEF Row, Seen
  \* reaching a node that was not seen keeps the tree
  <1>t. ASSUME NEW m \in Node, current \in Node, current \in Seen, Reach(m)
        PROVE  /\ via' \in [Node -> Node \cup {Root, Unseen}] /\ level' \in [Node -> Nat]
               /\ Seen' = Seen \cup {m}
               /\ \A n \in Node : via'[n] \in Node => via'[n] \in Seen'
    <2>1. level[current] + 1 \in Nat
      BY <1>t DEF TypeOK
    <2>2. /\ via' = [via EXCEPT ![m] = current] /\ level' = [level EXCEPT ![m] = level[current] + 1]
          /\ current # Unseen
      BY <1>t DEF Reach, Node, Unseen
    <2>3. via' \in [Node -> Node \cup {Root, Unseen}] /\ level' \in [Node -> Nat]
      BY <1>t, <2>1, <2>2 DEF TypeOK
    <2>4. Seen' = Seen \cup {m}
      BY <2>2 DEF TypeOK, Seen
    <2>5. \A n \in Node : via'[n] \in Node => via'[n] \in Seen'
      BY <1>t, <2>2, <2>4 DEF TypeOK, Shape
    <2> QED BY <2>3, <2>4, <2>5
  <1>8. ASSUME NEW r \in rest, PathRow(r) PROVE TInv'
    <2>1. /\ Scanned(r) /\ IsPath /\ Reach(r.node) /\ pc = "scan"
          /\ UNCHANGED <<request, todo, source, results, answer>>
      BY <1>8, <1>r DEF PathRow
    <2>2. CASE r.node \in req.targets
      <3>1. pc' = "trace" /\ rest' = {} /\ path' = <<>> /\ current' = r.node /\ queue' = queue
        BY <1>8, <2>2 DEF PathRow
      <3>2. path' \in Seq(Node)
        BY <3>1, EmptySeq
      <3> QED BY <1>a, <1>t, <2>1, <3>1, <3>2 DEF TypeOK, Shape, request
    <2>3. CASE r.node \notin req.targets
      <3>1. /\ queue' = Append(queue, r.node) /\ rest' = rest \ {r}
            /\ UNCHANGED <<pc, path, current>>
        BY <1>8, <2>3 DEF PathRow, Enqueue
      <3>2. queue' \in Seq(Node) /\ SetOf(queue') = SetOf(queue) \cup {r.node}
        BY <1>0, <2>1, <3>1, Appended
      <3> QED BY <1>a, <1>t, <2>1, <3>1, <3>2 DEF TypeOK, Shape, request
    <2> QED BY <2>2, <2>3
  <1>9. ASSUME NEW r \in rest, NeighborRow(r) PROVE TInv'
    <2>1. /\ Scanned(r) /\ ~IsPath /\ pc = "scan" /\ rest' \in SUBSET rest /\ pc' \in {"scan", "pop"}
          /\ UNCHANGED <<request, current, todo, source, path, answer>>
      BY <1>9, <1>r DEF NeighborRow
    <2>2. results' \in Seq(Result)
      <3>1. HitOf(r) \in Result
        BY <2>1 DEF HitOf, HitAt, Hit, Result, Row, TypeOK
      <3>2. results' = results \/ results' = Append(results, HitOf(r))
        BY <1>9 DEF NeighborRow
      <3>3. results \in Seq(Result)
        BY DEF TypeOK
      <3> QED BY <3>1, <3>2, <3>3, Appended
    <2>3. CASE UNCHANGED <<via, level, queue>>
      BY <1>a, <2>1, <2>2, <2>3 DEF TypeOK, Shape, Seen, request
    <2>4. CASE Reach(r.node) /\ Enqueue(r.node)
      <3>1. queue' \in Seq(Node) /\ SetOf(queue') = SetOf(queue) \cup {r.node}
        BY <1>0, <2>1, <2>4, Appended DEF Enqueue
      <3> QED BY <1>a, <1>t, <2>1, <2>2, <2>4, <3>1 DEF TypeOK, Shape, request
    <2> QED BY <1>9, <2>3, <2>4 DEF NeighborRow
  <1>10. CASE UNCHANGED vars
    BY <1>10, <1>a DEF vars, TypeOK, Shape, Seen, request, search
  <1> QED BY <1>1, <1>2, <1>3, <1>4, <1>5, <1>6, <1>7, <1>8, <1>9, <1>10 DEF Next

(* Every variable keeps its type, and only nodes that were reached are     *)
(* expanded: the tree of parents has no dangling branch.                   *)
THEOREM TypeCorrect == Spec => []TypeOK
  <1>1. TInv => TypeOK
    BY DEF TInv
  <1> QED BY InitTyped, StepTyped, <1>1, PTL DEF Spec

-----------------------------------------------------------------------------
(* Paths.  The tree of parents is rooted in the seed being searched, its   *)
(* branches are rows of the graph, each one level deeper than its parent,  *)
(* and it holds no target but the one that ended the search.               *)

Walked == <<current>> \o path
Last   == Walked[Len(Walked)]

Tree ==
  IsPath /\ pc \in {"pop", "scan", "trace"} =>
    /\ source \in SetOf(req.seeds)
    /\ \A n \in Node : via[n] = Root <=> n = source
    /\ \A n \in Node : via[n] \in Node => Linked(via[n], n) /\ level[n] = level[via[n]] + 1
    /\ \A n \in Seen : n \in Goals(source) => pc = "trace" /\ n = Last

\* the part of the path that has been walked back, current first
Walk ==
  pc = "trace" =>
    /\ Last \in Goals(source)
    /\ \A i \in 1..(Len(Walked) - 1) :
         Linked(Walked[i], Walked[i + 1]) /\ Walked[i] \notin Goals(source)
    /\ \A i \in 1..Len(Walked) : level[Walked[i]] = level[current] + (i - 1)

\* a row out of a node reached leads to a node reached or will be looked at
Closed ==
  IsPath /\ pc \in {"pop", "scan"} =>
    \A a \in Seen, b \in Node :
      Linked(a, b) => \/ b \in Seen
                      \/ a \in SetOf(queue)
                      \/ pc = "scan" /\ a = current /\ \E r \in rest : r.node = b

HasPath(s) == \E i \in DOMAIN results : results[i][1] = s

\* every seed is to be searched, is being searched, or has been settled
Covered ==
  IsPath =>
    /\ SetOf(todo) \subseteq SetOf(req.seeds)
    /\ pc # "done" =>
         \A s \in SetOf(req.seeds) :
           \/ s \in SetOf(todo)
           \/ pc # "seed" /\ s = source
           \/ Barren(s)
           \/ HasPath(s)

PathInv == Tree /\ Walk /\ Closed /\ Covered /\ PathsAreReal /\ NoPathMissed

PInv == TInv /\ PathInv

-----------------------------------------------------------------------------
LEMMA Prepended ==
  ASSUME NEW S, NEW x \in S, NEW s \in Seq(S)
  PROVE  /\ <<x>> \o s \in Seq(S) /\ Len(s) \in Nat
         /\ Len(<<x>> \o s) = Len(s) + 1 /\ (<<x>> \o s)[1] = x
         /\ \A i \in 1..Len(s) : (<<x>> \o s)[i + 1] = s[i]
  <1>1. <<x>> \in Seq(S) /\ Len(<<x>>) = 1 /\ <<x>>[1] = x
    OBVIOUS
  <1>2. Len(s) \in Nat
    BY LenProperties
  <1>3. /\ <<x>> \o s \in Seq(S) /\ Len(<<x>> \o s) = 1 + Len(s)
        /\ \A i \in 1..(1 + Len(s)) :
             (<<x>> \o s)[i] = IF i <= 1 THEN <<x>>[i] ELSE s[i - 1]
    BY <1>1, ConcatProperties
  <1>4. (<<x>> \o s)[1] = x
    BY <1>1, <1>2, <1>3
  <1>5. \A i \in 1..Len(s) : (<<x>> \o s)[i + 1] = s[i]
    BY <1>2, <1>3
  <1> QED BY <1>2, <1>3, <1>4, <1>5

\* A query only reads the graph.
LEMMA Rigid ==
  ASSUME UNCHANGED request
  PROVE  /\ IsPath' = IsPath /\ req' = req
         /\ \A a, b : Linked(a, b)' = Linked(a, b)
         /\ \A s : Goals(s)' = Goals(s) /\ Barren(s)' = Barren(s)
         /\ \A p, s : IsPathTo(p, s)' = IsPathTo(p, s)
  <1>1. graph' = graph /\ req' = req
    BY DEF request
  <1>2. IsPath' = IsPath /\ \A b : Passes(b)' = Passes(b)
    BY <1>1 DEF IsPath, Passes
  <1>3. \A a : Adjacent(a)' = Adjacent(a)
    BY <1>1 DEF Adjacent
  <1>4. \A a, b : Linked(a, b)' = Linked(a, b)
    BY <1>2, <1>3 DEF Linked
  <1>5. \A s : Goals(s)' = Goals(s)
    BY <1>1 DEF Goals
  <1>6. \A s : Barren(s)' = Barren(s)
    BY <1>4, <1>5 DEF Barren
  <1>7. \A p, s : IsPathTo(p, s)' = IsPathTo(p, s)
    <2> SUFFICES ASSUME NEW p, NEW s PROVE IsPathTo(p, s)' = IsPathTo(p, s)
      OBVIOUS
    <2>1. req'.targets = req.targets
      BY <1>1
    <2>2. \A i : Linked(p[i], p[i + 1])' = Linked(p[i], p[i + 1])
      BY <1>4
    <2> QED BY <1>5, <2>1, <2>2 DEF IsPathTo
  <1> QED BY <1>1, <1>2, <1>4, <1>5, <1>6, <1>7

LEMMA InitPath == Init => PathInv
  <1> SUFFICES ASSUME Init PROVE PathInv
    OBVIOUS
  <1>1. Tree /\ Walk /\ Closed /\ NoPathMissed
    BY DEF Init, Tree, Walk, Closed, NoPathMissed
  <1>2. Covered
    <2> SUFFICES ASSUME IsPath PROVE Covered
      BY DEF Covered
    <2>1. todo = req.seeds
      BY DEF Init
    <2>2. SetOf(todo) = SetOf(req.seeds)
      BY <2>1
    <2> QED BY <2>2 DEF Covered
  <1>3. PathsAreReal
    BY DEF Init, PathsAreReal
  <1> QED BY <1>1, <1>2, <1>3 DEF PathInv

\* The path that reaches the root is one the answer promises.
LEMMA TracedPath ==
  ASSUME PInv, pc = "trace", via[current] = Root
  PROVE  Walked[1] = source /\ source \in SetOf(req.seeds) /\ IsPathTo(Walked, source)
  <1>1. /\ IsPath /\ current \in Node /\ path \in Seq(Node)
        /\ \A n \in Node : level[n] \in Nat
    BY DEF PInv, TInv, TypeOK, Shape, Seen
  <1>2. /\ Walked \in Seq(Node) /\ Walked[1] = current /\ Len(Walked) \in Nat \ {0}
        /\ DOMAIN Walked = 1..Len(Walked)
    BY <1>1, Prepended, LenProperties DEF Walked
  <1>3. current = source /\ source \in SetOf(req.seeds)
    BY <1>1 DEF PInv, PathInv, Tree
  <1>4. /\ Last \in Goals(source)
        /\ \A i \in 1..(Len(Walked) - 1) :
             Linked(Walked[i], Walked[i + 1]) /\ Walked[i] \notin Goals(source)
        /\ \A i \in 1..Len(Walked) : level[Walked[i]] = level[current] + (i - 1)
    BY DEF PInv, PathInv, Walk
  <1>5. Len(Walked) >= 2
    <2>1. Walked[1] \notin Goals(source)
      BY <1>2, <1>3 DEF Goals
    <2>2. Len(Walked) # 1
      BY <1>4, <2>1 DEF Last
    <2> QED BY <1>2, <2>2
  <1>6. \A i, j \in DOMAIN Walked : Walked[i] = Walked[j] => i = j
    <2> SUFFICES ASSUME NEW i \in 1..Len(Walked), NEW j \in 1..Len(Walked),
                        Walked[i] = Walked[j]
                 PROVE  i = j
      BY <1>2
    <2>1. level[Walked[i]] = level[current] + (i - 1) /\ level[Walked[j]] = level[current] + (j - 1)
      BY <1>4
    <2>2. level[current] \in Nat /\ i \in Nat /\ j \in Nat
      BY <1>1, <1>2
    <2> QED BY <2>1, <2>2
  <1>7. \A i \in 2..(Len(Walked) - 1) : Walked[i] \notin req.targets
    <2> SUFFICES ASSUME NEW i \in 2..(Len(Walked) - 1) PROVE Walked[i] \notin req.targets
      OBVIOUS
    <2>1. i \in 1..(Len(Walked) - 1) /\ i \in DOMAIN Walked /\ 1 \in DOMAIN Walked /\ i # 1
      BY <1>2, <1>5
    <2>2. Walked[i] # source
      BY <1>2, <1>3, <1>6, <2>1
    <2> QED BY <1>4, <2>1, <2>2 DEF Goals
  <1> QED BY <1>2, <1>3, <1>4, <1>5, <1>6, <1>7 DEF IsPathTo, Last

-----------------------------------------------------------------------------
LEMMA StepPath == PInv /\ TInv' /\ [Next]_vars => PathInv'
  <1> SUFFICES ASSUME PInv, TInv', [Next]_vars PROVE PathInv'
    OBVIOUS
  <1>0. /\ TInv /\ TypeOK /\ Shape /\ Tree /\ Walk /\ Closed /\ Covered
        /\ PathsAreReal /\ NoPathMissed /\ TypeOK' /\ Shape'
    BY DEF PInv, PathInv, TInv
  <1>a. UNCHANGED request
    BY DEF Next, NextSeed, Pop, ScanDone, NotFound, Trace, Answer, SkipRow, PathRow,
           NeighborRow, vars, request
  <1>1. /\ IsPath' = IsPath /\ req' = req
        /\ \A a, b : Linked(a, b)' = Linked(a, b)
        /\ \A s : Goals(s)' = Goals(s) /\ Barren(s)' = Barren(s)
        /\ \A p, s : IsPathTo(p, s)' = IsPathTo(p, s)
    BY <1>a, Rigid
  <1>2. CASE ~IsPath
    <2>1. ~IsPath'
      BY <1>1, <1>2
    <2> QED BY <1>0, <2>1
        DEF PathInv, Tree, Walk, Closed, Covered, PathsAreReal, NoPathMissed, Shape
  <1> SUFFICES ASSUME IsPath PROVE PathInv'
    BY <1>2
  \* what does not depend on the step but on the results it leaves alone
  <1>k. ASSUME results' = results PROVE PathsAreReal' /\ \A s : HasPath(s)' = HasPath(s)
    BY <1>0, <1>1, <1>k DEF PathsAreReal, HasPath
  <1>t. \A n \in Node : n \in Seen <=> via[n] # Unseen
    BY DEF Seen
  <1>3. CASE NextSeed
    <2>1. /\ pc = "seed" /\ pc' = "pop" /\ source' = Head(todo) /\ todo' = Tail(todo)
          /\ queue' = <<source'>> /\ results' = results
          /\ via' = [n \in Node |-> IF n = source' THEN Root ELSE Unseen]
      BY <1>3 DEF NextSeed
    <2>2. source' \in Node /\ SetOf(todo) = {source'} \cup SetOf(todo')
      BY <1>3, <1>0, <2>1, Split DEF NextSeed, TypeOK
    <2>3. SetOf(queue') = {source'} /\ Seen' = {source'}
      BY <2>1, <2>2 DEF SetOf, Seen, Root, Unseen
    <2>4. Tree'
      <3>1. \A n \in Node : via'[n] \notin Node
        BY <2>1, NAssumption DEF Root, Unseen, Node
      <3>2. source' \in SetOf(req.seeds)
        BY <1>0, <2>2 DEF Covered
      <3> QED BY <1>1, <2>1, <2>2, <2>3, <3>1, <3>2 DEF Tree, Goals, Root, Unseen
    <2>5. Walk' /\ Closed' /\ NoPathMissed'
      BY <2>1, <2>3 DEF Walk, Closed, NoPathMissed
    <2>6. Covered'
      BY <1>0, <1>1, <1>k, <2>1, <2>2 DEF Covered
    <2> QED BY <1>k, <2>1, <2>4, <2>5, <2>6 DEF PathInv
  <1>4. CASE Pop
    <2>1. /\ pc = "pop" /\ pc' = "scan" /\ current' = Head(queue) /\ rest' = Adjacent(current')
          /\ queue # <<>> /\ queue' = Tail(queue)
          /\ UNCHANGED <<request, via, level, todo, source, path, results>>
      BY <1>4 DEF Pop, TooDeep
    <2>2. SetOf(queue) = {current'} \cup SetOf(queue') /\ Seen' = Seen
      BY <1>0, <2>1, Split DEF TypeOK, Seen
    <2>3. Closed'
      <3> SUFFICES ASSUME NEW a \in Seen, NEW b \in Node, Linked(a, b), b \notin Seen,
                          a \notin SetOf(queue')
                   PROVE  a = current' /\ \E r \in rest' : r.node = b
        BY <1>1, <2>1, <2>2 DEF Closed
      <3>1. a \in SetOf(queue)
        BY <1>0, <2>1 DEF Closed
      <3> QED BY <2>1, <2>2, <3>1 DEF Linked
    <2>4. Tree' /\ Walk' /\ NoPathMissed'
      BY <1>0, <1>1, <2>1, <2>2 DEF Tree, Walk, NoPathMissed
    <2>5. Covered'
      BY <1>0, <1>1, <1>k, <2>1 DEF Covered
    <2> QED BY <1>k, <2>1, <2>3, <2>4, <2>5 DEF PathInv
  <1>5. CASE ScanDone
    <2>1. /\ pc = "scan" /\ pc' = "pop" /\ rest = {}
          /\ UNCHANGED <<via, level, queue, todo, source, results>>
      BY <1>5 DEF ScanDone, search
    <2>2. Seen' = Seen
      BY <2>1 DEF Seen
    <2>3. Tree' /\ Walk' /\ NoPathMissed' /\ Closed'
      BY <1>0, <1>1, <2>1, <2>2 DEF Tree, Walk, NoPathMissed, Closed
    <2>4. Covered'
      BY <1>0, <1>1, <1>k, <2>1 DEF Covered
    <2> QED BY <1>k, <2>1, <2>3, <2>4 DEF PathInv
  <1>6. CASE NotFound
    <2>1. /\ pc = "pop" /\ pc' = "seed" /\ queue = <<>>
          /\ UNCHANGED <<via, level, queue, todo, source, results>>
      BY <1>6 DEF NotFound, search
    <2>2. Barren(source)
      <3>1. SetOf(queue) = {}
        BY <2>1 DEF SetOf
      <3>2. Seen \in SUBSET Node /\ source \in Seen
        <4>1. source \in Node
          BY <1>0, <2>1, Elements DEF Tree, TypeOK, Request
        <4> QED BY <1>0, <2>1, <4>1 DEF Tree, Seen, Root, Unseen
      <3>3. Seen \cap Goals(source) = {}
        BY <1>0, <2>1 DEF Tree
      <3>4. \A a \in Seen, b \in Node : Linked(a, b) => b \in Seen
        BY <1>0, <2>1, <3>1 DEF Closed
      <3> QED BY <3>2, <3>3, <3>4 DEF Barren
    <2>3. Covered'
      BY <1>0, <1>1, <1>k, <2>1, <2>2 DEF Covered
    <2>4. Tree' /\ Walk' /\ NoPathMissed' /\ Closed'
      BY <2>1 DEF Tree, Walk, NoPathMissed, Closed
    <2> QED BY <1>k, <2>1, <2>3, <2>4 DEF PathInv
  <1>7. CASE Trace
    <2>1. /\ pc = "trace" /\ path' = Walked /\ current \in Node /\ path \in Seq(Node)
          /\ UNCHANGED <<via, level, todo, source>>
      BY <1>0, <1>7 DEF Trace, Walked, Shape, TypeOK, Seen
    <2>2. Seen' = Seen
      BY <2>1 DEF Seen
    <2>3. CASE via[current] = Root
      <3>1. pc' = "seed" /\ results' = Append(results, Walked)
        BY <1>7, <2>1, <2>3 DEF Trace
      <3>2. /\ Walked[1] = source /\ source \in SetOf(req.seeds)
            /\ IsPathTo(Walked, source)
        BY <2>1, <2>3, TracedPath
      <3>3. /\ results \in Seq(Seq(Node)) /\ Walked \in Seq(Node)
            /\ DOMAIN results = 1..Len(results) /\ Len(results) \in Nat
        BY <1>0, <2>1, Prepended, LenProperties DEF TypeOK, Result, Walked
      <3>4. /\ DOMAIN results' = 1..(Len(results) + 1)
            /\ \A i \in 1..Len(results) : results'[i] = results[i]
            /\ results'[Len(results) + 1] = Walked
        <4>1. /\ results' \in Seq(Seq(Node)) /\ Len(results') = Len(results) + 1
              /\ \A i \in 1..Len(results) : results'[i] = results[i]
              /\ results'[Len(results) + 1] = Walked
          BY <3>1, <3>3, AppendProperties
        <4>2. DOMAIN results' = 1..Len(results')
          BY <4>1, LenProperties
        <4> QED BY <4>1, <4>2
      <3>5. PathsAreReal'
        <4> SUFFICES ASSUME NEW i \in 1..(Len(results) + 1)
                     PROVE  \E s \in SetOf(req.seeds) : IsPathTo(results'[i], s)
          BY <1>1, <3>4 DEF PathsAreReal
        <4>1. CASE i = Len(results) + 1
          BY <4>1, <3>2, <3>4
        <4>2. CASE i \in 1..Len(results)
          BY <4>2, <1>0, <3>3, <3>4 DEF PathsAreReal
        <4> QED BY <4>1, <4>2, <3>3
      <3>6. \A s : HasPath(s) => HasPath(s)'
        BY <3>3, <3>4 DEF HasPath
      <3>7. HasPath(source)'
        <4>1. Len(results) + 1 \in DOMAIN results'
          BY <3>3, <3>4
        <4>2. results'[Len(results) + 1][1] = source
          BY <3>2, <3>4
        <4> QED BY <2>1, <4>1, <4>2 DEF HasPath
      <3>8. Covered'
        BY <1>0, <1>1, <2>1, <3>1, <3>6, <3>7 DEF Covered
      <3> QED BY <3>1, <3>5, <3>8 DEF PathInv, Tree, Walk, Closed, NoPathMissed
    <2>4. CASE via[current] # Root
      <3>1. pc' = pc /\ results' = results /\ current' = via[current]
        BY <1>7, <2>4 DEF Trace
      <3>2. /\ via[current] \in Node /\ via[current] \in Seen /\ Linked(via[current], current)
            /\ level[current] = level[via[current]] + 1 /\ level[via[current]] \in Nat
        BY <1>0, <2>1, <2>4 DEF Tree, Shape, TypeOK, Seen
      <3>3. /\ Walked \in Seq(Node) /\ Walked[1] = current /\ Len(Walked) \in Nat \ {0}
        BY <2>1, Prepended DEF Walked
      <3>4. /\ Walked' = <<via[current]>> \o Walked
            /\ Len(Walked') = Len(Walked) + 1 /\ Walked'[1] = via[current]
            /\ \A i \in 1..Len(Walked) : Walked'[i + 1] = Walked[i]
        <4>1. Walked' = <<via[current]>> \o Walked
          BY <2>1, <3>1 DEF Walked
        <4> QED BY <4>1, <3>2, <3>3, Prepended
      <3>5. Last' = Last
        BY <3>3, <3>4 DEF Last
      <3>6. Tree'
        BY <1>0, <1>1, <2>1, <2>2, <3>1, <3>5 DEF Tree
      <3>7. level[Last] = level[current] + (Len(Walked) - 1) /\ Last \in Goals(source)
        BY <1>0, <2>1, <3>3 DEF Walk, Last
      <3>8. via[current] \notin Goals(source)
        <4>1. via[current] \in Goals(source) => via[current] = Last
          BY <1>0, <2>1, <3>2 DEF Tree
        <4> QED BY <4>1, <3>2, <3>3, <3>7
      <3>9. Walk'
        <4>1. ASSUME NEW i \in 1..(Len(Walked') - 1)
              PROVE  Linked(Walked'[i], Walked'[i + 1]) /\ Walked'[i] \notin Goals(source)
          <5>1. CASE i = 1
            BY <5>1, <3>2, <3>3, <3>4, <3>8
          <5>2. CASE i # 1
            <6>1. i - 1 \in 1..(Len(Walked) - 1) /\ i - 1 \in 1..Len(Walked) /\ i \in 1..Len(Walked)
              BY <4>1, <5>2, <3>3, <3>4
            <6>2. Walked'[i] = Walked[i - 1] /\ Walked'[i + 1] = Walked[(i - 1) + 1]
              BY <6>1, <3>4
            <6> QED BY <1>0, <2>1, <6>1, <6>2 DEF Walk
          <5> QED BY <5>1, <5>2
        <4>2. ASSUME NEW i \in 1..Len(Walked')
              PROVE  level[Walked'[i]] = level[via[current]] + (i - 1)
          <5>1. CASE i = 1
            BY <5>1, <3>2, <3>4
          <5>2. CASE i # 1
            <6>1. i - 1 \in 1..Len(Walked)
              BY <4>2, <5>2, <3>3, <3>4
            <6>2. Walked'[i] = Walked[i - 1]
              BY <6>1, <3>4
            <6>3. level[Walked[i - 1]] = level[current] + ((i - 1) - 1)
              BY <1>0, <2>1, <6>1 DEF Walk
            <6> QED BY <3>2, <6>1, <6>2, <6>3
          <5> QED BY <5>1, <5>2
        <4> QED BY <1>1, <2>1, <3>1, <3>5, <3>7, <4>1, <4>2 DEF Walk
      <3>10. Covered' /\ Closed' /\ NoPathMissed'
        BY <1>0, <1>1, <1>k, <2>1, <3>1 DEF Covered, Closed, NoPathMissed
      <3> QED BY <1>k, <3>1, <3>6, <3>9, <3>10 DEF PathInv
    <2> QED BY <2>3, <2>4
  <1>8. CASE Answer
    <2>1. pc = "seed" /\ pc' = "done" /\ UNCHANGED <<todo, results>>
      BY <1>8 DEF Answer, Searched
    <2>2. Len(results) < req.limit => todo = <<>> \/ req.targets = {}
      <3>1. Len(results) \in Nat /\ req.limit \in Nat
        BY <1>0, LenProperties DEF TypeOK, Request
      <3>2. todo = <<>> \/ req.targets = {} \/ Len(results) >= req.limit
        BY <1>8 DEF Answer, Searched, Full
      <3> QED BY <3>1, <3>2
    <2>3. ASSUME Len(results) < req.limit, NEW s \in SetOf(req.seeds)
          PROVE  Barren(s) \/ HasPath(s)
      <3>1. CASE todo = <<>>
        <4>1. SetOf(todo) = {}
          BY <3>1 DEF SetOf
        <4> QED BY <1>0, <2>1, <2>3, <4>1 DEF Covered
      <3>2. CASE req.targets = {}
        <4>1. s \in Node /\ Goals(s) = {}
          BY <1>0, <2>3, <3>2, Elements DEF TypeOK, Request, Goals
        <4>2. Node \in SUBSET Node /\ Node \cap Goals(s) = {}
          BY <4>1
        <4> QED BY <4>1, <4>2 DEF Barren
      <3> QED BY <2>2, <2>3, <3>1, <3>2
    <2>4. NoPathMissed'
      BY <1>1, <1>k, <2>1, <2>3 DEF NoPathMissed, HasPath
    <2>5. Tree' /\ Walk' /\ Closed' /\ Covered'
      BY <1>0, <1>1, <2>1 DEF Tree, Walk, Closed, Covered
    <2> QED BY <1>k, <2>1, <2>4, <2>5 DEF PathInv
  <1>9. ASSUME NEW r \in rest, SkipRow(r) PROVE PathInv'
    <2>1. /\ pc = "scan" /\ pc' = pc /\ rest' = rest \ {r} /\ (~Passes(r.node) \/ r.node \in Seen)
          /\ UNCHANGED <<queue, via, level, current, todo, source, results>>
      BY <1>9 DEF SkipRow
    <2>2. Seen' = Seen
      BY <2>1 DEF Seen
    <2>3. Closed'
      <3> SUFFICES ASSUME NEW a \in Seen, NEW b \in Node, Linked(a, b), b \notin Seen,
                          a \notin SetOf(queue)
                   PROVE  a = current /\ \E q \in rest \ {r} : q.node = b
        BY <1>1, <2>1, <2>2 DEF Closed
      <3>1. a = current /\ \E q \in rest : q.node = b
        BY <1>0, <2>1 DEF Closed
      <3> QED BY <2>1, <3>1 DEF Linked
    <2>4. Tree' /\ Walk' /\ NoPathMissed' /\ Covered'
      BY <1>0, <1>1, <1>k, <2>1, <2>2 DEF Tree, Walk, NoPathMissed, Covered
    <2> QED BY <1>k, <2>1, <2>3, <2>4 DEF PathInv
  <1>10. ASSUME NEW r \in rest, PathRow(r) PROVE PathInv'
    <2> DEFINE m == r.node
    <2>1. /\ pc = "scan" /\ Passes(m) /\ m \notin Seen /\ Reach(m)
          /\ UNCHANGED <<todo, source, results>>
      BY <1>10 DEF PathRow
    <2>2. /\ m \in Node /\ current \in Node /\ current \in Seen /\ r \in Adjacent(current)
      <3>1. r \in Row /\ current \in Seen /\ r \in Adjacent(current)
        BY <1>0, <2>1 DEF TypeOK, Shape
      <3> QED BY <3>1 DEF Row, Seen
    <2>3. Linked(current, m) /\ m # current
      BY <2>1, <2>2 DEF Linked
    <2>4. /\ via'[m] = current /\ level'[m] = level[current] + 1 /\ via[m] = Unseen
          /\ \A n \in Node \ {m} : via'[n] = via[n] /\ level'[n] = level[n]
          /\ Seen' = Seen \cup {m}
      BY <1>0, <2>1, <2>2 DEF Reach, TypeOK, Seen, Unseen, Node
    <2>5. /\ source \in SetOf(req.seeds) /\ source \in Node /\ m # source
          /\ \A n \in Node : via'[n] = Root <=> n = source
      <3>1. source \in SetOf(req.seeds) /\ source \in Node
        BY <1>0, <2>1, Elements DEF Tree, TypeOK, Request
      <3>2. m # source
        BY <1>0, <2>1, <2>4, <3>1 DEF Tree, Root, Unseen
      <3>3. current # Root
        BY <2>2, NAssumption DEF Node, Root
      <3> QED BY <1>0, <2>1, <2>4, <3>1, <3>2, <3>3 DEF Tree
    <2>6. ASSUME NEW n \in Node, via'[n] \in Node
          PROVE  Linked(via'[n], n) /\ level'[n] = level'[via'[n]] + 1
      <3>1. CASE n = m
        BY <3>1, <2>2, <2>3, <2>4
      <3>2. CASE n # m
        <4>1. via[n] \in Seen
          BY <1>0, <2>4, <2>6, <3>2 DEF Shape
        <4>2. via'[n] = via[n] /\ via[n] # m
          BY <2>1, <2>4, <3>2, <4>1
        <4> QED BY <1>0, <2>1, <2>4, <2>6, <3>2, <4>2 DEF Tree
      <3> QED BY <3>1, <3>2
    <2>7. \A n \in Seen : n \notin Goals(source)
      BY <1>0, <2>1 DEF Tree
    <2>8. Covered' /\ NoPathMissed'
      BY <1>0, <1>1, <1>k, <1>10, <2>1 DEF PathRow, Covered, NoPathMissed
    <2>9. CASE m \in req.targets
      <3>1. pc' = "trace" /\ path' = <<>> /\ current' = m
        BY <1>10, <2>9 DEF PathRow
      <3>2. Walked' = <<m>> /\ Last' = m /\ Len(Walked') = 1 /\ Walked'[1] = m
        BY <3>1 DEF Walked, Last
      <3>3. Tree'
        BY <1>1, <2>1, <2>4, <2>5, <2>6, <2>7, <3>1, <3>2 DEF Tree
      <3>4. Walk'
        <4>1. m \in Goals(source)
          BY <2>5, <2>9 DEF Goals
        <4>2. level'[m] \in Nat
          BY <1>0, <2>2 DEF TypeOK
        <4> QED BY <1>1, <2>1, <3>1, <3>2, <4>1, <4>2 DEF Walk
      <3>5. Closed'
        BY <3>1 DEF Closed
      <3> QED BY <1>k, <2>1, <2>8, <3>3, <3>4, <3>5 DEF PathInv
    <2>10. CASE m \notin req.targets
      <3>1. /\ queue' = Append(queue, m) /\ rest' = rest \ {r}
            /\ UNCHANGED <<pc, path, current>>
        BY <1>10, <2>10 DEF PathRow, Enqueue
      <3>2. SetOf(queue') = SetOf(queue) \cup {m}
        BY <1>0, <2>2, <3>1, Appended DEF TypeOK
      <3>3. Tree'
        <4>1. m \notin Goals(source)
          BY <2>10 DEF Goals
        <4> QED BY <1>1, <2>1, <2>4, <2>5, <2>6, <2>7, <3>1, <4>1 DEF Tree
      <3>4. Closed'
        <4> SUFFICES ASSUME NEW a \in Seen', NEW b \in Node, Linked(a, b), b \notin Seen',
                            a \notin SetOf(queue')
                     PROVE  a = current /\ \E q \in rest \ {r} : q.node = b
          BY <1>1, <2>1, <3>1 DEF Closed
        <4>1. a \in Seen /\ b \notin Seen /\ b # m /\ a \notin SetOf(queue)
          BY <2>4, <3>2
        <4>2. a = current /\ \E q \in rest : q.node = b
          BY <1>0, <2>1, <4>1 DEF Closed
        <4> QED BY <4>1, <4>2
      <3>5. Walk'
        BY <2>1, <3>1 DEF Walk
      <3> QED BY <1>k, <2>1, <2>8, <3>3, <3>4, <3>5 DEF PathInv
    <2> QED BY <2>9, <2>10
  <1>11. ASSUME NEW r \in rest, NeighborRow(r) PROVE PathInv'
    BY <1>11 DEF NeighborRow
  <1>12. CASE UNCHANGED vars
    <2>1. UNCHANGED <<graph, req, pc, todo, source, queue, via, level, current, rest, path, results>>
      BY <1>12 DEF vars, request, search
    <2>2. Seen' = Seen /\ Walked' = Walked /\ Last' = Last
      BY <2>1 DEF Seen, Walked, Last
    <2>3. Tree' /\ Walk'
      BY <1>0, <1>1, <2>1, <2>2 DEF Tree, Walk
    <2>4. Closed' /\ Covered'
      BY <1>0, <1>1, <1>k, <2>1, <2>2 DEF Closed, Covered
    <2>5. NoPathMissed'
      BY <1>0, <1>1, <2>1 DEF NoPathMissed
    <2> QED BY <1>k, <2>1, <2>3, <2>4, <2>5 DEF PathInv
  <1> QED BY <1>3, <1>4, <1>5, <1>6, <1>7, <1>8, <1>9, <1>10, <1>11, <1>12 DEF Next

LEMMA Inductive == Spec => []PInv
  <1>1. Init => PInv
    BY InitTyped, InitPath DEF PInv
  <1>2. PInv /\ [Next]_vars => PInv'
    <2> SUFFICES ASSUME PInv, [Next]_vars PROVE PInv'
      OBVIOUS
    <2>1. TInv'
      BY StepTyped DEF PInv
    <2>2. PathInv'
      BY <2>1, StepPath
    <2> QED BY <2>1, <2>2 DEF PInv
  <1> QED BY <1>1, <1>2, PTL DEF Spec

(* A path that build_shortest_paths returns is a path of the graph, from a *)
(* seed to a target, whatever the graph, the filters and the order of the  *)
(* rows.                                                                   *)
THEOREM PathsReal == Spec => []PathsAreReal
  <1>1. PInv => PathsAreReal
    BY DEF PInv, PathInv
  <1> QED BY Inductive, <1>1, PTL

(* A seed for which a query below its limit returns no path has none.      *)
THEOREM NoneMissed == Spec => []NoPathMissed
  <1>1. PInv => NoPathMissed
    BY DEF PInv, PathInv
  <1> QED BY Inductive, <1>1, PTL

-----------------------------------------------------------------------------
(* Induction.  The theorems of the library take the property as an         *)
(* operator; here it is a set, and the least element of what is left out   *)
(* of it comes from the order of the finite sets by inclusion.             *)

LEMMA Least ==
  ASSUME NEW C, C \subseteq Nat, C # {}
  PROVE  \E c \in C : \A d \in C : c <= d
<1> DEFINE Down(k) == {j \in Nat : j <= k}
           D == {Down(k) : k \in C}
<1>1. D \subseteq FiniteSubsetsOf(Nat) /\ D # {}
  <2> SUFFICES ASSUME NEW k \in C PROVE Down(k) \in FiniteSubsetsOf(Nat)
    OBVIOUS
  <2>1. k \in Nat /\ Down(k) \in SUBSET Nat /\ \A j \in Down(k) : j <= k
    OBVIOUS
  <2>2. IsFiniteSet(Down(k))
    BY <2>1, FS_BoundedSetOfNaturals
  <2> QED BY <2>1, <2>2 DEF FiniteSubsetsOf
<1>2. PICK x \in D : \A y \in D : ~ (<<y, x>> \in StrictSubsetOrdering(Nat))
  <2> HIDE DEF D
  <2>1. IsWellFoundedOn(StrictSubsetOrdering(Nat), FiniteSubsetsOf(Nat))
    BY FS_StrictSubsetOrderingWellFounded
  <2> QED BY <1>1, <2>1, WFMin
<1>3. PICK c \in C : x = Down(c)
  OBVIOUS
<1>4. ASSUME NEW d \in C PROVE c <= d
  <2> SUFFICES ASSUME ~(c <= d) PROVE FALSE
    OBVIOUS
  <2>1. c \in Nat /\ d \in Nat /\ d < c
    OBVIOUS
  <2>2. Down(d) \subseteq Down(c) /\ c \in Down(c) /\ c \notin Down(d)
    BY <2>1
  <2>3. Down(d) # Down(c)
    BY <2>2
  <2>4. Down(d) \in SUBSET Nat /\ Down(c) \in SUBSET Nat
    OBVIOUS
  <2>5. Down(d) \in D
    OBVIOUS
  <2> HIDE DEF D, Down
  <2>6. <<Down(d), x>> \in StrictSubsetOrdering(Nat)
    BY <1>3, <2>2, <2>3, <2>4 DEF StrictSubsetOrdering
  <2> QED BY <1>2, <2>5, <2>6
<1> QED BY <1>4

LEMMA UpTo ==
  ASSUME NEW K \in Nat, NEW T, 0 \in T, \A k \in 0..(K - 1) : k \in T => k + 1 \in T
  PROVE  0..K \subseteq T
<1> DEFINE C == (0..K) \ T
<1> SUFFICES ASSUME C # {} PROVE FALSE
  OBVIOUS
<1>1. C \subseteq Nat
  OBVIOUS
<1>2. PICK c \in C : \A d \in C : c <= d
  <2> HIDE DEF C
  <2> QED BY <1>1, Least
<1>3. c # 0 /\ c - 1 \in 0..K /\ c - 1 \in 0..(K - 1) /\ c - 1 \notin C /\ (c - 1) + 1 = c
  BY <1>2
<1> QED BY <1>3

-----------------------------------------------------------------------------
(* The balls.                                                              *)

\* W follows the definition of Within up to n
Good(L, S, W, n) == W[0] = S /\ \A k \in 0..(n - 1) : W[k + 1] = Onward(L, W[k])

LEMMA GoodExists ==
  ASSUME NEW L, NEW S \in SUBSET Node, NEW n \in Nat
  PROVE  \E W \in [Nat -> SUBSET Node] : Good(L, S, W, n)
  <1> DEFINE T == {k \in Nat : \E W \in [Nat -> SUBSET Node] : Good(L, S, W, k)}
  <1>1. 0 \in T
    <2>1. [k \in Nat |-> S] \in [Nat -> SUBSET Node] /\ Good(L, S, [k \in Nat |-> S], 0)
      BY DEF Good
    <2> QED BY <2>1
  <1>2. ASSUME NEW k \in 0..(n - 1), k \in T PROVE k + 1 \in T
    <2>1. PICK W \in [Nat -> SUBSET Node] : Good(L, S, W, k)
      BY <1>2
    <2> DEFINE V == [W EXCEPT ![k + 1] = Onward(L, W[k])]
    <2>2. Onward(L, W[k]) \in SUBSET Node
      BY <1>2 DEF Onward
    <2>3. V \in [Nat -> SUBSET Node]
      BY <2>1, <2>2
    <2>4. V[0] = S /\ V[k + 1] = Onward(L, W[k]) /\ \A j \in 0..k : V[j] = W[j]
      BY <1>2, <2>1, <2>2 DEF Good
    <2>5. Good(L, S, V, k + 1)
      <3> HIDE DEF V
      <3> SUFFICES ASSUME NEW j \in 0..((k + 1) - 1) PROVE V[j + 1] = Onward(L, V[j])
        BY <2>4 DEF Good
      <3>1. CASE j = k
        BY <2>4, <3>1
      <3>2. CASE j # k
        <4>1. j \in 0..(k - 1) /\ j \in 0..k /\ j + 1 \in 0..k
          BY <1>2, <3>2
        <4> QED BY <2>1, <2>4, <4>1 DEF Good
      <3> QED BY <3>1, <3>2
    <2>6. k + 1 \in Nat
      BY <1>2
    <2> HIDE DEF V
    <2> QED BY <2>3, <2>5, <2>6
  <1>3. 0..n \subseteq T
    <2> HIDE DEF T
    <2> QED BY <1>1, <1>2, UpTo
  <1>4. n \in T
    BY <1>3
  <1> QED BY <1>4

LEMMA GoodUnique ==
  ASSUME NEW L, NEW S, NEW n \in Nat, NEW V, NEW W, Good(L, S, V, n), Good(L, S, W, n)
  PROVE  V[n] = W[n]
  <1> DEFINE T == {k \in 0..n : V[k] = W[k]}
  <1>1. 0 \in T
    BY DEF Good
  <1>2. \A k \in 0..(n - 1) : k \in T => k + 1 \in T
    BY DEF Good
  <1>3. 0..n \subseteq T
    <2> HIDE DEF T
    <2> QED BY <1>1, <1>2, UpTo
  <1> QED BY <1>3

\* the recursion of Within has the value it is meant to have
LEMMA WithinEq ==
  ASSUME NEW L, NEW S \in SUBSET Node
  PROVE  /\ Within(L, S)[0] = S
         /\ \A k \in Nat : Within(L, S)[k + 1] = Onward(L, Within(L, S)[k])
  <1> DEFINE G(n) == CHOOSE W : W \in [Nat -> SUBSET Node] /\ Good(L, S, W, n)
             F == [n \in Nat |-> G(n)[n]]
             Of(W) == [k \in Nat |-> IF k = 0 THEN S ELSE Onward(L, W[k - 1])]
  <1>1. \A n \in Nat : Good(L, S, G(n), n)
    BY GoodExists
  <1>2. F[0] = S
    BY <1>1 DEF Good
  <1>3. ASSUME NEW n \in Nat PROVE F[n + 1] = Onward(L, F[n])
    <2> HIDE DEF G
    <2>1. Good(L, S, G(n), n) /\ Good(L, S, G(n + 1), n + 1)
      BY <1>1
    <2>2. Good(L, S, G(n + 1), n) /\ G(n + 1)[n + 1] = Onward(L, G(n + 1)[n])
      BY <2>1 DEF Good
    <2>3. G(n + 1)[n] = G(n)[n]
      BY <2>1, <2>2, GoodUnique
    <2> QED BY <2>2, <2>3
  <1>4. F = Of(F)
    <2>1. \A k \in Nat : F[k] = Of(F)[k]
      <3> SUFFICES ASSUME NEW k \in Nat PROVE F[k] = IF k = 0 THEN S ELSE Onward(L, F[k - 1])
        OBVIOUS
      <3> HIDE DEF F
      <3>1. CASE k # 0
        <4>1. k - 1 \in Nat /\ (k - 1) + 1 = k
          BY <3>1
        <4> QED BY <1>3, <3>1, <4>1
      <3> QED BY <1>2, <3>1
    <2> HIDE DEF G
    <2> QED BY <2>1
  <1> DEFINE W == CHOOSE W : W = Of(W)
  <1>5. W = Of(W)
    <2> HIDE DEF F, Of
    <2> QED BY <1>4
  <1>6. Within(L, S) = W
    BY DEF Within
  <1>7. W[0] = S /\ \A k \in Nat : W[k + 1] = Onward(L, W[k])
    <2>1. \A k \in Nat : W[k] = IF k = 0 THEN S ELSE Onward(L, W[k - 1])
      <3> HIDE DEF W
      <3> QED BY <1>5
    <2> HIDE DEF W
    <2>2. ASSUME NEW k \in Nat PROVE W[k + 1] = Onward(L, W[k])
      <3>1. k + 1 \in Nat /\ k + 1 # 0 /\ (k + 1) - 1 = k
        OBVIOUS
      <3> QED BY <2>1, <3>1
    <2> QED BY <2>1, <2>2
  <1> QED BY <1>6, <1>7

LEMMA WithinGrows ==
  ASSUME NEW L, NEW S \in SUBSET Node, NEW j \in Nat, NEW k \in Nat, j <= k
  PROVE  Within(L, S)[j] \subseteq Within(L, S)[k]
  <1> DEFINE T == {i \in Nat : Within(L, S)[j] \subseteq Within(L, S)[j + i]}
  <1>1. 0 \in T
    OBVIOUS
  <1>2. ASSUME NEW i \in 0..((k - j) - 1), i \in T PROVE i + 1 \in T
    <2>1. j + i \in Nat /\ j + (i + 1) = (j + i) + 1 /\ i + 1 \in Nat
      BY <1>2
    <2>2. Within(L, S)[(j + i) + 1] = Onward(L, Within(L, S)[j + i])
      BY <2>1, WithinEq
    <2> QED BY <1>2, <2>1, <2>2 DEF Onward
  <1>3. 0..(k - j) \subseteq T
    <2> HIDE DEF T
    <2> QED BY <1>1, <1>2, UpTo
  <1>4. k - j \in T /\ j + (k - j) = k
    BY <1>3
  <1> QED BY <1>4

-----------------------------------------------------------------------------
(* The search goes by layers.  A node is reached at its distance from      *)
(* where the search started, and the nodes that wait to be expanded are of *)
(* at most two adjacent layers, the nearer first.                          *)

Start     == IF IsPath THEN {source} ELSE SetOf(req.seeds)
Balls     == Ball(Start)
Pending   == SetOf(queue) \cup (IF pc = "scan" THEN {current} ELSE {})
Searching == pc \in {"pop", "scan", "trace"} \/ ~ IsPath
Running   == pc \in {"pop", "scan"} /\ (IsPath \/ ~ Full)
Deeper(a) == IsPath \/ level[a] < Depth

Exact ==
  Searching =>
    /\ Start \subseteq Seen /\ \A n \in Start : level[n] = 0
    /\ \A n \in Seen : n \in Balls[level[n]]
    /\ \A n \in Seen, j \in Nat : j < level[n] => n \notin Balls[j]

Layers ==
  Running =>
    /\ \A i, j \in DOMAIN queue : i < j => level[queue[i]] <= level[queue[j]]
    /\ pc = "scan" => Deeper(current) /\ \A a \in SetOf(queue) : level[current] <= level[a]
    /\ \A a \in Pending, n \in Seen : level[n] <= level[a] + 1

\* what is neither waiting nor too deep has had its rows looked at
Expanded ==
  Running =>
    /\ \A a \in Seen \ Pending, b \in Node :
         Deeper(a) /\ Linked(a, b) => b \in Seen /\ level[b] <= level[a] + 1
    /\ pc = "scan" =>
         \A b \in Node : Linked(current, b) => b \in Seen \/ \E r \in rest : r.node = b

\* no other target is nearer than the one the search ended at
Nearer == pc = "trace" => level[Last] >= 1 /\ Balls[level[Last] - 1] \cap Goals(source) = {}

\* the results are of nodes that were reached and never more than asked for
Counted ==
  ~ IsPath =>
    /\ \A i \in DOMAIN results : results[i].node \in Seen
    /\ Len(results) <= req.limit
    /\ pc = "scan" => ~ Full

LayerInv == Exact /\ Layers /\ Expanded /\ Nearer /\ Counted /\ PathsAreShortest

-----------------------------------------------------------------------------
LEMMA StartTyped == TypeOK /\ Exact /\ Searching => Start \in SUBSET Node
  BY DEF Exact, Seen

LEMMA LinkedTyped ==
  ASSUME TypeOK, NEW a \in Node, NEW b, Linked(a, b)
  PROVE  b \in Node /\ <<a, b>> \in Links
  <1>1. PICK r \in Adjacent(a) : r.node = b
    BY DEF Linked
  <1>2. r \in Row
    BY RowsTyped
  <1> QED BY <1>1, <1>2 DEF Links, Row

\* everything nearer than what still waits has been reached, no later than due
LEMMA Near ==
  ASSUME TInv, Exact, Expanded, Running, NEW K \in Nat, IsPath \/ K <= Depth,
         \A a \in Pending : level[a] >= K
  PROVE  \A k \in 0..K : \A n \in Balls[k] : n \in Seen /\ level[n] <= k
  <1>1. /\ TypeOK /\ Start \in SUBSET Node /\ Start \subseteq Seen
        /\ \A n \in Start : level[n] = 0
        /\ \A n \in Node : level[n] \in Nat
        /\ Depth \in Int
    BY StartTyped DEF TInv, Running, Searching, Exact, TypeOK, Depth, Request
  <1>2. Balls[0] = Start /\ \A k \in Nat : Balls[k + 1] = Onward(Links, Balls[k])
    BY <1>1, WithinEq DEF Balls, Ball
  <1> DEFINE T == {k \in Nat : \A n \in Balls[k] : n \in Seen /\ level[n] <= k}
  <1>3. 0 \in T
    BY <1>1, <1>2
  <1>4. ASSUME NEW k \in 0..(K - 1), k \in T PROVE k + 1 \in T
    <2> SUFFICES ASSUME NEW m \in Balls[k + 1] PROVE m \in Seen /\ level[m] <= k + 1
      BY <1>4
    <2>1. CASE m \in Balls[k]
      <3>1. m \in Seen /\ level[m] <= k /\ m \in Node
        BY <1>4, <2>1 DEF Seen
      <3> QED BY <1>1, <1>4, <3>1
    <2>2. CASE m \notin Balls[k]
      <3>1. PICK n \in Balls[k] : m \in Node /\ <<n, m>> \in Links
        BY <1>2, <1>4, <2>2 DEF Onward
      <3>2. n \in Seen /\ n \in Node /\ level[n] <= k /\ Linked(n, m)
        BY <1>4, <3>1 DEF Seen, Links
      <3>3. level[n] < K /\ n \notin Pending
        BY <1>1, <1>4, <3>2
      <3>4. Deeper(n)
        BY <1>1, <3>2, <3>3 DEF Deeper
      <3>5. m \in Seen /\ level[m] <= level[n] + 1
        BY <3>1, <3>2, <3>3, <3>4 DEF Expanded
      <3> QED BY <1>1, <1>4, <3>1, <3>2, <3>5
    <2> QED BY <2>1, <2>2
  <1>5. 0..K \subseteq T
    <2> HIDE DEF T
    <2> QED BY <1>3, <1>4, UpTo
  <1> QED BY <1>5

\* all that is nearer than the node being expanded has been reached
LEMMA NearCurrent ==
  ASSUME TInv, Exact, Layers, Expanded, Running, pc = "scan"
  PROVE  /\ current \in Node /\ current \in Seen /\ level[current] \in Nat
         /\ \A k \in 0..level[current] : Balls[k] \subseteq Seen
  <1>1. current \in Node /\ current \in Seen /\ level[current] \in Nat /\ Depth \in Int
    BY DEF TInv, Shape, Seen, TypeOK, Depth, Request
  <1>2. IsPath \/ level[current] <= Depth
    BY <1>1 DEF Layers, Deeper
  <1>3. \A a \in Pending : level[a] >= level[current]
    BY <1>1 DEF Layers, Pending
  <1> QED BY <1>1, <1>2, <1>3, Near

\* a node that is reached now is at the distance it is given
LEMMA ReachedExact ==
  ASSUME TInv, Exact, Layers, Expanded, Running, pc = "scan",
         NEW m \in Node, m \notin Seen, Linked(current, m)
  PROVE  /\ m \in Balls[level[current] + 1]
         /\ \A j \in Nat : j < level[current] + 1 => m \notin Balls[j]
  <1>1. /\ current \in Node /\ current \in Seen /\ level[current] \in Nat
        /\ \A k \in 0..level[current] : Balls[k] \subseteq Seen
    BY NearCurrent
  <1>2. TypeOK /\ Start \in SUBSET Node /\ current \in Balls[level[current]]
    BY <1>1, StartTyped DEF TInv, Exact, Searching
  <1>3. Balls[level[current] + 1] = Onward(Links, Balls[level[current]])
    BY <1>1, <1>2, WithinEq DEF Balls, Ball
  <1>4. <<current, m>> \in Links
    BY <1>1, <1>2, LinkedTyped
  <1>5. m \in Balls[level[current] + 1]
    BY <1>2, <1>3, <1>4 DEF Onward
  <1>6. ASSUME NEW j \in Nat, j < level[current] + 1 PROVE m \notin Balls[j]
    <2>1. j \in 0..level[current]
      BY <1>1, <1>6
    <2> QED BY <1>1, <2>1
  <1> QED BY <1>5, <1>6

-----------------------------------------------------------------------------
LEMMA Still ==
  ASSUME UNCHANGED request
  PROVE  /\ Links' = Links /\ Depth' = Depth
         /\ \A S : Ball(S)' = Ball(S)
         /\ \A n : Adjacent(n)' = Adjacent(n) /\ Passes(n)' = Passes(n)
  <1>1. graph' = graph /\ req' = req
    BY DEF request
  <1>2. \A a, b : Linked(a, b)' = Linked(a, b)
    BY Rigid
  <1>3. Links' = Links
    BY <1>2 DEF Links
  <1>4. \A S : Ball(S)' = Ball(S)
    BY <1>3 DEF Ball
  <1> QED BY <1>1, <1>3, <1>4 DEF Depth, Adjacent, Passes, IsPath

LEMMA InitLayers == Init => LayerInv
  <1> SUFFICES ASSUME Init PROVE LayerInv
    OBVIOUS
  <1>1. /\ TypeOK /\ pc \in {"seed", "pop"} /\ pc # "scan" /\ results = <<>>
        /\ level = [n \in Node |-> 0] /\ (pc = "seed" => IsPath)
    BY InitTyped DEF Init, TInv
  <1>2. CASE IsPath
    BY <1>1, <1>2 DEF Init, LayerInv, Exact, Layers, Expanded, Nearer, Counted, PathsAreShortest, Searching, Running
  <1>3. CASE ~IsPath
    <2>1. /\ queue = req.seeds /\ pc = "pop" /\ queue \in Seq(Node)
          /\ via = [n \in Node |-> IF n \in SetOf(req.seeds) THEN Root ELSE Unseen]
      BY <1>1, <1>3 DEF Init, TypeOK
    <2>2. /\ SetOf(req.seeds) \subseteq Node /\ Start = SetOf(req.seeds)
          /\ Seen = SetOf(req.seeds) /\ Pending = Seen
      BY <1>3, <2>1, Elements DEF Seen, Root, Unseen, Start, Pending
    <2>3. Balls[0] = Start
      BY <2>2, WithinEq DEF Balls, Ball
    <2>4. Exact
      BY <1>1, <2>2, <2>3 DEF Exact
    <2>5. \A i \in DOMAIN queue : queue[i] \in Node
      BY <2>1, ElementOfSeq, LenProperties
    <2>6. Layers
      BY <1>1, <2>1, <2>2, <2>5 DEF Layers
    <2>7. Expanded /\ Nearer /\ Counted /\ PathsAreShortest
      BY <1>1, <1>3, <2>1, <2>2, RequestAssumption DEF Init, Request, Expanded, Nearer, Counted, PathsAreShortest
    <2> QED BY <2>4, <2>6, <2>7 DEF LayerInv
  <1> QED BY <1>2, <1>3

LEMMA SameStart ==
  ASSUME UNCHANGED request, source' = source
  PROVE  Start' = Start /\ Balls' = Balls
  <1>1. Start' = Start
    BY Rigid DEF Start, request
  <1> QED BY <1>1, Still DEF Balls, Ball

LEMMA ReachedStep ==
  ASSUME TInv, Exact, Layers, Expanded, Running, pc = "scan", UNCHANGED <<request, source>>,
         NEW m \in Node, m \notin Seen, Linked(current, m), Reach(m)
  PROVE  /\ level'[m] = level[current] + 1 /\ \A n \in Seen : level'[n] = level[n]
         /\ Seen' = Seen \cup {m} /\ Exact'
  <1>1. /\ current \in Node /\ current \in Seen /\ level[current] \in Nat
        /\ level \in [Node -> Nat] /\ via \in [Node -> Node \cup {Root, Unseen}]
    BY NearCurrent DEF TInv, TypeOK
  <1>2. /\ level'[m] = level[current] + 1 /\ \A n \in Seen : level'[n] = level[n]
        /\ Seen' = Seen \cup {m}
    BY <1>1 DEF Reach, Seen, Node, Unseen
  <1>3. /\ m \in Balls[level[current] + 1]
        /\ \A j \in Nat : j < level[current] + 1 => m \notin Balls[j]
    BY ReachedExact
  <1>4. Start' = Start /\ Balls' = Balls
    BY SameStart
  <1>5. Exact'
    BY <1>2, <1>3, <1>4 DEF Exact, Searching
  <1> QED BY <1>2, <1>5

LEMMA EnqueuedStep ==
  ASSUME TInv, Exact, Layers, Expanded, Running, pc = "scan", UNCHANGED <<request, source>>,
         NEW r \in rest, r.node \notin Seen, Passes(r.node), Reach(r.node), Enqueue(r.node),
         rest' = rest \ {r}, current' = current, pc' = pc
  PROVE  Layers' /\ Expanded'
  <1> DEFINE m == r.node
  <1>1. /\ current \in Node /\ current \in Seen /\ level[current] \in Nat
        /\ r \in Adjacent(current) /\ m \in Node
    BY NearCurrent DEF TInv, TypeOK, Shape, Row
  <1>2. Linked(current, m)
    BY <1>1 DEF Linked
  <1>3. /\ level'[m] = level[current] + 1 /\ \A n \in Seen : level'[n] = level[n]
        /\ Seen' = Seen \cup {m} /\ m # current
    BY <1>1, <1>2, ReachedStep
  <1>4. /\ IsPath' = IsPath /\ Depth' = Depth /\ \A a, b : Linked(a, b)' = Linked(a, b)
    BY Rigid, Still
  <1>5. /\ queue' = Append(queue, m) /\ queue \in Seq(Node)
        /\ SetOf(queue') = SetOf(queue) \cup {m} /\ SetOf(queue) \subseteq Seen
    BY <1>1, Appended DEF Enqueue, TInv, TypeOK, Shape
  <1>6. Pending' = Pending \cup {m} /\ current \in Pending /\ Pending \subseteq Seen
    BY <1>1, <1>5 DEF Pending
  <1>7. \A n \in Seen : level[n] \in Nat
    BY DEF TInv, TypeOK, Seen
  <1>8. \A a \in Pending : level[current] <= level[a]
    BY <1>1 DEF Pending, Layers
  <1>9. \A n \in Seen : level[n] <= level[current] + 1
    BY <1>6 DEF Layers
  <1>10. \A i, j \in DOMAIN queue' : i < j => level'[queue'[i]] <= level'[queue'[j]]
    <2>1. /\ DOMAIN queue = 1..Len(queue) /\ Len(queue) \in Nat
          /\ DOMAIN queue' = 1..(Len(queue) + 1)
          /\ \A i \in 1..Len(queue) : queue'[i] = queue[i]
          /\ queue'[Len(queue) + 1] = m
      BY <1>1, <1>5, AppendProperties, LenProperties
    <2>2. \A i \in 1..Len(queue) : queue[i] \in Seen
      BY <1>5, <2>1 DEF SetOf
    <2> SUFFICES ASSUME NEW i \in 1..(Len(queue) + 1), NEW j \in 1..(Len(queue) + 1), i < j
                 PROVE  level'[queue'[i]] <= level'[queue'[j]]
      BY <2>1
    <2>3. i \in 1..Len(queue)
      BY <2>1
    <2>4. CASE j \in 1..Len(queue)
      <3>1. level[queue[i]] <= level[queue[j]]
        BY <2>1, <2>3, <2>4 DEF Layers
      <3> QED BY <1>3, <2>1, <2>2, <2>3, <2>4, <3>1
    <2>5. CASE j = Len(queue) + 1
      <3>1. level[queue[i]] <= level[current] + 1
        BY <1>9, <2>2, <2>3
      <3> QED BY <1>3, <2>1, <2>2, <2>3, <2>5, <3>1
    <2> QED BY <2>1, <2>4, <2>5
  <1>11. Deeper(current)' /\ \A a \in SetOf(queue') : level'[current'] <= level'[a]
    <2>1. Deeper(current)
      BY DEF Layers
    <2>2. Deeper(current)'
      BY <1>1, <1>3, <1>4, <2>1 DEF Deeper
    <2>3. ASSUME NEW a \in SetOf(queue') PROVE level'[current'] <= level'[a]
      <3>1. CASE a = m
        BY <1>1, <1>3, <3>1
      <3>2. CASE a # m
        <4>1. a \in SetOf(queue) /\ a \in Seen /\ a \in Pending
          BY <1>5, <2>3, <3>2 DEF Pending
        <4> QED BY <1>1, <1>3, <1>8, <4>1
      <3> QED BY <3>1, <3>2
    <2> QED BY <2>2, <2>3
  <1>12. ASSUME NEW a \in Pending', NEW n \in Seen' PROVE level'[n] <= level'[a] + 1
    <2>1. CASE a = m
      <3>1. CASE n = m
        BY <1>1, <1>3, <2>1, <3>1
      <3>2. CASE n # m
        <4>1. n \in Seen /\ level'[n] = level[n] /\ level[n] <= level[current] + 1
          BY <1>3, <1>9, <1>12, <3>2
        <4> QED BY <1>1, <1>3, <1>7, <2>1, <4>1
      <3> QED BY <3>1, <3>2
    <2>2. CASE a # m
      <3>1. a \in Pending /\ a \in Seen /\ level'[a] = level[a] /\ level[a] \in Nat
        BY <1>3, <1>6, <1>7, <1>12, <2>2
      <3>2. CASE n = m
        BY <1>1, <1>3, <1>8, <3>1, <3>2
      <3>3. CASE n # m
        <4>1. n \in Seen /\ level'[n] = level[n] /\ level[n] <= level[a] + 1
          BY <1>3, <1>12, <3>1, <3>3 DEF Layers
        <4> QED BY <3>1, <4>1
      <3> QED BY <3>2, <3>3
    <2> QED BY <2>1, <2>2
  <1>13. Layers'
    BY <1>4, <1>10, <1>11, <1>12 DEF Layers
  <1>14. Expanded'
    <2>1. ASSUME NEW a \in Seen', a \notin Pending', NEW b \in Node, Deeper(a)', Linked(a, b)'
          PROVE  b \in Seen' /\ level'[b] <= level'[a] + 1
      <3>1. a \in Seen /\ a \notin Pending /\ level'[a] = level[a] /\ Linked(a, b)
        BY <1>3, <1>4, <1>6, <2>1
      <3>2. Deeper(a)
        BY <1>4, <2>1, <3>1 DEF Deeper
      <3>3. b \in Seen /\ level[b] <= level[a] + 1
        BY <2>1, <3>1, <3>2 DEF Expanded
      <3> QED BY <1>3, <3>1, <3>3
    <2>2. ASSUME NEW b \in Node, Linked(current, b)
          PROVE  b \in Seen' \/ \E q \in rest' : q.node = b
      <3>1. b \in Seen \/ \E q \in rest : q.node = b
        BY <2>2 DEF Expanded
      <3> QED BY <1>3, <3>1
    <2> QED BY <1>4, <2>1, <2>2 DEF Expanded
  <1> QED BY <1>13, <1>14

\* a step that leaves the search as it is, or ends it
LEMMA QuietStep ==
  ASSUME TInv, LayerInv, UNCHANGED <<request, source, via, level>>,
         Searching' => Searching, Running' => UNCHANGED <<pc, queue, current, rest>> /\ Running
  PROVE  Exact' /\ Layers' /\ Expanded'
  <1>1. /\ Start' = Start /\ Balls' = Balls /\ Seen' = Seen
        /\ IsPath' = IsPath /\ Depth' = Depth /\ \A a, b : Linked(a, b)' = Linked(a, b)
    BY SameStart, Rigid, Still DEF Seen
  <1>2. Exact'
    BY <1>1 DEF LayerInv, Exact
  <1>3. CASE Running'
    <2>1. /\ pc' = pc /\ queue' = queue /\ current' = current /\ rest' = rest /\ Running
          /\ Pending' = Pending
      BY <1>3 DEF Pending
    <2>2. Layers'
      BY <1>1, <2>1 DEF LayerInv, Layers, Deeper
    <2>3. Expanded'
      BY <1>1, <2>1 DEF LayerInv, Expanded, Deeper
    <2> QED BY <1>2, <2>2, <2>3
  <1> QED BY <1>2, <1>3 DEF Layers, Expanded

LEMMA PopStep == TInv /\ LayerInv /\ Pop => Exact' /\ Layers' /\ Expanded'
  <1> SUFFICES ASSUME TInv, LayerInv, Pop PROVE Exact' /\ Layers' /\ Expanded'
    OBVIOUS
  <1>1. /\ pc = "pop" /\ queue # <<>> /\ queue \in Seq(Node) /\ queue' = Tail(queue)
        /\ UNCHANGED <<request, via, level, todo, source, path, results, answer>>
        /\ Running /\ Searching
    BY DEF Pop, TInv, TypeOK, Running, Searching
  <1>2. /\ Start' = Start /\ Balls' = Balls /\ Seen' = Seen
        /\ IsPath' = IsPath /\ Depth' = Depth /\ \A a, b : Linked(a, b)' = Linked(a, b)
    BY <1>1, SameStart, Rigid, Still DEF Seen
  <1>3. Exact'
    BY <1>1, <1>2 DEF LayerInv, Exact
  <1> DEFINE h == Head(queue)
  <1>4. /\ SetOf(queue) = {h} \cup SetOf(queue') /\ Pending = SetOf(queue)
        /\ h = queue[1] /\ Len(queue) \in Nat \ {0} /\ DOMAIN queue = 1..Len(queue)
        /\ DOMAIN queue' = 1..(Len(queue) - 1)
        /\ \A i \in 1..(Len(queue) - 1) : queue'[i] = queue[i + 1]
    BY <1>1, Split, HeadTailProperties, LenProperties, EmptySeq DEF Pending
  <1>5. \A i, j \in DOMAIN queue' : i < j => level[queue'[i]] <= level[queue'[j]]
    BY <1>1, <1>4 DEF LayerInv, Layers
  <1>6. \A a \in SetOf(queue') : level[h] <= level[a]
    <2> SUFFICES ASSUME NEW i \in 1..(Len(queue) - 1) PROVE level[h] <= level[queue'[i]]
      BY <1>4 DEF SetOf
    <2>1. i + 1 \in DOMAIN queue /\ 1 \in DOMAIN queue /\ 1 < i + 1
      BY <1>4
    <2> QED BY <1>1, <1>4, <2>1 DEF LayerInv, Layers
  <1>7. CASE TooDeep(h)
    <2>1. /\ current' = current /\ rest' = rest /\ pc' = pc /\ ~ IsPath /\ level[h] >= Depth
      BY <1>7 DEF Pop, TooDeep
    <2>2. Pending' = SetOf(queue')
      BY <1>1, <2>1 DEF Pending
    <2>3. Layers'
      BY <1>1, <1>2, <1>4, <1>5, <2>1, <2>2 DEF LayerInv, Layers
    <2>4. h \in Node /\ level[h] \in Nat /\ Depth \in Int
      BY <1>1, Split DEF TInv, TypeOK, Depth, Request
    <2>5. ~ Deeper(h)
      BY <2>1, <2>4 DEF Deeper
    <2>6. Expanded'
      BY <1>1, <1>2, <1>4, <2>1, <2>2, <2>5 DEF LayerInv, Expanded, Deeper
    <2> QED BY <1>3, <2>3, <2>6
  <1>8. CASE ~TooDeep(h)
    <2>1. current' = h /\ rest' = Adjacent(h) /\ pc' = "scan"
      BY <1>8 DEF Pop
    <2>2. Pending' = Pending
      BY <1>4, <2>1 DEF Pending
    <2>3. h \in Node /\ level[h] \in Nat /\ Depth \in Int
      BY <1>1, Split DEF TInv, TypeOK, Depth, Request
    <2>4. Deeper(current)'
      BY <1>1, <1>2, <1>8, <2>1, <2>3 DEF Deeper, TooDeep
    <2>5. Layers'
      BY <1>1, <1>2, <1>5, <1>6, <2>1, <2>2, <2>4 DEF LayerInv, Layers
    <2>6. Expanded'
      BY <1>1, <1>2, <2>1, <2>2 DEF LayerInv, Expanded, Deeper, Linked
    <2> QED BY <1>3, <2>5, <2>6
  <1> QED BY <1>7, <1>8

LEMMA ScanDoneStep == TInv /\ LayerInv /\ ScanDone => Exact' /\ Layers' /\ Expanded'
  <1> SUFFICES ASSUME TInv, LayerInv, ScanDone PROVE Exact' /\ Layers' /\ Expanded'
    OBVIOUS
  <1>1. /\ pc = "scan" /\ pc' = "pop" /\ rest = {}
        /\ UNCHANGED <<request, search, todo, source, path, results, answer>>
        /\ UNCHANGED <<queue, via, level, current, rest>> /\ Searching
    BY DEF ScanDone, search, Searching
  <1>2. /\ Start' = Start /\ Balls' = Balls /\ Seen' = Seen
        /\ IsPath' = IsPath /\ Depth' = Depth /\ \A a, b : Linked(a, b)' = Linked(a, b)
    BY <1>1, SameStart, Rigid, Still DEF Seen
  <1>3. Exact'
    BY <1>1, <1>2 DEF LayerInv, Exact
  <1>4. Running' = Running
    BY <1>1, <1>2, Rigid DEF Running, Full
  <1>5. CASE ~Running
    BY <1>3, <1>4, <1>5 DEF Layers, Expanded
  <1>6. CASE Running
    <2>1. Pending' = SetOf(queue) /\ Pending = Pending' \cup {current}
      BY <1>1 DEF Pending
    <2>2. Layers'
      BY <1>1, <1>2, <1>6, <2>1 DEF LayerInv, Layers
    <2>3. ASSUME NEW a \in Seen, a \notin Pending', NEW b \in Node, Deeper(a), Linked(a, b)
          PROVE  b \in Seen /\ level[b] <= level[a] + 1
      <3>1. CASE a = current
        <4>1. b \in Seen
          BY <1>1, <1>6, <2>3, <3>1 DEF LayerInv, Expanded
        <4> QED BY <1>6, <2>1, <3>1, <4>1 DEF LayerInv, Layers
      <3>2. CASE a # current
        BY <1>6, <2>1, <2>3, <3>2 DEF LayerInv, Expanded
      <3> QED BY <3>1, <3>2
    <2>4. Expanded'
      BY <1>1, <1>2, <2>3 DEF Expanded, Deeper
    <2> QED BY <1>3, <2>2, <2>4
  <1> QED BY <1>5, <1>6

\* a row that is passed over, because where it leads is known or filtered out
LEMMA PassedStep ==
  ASSUME TInv, LayerInv, UNCHANGED <<request, source, queue, via, level, current, pc>>,
         pc = "scan", NEW r \in rest, ~ Passes(r.node) \/ r.node \in Seen,
         rest' = rest \ {r}, Running' => Running
  PROVE  Exact' /\ Layers' /\ Expanded'
  <1>1. /\ Start' = Start /\ Balls' = Balls /\ Seen' = Seen /\ Pending' = Pending
        /\ IsPath' = IsPath /\ Depth' = Depth /\ \A a, b : Linked(a, b)' = Linked(a, b)
    BY SameStart, Rigid, Still DEF Seen, Pending
  <1>2. Exact'
    BY <1>1 DEF LayerInv, Exact, Searching
  <1>3. Layers'
    BY <1>1 DEF LayerInv, Layers, Deeper
  <1>4. CASE Running'
    <2>1. \A b \in Node : Linked(current, b) => b \in Seen \/ \E q \in rest' : q.node = b
      <3> SUFFICES ASSUME NEW b \in Node, Linked(current, b), b \notin Seen
                   PROVE  \E q \in rest' : q.node = b
        OBVIOUS
      <3>1. PICK q \in rest : q.node = b
        BY <1>4 DEF LayerInv, Expanded
      <3>2. Passes(b)
        BY DEF Linked
      <3> QED BY <3>1, <3>2
    <2>2. Expanded'
      BY <1>1, <1>4, <2>1 DEF LayerInv, Expanded, Deeper
    <2> QED BY <1>2, <1>3, <2>2
  <1> QED BY <1>2, <1>3, <1>4 DEF Expanded

LEMMA SeedStep ==
  ASSUME TInv, TInv', NextSeed
  PROVE  Exact' /\ Layers' /\ Expanded'
  <1>1. /\ pc' = "pop" /\ source' = Head(todo) /\ queue' = <<source'>>
        /\ via' = [n \in Node |-> IF n = source' THEN Root ELSE Unseen]
        /\ level' = [n \in Node |-> 0] /\ IsPath' /\ source' \in Node
    BY Split, Rigid DEF NextSeed, TInv, TypeOK, Shape
  <1>2. /\ Start' = {source'} /\ Seen' = {source'} /\ SetOf(queue') = {source'}
        /\ Pending' = {source'}
    BY <1>1 DEF Start, Seen, Root, Unseen, SetOf, Pending
  <1>3. Balls'[0] = Start'
    BY <1>1, <1>2, WithinEq DEF Balls, Ball
  <1>4. Exact'
    BY <1>1, <1>2, <1>3 DEF Exact
  <1>5. Layers'
    BY <1>1, <1>2 DEF Layers
  <1>6. Expanded'
    BY <1>1, <1>2 DEF Expanded
  <1> QED BY <1>4, <1>5, <1>6

LEMMA PathRowStep ==
  ASSUME PInv, LayerInv, TInv', NEW r \in rest, PathRow(r)
  PROVE  LayerInv'
  <1> DEFINE m == r.node
  <1>1. /\ pc = "scan" /\ IsPath /\ Running /\ Passes(m) /\ m \notin Seen /\ Reach(m)
        /\ UNCHANGED <<request, todo, source, results, answer>>
    BY DEF PathRow, Running
  <1>2. /\ TInv /\ TypeOK /\ Shape /\ Exact /\ Layers /\ Expanded /\ Tree
    BY DEF PInv, PathInv, LayerInv, TInv
  <1>3. /\ current \in Node /\ current \in Seen /\ level[current] \in Nat
        /\ \A k \in 0..level[current] : Balls[k] \subseteq Seen
    BY <1>1, <1>2, NearCurrent
  <1>4. m \in Node /\ Linked(current, m)
    BY <1>1, <1>2 DEF TypeOK, Shape, Row, Linked
  <1>5. /\ level'[m] = level[current] + 1 /\ Seen' = Seen \cup {m} /\ Exact'
    BY <1>1, <1>2, <1>4, ReachedStep
  <1>6. /\ IsPath' /\ Start' = Start /\ Balls' = Balls
        /\ \A S : Ball(S)' = Ball(S) /\ Goals(S)' = Goals(S)
    BY <1>1, SameStart, Rigid, Still
  <1>7. Counted' /\ PathsAreShortest'
    BY <1>1, <1>6 DEF Counted, LayerInv, PathsAreShortest
  <1>8. CASE m \in req.targets
    <2>1. pc' = "trace" /\ path' = <<>> /\ current' = m
      BY <1>8 DEF PathRow
    <2>2. Last' = m
      BY <2>1 DEF Last, Walked
    <2>3. Balls[level[current]] \cap Goals(source) = {}
      <3>1. Balls[level[current]] \subseteq Seen
        BY <1>3
      <3> QED BY <1>1, <1>2, <3>1 DEF Tree, Seen
    <2>4. Nearer'
      BY <1>1, <1>3, <1>5, <1>6, <2>2, <2>3 DEF Nearer
    <2>5. Layers' /\ Expanded'
      BY <2>1 DEF Layers, Expanded, Running
    <2> QED BY <1>5, <1>7, <2>4, <2>5 DEF LayerInv
  <1>9. CASE m \notin req.targets
    <2>1. Enqueue(m) /\ rest' = rest \ {r} /\ UNCHANGED <<pc, path, current>>
      BY <1>9 DEF PathRow
    <2>2. Layers' /\ Expanded'
      BY <1>1, <1>2, <2>1, EnqueuedStep
    <2>3. Nearer'
      BY <1>1, <2>1 DEF Nearer
    <2> QED BY <1>5, <1>7, <2>2, <2>3 DEF LayerInv
  <1> QED BY <1>8, <1>9

LEMMA NeighborRowStep ==
  ASSUME TInv, LayerInv, TInv', NEW r \in rest, NeighborRow(r)
  PROVE  LayerInv'
  <1> DEFINE m == r.node
  <1>1. /\ pc = "scan" /\ ~ IsPath /\ Passes(m) /\ ~ Full /\ Running /\ Searching
        /\ UNCHANGED <<request, current, todo, source, path, answer>>
    BY DEF NeighborRow, Running, LayerInv, Counted, Searching
  <1>2. TypeOK /\ Shape /\ Exact /\ Layers /\ Expanded /\ Counted
    BY DEF LayerInv, TInv
  <1>3. /\ current \in Node /\ current \in Seen /\ m \in Node /\ Linked(current, m)
    BY <1>1, <1>2, NearCurrent DEF TypeOK, Shape, Row, Linked
  <1>4. ~ IsPath' /\ req' = req
    BY <1>1, Rigid, Still
  <1>5. Nearer' /\ PathsAreShortest'
    BY <1>1, <1>4 DEF Nearer, PathsAreShortest, TInv, Shape
  <1>6. CASE ~IsNew(HitOf(r))
    <2>1. rest' = rest \ {r} /\ UNCHANGED <<results, via, level, queue, pc>>
      BY <1>6 DEF NeighborRow
    <2>2. m \in Seen
      <3>1. PICK i \in DOMAIN results : results[i] = HitOf(r)
        BY <1>6 DEF IsNew, SetOf
      <3> QED BY <1>1, <1>2, <3>1 DEF Counted, HitOf, HitAt
    <2>3. Exact' /\ Layers' /\ Expanded'
      BY <1>1, <2>1, <2>2, PassedStep
    <2>4. Counted'
      BY <1>1, <1>2, <1>4, <2>1 DEF Counted, Seen, Full
    <2> QED BY <1>5, <2>3, <2>4 DEF LayerInv
  <1>7. CASE IsNew(HitOf(r))
    <2>1. /\ results' = Append(results, HitOf(r))
          /\ IF m \in Seen THEN UNCHANGED <<via, level, queue>> ELSE Reach(m) /\ Enqueue(m)
          /\ IF Len(results') >= req.limit
               THEN rest' = {} /\ pc' = "pop"
               ELSE rest' = rest \ {r} /\ UNCHANGED pc
      BY <1>7 DEF NeighborRow
    <2>2. /\ Len(results) \in Nat /\ Len(results') = Len(results) + 1
          /\ DOMAIN results = 1..Len(results) /\ DOMAIN results' = 1..(Len(results) + 1)
          /\ \A i \in 1..Len(results) : results'[i] = results[i]
          /\ results'[Len(results) + 1] = HitOf(r)
      <3>1. HitOf(r) \in Hit /\ results \in Seq(Hit)
        BY <1>1, <1>2, <1>3 DEF TypeOK, HitOf, HitAt, Hit, Row, Result
      <3> QED BY <2>1, <3>1, AppendProperties, LenProperties
    <2>3. req.limit \in Nat
      BY <1>2 DEF TypeOK, Request
    <2>4. Seen \subseteq Seen' /\ m \in Seen'
      <3>1. CASE m \in Seen
        BY <2>1, <3>1 DEF Seen
      <3>2. CASE m \notin Seen
        BY <1>1, <1>2, <1>3, <2>1, <3>2, ReachedStep
      <3> QED BY <3>1, <3>2
    <2>5. Counted'
      <3>1. \A i \in 1..(Len(results) + 1) : results'[i].node \in Seen'
        <4> SUFFICES ASSUME NEW i \in 1..(Len(results) + 1) PROVE results'[i].node \in Seen'
          OBVIOUS
        <4>1. CASE i = Len(results) + 1
          BY <2>2, <2>4, <4>1 DEF HitOf, HitAt
        <4>2. CASE i \in 1..Len(results)
          BY <1>1, <1>2, <2>2, <2>4, <4>2 DEF Counted
        <4> QED BY <2>2, <4>1, <4>2
      <3>2. Len(results') <= req.limit
        BY <1>1, <2>2, <2>3 DEF Full
      <3>3. pc' = "scan" => ~ Full'
        BY <1>4, <2>1 DEF Full
      <3> QED BY <1>4, <2>2, <3>1, <3>2, <3>3 DEF Counted
    <2>6. Full' <=> Len(results') >= req.limit
      BY <1>4 DEF Full
    <2>7. CASE Len(results') >= req.limit
      <3>1. ~ Running'
        BY <1>4, <2>6, <2>7 DEF Running
      <3>2. Exact'
        <4>1. CASE m \in Seen
          BY <1>1, <2>1, <3>1, <4>1, QuietStep
        <4>2. CASE m \notin Seen
          BY <1>1, <1>2, <1>3, <2>1, <4>2, ReachedStep
        <4> QED BY <4>1, <4>2
      <3>3. Layers' /\ Expanded'
        BY <3>1 DEF Layers, Expanded
      <3> QED BY <1>5, <2>5, <3>2, <3>3 DEF LayerInv
    <2>8. CASE ~(Len(results') >= req.limit)
      <3>1. rest' = rest \ {r} /\ pc' = pc /\ current' = current
        BY <1>1, <2>1, <2>8
      <3>2. CASE m \in Seen
        <4>1. UNCHANGED <<via, level, queue>>
          BY <2>1, <3>2
        <4>2. Exact' /\ Layers' /\ Expanded'
          BY <1>1, <3>1, <3>2, <4>1, PassedStep
        <4> QED BY <1>5, <2>5, <4>2 DEF LayerInv
      <3>3. CASE m \notin Seen
        <4>1. Reach(m) /\ Enqueue(m)
          BY <2>1, <3>3
        <4>2. Exact'
          BY <1>1, <1>2, <1>3, <3>3, <4>1, ReachedStep
        <4>3. Layers' /\ Expanded'
          BY <1>1, <1>2, <3>1, <3>3, <4>1, EnqueuedStep
        <4> QED BY <1>5, <2>5, <4>2, <4>3 DEF LayerInv
      <3> QED BY <3>2, <3>3
    <2> QED BY <2>7, <2>8
  <1> QED BY <1>6, <1>7

LEMMA TraceStep ==
  ASSUME PInv, LayerInv, TInv', Trace
  PROVE  LayerInv'
  <1>1. /\ pc = "trace" /\ IsPath /\ path' = Walked /\ current \in Node /\ path \in Seq(Node)
        /\ UNCHANGED <<request, source, via, level, queue, rest>> /\ Searching
    BY DEF Trace, Walked, PInv, TInv, Shape, TypeOK, Seen, Searching
  <1>2. /\ IsPath' /\ Start' = Start /\ Balls' = Balls /\ Seen' = Seen
        /\ \A S : Ball(S)' = Ball(S) /\ Goals(S)' = Goals(S)
    BY <1>1, SameStart, Rigid, Still DEF Seen
  <1>3. pc' \in {"seed", "trace"} /\ ~ Running' /\ Counted'
    BY <1>1, <1>2 DEF Trace, Running, Counted
  <1>4. Exact' /\ Layers' /\ Expanded'
    BY <1>1, <1>3, QuietStep DEF PInv
  <1>5. CASE via[current] = Root
    <2>1. pc' = "seed" /\ results' = Append(results, Walked)
      BY <1>1, <1>5 DEF Trace
    <2>2. Walked[1] = source /\ source \in Start /\ Start = {source}
      BY <1>1, <1>5, TracedPath DEF Start
    <2>3. /\ Walked[1] = current /\ Walked \in Seq(Node) /\ Len(Walked) \in Nat \ {0}
          /\ results \in Seq(Seq(Node)) /\ DOMAIN results = 1..Len(results)
          /\ Len(results) \in Nat
      BY <1>1, Prepended, LenProperties DEF Walked, PInv, TInv, TypeOK, Result
    <2>4. level[current] = 0
      BY <1>1, <2>2, <2>3 DEF LayerInv, Exact
    <2>5. level[Last] = Len(Walked) - 1
      BY <1>1, <2>3, <2>4 DEF PInv, PathInv, Walk, Last
    <2>6. Ball({Walked[1]})[Len(Walked) - 2] \cap Goals(Walked[1]) = {}
      <3>1. Balls[level[Last] - 1] \cap Goals(source) = {}
        BY <1>1 DEF LayerInv, Nearer
      <3>2. level[Last] - 1 = Len(Walked) - 2
        BY <2>3, <2>5
      <3>3. Balls = Ball({Walked[1]})
        BY <2>2 DEF Balls
      <3> QED BY <2>2, <3>1, <3>2, <3>3
    <2>7. /\ DOMAIN results' = 1..(Len(results) + 1)
          /\ \A i \in 1..Len(results) : results'[i] = results[i]
          /\ results'[Len(results) + 1] = Walked
      <3>1. /\ results' \in Seq(Seq(Node)) /\ Len(results') = Len(results) + 1
            /\ \A i \in 1..Len(results) : results'[i] = results[i]
            /\ results'[Len(results) + 1] = Walked
        BY <2>1, <2>3, AppendProperties
      <3> QED BY <3>1, LenProperties
    <2>8. PathsAreShortest'
      <3> SUFFICES ASSUME NEW i \in 1..(Len(results) + 1)
                   PROVE  Ball({results'[i][1]})[Len(results'[i]) - 2]
                             \cap Goals(results'[i][1]) = {}
        BY <1>2, <2>7 DEF PathsAreShortest
      <3>1. CASE i = Len(results) + 1
        BY <2>6, <2>7, <3>1
      <3>2. CASE i \in 1..Len(results)
        BY <1>1, <2>3, <2>7, <3>2 DEF LayerInv, PathsAreShortest
      <3>3. i = Len(results) + 1 \/ i \in 1..Len(results)
        BY <2>3
      <3> QED BY <3>1, <3>2, <3>3
    <2>9. Nearer'
      BY <2>1 DEF Nearer
    <2> QED BY <1>3, <1>4, <2>8, <2>9 DEF LayerInv
  <1>6. CASE via[current] # Root
    <2>1. pc' = pc /\ results' = results /\ current' = via[current]
      BY <1>6 DEF Trace
    <2>2. /\ Walked \in Seq(Node) /\ Len(Walked) \in Nat \ {0} /\ via[current] \in Node
      BY <1>1, <1>6, Prepended DEF Walked, PInv, TInv, Shape, TypeOK, Seen
    <2>3. Walked' = <<via[current]>> \o Walked
      BY <1>1, <2>1 DEF Walked
    <2>4. Last' = Last
      <3>1. /\ Len(<<via[current]>> \o Walked) = Len(Walked) + 1
            /\ (<<via[current]>> \o Walked)[Len(Walked) + 1] = Walked[Len(Walked)]
        BY <2>2, Prepended
      <3> QED BY <2>3, <3>1 DEF Last
    <2>5. Nearer' /\ PathsAreShortest'
      BY <1>1, <1>2, <2>1, <2>4 DEF LayerInv, Nearer, PathsAreShortest
    <2> QED BY <1>3, <1>4, <2>5 DEF LayerInv
  <1> QED BY <1>5, <1>6

LEMMA StepLayers == PInv /\ LayerInv /\ TInv' /\ [Next]_vars => LayerInv'
  <1> SUFFICES ASSUME PInv, LayerInv, TInv', [Next]_vars PROVE LayerInv'
    OBVIOUS
  <1>0. TInv /\ TypeOK /\ Shape /\ Exact /\ Layers /\ Expanded /\ Nearer /\ Counted /\ PathsAreShortest
    BY DEF PInv, LayerInv, TInv
  <1>a. UNCHANGED request
    BY DEF Next, NextSeed, Pop, ScanDone, NotFound, Trace, Answer, SkipRow, PathRow,
           NeighborRow, vars, request
  <1>1. /\ IsPath' = IsPath /\ req' = req
        /\ \A S : Ball(S)' = Ball(S) /\ Goals(S)' = Goals(S)
    BY <1>a, Rigid, Still
  \* what does not depend on the search
  <1>k. ASSUME results' = results PROVE PathsAreShortest'
    BY <1>0, <1>1, <1>k DEF PathsAreShortest
  <1>c. ASSUME results' = results, via' = via, pc' = "scan" => pc = "scan" \/ IsPath \/ ~ Full
        PROVE  Counted'
    BY <1>0, <1>1, <1>c DEF Counted, Seen, Full
  <1>2. CASE NextSeed
    <2>1. Exact' /\ Layers' /\ Expanded'
      BY <1>0, <1>2, SeedStep
    <2>2. pc' = "pop" /\ results' = results /\ IsPath
      BY <1>0, <1>2 DEF NextSeed, Shape
    <2> QED BY <1>1, <1>k, <2>1, <2>2 DEF LayerInv, Nearer, Counted
  <1>3. CASE Pop
    <2>1. Exact' /\ Layers' /\ Expanded'
      BY <1>0, <1>3, PopStep
    <2>2. /\ pc' # "trace" /\ results' = results /\ via' = via /\ (IsPath \/ ~ Full)
      BY <1>3 DEF Pop
    <2> QED BY <1>c, <1>k, <2>1, <2>2 DEF LayerInv, Nearer
  <1>4. CASE ScanDone
    <2>1. Exact' /\ Layers' /\ Expanded'
      BY <1>0, <1>4, ScanDoneStep
    <2>2. pc' = "pop" /\ results' = results /\ via' = via
      BY <1>4 DEF ScanDone, search
    <2> QED BY <1>c, <1>k, <2>1, <2>2 DEF LayerInv, Nearer
  <1>5. CASE NotFound
    <2>1. /\ pc' = "seed" /\ IsPath /\ Searching /\ ~ Running' /\ results' = results /\ via' = via
          /\ UNCHANGED <<request, source, via, level>>
      BY <1>5 DEF NotFound, search, Searching, Running
    <2>2. Exact' /\ Layers' /\ Expanded'
      BY <2>1, QuietStep, <1>0
    <2> QED BY <1>c, <1>k, <2>1, <2>2 DEF LayerInv, Nearer
  <1>6. CASE Trace
    BY <1>6, TraceStep
  <1>7. CASE Answer
    <2>1. /\ pc' = "done" /\ ~ Running' /\ results' = results /\ via' = via
          /\ UNCHANGED <<request, source, via, level>>
      BY <1>7 DEF Answer, search, Running
    <2>2. Searching' => Searching
      BY <1>1, <2>1 DEF Searching
    <2>3. Exact' /\ Layers' /\ Expanded'
      BY <2>1, <2>2, QuietStep, <1>0
    <2> QED BY <1>c, <1>k, <2>1, <2>3 DEF LayerInv, Nearer
  <1>8. ASSUME NEW r \in rest, SkipRow(r) PROVE LayerInv'
    <2>1. /\ pc = "scan" /\ pc' = pc /\ rest' = rest \ {r} /\ (~ Passes(r.node) \/ r.node \in Seen)
          /\ UNCHANGED <<request, source, queue, via, level, current, pc, results>>
      BY <1>8 DEF SkipRow
    <2>2. Running' = Running
      BY <1>1, <2>1 DEF Running, Full
    <2>3. Exact' /\ Layers' /\ Expanded'
      BY <1>0, <2>1, <2>2, PassedStep
    <2> QED BY <1>c, <1>k, <2>1, <2>3 DEF LayerInv, Nearer
  <1>9. ASSUME NEW r \in rest, PathRow(r) PROVE LayerInv'
    BY <1>9, PathRowStep
  <1>10. ASSUME NEW r \in rest, NeighborRow(r) PROVE LayerInv'
    BY <1>0, <1>10, NeighborRowStep
  <1>11. CASE UNCHANGED vars
    <2>1. /\ UNCHANGED <<graph, req, pc, source, queue, via, level, current, rest, path, results>>
          /\ UNCHANGED request
      BY <1>11 DEF vars, request, search
    <2>2. Searching' = Searching /\ Running' = Running
      BY <1>1, <2>1 DEF Searching, Running, Full
    <2>3. Exact' /\ Layers' /\ Expanded'
      BY <2>1, <2>2, QuietStep, <1>0
    <2>4. Start' = Start /\ Balls' = Balls /\ Last' = Last
      BY <2>1, SameStart DEF Last, Walked
    <2>5. Nearer'
      BY <1>0, <1>1, <2>1, <2>4 DEF Nearer
    <2> QED BY <1>c, <1>k, <2>1, <2>3, <2>5 DEF LayerInv
  <1> QED BY <1>2, <1>3, <1>4, <1>5, <1>6, <1>7, <1>8, <1>9, <1>10, <1>11 DEF Next

LEMMA LayerInvariance == Spec => [](PInv /\ LayerInv)
  <1>1. Init => LayerInv
    BY InitLayers
  <1>2. PInv /\ PInv' /\ LayerInv /\ [Next]_vars => LayerInv'
    BY StepLayers DEF PInv
  <1> QED BY Inductive, <1>1, <1>2, PTL DEF Spec

(* The path that build_shortest_paths returns for a seed is as short as a  *)
(* path to any of its targets, whatever the order of the rows.             *)
THEOREM PathsShortest == Spec => []PathsAreShortest
  <1>1. LayerInv => PathsAreShortest
    BY DEF LayerInv
  <1> QED BY LayerInvariance, <1>1, PTL

-----------------------------------------------------------------------------
(* Neighbours.  What was looked at is among the results, and what the      *)
(* limit cut off is no nearer than any of them.                            *)

Genuine ==
  ~ IsPath =>
    /\ SetOf(results) \subseteq Hits
    /\ \A i, j \in DOMAIN results : results[i] = results[j] => i = j

Complete ==
  ~ IsPath /\ Running =>
    /\ \A n \in Seen \ Pending, r \in Row :
         r \in Adjacent(n) /\ level[n] < Depth /\ Passes(r.node) => HitAt(r, level[n]) \in SetOf(results)
    /\ pc = "scan" =>
         \A r \in Adjacent(current) : Passes(r.node) => r \in rest \/ HitOf(r) \in SetOf(results)
    /\ \A a \in Pending, g \in SetOf(results) : g.depth <= level[a] + 1

Nearest == \A h \in Hits \ SetOf(results), g \in SetOf(results) : g.depth <= h.depth

Cut == ~ IsPath /\ pc = "pop" /\ Full => Nearest

NearInv == Genuine /\ Complete /\ Cut /\ NeighborsAreNearest

NInv == PInv /\ LayerInv /\ NearInv

-----------------------------------------------------------------------------
LEMMA HitsStill ==
  ASSUME UNCHANGED request
  PROVE  Hits' = Hits
  <1>1. req' = req /\ Depth' = Depth /\ \A n : Adjacent(n)' = Adjacent(n) /\ Passes(n)' = Passes(n)
    BY Still DEF request
  <1>2. Ball(SetOf(req.seeds))' = Ball(SetOf(req.seeds))
    <2>1. SetOf(req.seeds)' = SetOf(req.seeds) /\ Links' = Links
      BY <1>1, Still
    <2> QED BY <2>1 DEF Ball
  <1>3. \A n, k : Distant(n, k)' = Distant(n, k)
    BY <1>2 DEF Distant
  <1>4. \A k : RowsAt(k)' = RowsAt(k)
    BY <1>1, <1>3 DEF RowsAt
  <1> QED BY <1>1, <1>4 DEF Hits

\* the hits by definition, seen from a search
LEMMA HitsOf ==
  ASSUME TypeOK, ~ IsPath, NEW h
  PROVE  h \in Hits <=>
           \E k \in 0..(Depth - 1), n \in Node, r \in Row :
             /\ n \in Balls[k] /\ (k > 0 => n \notin Balls[k - 1])
             /\ r \in Adjacent(n) /\ Passes(r.node) /\ h = HitAt(r, k)
  <1>1. Balls = Ball(SetOf(req.seeds))
    BY DEF Balls, Start
  <1> QED BY <1>1 DEF Hits, RowsAt, Distant

LEMMA HitTyped ==
  ASSUME TypeOK, ~ IsPath, NEW h \in Hits
  PROVE  h \in Hit /\ h.depth \in Nat /\ h.depth <= Depth
  <1>1. PICK k \in 0..(Depth - 1), r \in Row : h = HitAt(r, k)
    BY HitsOf
  <1>2. Depth \in Nat
    BY DEF Depth, TypeOK, Request
  <1> QED BY <1>1, <1>2 DEF HitAt, Hit, Row

LEMMA HitReached ==
  ASSUME TInv, Exact, Layers, Running, ~ IsPath, pc = "scan", NEW r \in rest, Passes(r.node)
  PROVE  HitOf(r) \in Hits
  <1>1. /\ TypeOK /\ current \in Node /\ current \in Seen /\ level[current] \in Nat
        /\ r \in Row /\ r \in Adjacent(current) /\ Depth \in Nat
    BY DEF TInv, Shape, Seen, TypeOK, Depth, Request
  <1>2. level[current] \in 0..(Depth - 1)
    BY <1>1 DEF Layers, Deeper
  <1>3. /\ current \in Balls[level[current]]
        /\ level[current] > 0 => current \notin Balls[level[current] - 1]
    BY <1>1 DEF Exact, Searching
  <1> QED BY <1>1, <1>2, <1>3, HitsOf DEF HitOf

\* a hit that is not among the results is as deep as what waits
LEMMA MissingDeep ==
  ASSUME TInv, Exact, Layers, Expanded, Complete, Running, ~ IsPath,
         NEW K \in Nat, K <= Depth, \A a \in Pending : level[a] >= K,
         NEW h \in Hits, h \notin SetOf(results)
  PROVE  h.depth >= K + 1
  <1>1. PICK k \in 0..(Depth - 1), n \in Node, r \in Row :
          /\ n \in Balls[k] /\ (k > 0 => n \notin Balls[k - 1])
          /\ r \in Adjacent(n) /\ Passes(r.node) /\ h = HitAt(r, k)
    BY HitsOf DEF TInv
  <1>2. Depth \in Nat /\ h.depth = k + 1
    BY <1>1 DEF HitAt, TInv, Depth, TypeOK, Request
  <1>3. CASE k < K
    <2>1. n \in Seen /\ level[n] <= k
      <3>1. k \in 0..K
        BY <1>2, <1>3
      <3> QED BY <1>1, <3>1, Near
    <2>2. level[n] \in Nat /\ n \in Balls[level[n]] /\ Start \in SUBSET Node
      BY <2>1, StartTyped DEF TInv, TypeOK, Exact, Searching
    <2>3. level[n] = k
      <3> SUFFICES ASSUME level[n] < k PROVE FALSE
        BY <2>1, <2>2
      <3>1. k > 0 /\ k - 1 \in Nat /\ level[n] <= k - 1
        BY <2>2
      <3>2. Balls[level[n]] \subseteq Balls[k - 1]
        BY <2>2, <3>1, WithinGrows DEF Balls, Ball
      <3> QED BY <1>1, <2>2, <3>1, <3>2
    <2>4. n \notin Pending
      BY <1>2, <1>3, <2>3
    <2>5. HitAt(r, level[n]) \in SetOf(results)
      BY <1>1, <1>2, <2>1, <2>3, <2>4 DEF Complete
    <2> QED BY <1>1, <2>3, <2>5
  <1>4. CASE ~(k < K)
    BY <1>2, <1>4
  <1> QED BY <1>3, <1>4

-----------------------------------------------------------------------------
LEMMA InitNear == Init => NearInv
  <1> SUFFICES ASSUME Init PROVE NearInv
    OBVIOUS
  <1>1. TypeOK /\ results = <<>> /\ SetOf(results) = {} /\ pc \in {"pop", "seed"}
    BY InitTyped DEF Init, TInv, SetOf
  <1>2. CASE IsPath
    BY <1>1, <1>2 DEF NearInv, Genuine, Complete, Cut, NeighborsAreNearest
  <1>3. CASE ~IsPath
    <2>1. Genuine /\ Cut /\ NeighborsAreNearest
      BY <1>1 DEF Genuine, Cut, Nearest, NeighborsAreNearest
    <2>2. /\ pc = "pop" /\ queue = req.seeds /\ queue \in Seq(Node)
          /\ via = [n \in Node |-> IF n \in SetOf(req.seeds) THEN Root ELSE Unseen]
      BY <1>1, <1>3 DEF Init, TypeOK
    <2>3. Seen = Pending
      BY <1>3, <2>2, Elements DEF Seen, Root, Unseen, Pending
    <2>4. Complete
      BY <1>1, <2>2, <2>3 DEF Complete
    <2> QED BY <2>1, <2>4 DEF NearInv
  <1> QED BY <1>2, <1>3

\* a step of the search that finds nothing and is no answer
LEMMA SameResults ==
  ASSUME NInv, UNCHANGED request, results' = results, pc # "done", pc' # "done", pc' = "pop" => ~ Full
  PROVE  Genuine' /\ Cut' /\ NeighborsAreNearest'
  <1>1. Hits' = Hits /\ IsPath' = IsPath /\ req' = req
    BY HitsStill, Rigid
  <1> QED BY <1>1 DEF NInv, NearInv, Genuine, Cut, Full, NeighborsAreNearest

LEMMA PopNear == NInv /\ TInv' /\ ~ IsPath /\ Pop => NearInv'
  <1> SUFFICES ASSUME NInv, TInv', ~ IsPath, Pop PROVE NearInv'
    OBVIOUS
  <1>1. /\ pc = "pop" /\ queue # <<>> /\ queue \in Seq(Node) /\ queue' = Tail(queue)
        /\ UNCHANGED <<request, via, level, results>> /\ ~ Full /\ Running /\ Complete
    BY DEF Pop, NInv, PInv, TInv, TypeOK, Running, NearInv
  <1>2. /\ Seen' = Seen /\ IsPath' = IsPath /\ Depth' = Depth /\ SetOf(results)' = SetOf(results)
        /\ \A n : Adjacent(n)' = Adjacent(n) /\ Passes(n)' = Passes(n)
    BY <1>1, Rigid, Still DEF Seen
  <1> DEFINE h == Head(queue)
  <1>3. SetOf(queue) = {h} \cup SetOf(queue') /\ Pending = SetOf(queue) /\ h \in Node
    BY <1>1, Split DEF Pending
  <1>4. CASE TooDeep(h)
    <2>1. current' = current /\ rest' = rest /\ pc' = pc /\ level[h] >= Depth
      BY <1>4 DEF Pop, TooDeep
    <2>2. Pending' = SetOf(queue') /\ level[h] \in Nat /\ Depth \in Nat
      BY <1>1, <1>3, <2>1 DEF Pending, NInv, PInv, TInv, TypeOK, Depth, Request
    <2>3. Complete'
      BY <1>1, <1>2, <1>3, <2>1, <2>2 DEF Complete
    <2> QED BY <1>1, <2>1, <2>3, SameResults DEF NearInv
  <1>5. CASE ~TooDeep(h)
    <2>1. current' = h /\ rest' = Adjacent(h) /\ pc' = "scan"
      BY <1>5 DEF Pop
    <2>2. Pending' = Pending
      BY <1>3, <2>1 DEF Pending
    <2>3. Complete'
      BY <1>1, <1>2, <2>1, <2>2 DEF Complete
    <2> QED BY <1>1, <2>1, <2>3, SameResults DEF NearInv
  <1> QED BY <1>4, <1>5

LEMMA ScanDoneNear == NInv /\ TInv' /\ ~ IsPath /\ ScanDone => NearInv'
  <1> SUFFICES ASSUME NInv, TInv', ~ IsPath, ScanDone PROVE NearInv'
    OBVIOUS
  <1>1. /\ pc = "scan" /\ pc' = "pop" /\ rest = {} /\ ~ Full /\ Running /\ Complete
        /\ UNCHANGED <<request, queue, via, level, current, rest, results>>
    BY DEF ScanDone, search, NInv, LayerInv, Counted, Running, NearInv
  <1>2. /\ Seen' = Seen /\ IsPath' = IsPath /\ Depth' = Depth /\ SetOf(results)' = SetOf(results)
        /\ \A n : Adjacent(n)' = Adjacent(n) /\ Passes(n)' = Passes(n)
    BY <1>1, Rigid, Still DEF Seen
  <1>3. Pending' = SetOf(queue) /\ Pending = Pending' \cup {current}
    BY <1>1 DEF Pending
  <1>4. ASSUME NEW n \in Seen, n \notin Pending', NEW r \in Row,
               r \in Adjacent(n), level[n] < Depth, Passes(r.node)
        PROVE  HitAt(r, level[n]) \in SetOf(results)
    <2>1. CASE n = current
      BY <1>1, <1>4, <2>1 DEF Complete, HitOf
    <2>2. CASE n # current
      BY <1>1, <1>3, <1>4, <2>2 DEF Complete
    <2> QED BY <2>1, <2>2
  <1>5. Complete'
    BY <1>1, <1>2, <1>3, <1>4 DEF Complete
  <1> QED BY <1>1, <1>5, SameResults DEF NearInv

LEMMA SkipRowNear ==
  ASSUME NInv, TInv', ~ IsPath, NEW r \in rest, SkipRow(r)
  PROVE  NearInv'
  <1>1. /\ pc = "scan" /\ pc' = pc /\ rest' = rest \ {r} /\ ~ Passes(r.node)
        /\ UNCHANGED <<request, queue, via, level, current, results>> /\ ~ Full /\ Running /\ Complete
    BY DEF SkipRow, NInv, LayerInv, Counted, Running, NearInv
  <1>2. /\ Seen' = Seen /\ IsPath' = IsPath /\ Depth' = Depth /\ SetOf(results)' = SetOf(results)
        /\ Pending' = Pending
        /\ \A n : Adjacent(n)' = Adjacent(n) /\ Passes(n)' = Passes(n)
        /\ \A q : HitOf(q)' = HitOf(q)
    BY <1>1, Rigid, Still DEF Seen, Pending, HitOf, HitAt
  <1>3. Complete'
    BY <1>1, <1>2 DEF Complete
  <1> QED BY <1>1, <1>3, SameResults DEF NearInv

LEMMA NeighborRowNear ==
  ASSUME NInv, TInv', LayerInv', ~ IsPath, NEW r \in rest, NeighborRow(r)
  PROVE  NearInv'
  <1> DEFINE m == r.node
             c == level[current]
  <1>1. /\ pc = "scan" /\ Passes(m) /\ ~ Full /\ Running /\ Complete /\ Genuine
        /\ UNCHANGED <<request, current, todo, source, path, answer>>
        /\ TInv /\ TypeOK /\ Shape /\ Exact /\ Layers /\ Expanded
    BY DEF NeighborRow, NInv, PInv, TInv, LayerInv, Counted, Running, NearInv
  <1>2. /\ current \in Node /\ current \in Seen /\ c \in Nat /\ r \in Row /\ m \in Node
        /\ r \in Adjacent(current) /\ Linked(current, m) /\ current \in Pending
        /\ Depth \in Nat /\ c < Depth /\ \A a \in Pending : c <= level[a]
        /\ Pending \subseteq Seen
    BY <1>1 DEF TypeOK, Shape, Seen, Row, Linked, Pending, Depth, Request, Layers, Deeper
  <1>3. /\ IsPath' = IsPath /\ Depth' = Depth /\ req' = req /\ Hits' = Hits
        /\ \A n : Adjacent(n)' = Adjacent(n) /\ Passes(n)' = Passes(n)
    BY <1>1, Rigid, Still, HitsStill
  <1>4. pc' # "done" /\ NeighborsAreNearest'
    BY <1>1 DEF NeighborRow, NeighborsAreNearest
  <1>5. CASE ~IsNew(HitOf(r))
    <2>1. rest' = rest \ {r} /\ UNCHANGED <<results, via, level, queue, pc>>
      BY <1>5 DEF NeighborRow
    <2>2. /\ Seen' = Seen /\ Pending' = Pending /\ SetOf(results)' = SetOf(results)
          /\ \A q : HitOf(q)' = HitOf(q)
      BY <1>1, <2>1 DEF Seen, Pending, HitOf, HitAt
    <2>3. HitOf(r) \in SetOf(results)
      BY <1>5 DEF IsNew
    <2>4. \A q \in Adjacent(current) : Passes(q.node) => q \in rest' \/ HitOf(q) \in SetOf(results)
      BY <1>1, <2>1, <2>3 DEF Complete
    <2>5. Complete'
      BY <1>1, <1>3, <2>1, <2>2, <2>4 DEF Complete
    <2> QED BY <1>1, <2>1, <2>5, SameResults DEF NearInv
  <1>6. CASE IsNew(HitOf(r))
    <2>1. /\ results' = Append(results, HitOf(r))
          /\ IF m \in Seen THEN UNCHANGED <<via, level, queue>> ELSE Reach(m) /\ Enqueue(m)
          /\ IF Len(results') >= req.limit
               THEN rest' = {} /\ pc' = "pop"
               ELSE rest' = rest \ {r} /\ UNCHANGED pc
          /\ HitOf(r) \notin SetOf(results)
      BY <1>6 DEF NeighborRow, IsNew
    <2>2. HitOf(r) \in Hit /\ results \in Seq(Hit) /\ HitOf(r).depth = c + 1
      BY <1>1, <1>2 DEF TypeOK, HitOf, HitAt, Hit, Row, Result
    <2>3. SetOf(results') = SetOf(results) \cup {HitOf(r)}
      BY <2>1, <2>2, Appended
    <2>4. Genuine'
      <3>1. HitOf(r) \in Hits
        BY <1>1, HitReached
      <3>2. /\ Len(results) \in Nat /\ DOMAIN results = 1..Len(results)
            /\ DOMAIN results' = 1..(Len(results) + 1)
            /\ \A i \in 1..Len(results) : results'[i] = results[i] /\ results[i] # HitOf(r)
            /\ results'[Len(results) + 1] = HitOf(r)
        BY <2>1, <2>2, AppendProperties, LenProperties DEF SetOf
      <3>3. \A i, j \in DOMAIN results' : results'[i] = results'[j] => i = j
        <4> SUFFICES ASSUME NEW i \in 1..(Len(results) + 1), NEW j \in 1..(Len(results) + 1),
                            results'[i] = results'[j]
                     PROVE  i = j
          BY <3>2
        <4>1. /\ i = Len(results) + 1 \/ i \in 1..Len(results)
              /\ j = Len(results) + 1 \/ j \in 1..Len(results)
          BY <3>2
        <4>2. CASE i \in 1..Len(results) /\ j \in 1..Len(results)
          BY <1>1, <3>2, <4>2 DEF Genuine
        <4>3. CASE i = Len(results) + 1
          BY <3>2, <4>1, <4>3
        <4>4. CASE j = Len(results) + 1
          BY <3>2, <4>1, <4>4
        <4> QED BY <4>1, <4>2, <4>3, <4>4
      <3> QED BY <1>1, <1>3, <2>3, <3>1, <3>3 DEF Genuine
    <2>5. \A g \in SetOf(results') : g.depth <= c + 1
      BY <1>1, <1>2, <2>2, <2>3 DEF Complete
    <2>6. CASE Len(results') >= req.limit
      <3>1. pc' = "pop" /\ Full'
        BY <1>3, <2>1, <2>6 DEF Full
      <3>2. ASSUME NEW h \in Hits, h \notin SetOf(results'), NEW g \in SetOf(results')
            PROVE  g.depth <= h.depth
        <4>1. h \notin SetOf(results) /\ h.depth \in Nat
          BY <1>1, <2>3, <3>2, HitTyped
        <4>2. h.depth >= c + 1
          BY <1>1, <1>2, <4>1, MissingDeep
        <4>3. g \in Hits /\ g.depth \in Nat
          BY <1>1, <1>3, <2>4, HitTyped DEF Genuine
        <4> QED BY <1>2, <2>5, <4>1, <4>2, <4>3
      <3>3. Cut' /\ Complete'
        BY <1>3, <3>1, <3>2 DEF Cut, Nearest, Complete, Running
      <3> QED BY <1>4, <2>4, <3>3 DEF NearInv
    <2>7. CASE ~(Len(results') >= req.limit)
      <3>1. rest' = rest \ {r} /\ pc' = pc /\ ~ Full'
        BY <1>3, <2>1, <2>7 DEF Full
      <3>2. /\ Seen' \ Pending' = Seen \ Pending
            /\ \A n \in Seen : level'[n] = level[n]
            /\ \A a \in Pending' : c <= level'[a] /\ level'[a] \in Nat
        <4>1. CASE m \in Seen
          <5>1. UNCHANGED <<via, level, queue>>
            BY <2>1, <4>1
          <5>2. Seen' = Seen /\ Pending' = Pending
            BY <1>1, <3>1, <5>1 DEF Seen, Pending
          <5> QED BY <1>1, <1>2, <5>1, <5>2 DEF TypeOK, Seen
        <4>2. CASE m \notin Seen
          <5>1. Reach(m) /\ queue' = Append(queue, m)
            BY <2>1, <4>2 DEF Enqueue
          <5>2. /\ level'[m] = c + 1 /\ \A n \in Seen : level'[n] = level[n]
                /\ Seen' = Seen \cup {m}
            BY <1>1, <1>2, <4>2, <5>1, ReachedStep
          <5>3. SetOf(queue') = SetOf(queue) \cup {m}
            BY <1>1, <1>2, <5>1, Appended DEF TypeOK
          <5>4. Pending' = Pending \cup {m}
            BY <1>1, <3>1, <5>3 DEF Pending
          <5> QED BY <1>1, <1>2, <4>2, <5>2, <5>4 DEF TypeOK, Seen
        <4> QED BY <4>1, <4>2
      <3>3. current' = current /\ \A q : HitOf(q)' = HitOf(q)
        BY <1>1, <1>2, <3>2 DEF HitOf, HitAt
      <3>4. ASSUME NEW n \in Seen', n \notin Pending', NEW q \in Row,
                   q \in Adjacent(n), level'[n] < Depth, Passes(q.node)
            PROVE  HitAt(q, level'[n]) \in SetOf(results')
        <4>1. n \in Seen /\ n \notin Pending /\ level'[n] = level[n]
          BY <3>2, <3>4
        <4> QED BY <1>1, <2>3, <3>4, <4>1 DEF Complete
      <3>5. ASSUME NEW q \in Adjacent(current), Passes(q.node)
            PROVE  q \in rest' \/ HitOf(q) \in SetOf(results')
        BY <1>1, <2>3, <3>1, <3>5 DEF Complete
      <3>6. ASSUME NEW a \in Pending', NEW g \in SetOf(results')
            PROVE  g.depth <= level'[a] + 1
        <4>1. g.depth <= c + 1 /\ c <= level'[a] /\ level'[a] \in Nat
          BY <2>5, <3>2, <3>6
        <4>2. g.depth \in Nat
          BY <1>1, <1>3, <2>4, <3>6, HitTyped DEF Genuine
        <4> QED BY <1>2, <4>1, <4>2
      <3>7. Complete'
        BY <1>3, <3>3, <3>4, <3>5, <3>6 DEF Complete
      <3> QED BY <1>4, <2>4, <3>1, <3>7 DEF NearInv, Cut
    <2> QED BY <2>6, <2>7
  <1> QED BY <1>5, <1>6

\* an injection of 1..n into itself leaves nothing out
LEMMA Permutes ==
  ASSUME NEW n \in Nat, NEW f \in [1..n -> 1..n],
         \A i, j \in 1..n : f[i] = f[j] => i = j
  PROVE  \A k \in 1..n : \E i \in 1..n : f[i] = k
  <1>1. IsFiniteSet(1..n)
    BY FS_Interval
  <1>2. f \in Injection(1..n, 1..n)
    BY DEF Injection, IsInjective
  <1>3. f \in Surjection(1..n, 1..n)
    BY <1>1, <1>2, FS_Injection
  <1> QED BY <1>3 DEF Surjection

LEMMA AnswerNear == NInv /\ TInv' /\ ~ IsPath /\ Answer => NearInv'
  <1> SUFFICES ASSUME NInv, TInv', ~ IsPath, Answer PROVE NearInv'
    OBVIOUS
  <1>1. /\ pc = "pop" /\ pc' = "done" /\ (queue = <<>> \/ Full)
        /\ UNCHANGED <<request, search, todo, source, path, results>> /\ UNCHANGED <<request, results>>
        /\ TInv /\ TypeOK /\ Exact /\ Layers /\ Expanded /\ Counted /\ Complete /\ Genuine /\ Cut
    BY DEF Answer, Searched, NInv, PInv, TInv, LayerInv, NearInv
  <1>2. Hits' = Hits /\ IsPath' = IsPath /\ req' = req
    BY <1>1, HitsStill, Rigid
  <1>3. Genuine' /\ Complete' /\ Cut'
    BY <1>1, <1>2 DEF Genuine, Complete, Cut, Running
  <1> DEFINE n == Len(results)
  <1>4. /\ results \in Seq(Hit) /\ n \in Nat /\ DOMAIN results = 1..n /\ req.limit \in Nat
        /\ n <= req.limit
    BY <1>1, LenProperties DEF TypeOK, Result, Request, Counted
  <1>5. PICK order \in [1..n -> 1..n] :
          /\ \A i, j \in 1..n : order[i] = order[j] => i = j
          /\ \A i, j \in 1..n : i < j => Weight(results[order[i]]) <= Weight(results[order[j]])
          /\ answer' = [i \in 1..n |-> results[order[i]]]
    BY <1>4 DEF Answer
  <1>6. DOMAIN answer' = 1..n /\ Len(answer') = n
    BY <1>4, <1>5
  <1>7. SetOf(answer') = SetOf(results)
    <2>1. ASSUME NEW i \in 1..n PROVE answer'[i] \in SetOf(results)
      BY <1>4, <1>5 DEF SetOf
    <2>2. ASSUME NEW k \in 1..n PROVE results[k] \in SetOf(answer')
      <3>1. PICK i \in 1..n : order[i] = k
        BY <1>4, <1>5, Permutes
      <3> QED BY <1>5, <1>6, <3>1 DEF SetOf
    <2> QED BY <1>4, <1>6, <2>1, <2>2 DEF SetOf
  <1>8. ASSUME NEW h \in Hits, h \notin SetOf(results)
        PROVE  n = req.limit /\ \A g \in SetOf(results) : g.depth <= h.depth
    <2>1. CASE Full
      BY <1>1, <1>4, <1>8, <2>1 DEF Full, Cut, Nearest
    <2>2. CASE ~Full
      <3>1. Pending = {} /\ Running
        BY <1>1, <2>2 DEF Pending, SetOf, Running
      <3>2. Depth \in Nat /\ h.depth \in Nat /\ h.depth <= Depth
        BY <1>1, <1>8, HitTyped DEF Depth, TypeOK, Request
      <3>3. h.depth >= Depth + 1
        BY <1>1, <1>8, <3>1, <3>2, MissingDeep
      <3> QED BY <3>2, <3>3
    <2> QED BY <2>1, <2>2
  <1>9. NeighborsAreNearest'
    <2>1. Len(answer') <= req.limit /\ SetOf(answer') \subseteq Hits
      BY <1>1, <1>4, <1>6, <1>7 DEF Genuine
    <2>2. \A i, j \in 1..n : answer'[i] = answer'[j] => i = j
      BY <1>1, <1>4, <1>5 DEF Genuine
    <2>3. \A i, j \in 1..n : i < j => answer'[i].depth <= answer'[j].depth
      BY <1>5 DEF Weight
    <2>4. \A h \in Hits \ SetOf(answer') :
            Len(answer') = req.limit /\ \A i \in 1..n : answer'[i].depth <= h.depth
      <3> SUFFICES ASSUME NEW h \in Hits, h \notin SetOf(answer'), NEW i \in 1..n
                   PROVE  Len(answer') = req.limit /\ answer'[i].depth <= h.depth
        BY <1>6, <1>7, <1>8
      <3>1. answer'[i] \in SetOf(results)
        BY <1>6, <1>7 DEF SetOf
      <3> QED BY <1>6, <1>7, <1>8, <3>1
    <2> QED BY <1>2, <1>6, <2>1, <2>2, <2>3, <2>4 DEF NeighborsAreNearest
  <1> QED BY <1>3, <1>9 DEF NearInv

LEMMA StepNear == NInv /\ PInv' /\ LayerInv' /\ [Next]_vars => NearInv'
  <1> SUFFICES ASSUME NInv, PInv', LayerInv', [Next]_vars PROVE NearInv'
    OBVIOUS
  <1>0. TInv' /\ Shape
    BY DEF PInv, NInv, TInv
  <1>a. UNCHANGED request
    BY DEF Next, NextSeed, Pop, ScanDone, NotFound, Trace, Answer, SkipRow, PathRow,
           NeighborRow, vars, request
  <1>1. IsPath' = IsPath
    BY <1>a, Rigid
  <1>2. CASE IsPath
    BY <1>1, <1>2 DEF NearInv, Genuine, Complete, Cut, NeighborsAreNearest
  <1>3. CASE ~IsPath
    <2>1. ASSUME NextSeed \/ NotFound \/ Trace PROVE FALSE
      BY <1>0, <1>3, <2>1 DEF NextSeed, NotFound, Trace, Shape
    <2>2. ASSUME NEW r \in rest, SkipRow(r) \/ PathRow(r) \/ NeighborRow(r) PROVE NearInv'
      BY <1>0, <1>3, <2>2, SkipRowNear, NeighborRowNear DEF PathRow
    <2>3. CASE UNCHANGED vars
      <3>1. /\ UNCHANGED <<graph, req, pc, source, queue, via, level, current, rest, results, answer>>
            /\ UNCHANGED request
        BY <2>3 DEF vars, request, search
      <3>2. /\ Hits' = Hits /\ Depth' = Depth /\ req' = req
            /\ \A n : Adjacent(n)' = Adjacent(n) /\ Passes(n)' = Passes(n)
        BY <3>1, HitsStill, Still
      <3>3. Seen' = Seen /\ Pending' = Pending /\ SetOf(results)' = SetOf(results) /\ Full' = Full
            /\ SetOf(answer)' = SetOf(answer) /\ \A q : HitOf(q)' = HitOf(q)
        BY <3>1 DEF Seen, Pending, Full, HitOf, HitAt
      <3>4. Running' = Running
        BY <1>1, <3>1, <3>3 DEF Running
      <3>5. Complete'
        BY <3>1, <3>2, <3>3, <3>4, <1>1 DEF NInv, NearInv, Complete
      <3>6. Genuine' /\ Cut' /\ NeighborsAreNearest'
        BY <3>1, <3>2, <3>3, <1>1 DEF NInv, NearInv, Genuine, Cut, Nearest, NeighborsAreNearest
      <3> QED BY <3>5, <3>6 DEF NearInv
    <2> QED BY <1>0, <1>3, <2>1, <2>2, <2>3, PopNear, ScanDoneNear, AnswerNear DEF Next
  <1> QED BY <1>2, <1>3

(* Whatever the graph and the order of its rows, build_neighbors answers   *)
(* with hits of the graph, each once, nearest first, and what the limit    *)
(* leaves out is no nearer than what it lets in.                           *)
THEOREM NeighborsNearest == Spec => []NeighborsAreNearest
  <1>1. Init => NearInv
    BY InitNear
  <1>2. (PInv /\ LayerInv) /\ (PInv /\ LayerInv)' /\ NearInv /\ [Next]_vars => NearInv'
    BY StepNear DEF NInv
  <1>3. NearInv => NeighborsAreNearest
    BY DEF NearInv
  <1> QED BY LayerInvariance, <1>1, <1>2, <1>3, PTL DEF Spec
=============================================================================
