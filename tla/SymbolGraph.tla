---------------------------- MODULE SymbolGraph ----------------------------
(***************************************************************************)
(* build_graph_artifact run on a finished symbol index: the passes that    *)
(* turn its records into the nodes and edges the graph database loads.     *)
(*                                                                         *)
(* Edges carry the id of their endpoints whether or not a node of that id  *)
(* was made, and one fact reaches the graph from several records, so the   *)
(* passes are right only together.  A node is its id (the kind and names   *)
(* of a reference node are left out) and edges are a set: dedupe_edges     *)
(* keeps one of each id, which covers all of an edge.  SCIP relationships  *)
(* are left out.                                                           *)
(***************************************************************************)
EXTENDS SymbolIndex

CONSTANTS
  FieldCap,  \* MAX_GRAPH_TARGETS_PER_FIELD
  FlowCap    \* MAX_DATA_FLOW_READS_PER_STATEMENT

ASSUME EdgeCapAssumption == FieldCap \in Nat \ {0} /\ FlowCap \in Nat \ {0}

VARIABLES
  step,     \* the graph pass that runs next
  nodes, edges

graph == <<step, nodes, edges>>
vars  == <<index, graph>>

Node(i)   == <<"sym", i>>
StmtNode(s) == <<"stmt", s.fn, s.line>>
FileNode(f) == <<"file", f>>
TestNode(i) == <<"test", i>>
Repository  == <<"repo">>
Directory(d) == <<"dir", d>>
Package(p)   == <<"pkg", p>>

Plain == <<"plain">>
Level(l) == <<"level", l>>
Line(k)  == <<"line", k>>
Edge(type, from, to, meta) == [type |-> type, from |-> from, to |-> to, meta |-> meta]

\* Mutant for EdgesEndAtNodes: no node for a bare name.
PathNodes(targets) == {t \in targets : t[1] = "ref" /\ Len(t[2]) > 1}

\* resolve_target_node: a target without a symbol gets a reference node.
RefNodes(targets) == {t \in targets : t[1] = "ref"}

Add(newNodes, newEdges) ==
  /\ nodes' = nodes \cup newNodes
  /\ edges' = edges \cup newEdges

GraphInit == step = "files" /\ nodes = {} /\ edges = {}
Init == IndexInit /\ GraphInit

\* A pass: the index is complete and stays as it is.
Pass(from, to) ==
  /\ pass = "indexed" /\ step = from /\ step' = to
  /\ UNCHANGED index

Packages == {repo.files[f].package : f \in DOMAIN repo.files} \ {""}
Upto(d, n)  == SubSeq(d, 1, n)
Prefixes(d) == {Upto(d, n) : n \in 0..Len(d)}
Deepest(d)  == Upto(d, Len(d))
Directories == {<<>>} \cup UNION {Prefixes(repo.files[f].dir) : f \in DOMAIN repo.files}

AddFiles ==
  LET Contains(a, b) == Edge("CONTAINS", a, b, Plain)
      Files == DOMAIN repo.files
  IN /\ Pass("files", "symbols")
     /\ Add({Repository} \cup {Directory(d) : d \in Directories}
              \cup {Package(p) : p \in Packages} \cup {FileNode(f) : f \in Files},
            {Contains(Repository, Directory(<<>>))}
              \cup {Contains(Repository, Package(p)) : p \in Packages}
              \cup (UNION {{Contains(Directory(Upto(repo.files[f].dir, n - 1)),
                                    Directory(Upto(repo.files[f].dir, n))) :
                              n \in 1..Len(repo.files[f].dir)} : f \in Files})
              \cup {Contains(Repository, FileNode(f)) : f \in Files}
              \cup {Contains(Directory(Deepest(repo.files[f].dir)), FileNode(f)) : f \in Files}
              \cup {Contains(Package(repo.files[f].package), FileNode(f)) :
                      f \in {g \in Files : repo.files[g].package # ""}})

\* Symbols, their containers and tests, what impls implement and traits inherit.
AddSymbols ==
  LET Top     == {i \in Ids : Sym(i).container = 0}
      Tests   == {i \in Ids : Sym(i).test = 1}
      Traits  == {i \in DOMAIN impls : impls[i].trait.name # <<>>}
      TypeOf(i)  == Target(impls[i].target)
      TraitOf(i) == Target(impls[i].trait)
      File(i) == FileNode(Sym(i).file)
  IN /\ Pass("symbols", "imports")
     /\ Add({Node(i) : i \in Ids} \cup {TestNode(i) : i \in Tests}
              \cup RefNodes({TypeOf(i) : i \in DOMAIN impls} \cup {TraitOf(i) : i \in Traits}
                              \cup {p.to : p \in supers}),
            {Edge("CONTAINS", Node(Sym(i).container), Node(i), Plain) : i \in Ids \ Top}
              \cup {Edge("DEFINES", File(i), Node(i), Plain) : i \in Top}
              \cup {Edge("DECLARES", File(i), Node(i), Plain) : i \in Top}
              \cup {Edge("DECLARES", Node(i), TestNode(i), Plain) : i \in Tests}
              \cup {Edge("REFERENCES", Node(i), TypeOf(i), Plain) : i \in DOMAIN impls}
              \cup {Edge("IMPLEMENTS", Node(i), TraitOf(i), Plain) : i \in Traits}
              \cup {Edge("INHERITS", Node(p.trait), p.to, Plain) : p \in supers})

\* resolve_import_target_node: a path out of the repository's crates is the
\* dependency its first segment names.
ImportTarget(t) ==
  LET local == {Head(repo.files[f].root) : f \in DOMAIN repo.files} \cup Packages
  IN IF t[1] = "ref" /\ Head(t[2]) \notin local THEN <<"dep", Head(t[2])>> ELSE t

AddImports ==
  LET From(m) == IF m.container = 0 THEN FileNode(m.file) ELSE Node(m.container)
      targets == {ImportTarget(m.to) : m \in imports}
  IN /\ Pass("imports", "refs")
     /\ Add({t \in targets : t[1] # "sym"},
            {Edge("IMPORTS", From(m), ImportTarget(m.to), Plain) : m \in imports})

AddReferences ==
  LET Type(r) == IF r.kind = "call" THEN "CALLS" ELSE "USES"
      Uses    == {r \in refs : r.kind = "use"}
      Tests   == {r \in refs : Sym(r.from).test = 1}
  IN /\ Pass("refs", "semantics")
     /\ Add(RefNodes({r.to : r \in refs}),
            {Edge(Type(r), Node(r.from), r.to, Line(r.line)) : r \in refs}
              \cup {Edge("USES_TYPE", Node(r.from), r.to, Line(r.line)) : r \in Uses}
              \cup {Edge("TESTS", TestNode(r.from), r.to, <<r.kind, r.line>>) : r \in Tests})

\* append_symbol_semantic_edges
Semantics ==
  { <<"READS", "reads", "symbol">>, <<"WRITES", "writes", "symbol">>, <<"REFS", "uses", "symbol">>,
    <<"READS", "farReads", "interprocedural">>, <<"WRITES", "farWrites", "interprocedural">>,
    <<"REFS", "farUses", "interprocedural">>, <<"CALLS", "transitive", "transitive">> }

AddSemantics ==
  /\ Pass("semantics", "overrides")
  /\ \E kept \in Selections([k \in Ids \X Semantics |-> Cuts(summary[k[1]][k[2][2]], FieldCap)]) :
       LET Lists == Ids \X Semantics
       IN Add(RefNodes(UNION {kept[k] : k \in Lists}),
              UNION {{Edge(k[2][1], Node(k[1]), t, Level(k[2][3])) : t \in kept[k]} : k \in Lists})

\* symbol_by_qname keeps the last symbol of a name.
LastNamed(q) == {i \in Ids : qname[i] = q /\ \A j \in Ids : j > i => qname[j] # q}

Overridden(i) ==
  LET c == Sym(i).container
  IN IF Sym(i).kind = "method" /\ c # 0 /\ c \in DOMAIN impls /\ impls[c].trait.name # <<>>
     THEN LastNamed(impls[c].trait.name \o <<Sym(i).name>>) ELSE {}

Siblings(i) == {j \in Ids : Sym(j).file = Sym(i).file /\ Sym(j).container = Sym(i).container}
Adjacent(i, j) ==
  /\ i < j /\ j \in Siblings(i)
  /\ \A k \in Siblings(i) : k <= i \/ k >= j

AddOverrides ==
  LET Near == {p \in Ids \X Ids : Adjacent(p[1], p[2]) \/ Adjacent(p[2], p[1])}
  IN /\ Pass("overrides", "stmts")
     /\ Add({}, (UNION {{Edge("OVERRIDES", Node(i), Node(j), Plain) : j \in Overridden(i)} : i \in Ids})
                  \cup {Edge("NEIGHBOR", Node(p[1]), Node(p[2]), Plain) : p \in Near})

\* Mutant for FlowIsLastBinding: the first writer is kept.
FirstWriters(t, key) ==
  LET before == {s \in stmts : s.fn = t.fn /\ s.line < t.line /\ key \in s.defines \cup s.writes}
  IN {s \in before : \A u \in before : s.line <= u.line}

\* The statement that last defined or wrote what t reads as `key`.
Writers(t, key) ==
  LET before == {s \in stmts : s.fn = t.fn /\ s.line < t.line /\ key \in s.defines \cup s.writes}
  IN {s \in before : \A u \in before : u.line <= s.line}

Facts == { <<"DEFINES", "defines">>, <<"READS", "reads">>, <<"WRITES", "writes">>,
           <<"REFS", "reads">>, <<"CALLS", "calls">> }

\* What is kept of a list of statement s where `cap` entries are read: a
\* target has an entry for each expression that means it.
Whole(s, cap) == Cardinality(Expressions(Sym(s.fn).body[s.line])) <= cap
FirstOf(s, list, cap) == IF Whole(s, cap) THEN {list} ELSE {T \in SUBSET list : Cardinality(T) <= cap}

AddStatements ==
  LET Of(s, k) == <<"stmt", s.fn, k>>
      Lists    == stmts \X {"defines", "reads", "writes", "calls"}
  IN /\ Pass("stmts", "done")
     /\ \E kept \in Selections([k \in Lists |-> FirstOf(k[1], k[1][k[2]], FieldCap)]),
           read \in Selections([t \in stmts |-> FirstOf(t, t.reads, FlowCap)]) :
          Add({StmtNode(s) : s \in stmts} \cup RefNodes(UNION {kept[k] : k \in Lists}),
            {Edge("CONTAINS", Node(s.fn), StmtNode(s), Plain) : s \in stmts}
              \cup (UNION {{Edge("CONTROL_FLOW", Of(s, k), StmtNode(s), Plain) : k \in s.previous} :
                            s \in stmts})
              \cup (UNION {{Edge("DEPENDENCE", Of(s, k), StmtNode(s), Plain) : k \in s.parent} :
                            s \in stmts})
              \cup (UNION {UNION {{Edge(f[1], StmtNode(s), t, Line(s.line)) : t \in kept[<<s, f[2]>>]} :
                                   f \in Facts} : s \in stmts})
              \cup UNION {UNION {{Edge("DATA_FLOW", StmtNode(s), StmtNode(t), <<"via", key>>) :
                                   s \in Writers(t, key)} : key \in read[t]} : t \in stmts})

GraphNext ==
  \/ AddFiles \/ AddSymbols \/ AddImports \/ AddReferences \/ AddSemantics
  \/ AddOverrides \/ AddStatements

\* The build ends: the artifact is written, nothing changes it.
Done == step = "done" /\ UNCHANGED vars

Next == (IndexNext /\ UNCHANGED graph) \/ GraphNext \/ Done
Spec == Init /\ [][Next]_vars

-----------------------------------------------------------------------------
(* Properties *)

IndexPasses == {"records", "imports", "impls", "supers", "refs", "stmts", "direct", "far", "indexed"}
GraphSteps  == {"files", "symbols", "imports", "refs", "semantics", "overrides", "stmts", "done"}

TargetOK(t) == (\E i \in Ids : t = <<"sym", i>>) \/ t[1] = "ref"

PassesOK ==
  /\ WellFormed(repo) /\ pass \in IndexPasses /\ step \in GraphSteps
  /\ pass # "indexed" => step = "files"
  /\ cursor \in 1..(Len(repo.imports) + 1)

RecordsOK ==
  /\ DOMAIN aliases = DOMAIN repo.files
  /\ \A m \in imports :
       m.file \in DOMAIN repo.files /\ m.container \in {0} \cup Ids /\ TargetOK(m.to)
  /\ \A i \in DOMAIN impls :
       i \in Ids /\ TargetOK(Target(impls[i].target)) /\ TargetOK(Target(impls[i].trait))
  /\ \A p \in supers : p.trait \in Ids /\ TargetOK(p.to)
  /\ \A r \in refs : r.from \in Ids /\ TargetOK(r.to)

StatementsOK ==
  \A s \in stmts :
    /\ s.fn \in Ids /\ s.line \in StatementLines(s.fn)
    /\ s.previous \subseteq StatementLines(s.fn) /\ s.parent \subseteq StatementLines(s.fn)
    /\ \A t \in s.defines \cup s.writes \cup s.calls \cup s.reads : TargetOK(t)
    /\ \A k \in StatementLines(s.fn) : \E u \in stmts : u.fn = s.fn /\ u.line = k

SummariesOK ==
  /\ pass \in {"far", "indexed"} => DOMAIN summary = Ids
  /\ \A i \in DOMAIN summary : /\ DOMAIN summary[i] = DOMAIN NoSummary
                              /\ \A f \in DOMAIN NoSummary : \A t \in summary[i][f] : TargetOK(t)

\* Every record names symbols, files and lines there are, whatever the passes
\* before it have resolved, and every line of a function that has statements
\* has one (schema of the symbol index).
TypeOK == PassesOK /\ RecordsOK /\ StatementsOK /\ SummariesOK

\* Both ends of every edge are nodes: an edge takes its ends from the record
\* it is made for, and load_ryugraph_database copies edges into tables whose
\* keys must exist.
EdgesEndAtNodes == \A e \in edges : e.from \in nodes /\ e.to \in nodes

\* A qualified name read in file f as what it says: its first segment is no
\* alias, no renamed dependency and no keyword.
OwnMeaning(q, f) ==
  LET x == Head(q)
  IN /\ x \notin {"Self", "crate", "super"} \cup DOMAIN aliases[f]
     /\ x \in DOMAIN repo.files[f].deps => repo.files[f].deps[x] = <<x>>

\* What a statement of a function is seen to call, the function is seen to
\* call on that line: the statements and the references resolve the same text
\* along two code paths, one of which resolves a member twice.  Said of a
\* callee that its qualified name means there and that alone bears it: the
\* second resolution is by that name, and may find another symbol otherwise.
ViewsAgree ==
  step = "done" =>
    \A e \in edges :
      /\ e.type = "CALLS" /\ e.from[1] = "stmt"
      /\ e.to[1] = "sym" /\ e.to # Node(e.from[2])
      /\ \A j \in Ids : qname[j] = qname[e.to[2]] => Node(j) = e.to
      /\ OwnMeaning(qname[e.to[2]], Sym(e.from[2]).file)
      => Edge("CALLS", Node(e.from[2]), e.to, e.meta) \in edges

\* A function is linked as a transitive caller only to what it reaches by two
\* or three direct calls, whatever cycles there are, and to all of it unless a
\* cap bites: more targets than a list holds, or more calls made by its callees
\* than a frontier does (compute_transitive_calls walks two levels and expands
\* no symbol twice).
TransitiveIsReach ==
  step = "done" =>
    LET Direct(i, n) == \E e \in edges :
                          e.type = "CALLS" /\ e.from = Node(i) /\ e.meta[1] = "line" /\ e.to = n
        Reaches(i, n) == \E a \in Functions :
                           /\ Direct(i, Node(a))
                           /\ \/ Direct(a, n)
                              \/ \E b \in Functions : Direct(a, Node(b)) /\ Direct(b, n)
        Linked(i, n)  == Edge("CALLS", Node(i), n, Level("transitive")) \in edges
    IN \A i \in Functions :
         LET reached == {n \in nodes : Reaches(i, n)}
             beyond  == {p \in Functions \X nodes : Direct(i, Node(p[1])) /\ Direct(p[1], p[2])}
         IN /\ \A n \in nodes : Linked(i, n) => Reaches(i, n)
            /\ /\ Cardinality(reached) <= TargetCap /\ Cardinality(reached) <= FieldCap
               /\ Cardinality(beyond) <= FrontierCap
               => \A n \in reached : Linked(i, n)

\* A variable bound by one `let`: each statement that reads it gets its value
\* from the last statement before it that bound or assigned it, and from no
\* other; a line with more expressions than are read may get none.  Said of
\* names that are no keyword or primitive type, which are never resolved, and
\* where no member of that name is written: one that is not indexed resolves
\* to whatever else bears its name.
FlowIsLastBinding ==
  step = "done" =>
    \A i \in Functions : \A j \in {v \in Ids : Sym(v).kind = "local" /\ Sym(v).container = i} :
      LET x        == Sym(j).name
          body     == Sym(i).body
          Binds(k) == x \in body[k].lets \cup body[k].lhs
          Reads(k) == /\ x \in body[k].idents
                          \cup {p[1] : p \in body[k].mcalls \cup body[k].fields \cup body[k].members}
                      /\ ~Binds(k) /\ <<x>> \notin Calls(body[k])
          Before(k) == {m \in 1..(k - 1) : Binds(m)}
          Flows(k)  == {e.from[3] : e \in {d \in edges :
                          /\ d.type = "DATA_FLOW" /\ d.to = <<"stmt", i, k>>
                          /\ d.meta = <<"via", Node(j)>>}}
      IN /\ \A v \in LocalsOf(i, x) : v = j
         /\ x \notin Reserved
         /\ \A k \in DOMAIN body : \A p \in body[k].members : p[2] # x
         => \A k \in DOMAIN body :
             LET last == {m \in Before(k) : \A n \in Before(k) : n <= m}
             IN Reads(k) => /\ Flows(k) \subseteq last
                            /\ Cardinality(Expressions(body[k])) <= FlowCap => Flows(k) = last
=============================================================================
