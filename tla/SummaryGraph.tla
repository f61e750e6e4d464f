---------------------------- MODULE SummaryGraph ----------------------------
(***************************************************************************)
(* What build-summaries writes, run after run, for one repository: the     *)
(* summaries of the metadata bundle, and the summary nodes and             *)
(* SUMMARIZED_BY edges it adds to the graph.                               *)
(*                                                                         *)
(* The feedback is the subject: the summaries of the project and of the    *)
(* symbols quote edge counts of the graph, and the graph is the one the    *)
(* previous run added its own edges to.  One command runs at a time; how   *)
(* the two stores are replaced is ArtifactStore's subject, here each       *)
(* replacement is one step.                                                *)
(***************************************************************************)
EXTENDS Integers, FiniteSets

CONSTANTS
  Symbol, File, Dir,  \* what can be summarised, besides the project
  Project,
  Content,            \* Content[g]: the symbols, files, directories and edges
                      \*   that generation g of the inventory parses to
  MaxGen,             \* bound: generations of the inventory
  MaxRuns             \* bound: build-summaries runs started

Item  == Symbol \cup File \cup Dir \cup {Project}
Place == Dir \cup File
Gens  == 1..MaxGen

ASSUME KindAssumption ==
  /\ Project \notin Symbol \cup Place
  /\ Symbol \cap Place = {} /\ File \cap Dir = {}
ASSUME ContentAssumption ==
  Content \in [Gens -> [items : SUBSET (Symbol \cup Place), edges : SUBSET (Item \X Item)]]
ASSUME FiniteAssumption == IsFiniteSet(Item)
ASSUME RunsAssumption == MaxGen \in Nat \ {0} /\ MaxRuns \in Nat

\* A text: the generations of inventory and symbols it describes and, for the
\* project and the symbols, the edge counts it quotes; marks counts SUMMARIZED_BY
Text   == [raw : 0..MaxGen, index : Gens, in : Nat, out : Nat, marks : Nat]
Absent == [raw |-> 0, index |-> 0, in |-> 0, out |-> 0, marks |-> 0]
NoTexts == [i \in Item |-> Absent]

VARIABLES
  raw,      \* generation of the inventory
  index,    \* generation of the symbols in the bundle and of the graph's own part
  sums,     \* the summaries of the bundle
  nodeText, \* the text of each item's summary node in the graph
  marks,    \* SUMMARIZED_BY edges of each item
  pc,
  payload,
  runs,     \* build-summaries runs started
  settled   \* runs completed since the inventory or the index last changed (history)

vars == <<raw, index, sums, nodeText, marks, pc, payload, runs, settled>>

TypeOK ==
  /\ raw \in Gens /\ index \in Gens
  /\ sums \in [Item -> Text \cup {Absent}]
  /\ nodeText \in [Item -> Text \cup {Absent}]
  /\ marks \in [Item -> Nat]
  /\ pc \in {"off", "read", "commit", "augment"}
  /\ payload \in [Item -> Text \cup {Absent}]
  /\ runs \in 0..MaxRuns /\ settled \in 0..MaxRuns

Init ==
  /\ raw = 1 /\ index = 1
  /\ sums = NoTexts /\ nodeText = NoTexts /\ marks = [i \in Item |-> 0]
  /\ pc = "off" /\ payload = NoTexts /\ runs = 0 /\ settled = 0

-----------------------------------------------------------------------------
(* build_summary_artifacts                                                 *)

OfIndex == Content[index].items
OfRaw   == Content[raw].items

\* symbols come from the bundle, directories from the inventory, files from both
Summarised ==
  (Symbol \cap OfIndex) \cup (Dir \cap OfRaw) \cup (File \cap (OfIndex \cup OfRaw)) \cup {Project}

BaseEdges == Content[index].edges

TotalMarks ==
  Cardinality({x \in Item \X (1..MaxRuns) : x[2] <= marks[x[1]]})

InCount(i)  == Cardinality({e \in BaseEdges : e[2] = i})
OutCount(i) == Cardinality({e \in BaseEdges : e[1] = i})

MarksAsOut(i) ==                                              \* mutant of CountedText
  [raw |-> 0, index |-> index, in |-> InCount(i), out |-> OutCount(i) + marks[i], marks |-> 0]
\* edge_counts: every edge the graph holds, the summary edges among them
CountedText(i) ==
  [raw |-> 0, index |-> index, in |-> InCount(i), out |-> OutCount(i), marks |-> marks[i]]

TextOf(i) ==
  CASE i \in Symbol -> CountedText(i)
    [] i = Project  -> [raw |-> raw, index |-> index, in |-> 0,
                        out |-> Cardinality(BaseEdges), marks |-> TotalMarks]
    [] i \in Dir    -> [raw |-> raw, index |-> index, in |-> 0, out |-> 0, marks |-> 0]
    [] i \in File   -> [raw |-> IF i \in OfIndex THEN 0 ELSE raw, index |-> index,
                        in |-> 0, out |-> 0, marks |-> 0]

Start ==
  /\ pc = "off" /\ runs < MaxRuns
  /\ runs' = runs + 1 /\ pc' = "read"
  /\ UNCHANGED <<raw, index, sums, nodeText, marks, payload, settled>>

Read ==
  /\ pc = "read"
  /\ payload' = [i \in Item |-> IF i \in Summarised THEN TextOf(i) ELSE Absent]
  /\ pc' = "commit"
  /\ UNCHANGED <<raw, index, sums, nodeText, marks, runs, settled>>

\* write_metadata_bundle with the summaries
Commit ==
  /\ pc = "commit"
  /\ sums' = payload /\ pc' = "augment"
  /\ UNCHANGED <<raw, index, nodeText, marks, payload, runs, settled>>

-----------------------------------------------------------------------------
(* augment_graph_with_summaries                                            *)

InGraph(i) == i = Project \/ i \in OfIndex

\* append_summary_node returns when the node exists
KeptText(i) == IF nodeText[i] = Absent THEN payload[i] ELSE nodeText[i]

Appended(i) == marks[i] + 1                                   \* mutant of Marked
\* append_summary_edge returns when the edge id exists
Marked(i) == IF marks[i] = 0 THEN 1 ELSE marks[i]

Augment ==
  /\ pc = "augment"
  /\ nodeText' = [i \in Item |-> IF payload[i] = Absent THEN nodeText[i] ELSE KeptText(i)]
  /\ marks' = [i \in Item |-> IF payload[i] = Absent \/ ~ InGraph(i) THEN marks[i] ELSE Marked(i)]
  /\ settled' = settled + 1 /\ pc' = "off"
  /\ UNCHANGED <<raw, index, sums, payload, runs>>

-----------------------------------------------------------------------------
\* killed, or raised, before the graph is replaced
Crash ==
  /\ pc # "off" /\ pc' = "off"
  /\ UNCHANGED <<raw, index, sums, nodeText, marks, payload, runs, settled>>

ParseRepos ==
  /\ pc = "off" /\ raw < MaxGen
  /\ raw' = raw + 1 /\ settled' = 0
  /\ UNCHANGED <<index, sums, nodeText, marks, pc, payload, runs>>

\* build-index: a bundle without summaries, a graph without summary nodes
BuildIndex ==
  /\ pc = "off"
  /\ index' = raw
  /\ sums' = NoTexts /\ nodeText' = NoTexts /\ marks' = [i \in Item |-> 0]
  /\ settled' = 0
  /\ UNCHANGED <<raw, pc, payload, runs>>

Next ==
  \/ Start \/ Read \/ Commit \/ Augment
  \/ Crash \/ ParseRepos \/ BuildIndex

Spec == Init /\ [][Next]_vars

-----------------------------------------------------------------------------
(* The feedback dies out: from the second completed run on, whatever runs  *)
(* were killed in between, another run changes neither store.              *)
SummariesSettle ==
  [][settled >= 2 /\ (Commit \/ Augment) => UNCHANGED <<sums, nodeText, marks>>]_vars

(* The graph never holds two summary edges of one item, nor an edge        *)
(* without its summary node, however often runs die between the stores.    *)
OneEdgePerSummary ==
  \A i \in Item :
    /\ marks[i] <= 1
    /\ marks[i] = 1 => nodeText[i] # Absent
    /\ nodeText[i] # Absent /\ InGraph(i) => marks[i] = 1

(* The texts kept by the graph are those of an earlier run; when nothing   *)
(* but summaries was built since, they differ from the bundle's in nothing *)
(* but the SUMMARIZED_BY edges counted.                                    *)
Unmarked(t) == [t EXCEPT !.marks = 0]

GraphMatchesBundle ==
  pc = "off" /\ settled >= 1 /\ raw = index =>
    \A i \in Item : sums[i] # Absent => Unmarked(nodeText[i]) = Unmarked(sums[i])

(* README.md:12 and docs/Overview.md:108, summaries are deterministic: a   *)
(* run on inputs that did not change writes the summaries that are there.  *)
Deterministic ==
  [][settled >= 1 /\ Commit => UNCHANGED sums]_vars
=============================================================================
