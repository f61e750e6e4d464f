---------------------------- MODULE ArtifactStore ----------------------------
(***************************************************************************)
(* The stored artifacts of one repository and the three commands that      *)
(* build them, one at a time: build-index, build-search, build-summaries.  *)
(*                                                                         *)
(*   bundle   data/parsed/<repo>/metadata.lmdb                             *)
(*   graph    data/graph/<repo>/graph.db                                   *)
(*   tantivy  data/search/<repo>/tantivy                                   *)
(*                                                                         *)
(* Each command is a sequence of storage steps, one action per step, and   *)
(* may be killed, or raise, between any two (Crash).  Content is           *)
(* abstracted to where it came from: the set of generations of the raw     *)
(* inventory it mixes, with Torn for a graph read while half loaded.       *)
(***************************************************************************)
EXTENDS Integers, FiniteSets

CONSTANTS
  MaxGen,      \* bound: generations of the raw inventory
  MaxBuilds,   \* bound: commands started
  MaxCrashes   \* bound: commands killed

ASSUME GenAssumption == MaxGen \in Nat \ {0}
ASSUME BuildsAssumption == MaxBuilds \in Nat \ {0}
ASSUME CrashAssumption == MaxCrashes \in Nat

Commands == {"index", "search", "summaries"}
RowKeys  == {"parsed", "graph", "search", "summary"}   \* artifact_metadata
None     == 0                                          \* the stamp of nothing
Torn     == 0                                          \* the generation of a half graph
Builds   == 1..MaxBuilds
Stamps   == 0..MaxBuilds
Gens     == 0..MaxGen
NoRows   == [k \in RowKeys |-> None]

Artifact   == [stamp : Stamps, from : SUBSET Gens]
NoArtifact == [stamp |-> None, from |-> {}]

Bundle     == [dir : {"none", "empty", "ok"}, index : Artifact, sums : Artifact,
               rows : [RowKeys -> Stamps]]

VARIABLES
  raw,      \* generation of data/raw/<repo>, 0 when parse-repos never ran
  bundle,   \* [dir, index, sums, rows]
  graph,    \* [dir, base, sums]
  tantivy,  \* [dir, docs]
  cmd,      \* the command that runs, or ran last
  pc,       \* its next storage step, "off" when none runs
  mem,      \* what it holds in memory: [sym, out, rows, base, sums, built]
  clock,    \* commands started so far: generated_at of the running one
  crashes,  \* commands killed so far
  clean,    \* no crash and no parse-repos since the command started (history)
  done,     \* commands finished since the last build-index started, while
            \*   neither a crash nor a parse-repos happened (history)
  loaded    \* the bundle the last replacement loaded before clearing it (history)

stored == <<bundle, graph, tantivy>>
vars   == <<raw, stored, cmd, pc, mem, clock, crashes, clean, done, loaded>>

PCs == {"off", "read", "rows", "clear", "commit", "graph_read", "graph_clear",
        "graph_load", "bm25", "bm25_write", "row"}

NoBundle(d) == [dir |-> d, index |-> NoArtifact, sums |-> NoArtifact, rows |-> NoRows]
NoMem == [sym |-> NoArtifact, out |-> {}, rows |-> NoRows, base |-> NoArtifact,
          sums |-> NoArtifact, built |-> 0]

TypeOK ==
  /\ raw \in Gens
  /\ bundle \in Bundle /\ loaded \in Bundle
  /\ graph \in [dir : {"none", "partial", "ok"}, base : Artifact, sums : Artifact]
  /\ tantivy \in [dir : {"none", "partial", "ok"}, docs : Artifact]
  /\ cmd \in Commands
  /\ pc \in PCs
  /\ mem \in [sym : Artifact, out : SUBSET Gens, rows : [RowKeys -> Stamps],
              base : Artifact, sums : Artifact, built : {0, 1}]
  /\ clock \in Stamps
  /\ crashes \in 0..MaxCrashes
  /\ clean \in {0, 1}
  /\ done \in SUBSET Commands

Init ==
  /\ raw = 0
  /\ bundle = NoBundle("none")
  /\ graph = [dir |-> "none", base |-> NoArtifact, sums |-> NoArtifact]
  /\ tantivy = [dir |-> "none", docs |-> NoArtifact]
  /\ cmd = "index" /\ pc = "off" /\ mem = NoMem
  /\ clock = 0 /\ crashes = 0
  /\ clean = 1 /\ done = {} /\ loaded = bundle

New == [stamp |-> clock, from |-> mem.out]

-----------------------------------------------------------------------------
(* Starting, ending and losing a command.                                  *)

Start(c) ==
  /\ pc = "off" /\ clock < MaxBuilds
  /\ cmd' = c /\ pc' = "read" /\ mem' = NoMem /\ clock' = clock + 1
  /\ clean' = 1
  /\ done' = IF c = "index" THEN {} ELSE done \ {c}
  /\ UNCHANGED <<raw, stored, crashes, loaded>>

Finish ==
  /\ pc' = "off"
  /\ done' = IF clean = 1 /\ (cmd = "index" \/ "index" \in done) THEN done \cup {cmd} ELSE {}
  /\ UNCHANGED <<cmd, mem, clock, crashes, clean, loaded, raw>>

Goto(p) == pc' = p /\ UNCHANGED <<raw, cmd, clock, crashes, clean, done>>

\* An exception before anything is written: the command exits non-zero.
Raise ==
  /\ pc' = "off" /\ done' = {}
  /\ UNCHANGED <<raw, stored, cmd, mem, clock, crashes, clean, loaded>>

Crash ==
  /\ pc # "off" /\ crashes < MaxCrashes
  /\ crashes' = crashes + 1 /\ pc' = "off" /\ clean' = 0 /\ done' = {}
  /\ UNCHANGED <<raw, stored, cmd, mem, clock, loaded>>

-----------------------------------------------------------------------------
(* build-index: parse, replace the bundle, replace the graph, record it.   *)

IndexRead ==
  /\ pc = "read" /\ cmd = "index"
  /\ IF raw = 0
       THEN Raise
       ELSE /\ mem' = [mem EXCEPT !.out = {raw}]
            /\ Goto("rows") /\ UNCHANGED <<stored, loaded>>

-----------------------------------------------------------------------------
(* write_lmdb_metadata_bundle, called by build-index and build-summaries.  *)

\* load_lmdb_artifact_metadata: no directory is no rows, a directory without
\* an environment raises
MissingRaises == bundle.dir # "ok"                          \* mutant of Unreadable
Unreadable == bundle.dir = "empty"

LoadRows ==
  /\ pc = "rows"
  /\ IF Unreadable
       THEN Raise
       ELSE /\ mem' = [mem EXCEPT !.rows = bundle.rows]
            /\ loaded' = bundle
            /\ Goto("clear") /\ UNCHANGED stored

\* rmtree (which empties the directory before it removes it) and mkdir
ClearBundle ==
  /\ pc = "clear"
  /\ \E d \in {"none", "empty"} : bundle' = NoBundle(d)
  /\ Goto("commit") /\ UNCHANGED <<graph, tantivy, mem, loaded>>

OwnKey == IF cmd = "index" THEN "parsed" ELSE "summary"

NewRowsOnly == [NoRows EXCEPT ![OwnKey] = clock]                \* mutant of MergedRows
MergedRows == [mem.rows EXCEPT ![OwnKey] = clock]

\* the one write transaction
CommitBundle ==
  /\ pc = "commit"
  /\ bundle' = [dir   |-> "ok",
                index |-> IF cmd = "index" THEN New ELSE mem.sym,
                sums  |-> IF cmd = "index" THEN NoArtifact ELSE New,
                rows  |-> MergedRows]
  /\ Goto(IF cmd = "index" THEN "graph_clear" ELSE "graph_read")
  /\ UNCHANGED <<graph, tantivy, mem, loaded>>

-----------------------------------------------------------------------------
(* write_graph_database: the database is removed and loaded in place.      *)

KeptGraph == [graph EXCEPT !.dir = "partial"]               \* mutant of EmptyGraph
EmptyGraph == [dir |-> "partial", base |-> NoArtifact, sums |-> NoArtifact]

GraphClear ==
  /\ pc = "graph_clear"
  /\ graph' = EmptyGraph
  /\ Goto("graph_load") /\ UNCHANGED <<bundle, tantivy, mem, loaded>>

\* augment_graph_with_summaries never refreshes a summary node it finds
GraphSums == IF mem.sums = NoArtifact THEN New ELSE mem.sums

GraphLoad ==
  /\ pc = "graph_load"
  /\ graph' = IF cmd = "index"
                THEN [graph EXCEPT !.dir = "ok", !.base = New]
                ELSE [dir |-> "ok", base |-> mem.base, sums |-> GraphSums]
  /\ UNCHANGED <<bundle, tantivy>>
  /\ IF cmd = "index" THEN Goto("row") /\ UNCHANGED <<mem, loaded>> ELSE Finish

\* update_lmdb_artifact_metadata: raises when there is no bundle
UpdateRow(k, stamp) ==
  IF bundle.dir # "ok"
    THEN Raise
    ELSE /\ bundle' = [bundle EXCEPT !.rows[k] = stamp]
         /\ UNCHANGED <<graph, tantivy>>
         /\ Finish

RowGraph ==
  /\ pc = "row" /\ cmd = "index"
  /\ UpdateRow("graph", clock)

-----------------------------------------------------------------------------
(* build-search: documents from the inventory and the bundle's symbols.    *)

SearchRead ==
  /\ pc = "read" /\ cmd = "search"
  /\ IF raw = 0 \/ bundle.dir # "ok"
       THEN Raise
       ELSE /\ mem' = [mem EXCEPT !.out = {raw} \cup bundle.index.from]
            /\ Goto("bm25") /\ UNCHANGED <<stored, loaded>>

Bm25Clear ==
  /\ pc = "bm25"
  /\ tantivy' = [dir |-> "partial", docs |-> NoArtifact]
  /\ Goto("bm25_write") /\ UNCHANGED <<bundle, graph, mem, loaded>>

Bm25Write ==
  /\ pc = "bm25_write"
  /\ tantivy' = [dir |-> "ok", docs |-> New]
  /\ mem' = [mem EXCEPT !.built = 1]
  /\ Goto("row") /\ UNCHANGED <<bundle, graph, loaded>>

\* no native worker, or an exception the builder swallows at either step
Bm25NotBuilt ==
  /\ pc \in {"bm25", "bm25_write"}
  /\ Goto("row") /\ UNCHANGED <<stored, mem, loaded>>

\* search_build names an index only when one was built
SearchStamp == IF mem.built = 1 THEN clock ELSE None

RowSearch ==
  /\ pc = "row" /\ cmd = "search"
  /\ UpdateRow("search", SearchStamp)

-----------------------------------------------------------------------------
(* build-summaries: inventory, symbols and graph; rewrites the bundle,     *)
(* then the graph.                                                         *)

\* a half-loaded graph.db either raises or reads as a graph with parts missing
GraphFrom == IF graph.dir = "partial" THEN {Torn} ELSE graph.base.from

SummariesRead ==
  /\ pc = "read" /\ cmd = "summaries"
  /\ \/ Raise
     \/ /\ raw # 0 /\ bundle.dir = "ok" /\ graph.dir # "none"
        /\ mem' = [mem EXCEPT !.sym = bundle.index,
                              !.out = {raw} \cup bundle.index.from \cup GraphFrom]
        /\ Goto("rows") /\ UNCHANGED <<stored, loaded>>

GraphRead ==
  /\ pc = "graph_read"
  /\ mem' = [mem EXCEPT !.base = [stamp |-> graph.base.stamp, from |-> GraphFrom],
                        !.sums = graph.sums]
  /\ Goto("graph_clear") /\ UNCHANGED <<stored, loaded>>

-----------------------------------------------------------------------------
(* Around the commands.                                                    *)

ParseRepos ==
  /\ raw < MaxGen
  /\ raw' = raw + 1 /\ clean' = 0 /\ done' = {}
  /\ UNCHANGED <<stored, cmd, pc, mem, clock, crashes, loaded>>

\* somebody deletes the directory no command will replace
OperatorRemoves ==
  /\ pc = "off" /\ bundle.dir = "empty"
  /\ bundle' = NoBundle("none")
  /\ UNCHANGED <<raw, graph, tantivy, cmd, pc, mem, clock, crashes, clean, done, loaded>>

BuilderStep ==
  \/ IndexRead \/ LoadRows \/ ClearBundle \/ CommitBundle
  \/ GraphClear \/ GraphLoad \/ RowGraph
  \/ SearchRead \/ Bm25Clear \/ Bm25Write \/ Bm25NotBuilt \/ RowSearch
  \/ SummariesRead \/ GraphRead

Next ==
  \/ \E c \in Commands : Start(c)
  \/ BuilderStep \/ Crash \/ ParseRepos \/ OperatorRemoves

Spec == Init /\ [][Next]_vars

(* A command that is not killed runs to its end.                           *)
FairSpec == Spec /\ WF_vars(BuilderStep)

-----------------------------------------------------------------------------
(* However the store was left before, a build-index followed by the two    *)
(* other commands in either order, none killed and no new inventory in     *)
(* between, leaves artifacts all derived from that one inventory.          *)
PipelineConsistent ==
  done = Commands =>
    /\ bundle.dir = "ok" /\ bundle.index.from = {raw} /\ bundle.sums.from = {raw}
    /\ graph.dir = "ok" /\ graph.base.from = {raw} /\ graph.sums.from = {raw}
    /\ bundle.rows["search"] # None => tantivy.docs.from = {raw}
    /\ bundle.rows["summary"] = bundle.sums.stamp

(* A build-index that is not killed repairs whatever an earlier crash left *)
(* behind, half-loaded graph included, unless it finds the bundle's        *)
(* directory without an environment: then it can only raise.               *)
RebuildHeals ==
  \A k \in 0..MaxCrashes :
    pc = "read" /\ cmd = "index" /\ raw # 0 /\ bundle.dir # "empty" /\ crashes = k
      ~> pc = "off" /\ (crashes > k \/ (bundle.dir = "ok" /\ graph.dir = "ok"))

(* The bundle is the catalogue readers are promised.                       *)
ViewOf(b) == [index |-> b.index.stamp, sums |-> b.sums.stamp, rows |-> b.rows]

Catalog == INSTANCE ArtifactCatalog
             WITH view <- ViewOf(bundle), base <- ViewOf(loaded)

RefinesCatalog == Catalog!Spec
=============================================================================
