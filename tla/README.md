# A verification project for the repository-analysis workbench

The workbench turns source repositories into stored artifacts (metadata in LMDB, a RyuGraph
graph, a Tantivy index, embeddings, summaries) with one batch command per artifact, and answers
queries from them. There is no server: commands are processes that read the files others wrote.
What is hard about it is therefore not messages but *storage*: steps of a command that is
killed half way, artifacts built from different generations of their inputs, checkpoints that
are resumed, caches that outlive what they cached, and searches over graphs that must not
depend on the order rows come in. Three parts do run side by side: a language server answers
through bounded pipes, processes share one compiled worker and its failure marker, and a reranking
service outside the repository answers what it likes, or not at all.

Paths below are relative to the repository (`src/` in `PROJECT.json`).

## 1. Inventory

| part | code | state it keeps | operations |
|---|---|---|---|
| raw inventories | `src/common/inventory.py`, `src/cli/main.py` `handle_parse_repos` | `data/raw/<repo>/*.json` | one rewrite per `parse-repos` |
| batch builds | `scripts/build_index.sh` | SQLite table `build_index_checkpoints`, shell variables, the trap | `is_done`, `mark_running`, `mark_done`, `mark_failed`, loop, `on_interrupt` |
| symbol index | `src/symbols/indexer.py` | per-file cache, workspace index in memory | parse or load each file, resolve references and calls |
| parsers | `src/parsers/rust_analyzer_backend.py`, `src/parsers/tree_sitter_backend.py`, the merge in `src/symbols/indexer.py` | three threads and a child process for the time of a probe | probe the server, walk the syntax tree, merge the symbols of three backends |
| graph builder | `src/graph/builder.py` | nodes and edges in memory | one pass per kind of record |
| metadata bundle | `src/symbols/persistence.py`, `src/backends/lmdb/*` | `data/parsed/<repo>/metadata.lmdb` | replace the bundle, update one row, read |
| graph database | `src/graph/query.py`, `src/backends/ryugraph/*` | `data/graph/<repo>/graph.db` | rebuild in place, `execute` a query |
| lexical search | `src/search/indexer.py`, `src/backends/tantivy/search.py`, `native/src/main.rs` | `data/search/<repo>/tantivy` | build, query, find files and bodies |
| native worker | `src/common/native_tool.py`, `src/embeddings/indexer.py` (listing) | the binary, its failure marker, a reason per process | compile when stale, run a child per request, list page by page |
| embeddings | `src/embeddings/*` | `embedding_index.json`, manifest, checkpoint and its metadata | build in batches, resume, query |
| summaries | `src/summaries/builder.py` | summaries in the bundle, summary nodes and edges in the graph | build, replace the bundle, augment the graph |
| retrieval | `src/retrieval/*`, `src/rerank/fusion.py` | none between calls | plan, gather, fuse, rerank, pack a context |
| agent toolkit | `src/agents/toolkit.py` | the handles on metadata and graph the process opened first | find the symbol of a query, compose reads |
| evaluation | `src/evaluation/harness.py` | the LMDB case cache, exported prompts, scores | export prompts, score bundles |

How they interact. `parse-repos` writes raw inventories; `build-index` reads one and replaces
the bundle, then the graph; `build-search` reads inventory and bundle, replaces the Tantivy
directory and updates a row of the bundle; `build-embeddings` reads the search documents;
`build-summaries` reads inventory, bundle and graph and rewrites *both*; retrieval reads all of
them; evaluation fingerprints them and caches what retrieval prepared. Every arrow is a file or
directory that another command may have replaced, half replaced or not yet replaced. The
hazards, each at its line, are listed in `PROJECT.json`.

What makes each part correct, in a sentence:

* batch builds: a checkpoint row never claims an index that is not there, and re-running the
  script finishes what a fault stopped;
* bundle, graph, lexical index: metadata rows describe what is stored, a whole pipeline leaves
  artifacts of one inventory, and the next build repairs what a crash left;
* embeddings: one vector for every unit, made from the documents and settings the index names;
* symbol index and graph: whatever could be resolved, records and edges name what exists; one
  fact that several passes record is recorded alike; walks over calls end and miss nothing;
* graph queries: paths are real and shortest, none is missed, the limit drops the farthest;
* parsers: what the line parser found survives the merge, a function is one symbol whoever
  reports it, and a probe neither mistakes an answer nor waits for ever on a server that lives;
* native worker: nobody runs a binary older than the sources it saw, a repaired source is not
  blocked by an old failure, and a listing whose pages are all of one index is complete;
* retrieval and toolkit: a name that means one symbol leads to it through every tool, the reasons
  shown with a candidate are true, and reranking drops and doubles nothing;
* summaries: the feedback through the graph settles, and both stores tell the same;
* evaluation: an answer is scored against the evidence it was given.

## 2. The modules

| module | models | variables ↔ code |
|---|---|---|
| `BuildResume` | `scripts/build_index.sh` with `build-index` as its child | `row` is the SQLite table, `cur`/`inProgress`/`rc` are `CURRENT_REPO`, `RUN_IN_PROGRESS`, `$?`, `todo` the rest of `DEFAULT_REPOS`, `sig` a signal bash has not delivered to the trap yet, `unreadable` the repositories whose `metadata.lmdb` a killed build left as a directory without an environment |
| `ArtifactStore` | the storage steps of the three builders of one repository | `bundle`, `graph`, `tantivy` are the three directories, `mem` what the running command holds; content is abstracted to the set of inventory generations it mixes |
| `ArtifactCatalog` | the abstract promise to readers of the bundle | `view` is what a reader would load; `ArtifactStore` implements it |
| `EmbeddingCheckpoint` | `build-embeddings` with the qwen provider | `file` is the checkpoint, line by line with the unterminated one, `meta` its metadata file, `embedded` is `embedded_documents`, `index` the written index |
| `GraphQuery` | `build_shortest_paths` and `build_neighbors` | `queue`, `via` (`parents`), `level`, `results` are the locals of the two functions, `rest` the rows of the node being scanned |
| `SummaryGraph` | `build-summaries` run after run | `sums` the summaries of the bundle, `nodeText` and `marks` the summary nodes and `SUMMARIZED_BY` edges of the graph |
| `FileCache` | the loop of `build_symbol_index` over a source tree that changes meanwhile | `text`, `mtime`, `crate`, `ctime` are the tree, `cache` the directory `file-cache`, `contexts` the list the loop fills, `src`, `key`, `made` the locals of `load_or_parse_rust_source_file` |
| `SymbolIndex` | `build_symbol_index` after its files are parsed | `repo` is what the parsers found; `qname`, `aliases`, `imports`, `impls`, `supers`, `refs`, `stmts`, `summary` are the lists of records each pass fills, `pass` the pass that runs next, `cursor` the next import |
| `SymbolGraph` | `build_graph_artifact` on that index; extends `SymbolIndex` | `nodes`, `edges` of the artifact, `step` the pass that runs next |
| `EvalCache` | `load_or_build_cached_case` and its two callers | `exact` and `latest` are the two keys of the LMDB cache, `prompt` and `score` the written files; commands are processes, `metaAt` and `graphAt` the generations of the handles each has open |
| `LspProbe` | `document_symbol_probe` and its reader threads against a language server (external) | `sent`/`taken` are the two ends of the pipe to the server (a counter into the fixed script of messages), `out` and `err` its output pipes, `queue` and `lines` what the two threads have read, `awaiting` and `response` the locals of `wait_for_response` |
| `SymbolMerge` | the line parser, the server's answer and tree-sitter on one file, and `merge_primary_backend_symbols`; extends `LspProbe` | `symbols` is `parsed.symbols`, `byName` the table by qualified name of a pass, `left` the backend symbols still to be merged, `primary` the backend recorded |
| `NativeWorker` | `ensure_native_binary`, the children of several processes, paged listings and rebuilds of the index, while sources are edited | `binary`, `marker`, `index` are the files, `disabled` the reason in a process, `look` the modification time it compared with, `offset` and `got` the listing; an index is `created` (open and empty) before it is `ready`, and `gen` counts the contents it has had, merges of its segments included |
| `LexicalSearch` | the documents of a repository, `query_bm25` and the lookups of the Tantivy backend | operators over a corpus; no state |
| `RankFusion` | `rerank_candidates`, the merging of a reranking service's batches, the units of a source; extends `LexicalSearch` | operators; the service (external) is any sequence of indexes and scores |
| `Retrieval` | `plan_query` and the stages of `retrieve_context`; extends `RankFusion` | operators over a corpus and what the stage before found |
| `SymbolQuery` | `where_defined`, `resolve_symbol_query`, `resolve_graph_seed` and their rankings; extends `Retrieval` | operators |
| `AgentQuery` | a long-lived client: one call after another, step by step, while another process rebuilds the artifacts; extends `SymbolQuery` | `built` is the generation of each artifact on disk, `handle` that of the store and graph the client keeps open, `call` the locals of the call in progress |

`SymbolMerge` composes the threads of the probe with the merge of what it brought. `SymbolGraph`
runs on the records `SymbolIndex` makes. `AgentQuery` composes the four modules of operators below
it, and its steps are the points at which a call opens or reads an artifact again.

Each action is one step that reaches storage (a transaction, a truncation, an unlink, a rename
of a checkpoint status) or one step of a search loop; the name of the function or script line it
stands for is in `PROJECT.json` `map`. `MC*` modules give the constants, `*Proofs` modules hold
the proofs.

## 3. What the runs check

| run | bounds | what it shows |
|---|---|---|
| `build_resume` | 2 repositories, 2 inventories, 2 faults | rows never lie, completed rows are final, re-running completes every inventory it is not kept from by a directory only the operator can remove |
| `artifact_store` | 2 inventories, 5 commands, 1 crash | pipelines are consistent, build-index heals, the bundle refines `ArtifactCatalog` |
| `embedding_checkpoint` | 4 units, batches of 2, 2 faults, 2 versions | exactly one vector per unit, no mixing that could be detected, builds end |
| `graph_query` | graphs of up to 4 nodes with cycles, loops, parallel edges; limits 1 to 3 | real, shortest, complete paths; the nearest neighbours; termination |
| `summary_graph` | 2 symbols, 2 files, 5 runs | the feedback settles after two runs, both stores agree |
| `summary_repeat` | the same | **violated**: a second run on the same inputs writes other summaries |
| `eval_cache` | 2 processes that keep their handles, 2 cases, 2 limits, 3 commands, 1 rebuild | scores are of the exported bundles, entries are not older than their key |
| `file_cache` | 2 files, 2 texts, 2 crate names, 2 changes of the tree, 2 builds | no entry lies, spans fit the text they index, a build of a quiet tree is fresh and the next one reuses it |
| `symbol_graph` | every call graph of three functions with at most two callees each and a test that calls one of them or none; two files with equal names under six lists of imports, three impl targets, three traits, four extra definitions, thirteen pairs of lines; every body of four lines out of eight kinds with at most one closing brace; call graphs and lines too dense for caps of 4, 4, 6 and 6 | no edge dangles, statements and references agree on calls, transitive calls are reachability, and a part of it where a cap bites, data flows from the last binding |
| `symbol_merge` | 4 texts (modules in modules, methods of impls and traits, functions in functions, a method declared twice), nested and flat answers, tree-sitter there or not; pipes of 2, 1 and 1, 2 messages of noise before an answer, requests of the server's under the client's ids, 1 death of the server | the answer taken is the server's, the merge keeps what was parsed and adds a function once, the probe ends |
| `native_worker` | 2 processes, 3 jobs, 2 edits, 1 fault, 4 contents of the index (as many as two builds, or one with two merges of segments); indexes of 0 and 3 documents in pages of 2 | what runs is current, the failure marker is deserved, a listing of one index is exact |
| `agent_query` | some thirty requests over two generations of a repository of two files, one rebuild, a service that answers any sequence of indexes or fails | names resolve, the symbol asked for is selected unless it is a qualified name's and crowded out by neighbours, reasons are true, reranking loses nothing, sources are ranked by their best unit |

`summary_repeat` is the one violated property: the README and `docs/Overview.md` call the summaries
deterministic, and the finding in `PROJECT.json` quotes them. Three other limits of the code are
stated by no document and are therefore listed as hazards, with the properties stated around them:
a completed row outlives a newer inventory (`CompletedMeansIndexed` is about *an* inventory), an
evaluation case falls back to the latest entry whatever it was made from (`ScoreMatchesPrompt` is
about the pair of prompt and score, not about freshness), and rejected records of an embedding
checkpoint are not truncated (`ResumeDoesNotMix` is about what the metadata can tell apart).

Limits of the symbol index found while modelling, and how the properties respect them. A name
that is bound twice in a function is not followed (`FlowIsLastBinding` is about names bound once),
nor is one that is a keyword or a primitive type, which is never resolved; and a member `r.x` that
is not indexed resolves to whatever else is named `x`, be it a local, so that a write of it counts
as a write of the variable (`FlowIsLastBinding` is about functions that write no member of that
name).
Imports are resolved in the order they are written, so an alias helps only those below it. Two
symbols of one qualified name are one to the second resolution of a member, which also reads the
first segment of that name as an alias or a renamed dependency of the file if it can (`ViewsAgree`
is about names of one symbol that mean in the caller's file what they say, `OwnMeaning`), and overrides are looked up in a table where the last one wins while the
index keeps the first. None of these contradicts a document of the repository.

Limits of retrieval found the same way, which `AgentQuery` shows as they are. The native worker
cuts its answer to the limit before it filters by kind or path (`native/src/main.rs:277`), and a
path prefix is compared as text (`:295`). The bonus for a name is given to queries of one word
only, and a word with `::` in it is never a name to the heuristic ranking. What is promised is
therefore promised of names that mean one symbol (`Means`) and while no fewer candidates are
selected than the service may reorder. Even then a qualified name can lose: it earns no bonus for
being exact, so the graph neighbours of the symbol, which start from its score, may get past it. A
busy public method that reads the constant `m::cap`, private to its module, does so at a limit of 1,
where kind and visibility cost the constant more than its place at the head earns it.
`ExactSymbolSelected` therefore excepts the selections of a qualified query that are full of graph
neighbours, and nothing else. A failing batch of the reranking service discards the answers of the
batches before it.

Limits of the merge, all named by `OneSymbolPerCallable`. tree-sitter reports a method without its
owner, so a method and a function of one name beside its owner are alike to it. A flat answer of the
server has neither ranges nor parents: its callables begin at line 1, and each method in it is a
second symbol. This is no corner case: the probe announces empty capabilities
(`src/parsers/rust_analyzer_backend.py:149`), to which a server that keeps to the protocol gives a
flat answer. And of two methods declared under one qualified name, as `cfg` variants are, the table
by name keeps the last while the answers of the backends begin with the first, which is merged into
it and moves its start; both symbols then begin at one place.

A limit of the listing: an index that was created and not yet committed is open and empty
(`native/src/main.rs:220-232`), so a listing that meets it ends, short and without an error; one that begins while the directory is
removed ends at once.
`ListingExact` promises a complete listing when all its pages are of one index that is still there.

Why the bounds are enough. The interesting cases need two of a thing: two repositories (one
finished, one not), two inventories (old and new), two batches with two lines each (a torn line
that is not the last one written), two faults (one that leaves a mess, one during its repair),
two concurrent commands, two changes
of the tree (an edit and its revert). One generation more only repeats the second. Five commands in
`ArtifactStore` are a history (a build and another command), then a whole pipeline after it. Four
functions are enough for every way a call can come back to a walk of three levels, two files for a
name that has a definition near and one far, four lines for a binding, a second one, a read after a
branch, and a brace line between any two. The caps of the walk and of the edges are constants, 50,
100, 50 and 50 in the code; at 4, 4, 6 and 6 a list one too long can be written down. Which elements
a full list keeps is left open (the code's lists follow sets of strings), and so is where the walk
stops. In `LspProbe` the output pipe holds one message, so that
the server blocks on every second one, and it may send two of its own before an answer: one that
fills the pipe and one that waits. Two processes and two edits let an edit fall between the look
and the compilation of one while the other compiles; three documents in pages of two need a second
page that is not full; four contents of an index let a listing read a page before a rebuild, one in
the empty index and one after the commit. Two generations of a repository are what a handle kept over a rebuild can
confuse, and batches of two out of four candidates let the second one fail.
Counters that only grow are capped by the bounds named in each module.

Fairness. `BuildResume`: a command of the script ends (weak fairness of its steps, not of
faults) and an operator re-runs the script; faults are finite, which `ResumeCompletes` needs:
with a repository that fails for ever the loop never gets past it (line 198). One thing fails for
ever without a fault: a build killed between the removal of `metadata.lmdb` and its first
transaction leaves a directory without an environment, on which every later build raises
(`src/symbols/persistence.py:26`, `203-216`). Nothing makes the operator remove it
(`OperatorRemoves` has no fairness), so `ResumeCompletes` promises an inventory's completion or that
such a directory, its own or of a repository before it, stays. `ArtifactStore`
and `EmbeddingCheckpoint`: a builder that is not killed runs on. `GraphQuery`: one thread runs
to its end. `LspProbe`: the caller, its two reader threads and a server that lives run on; that a
server answers is its contract, that it may die is a step without fairness, and `ProbeFinishes`
excepts it, because nothing wakes a caller whose server has died (`wait_for_response` has no time
limit). No other fairness is assumed; `SummaryGraph`, `EvalCache`, `FileCache`, `SymbolGraph`,
`NativeWorker` and `AgentQuery` are checked for safety only. Deadlock is checked except where the
system really stops: bounds on commands (`artifact_store`, `eval_cache`, `file_cache`,
`native_worker`), a query that has answered (`graph_query`), a file that is merged or whose server
has died (`symbol_merge`), and the counterexample of `summary_repeat`.

## 4. What is proved

`BuildResumeProofs` proves, for every number of repositories, inventories and faults, that
`TypeOK`, `CompletedMeansIndexed` and `ClaimMeansCompleted` are invariants of `Spec`, and the
action property `CompletedIsFinal`. None is inductive alone: that a completed row has an index
needs to know, between the end of the child and `mark_done`, that the index is there, and that
the trap cannot undo it needs `RUN_IN_PROGRESS` to be 0 exactly after the build. `LoopInv` says
what the loop knows at each of its points, and `IInv == TypeOK /\ LoopInv /\
CompletedMeansIndexed /\ ClaimMeansCompleted` is inductive; the `build_resume` run checks its
other conjuncts. The proofs use the named assumptions on the constants and nothing else.

`FileCacheProofs` proves, for every number of files, texts, crate names, changes and builds,
that `TypeOK`, `CacheNeverLies`, `SourceMatchesSymbols`, `QuietBuildIsFresh` and `ReuseWorks` are
invariants of `Spec`. A file is read once for its key and once to be parsed, so an entry *can* pair
the key of one text with the symbols of another. The proof shows why that is harmless: such an entry
carries a modification time at which the file does not hold the text of its key (`LiesAreMissed`),
which stays true between the read of a later build and its comparison of keys (`LiesAreNotHit`)
because no time is in the future (`PastTimes`). Dropping the modification time from the key breaks
it, as the mutant `ContentKey` shows. For a build the tree stands still for, `QuietRun` follows the
loop file by file: what is before it in the list is described as it is and has an entry under the
key of today, which is why the build after it (`AllHit`) parses nothing. The argument assumes what
the module states: every change of a source has a modification time of its own. Tools that restore
times (`cp -p`, `rsync -t`) are outside it.

`GraphQueryProofs` proves, for every graph, every request and every order in which the database
yields its rows, that `TypeOK`, `PathsAreReal`, `NoPathMissed`, `PathsAreShortest` and
`NeighborsAreNearest` are invariants of `Spec`. The searches keep a tree of parents (`Tree`): it is
rooted in the seed, each branch is a row of the graph and one level deeper than its parent, and no
target is in it but the one that ended the search. Levels make the walk back (`Walk`) visit no node
twice. `Closed` says that a row out of a reached node leads to a reached node or is still to be
looked at, so that an empty queue leaves a set of nodes no path leaves; `Covered` follows the seeds.

That paths are shortest and neighbours nearest compares the search with the balls of its graph:
`Within` is a function by recursion, and `WithinEq` shows that it is the one its equations say (by
the least number that would refute it, `Least`, in place of induction). `Exact` says that a node has
level n if and only if it is in the ball of radius n and in no smaller one, `Layers` that the queue
holds the rest of one layer and then the beginning of the next, `Expanded` that the balls up to the
layer of the head have been looked at whole. The limit cuts a list of neighbours in the middle of a
layer; `Cut` says that what is missing then is not nearer than what is there. The assumptions are
those on the graphs and requests (seeds are distinct, a limit is positive).

`SymbolGraphProofs` proves, for every family of repositories, every set of reserved words and
every spelling of members, that `TypeOK`, `EdgesEndAtNodes`, `TransitiveIsReach`,
`FlowIsLastBinding` and `ViewsAgree` are invariants of `Spec`. The types rest on one fact about resolution: whichever of its rules applies, what it returns is a symbol of
the repository or a bare name (`ResolveOK`), and no pass invents a third thing. An edge takes its
ends from a record without asking for a node, so that none dangles needs the order of the passes:
`NodesMade` says which nodes the passes before have made (files, then symbols and tests), and each
pass is shown to make the rest of what its own edges need. For the transitive callers, `TwoLevels`
unfolds the walk of `compute_transitive_calls` (a function by recursion on a depth that is a number
in the code), `CallsInv` says what that leaves in the summaries, and `EdgeInv` that an edge of type
`CALLS` has one of three sources, a reference, a summary or a statement, whose edges the other end
or the metadata tell apart: two passes could otherwise pass for each other. The caps are constants
(`CapAssumption`, `EdgeCapAssumption`: at least 1), and the theorem holds for all of them: an edge
never leads outside what is reached, and leads to all of it when neither the lists of the walk and
of the node nor a frontier overflows. `FlowIsLastBinding` likewise says that a value never comes from
another statement than the last binding, and comes from it unless the line holds more expressions
than are read.

`FlowIsLastBinding` and `ViewsAgree` of the same module are about what a name is resolved *to*, and
each follows a text through a resolution, a record and an edge. Their invariants are `IndexOK` (what
a file imports is paths, what an impl resolved to is a name, and a qualified name is a path of
identifiers followed by the symbol's own segment) and `RecordsMade` (the reference and statement
records are exactly what the lines give under the index as it stands, which no later pass touches:
`ResolveStays`). That qualified names have this form needs the recursion over containers to have a
solution (`NamesExist`, by the least container that would refute it, because a container comes
before what it contains). From the form it follows that a local is never reached by a path: what
tells locals of one name apart is the line, which is no identifier, so a path of identifiers is
the name of no local (`LocalByName`) and only the rule for locals, or a guess at the best symbol of
that name, can yield it. So a variable bound by one `let` is what its name resolves to on every line
of its function (`ReadsTheLocal`), and no text that ends in another name resolves to it
(`MeansALocal`): the statements that bind, write or read it are those whose lines say so
(`BindsTheLocal`, `ReadsOfTheLocal`), and the flow edges between them are those from the last binding
(`FlowOfTheLocal`). For the calls, a callee whose name means itself is found again by that name
(`MeansItself`), so that the member resolved twice comes to the symbol it came to once
(`CallSeenTwice`), and of the references with one key the one that is kept names the same symbol
(`CallKept`).

Assumed of the parsed repositories is that they are well formed (`RepoAssumption`, whose `SymbolOK`,
`FileOK`, `LineOK` and `LocalsMade` say what the line parser makes of a source: identifiers are
`Words`, paths are not empty, every `let` of a function has a local of its line) and of the text of
a member `r.m` that it is no identifier (`DotAssumption`).

`SummaryGraphProofs` proves, for every number of items and runs and every pattern of kills, that
`TypeOK`, `OneEdgePerSummary` and `GraphMatchesBundle` are invariants, and the action property
`SummariesSettle`. That a third run changes nothing needs the whole history of the two before it:
after one completed run the graph has all the nodes and edges there will be (`GraphIsFull`), so
the next one counts all of them and stores texts no later run can improve (`BundleIsCurrent`);
`PayloadIsCurrent` and `StoredFirst` say that a run works on the inventory and graph it read, and
`Aligned` that what is stored was made from the inventory there is while no newer one was parsed.
Items are assumed to be finite, because their edges are counted.

`ReaderProofs` proves theorems about the two modules whose processes live on while artifacts are
rebuilt. `AgentQuery`, for any generations of a repository, any queries, limits and weights of the
rankings, and every answer or failure of the reranking service: `ReasonsAreTrue`,
`SourcesByBestUnit` and the action property `RerankKeepsCandidates`. One inductive invariant,
`Inv`, serves all three (theorem `CallsAreFounded`). Its conjuncts are `Opens` (what is on disk or
held open is a generation), `IsCall` and `Staged` (the fields of a call, and the stages its tool
goes through), `Fused` (the units ranked again after a failed batch are those the batches were made
of, and what a paper call selected is the head of its sources) and `Reasoned`. The last is the
argument for the reasons. `Named` and `Returned` collect what the stages of a call returned
(symbols named and found, nodes around the seeds, documents embedded, summaries, scopes), and
`Founded` is the set of candidates all of whose reasons, and whose depth, are true of that.
`Reasoned` says that the symbols are founded in what was named and the candidates in what was
returned, at each stage from the one that found them on. Each stage is shown to return candidates
its reason is true of (`SymbolResultsLaw`, `GraphResultsLaw`, `BodyResultsLaw`), and `MergeLaw`
that to merge candidates of one key makes no reason false, because candidates of one key are one
kind, symbol and path (`KeyLaw`). That the store and the graph the call reads later are
those it read before needs the handles to stay what they are while others are opened
(`StaysReasoned`); without the handles a rebuild between two stages would refute the theorem. A
reranking is a rearrangement: `Matches` pairs the candidates before and after it, and
`ReorderedLaw` shows it of every answer, with indexes twice, out of range or missing.
`MaxPLaw` says what the aggregation of units answers with, from two loops (`BestUnitLaw`,
`HitsLaw`) and a stable sort (`ArrangedLaw`). For these proofs loops, sorts and selections are
recursive functions (`Loop`, `Arranged`, `Ascending`), and what they compute is shown by the least
number that would refute it, in place of induction.

Assumed are the shapes of the constants (a lower-case form for every segment, a weight for each
kind of document, caps that are natural numbers, scores that are integers), that requests are
formed as the tools form them, and of the generations that each is a corpus of symbols with
finitely many calls and that equal ids mean equal paths, as ids are hashes of the path among
others (`symbol_stable_id`).

`EvalCache`, for any number of commands, cases, limits and rebuilds in every
interleaving: `TypeOK`, `ScoreMatchesPrompt` and `EntryNotOlder` are invariants. `Locals`
says what a command knows at each step: the generations of its handles, and that a fingerprint it
holds names the rows of its metadata handle and files no newer than what is there.
`OneBundlePerCase` is the argument for the score: a case that no two commands prepared at once has
one bundle, wherever it went.

`ChildProcessProofs` proves theorems about three modules. `LspProbe`, for every capacity of the
pipes, all noise and every death of the server: `ProbeTypeOK` and `AnswerIsServers`. An answer is
known by its id alone, and nothing is assumed of the ids the server gives its own requests but that
they are numbers. `InFlight` says of everything in a pipe, in the queue or still to be written by
the server that if it bears the id of the symbols' request, it is the answer to it or a request of
the server's: the latter has no result, so that what is lost by a collision is the symbols of the
file, and what is taken for them is never something else. `SymbolMerge`, for every text and
every answer: `ParsedKept`. A backend symbol updates a symbol in place or is appended with the next
number, so `MergeInv` pairs each place with the symbol the parser had there (`Covers`); that numbers
stay unique needs the numbering of the parser itself to be a count of the items before
(`Numbered`, by cardinalities). `NativeWorker`, for any number of processes, edits, faults, rebuilds
and every size of page: `TypeOK`, `ServedIsCurrent`, `MarkerIsDeserved` and `ListingExact`. Binary,
marker and each process's look carry times, and `BinaryIsDated`, `LookIsDated` and `Making` say what
these times imply about versions, unless an edit overtook a compilation (`torn`), which times cannot
tell. `Listing` says that the pages of one
content of the index, the empty one included, are a prefix of it; that a build never brings a content
back (`gen` grows with the removal, the commit and each merge) keeps a page from before or within a
rebuild from passing for one of the new index.

`StoreProofs` proves theorems about what the builders leave on disk. `ArtifactStore`, for any number
of inventories, commands and crashes between any two storage steps: `TypeOK`, `PipelineConsistent`
and the refinement of `ArtifactCatalog` (`RefinesCatalog`). A builder reads the rows of the bundle
into memory and writes them back with its own, so the refinement needs that what it holds is still
what is there (`CarriedOver`) and that an environment is whole or empty (`WholeBundle`). That a
pipeline leaves one generation needs the history of the commands since the last whole `build-index`
(`SinceIndex`, `SinceSummaries`, `SinceSearch`, `DoneInOrder`). `EmbeddingCheckpoint`, for any
documents, size of batch, settings, kills and torn appends: `EmbedTypeOK`, `ExactlyOnce` and
`ResumeDoesNotMix`. `Holding` says that what a build has loaded or made is one record per unit and,
with what is in the batch, no unit twice; `FileOfNow` what the metadata beside the checkpoint says of
the lines in it, and where a glued line can only be a bad one (`GlueIn`).

The type invariants are in no `.cfg`: the proof modules prove them (`TypeCorrect` and the like)
for every value of the constants. `ArtifactCatalog` has no proofs of its own: it is what
`StoreProofs` shows `ArtifactStore` to implement.

Only model-checked:

* liveness (`ResumeCompletes`, `RebuildHeals`, `EventuallyIndexed`, `QueryAnswers`,
  `ProbeFinishes`), which is out of the prover's reach;
* `OneSymbolPerCallable` of `SymbolMerge`, where two backends, with three kinds of names between
  them, meet in one table;
* `UniqueNameResolves` and `ExactSymbolSelected` of `AgentQuery`. They are about sizes: that the
  points for an exact name outweigh all others a document can collect, and that what is cut off
  along the way is weaker. For arbitrary weights of the rankings they are false; for those of the
  code (which the operators hold in full, the weights of all kinds of symbols and of the activity of
  a symbol) they are sums to be compared, which the run does over its two generations.

## 5. What is not modelled

Wording, formatting, logging and progress files; what library calls compute (LMDB, Tantivy,
RyuGraph beyond what a reader sees of them); how the line parser and tree-sitter find an item in a
text (a text is the tree of its items). Two instances of `build_index.sh`, or two builders of one
repository, at the same time: nothing in the code claims to support them.

Of the symbol index: the records of ctags and SCIP and the probe of rustc, which are copied from
external programs, the caps on lists other than those of the walk and of the edges (`MAX_SEMANTIC_TARGETS`,
`MAX_SEMANTIC_FRONTIER`, `MAX_GRAPH_TARGETS_PER_FIELD`, `MAX_DATA_FLOW_READS_PER_STATEMENT` are
modelled), functions inside functions; of the graph: SCIP relationships and the kinds and names of reference nodes; of the graph queries:
slices of statements and the summary of a symbol, which read one node and its neighbours.

Of search and retrieval: BM25 (a document scores a weight for each term it has), the documents of
packages and statements, previews, the token budget of a context and the texts of summaries;
scores are in hundredths and an embedding is a set of near terms. Of embeddings: the openai and
hashing providers, and the splitting of documents into units.

Raw inventories are one rewrite of a few files (they appear as the step that raises a generation);
the scoring of the harness is sums over texts in one pass; the Zoekt backend is a call of an
external program and the parsing of its output; the command line, telemetry and the other shell
wrappers have no state of their own beyond what the models of the parts they call contain.

## 6. Plan

Done, in this order: batch builds, the artifact store with its catalogue, the embedding checkpoint,
graph queries, summaries, the evaluation cache, the file cache, symbol index and graph; then the
language-server client and the merge of backends, the native worker, lexical search, retrieval and
reranking, the toolkit, and the readers that keep handles; proofs of eight modules.

Left:

1. Proofs about names: `OneSymbolPerCallable`, and bounds on the scores of `AgentQuery` from which
   its resolution of names would follow.
2. Index and graph composed with the artifact store: what a reused cache entry hides from a rebuild.
3. Statement slices and the remaining reads of the graph.
4. Statement and package documents in `LexicalSearch`, and the token budget of a context.
