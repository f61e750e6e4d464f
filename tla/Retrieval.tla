------------------------------ MODULE Retrieval ------------------------------
(***************************************************************************)
(* retrieve_context, stage by stage: the scopes of the summary search, the *)
(* symbols named or found, the graph around the best of them, their        *)
(* bodies, the embeddings, and the merging of it all in one candidate per  *)
(* kind and identity.                                                      *)
(*                                                                         *)
(* A corpus is what one generation of the artifacts says of a repository:  *)
(*   [directories, files, symbols], sequences of paths, of [path, text]    *)
(*   and of symbols [id, name, qname, kind, path, pub, body, note, calls,  *)
(*   reads, more, owner], where body and note are terms, calls and reads   *)
(*   are ids, more is what the other lists of the semantic summary weigh,  *)
(*   in hundredths, and owner is 0 at file level.                          *)
(* A symbol with a body has one statement in the graph.  Summary nodes and *)
(* tests are left out of it.  The graph is asked for direct neighbours.    *)
(***************************************************************************)
EXTENDS RankFusion

CONSTANTS
  SummaryFan,     \* <<factor, least>> of the summary search, <<3, 12>> in the code
  SymbolFan,      \* <<factor, least>> of the symbol searches, <<4, 16>> in the code
  ScopeCap,       \* scopes taken of the summary search, 3 in the code
  SeedCap,        \* symbols the graph is asked about, 4 in the code
  BodyCap,        \* bodies added, 3 in the code
  GraphFan,       \* neighbours of a seed, 32 in the code
  EmbeddingLeast  \* embedding results asked for at least, 5 in the code

ASSUME CapAssumption ==
  /\ SummaryFan \in Nat \X Nat /\ SymbolFan \in Nat \X Nat
  /\ {ScopeCap, SeedCap, BodyCap, GraphFan, EmbeddingLeast} \subseteq Nat

DocHints   == {"doc", "docs", "documentation", "guide", "guides", "overview", "readme", "summary"}
GraphHints == {"callers", "caller", "callees", "callee", "references", "reference", "refs", "implements",
               "implementations", "imports", "neighbors", "dependency", "dependencies", "path"}
BodyHints  == {"body", "implementation", "code", "logic", "source"}

\* classify_query
Profile(q) ==
  LET terms     == ToSet(Tokens(q))
      hints(s)  == terms \cap s # {}
      docs      == hints(DocHints)
      statement == hints(StatementHints)
      symbol    == \/ q.id # 0
                   \/ \E w \in ToSet(q.words) : ~q.slash /\ Len(w) > 1
                   \/ Cardinality(terms) <= 2 /\ ~docs /\ ~q.slash /\ ~statement /\ ~hints(GraphHints)
  IN  [docs |-> docs, graph |-> hints(GraphHints), body |-> hints(BodyHints), statement |-> statement,
       symbol |-> symbol,
       intent |-> IF docs \/ q.slash THEN "docs" ELSE IF symbol THEN "symbol" ELSE "exploration"]

SummaryKinds == {"repo", "directory", "file", "doc"}
SymbolKinds  == {"symbol"}
BodyKinds    == {"function_body", "type_body"}
StageKinds(default, requested) == IF requested = {} THEN default ELSE default \cap requested

AskedFor(q, path) == q.slash /\ Asked(q) = Lowered(path)

\* derive_summary_scopes: a file stands for its directory, unless it is asked for
SummaryScopes(q, results) ==
  LET prefix(r) == IF r.kind \in {"file", "doc"} /\ ~AskedFor(q, r.path) /\ Len(r.path) > 1
                     THEN Front(r.path) ELSE r.path
      scope(r)  == [prefix |-> prefix(r), score |-> r.score]
  IN  First(Each(Distinct(Where(results, LAMBDA r : r.path # <<>>), prefix), scope), ScopeCap)

\* annotate_scope: how deep the path is in the nearest scope that has it
Annotated(c, scopes) ==
  LET depths == {Len(c.path) - Len(s.prefix) : s \in {x \in ToSet(scopes) : IsPrefix(x.prefix, c.path)}} IN
  IF c.path = <<>> \/ depths = {} THEN c
  ELSE [c EXCEPT !.depth = CHOOSE d \in depths : \A e \in depths : d <= e]
Annotate(cs, scopes) == Each(cs, LAMBDA c : Annotated(c, scopes))

-----------------------------------------------------------------------------
(* The symbols                                                             *)

\* resolve_qname and resolve_name of the store, of the query as it is written
ByQname(store, q) == Where(store.symbols, LAMBDA s : IsName(q) /\ s.qname = q.words[1])
ByName(store, q)  == Where(store.symbols, LAMBDA s : IsName(q) /\ <<s.name>> = q.words[1])
BySymbol(store, n) == Where(store.symbols, LAMBDA s : s.id = n)

Numbered(named) == [i \in DOMAIN named |-> [SymbolDoc(named[i]) EXCEPT !.score = 42000 - 2000 * (i - 1),
                                                                       !.reasons = {"symbol-localization"}]]
QnamesOnly(store, q) == Numbered(BySymbol(store, q.id) \o ByQname(store, q))   \* mutant of ExactResults
\* resolve_exact_symbol_results
ExactResults(store, q) ==
  Distinct(Numbered(BySymbol(store, q.id) \o ByQname(store, q) \o ByName(store, q)), LAMBDA c : c.symbol)

\* candidate_identity
Identity(c) ==
  IF c.symbol # 0 THEN <<"symbol", c.symbol>> ELSE IF c.path # <<>> THEN <<"path", c.path>> ELSE <<c.kind, c.pos>>

\* of each identity the result of the highest score, where the first one was
Strongest(results) ==
  LET best(r) == Sort(Where(results, LAMBDA x : Identity(x) = Identity(r)), Higher)[1]
  IN  Each(Distinct(results, Identity), best)

\* search_scoped_symbol_results
ScopedSymbols(index, q, scopes, limit, kinds) ==
  Strongest(FlattenSeq(Each(scopes, LAMBDA s : Search(index, q, limit, kinds, s.prefix))))

\* enumerate_scope_symbols, where each scope has what the ones before left of the limit
ScopeSymbols(index, scopes, limit) ==
  LET scored(docs, s) == [i \in DOMAIN docs |-> [docs[i] EXCEPT !.score = Most(@, s.score + 1200 - 35 * (i - 1))]]
      with(acc, docs) == [left |-> acc.left - Len(docs), found |-> acc.found \o docs]
      add(acc, s) == IF acc.left <= 0 THEN acc
                     ELSE with(acc, scored(ListDocuments(index, acc.left, {"symbol"}, s.prefix), s))
  IN  Strongest(Loop(add, [left |-> Most(limit, 1), found |-> <<>>], scopes).found)

\* has_exact_symbol_hit and has_exact_path_hit
ExactSymbolHit(q, exact) ==
  IsName(q) /\ \E r \in ToSet(exact) : \/ Asked(q) = Lowered(<<r.name>>)
                                       \/ IsSuffix(Asked(q), Lowered(r.qname))
ExactPathHit(q, summaries) == \E r \in ToSet(First(summaries, 3)) : r.path # <<>> /\ AskedFor(q, r.path)

\* retrieval_gate
Gate(q, profile, summaries, exact, selective) ==
  LET gate(search, graph, body) == [search |-> search, graph |-> graph, body |-> body]
      explore == profile.intent = "exploration" \/ exact # <<>>
  IN
  CASE ~selective                                          -> gate(TRUE, TRUE, TRUE)
    [] selective /\ (profile.docs \/ ExactPathHit(q, summaries)) -> gate(FALSE, FALSE, FALSE)
    [] OTHER ->
         CASE ExactSymbolHit(q, exact) /\ Len(Tokens(q)) <= 3 -> gate(FALSE, profile.graph, profile.body)
           [] OTHER ->
                IF profile.statement THEN gate(TRUE, TRUE, TRUE)
                ELSE gate(summaries = <<>> \/ profile.symbol, explore \/ profile.graph, explore \/ profile.body)

\* the results of the symbol stage, which may name a symbol more than once
SymbolResults(index, store, q, opts, summaries) ==
  LET limit == Grow(opts.limit, SymbolFan)
      kinds == StageKinds(SymbolKinds, opts.kinds)
      searched(profile, scopes, exact) ==
        IF kinds = {} THEN exact
        ELSE exact
             \o (IF profile.intent = "exploration" THEN ScopeSymbols(index, scopes, Grow(opts.limit, SummaryFan)) ELSE <<>>)
             \o ScopedSymbols(index, q, scopes, limit, kinds)
             \o (IF Gate(q, profile, summaries, exact, opts.selective).search
                   THEN Search(index, q, limit, kinds, <<>>) ELSE <<>>)
      within(scopes) == Annotate(searched(Profile(q), scopes, ExactResults(store, q)), scopes)
  IN  within(SummaryScopes(q, summaries))

-----------------------------------------------------------------------------
(* Around the symbols                                                      *)

\* sort_candidates
Sorted(cs) == Sort(cs, Better)

\* build_seed_nodes: symbol results are symbols
Seeds(localized) == First(Distinct(Sorted(localized), LAMBDA c : c.symbol), SeedCap)

EdgeBonus == [DECLARES |-> 190, CONTAINS |-> 160, CALLS |-> 120, READS |-> 90]

StatementNode(s) ==
  [Blank EXCEPT !.kind = "statement", !.path = s.path, !.symbolKind = "statement", !.pos = 1000 + 10 * s.id + 3]
FileNode(s) == [Blank EXCEPT !.kind = "file", !.path = s.path, !.symbolKind = "file", !.pos = 90]
SymbolNode(s) == [SymbolDoc(s) EXCEPT !.pub = FALSE, !.activity = 0, !.text = {}]

\* the edges at a symbol of the stage's types, as the graph orders its answer
Neighbors(repo, n) ==
  LET syms(P(_)) == Where(repo.symbols, P)
      nodes(ss)  == Each(ss, SymbolNode)
      self       == syms(LAMBDA s : s.id = n)
      of(P(_, _)) == syms(LAMBDA s : \E x \in ToSet(self) : P(x, s))
      called     == of(LAMBDA x, s : s.id \in x.calls \/ n \in s.calls)
      readers    == of(LAMBDA x, s : s.id \in x.reads \/ n \in s.reads)
      members    == of(LAMBDA x, s : s.owner = n \/ x.owner = s.id)
      statements == syms(LAMBDA s : s.id = n /\ s.body # {})
      files      == syms(LAMBDA s : s.id = n /\ s.owner = 0)
      typed(type, cs) == Each(cs, LAMBDA c : [type |-> type, node |-> c])
  IN  typed("CALLS", nodes(called))
      \o typed("CONTAINS", nodes(members) \o Each(statements, StatementNode))
      \o typed("DECLARES", Each(files, FileNode))
      \o typed("READS", nodes(readers))

\* hydrate_symbol_candidate
Hydrated(c, store) ==
  LET row == BySymbol(store, c.symbol) IN
  IF c.symbol = 0 \/ row = <<>> THEN c
  ELSE LET d == SymbolDoc(row[1]) IN
       [c EXCEPT !.name = d.name, !.qname = d.qname, !.path = d.path, !.symbolKind = d.symbolKind,
                 !.pub = d.pub, !.activity = d.activity]

\* expand_graph_candidates, and what the stage does to its results
GraphResults(graph, store, localized, profile, scopes) ==
  LET node(e, s) == [e.node EXCEPT !.score = s.score + EdgeBonus[e.type], !.distance = 1, !.reasons = {"graph"}]
      around(s)  == Each(First(Neighbors(graph, s.symbol), GraphFan), LAMBDA e : node(e, s))
      expanded   == FlattenSeq(Each(Seeds(localized), around))
      kept       == Where(expanded, LAMBDA c : profile.statement \/ c.kind # "statement")
  IN  Each(Annotate(kept, scopes), LAMBDA c : Hydrated(c, store))

\* hydrate_body_results
BodyResults(index, store, localized, kinds, scopes) ==
  LET body(c) == Each(First(LookupSymbolDocs(store, index, c.symbol, kinds, 1), 1),
                      LAMBDA d : [Annotated(d, scopes) EXCEPT !.reasons = c.reasons \cup {"body"}])
  IN  First(FlattenSeq(Each(Distinct(Sorted(localized), LAMBDA c : c.symbol), body)), BodyCap)

-----------------------------------------------------------------------------
(* The candidates                                                          *)

\* add_candidate: the metadata of the later one, the fields of the first
Joined(a, b) ==
  [a EXCEPT !.score = Most(@, b.score), !.reasons = @ \cup b.reasons,
            !.symbolKind = IF b.symbolKind # "" THEN b.symbolKind ELSE @,
            !.pub = IF b.symbolKind # "" THEN b.pub ELSE @,
            !.activity = IF b.symbolKind # "" THEN b.activity ELSE @,
            !.depth = IF b.depth >= 0 THEN b.depth ELSE @,
            !.distance = IF b.distance > 0 THEN b.distance ELSE @,
            !.name = IF @ = "" THEN b.name ELSE @,
            !.qname = IF @ = <<>> THEN b.qname ELSE @,
            !.path = IF @ = <<>> THEN b.path ELSE @]

PathKey(c) == IF c.path # <<>> THEN <<"any", c.path>> ELSE Identity(c)   \* mutant of Key
Key(c) == <<c.kind, Identity(c)>>

\* add_stage_results
Merge(candidates, results, reason) ==
  LET add(acc, r) ==
        LET c == [r EXCEPT !.reasons = @ \cup {reason}] IN
        IF \E i \in DOMAIN acc : Key(acc[i]) = Key(c)
          THEN [i \in DOMAIN acc |-> IF Key(acc[i]) = Key(c) THEN Joined(acc[i], c) ELSE acc[i]]
          ELSE Append(acc, c)
  IN  Loop(add, candidates, results)

\* annotate_summary_relevance, where the summary of a file or a symbol names it
SummaryText(c) == (IF c.kind \in SummaryKinds THEN c.text ELSE {}) \cup ToSet(Lowered(c.path)) \cup ToSet(Lowered(c.qname))
Relevant(c, q) ==
  LET terms   == ToSet(Tokens(q))
      overlap == Cardinality({t \in terms : \E w \in SummaryText(c) : Has(t, <<w>>)})
  IN  IF overlap = 0 THEN c
      ELSE [c EXCEPT !.relevance = (100 * overlap) \div Cardinality(terms), !.reasons = @ \cup {"summary"}]

\* everything between the ranking of the symbols and that of the candidates
Candidates(index, store, graph, vectors, q, opts, summaries, localized) ==
  LET around(profile, scopes, gate) ==
        <<IF opts.graph /\ gate.graph THEN GraphResults(graph, store, localized, profile, scopes) ELSE <<>>,
          IF StageKinds(BodyKinds, opts.kinds) # {} /\ gate.body
            THEN BodyResults(index, store, localized, StageKinds(BodyKinds, opts.kinds), scopes) ELSE <<>>,
          Annotate(QueryEmbeddings(vectors, q, Most(opts.limit, EmbeddingLeast)), scopes)>>
      merged(found) == Merge(Merge(Merge(Merge(Merge(<<>>, summaries, "summary"), localized, "symbol"),
                                         found[1], "graph"), found[2], "body"), found[3], "embedding")
      gate(exact) == Gate(q, Profile(q), summaries, exact, opts.selective)
      all == merged(around(Profile(q), SummaryScopes(q, summaries), gate(ExactResults(store, q))))
  IN  Each(all, LAMBDA c : IF opts.summaries THEN Relevant(c, q) ELSE c)

-----------------------------------------------------------------------------
(* planner.py                                                              *)

\* normalize_task and extract_prior_hints: the names of two symbols join the task
Refined(q, symbols) ==
  LET hint(c) == IF c.qname # <<>> THEN c.qname ELSE <<c.name>>
      hints   == Distinct([i \in DOMAIN First(symbols, 2) |-> hint(symbols[i])], LAMBDA h : h)
  IN  [q EXCEPT !.words = @ \o hints]

\* the evidence of prepare_answer_bundle: one item per symbol, path and kind
Evidence(selected) == Distinct(selected, LAMBDA c : <<c.symbol, c.path, c.kind>>)
=============================================================================
