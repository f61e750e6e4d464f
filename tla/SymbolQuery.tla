----------------------------- MODULE SymbolQuery -----------------------------
(***************************************************************************)
(* How the agent toolkit makes a symbol of a query: where_defined and      *)
(* resolve_symbol_query, which ask the metadata store by the exact case    *)
(* first, and resolve_graph_seed, which ranks what the store and the       *)
(* lexical index know and decides whether the query names one symbol; and  *)
(* the tools that use them, calls and enclosing context.                   *)
(* A query is one word, as f, m::f or a path, or the id of a symbol.       *)
(***************************************************************************)
EXTENDS Retrieval

CONSTANTS
  LookupFan,   \* <<factor, least>> of the lexical search, <<4, 20>> in the code
  LookupLeast, \* candidates kept at least, 10 in the code
  PublicCap    \* candidates shown at most, 8 in the code

\* the qualified name of the symbol a symbol is in
Container(store, s) ==
  LET c == BySymbol(store, s.owner) IN IF s.owner = 0 \/ c = <<>> THEN <<>> ELSE c[1].qname
ContainerKind(store, s) ==
  LET c == BySymbol(store, s.owner) IN IF s.owner = 0 \/ c = <<>> THEN "" ELSE c[1].kind

\* looks_like_nominal_symbol_query: one segment that starts with a capital
NominalQuery(q) == IsName(q) /\ Len(Asked(q)) = 1 /\ Asked(q) # q.words[1]

SegmentScore(store, q, s) ==
  LET tail   == Last(Asked(q))
      prefix == Front(Asked(q))
      named  == tail = Lower[s.name]
  IN
  IF ~IsName(q) \/ Len(Asked(q)) < 2 THEN 0
  ELSE If(named, 3500)
       + (CASE Window(Asked(q), Lowered(s.qname))                         -> 18000
            [] OTHER -> IF ~named THEN 0
                        ELSE CASE Window(prefix, Lowered(s.qname))        -> 12000
                               [] OTHER -> IF Window(prefix, Lowered(Container(store, s))) THEN 10000 ELSE -2000)

TokenScore(store, q, s) ==
  LET points(t) == CASE Has(t, s.qname) -> 1800 [] OTHER ->
                   CASE Has(t, <<s.name>>) -> 1500 [] OTHER ->
                   CASE Has(t, Container(store, s)) -> 1000 [] OTHER ->
                   CASE Has(t, s.path) -> 800 [] OTHER -> 0
      missed == Cardinality({i \in DOMAIN Tokens(q) : points(Tokens(q)[i]) = 0})
  IN  FoldLeft(LAMBDA sum, t : sum + points(t), 0, Tokens(q)) + (IF missed = 0 THEN 4000 ELSE -800 * missed)

NominalScore(q, s) ==
  IF ~NominalQuery(q) THEN 0
  ELSE (CASE s.kind \in Nominal /\ <<s.name>> = q.words[1]         -> 18000
          [] s.kind \in Nominal /\ <<Lower[s.name]>> = Asked(q) /\ <<s.name>> # q.words[1] -> 12000
          [] s.kind \in Callable                                   -> -11000
          [] OTHER                                                 -> 0)
       - If(Lower[s.name] = s.name, 5000)

SingleScore(store, q, s) ==
  IF Len(Tokens(q)) # 1 THEN 0
  ELSE Activity(s) + If(s.pub, 1800) + If(s.kind \in Callable, 1000)
       + (CASE ContainerKind(store, s) = "trait" -> -6000 [] ContainerKind(store, s) = "impl" -> 1400 [] OTHER -> 0)
       - If(s.path[1] \in {"examples", "tests"}, 8000)

\* score_symbol_candidate, on top of the score it was found with
CandidateScore(store, q, s, found) ==
  found + If(q.id = s.id, 100000)
  + If(IsName(q) /\ Asked(q) = Lowered(s.qname), 40000)
  + If(IsName(q) /\ Asked(q) = <<Lower[s.name]>>, 25000)
  + If(IsName(q) /\ IsSuffix(Asked(q), Lowered(s.qname)), 18000)
  + If(PartOf(q, s.qname), 8000) + If(PartOf(q, Container(store, s)), 2400) + If(InText(q, s.path), 3000)
  + SegmentScore(store, q, s) + TokenScore(store, q, s) + NominalScore(q, s) + SingleScore(store, q, s)
  - If(s.kind = "local" /\ q.id = 0, 15000)

\* resolve_symbol_candidates: what the store and the index know, in the store's words,
\* a symbol with the score it was first found with
SymbolCandidates(store, index, q, limit) ==
  LET rows(ss, score) == Each(ss, LAMBDA s : [symbol |-> s.id, score |-> score])
      found == rows(BySymbol(store, q.id), 50000) \o rows(ByQname(store, q), 40000) \o rows(ByName(store, q), 30000)
               \o Each(Search(index, q, Grow(limit, LookupFan), {"symbol"}, <<>>),
                       LAMBDA d : [symbol |-> d.symbol, score |-> d.score])
      shown(r) == \E s \in ToSet(store.symbols) : s.id = r.symbol /\ (s.kind # "local" \/ q.id # 0)
      scored(s, score) == [symbol |-> s.id, name |-> s.name, qname |-> s.qname, pos |-> SymbolDoc(s).pos,
                           score |-> CandidateScore(store, q, s, score)]
      ranked == Each(Distinct(Where(found, shown), LAMBDA r : r.symbol),
                     LAMBDA r : scored(BySymbol(store, r.symbol)[1], r.score))
  IN  First(Sort(ranked, Better), limit)

\* resolve_graph_seed: the first of these that holds of one candidate alone decides
Tests == <<"exact_qualified_name", "exact_name", "qualified_name_suffix", "qualified_name_segments", "single_candidate">>
Passing(q, candidates, test) ==
  Where(candidates, LAMBDA c :
    CASE test = "exact_qualified_name"    -> IsName(q) /\ Lowered(c.qname) = Asked(q)
      [] test = "exact_name"              -> IsName(q) /\ <<Lower[c.name]>> = Asked(q)
      [] test = "qualified_name_suffix"   -> IsName(q) /\ IsSuffix(Asked(q), Lowered(c.qname))
      [] test = "qualified_name_segments" -> IsName(q) /\ Window(Asked(q), Lowered(c.qname))
      [] OTHER                            -> TRUE)

NoSeed == [symbol |-> 0, name |-> "", qname |-> <<>>, pos |-> 0, score |-> 0]

StrongTop(candidates) ==
  candidates[1].score >= 12000 /\ candidates[1].score - candidates[2].score >= 2500

Unambiguous(q, candidates) == Where(Tests, LAMBDA t : Len(Passing(q, candidates, t)) = 1)

Chosen(q, candidates) ==
  LET decided(tests) ==
        IF tests # <<>> THEN [seed |-> Passing(q, candidates, tests[1])[1], how |-> tests[1]]
        ELSE IF StrongTop(candidates) THEN [seed |-> candidates[1], how |-> "strong_top_candidate"]
        ELSE [seed |-> NoSeed, how |-> "ambiguous"]
  IN  IF candidates = <<>> THEN [seed |-> NoSeed, how |-> "none"] ELSE decided(Unambiguous(q, candidates))

\* select_public_symbol_candidates: the candidates shown beside the seed
Shown(q, candidates, chosen, limit) ==
  LET cap  == Most(1, IF limit < PublicCap THEN limit ELSE PublicCap)
      near == Where(candidates, LAMBDA c : Lower[c.name] = Lower[chosen.seed.name] /\ c.score >= chosen.seed.score - 3000)
  IN
  CASE chosen.how \in {"none", "ambiguous"} -> First(candidates, cap)
    [] chosen.how = "strong_top_candidate"  -> First(near, cap)
    [] OTHER                                -> <<chosen.seed>>

ResolveSeed(store, index, q, limit) ==
  LET wide              == Most(limit, LookupLeast)
      answer(kept, got) == [seed |-> got.seed.symbol, how |-> got.how, shown |-> Shown(q, kept, got, wide)]
      resolved(kept)    == answer(kept, Chosen(q, kept))
  IN  resolved(SymbolCandidates(store, index, q, wide))

-----------------------------------------------------------------------------
\* where_defined of the graph: the nodes of the name, by case, else without
GraphNamed(graph, q) ==
  LET loose == Where(graph.symbols, LAMBDA s : IsName(q) /\ Asked(q) \in {Lowered(s.qname), <<Lower[s.name]>>})
      named(exact) == IF exact # <<>> THEN exact ELSE loose
  IN  Distinct(Each(named(BySymbol(graph, q.id) \o ByQname(graph, q) \o ByName(graph, q)), LAMBDA s : s.id), LAMBDA n : n)

NamesFirst(store, graph, q, limit) ==                                  \* mutant of WhereDefined
  First(Each(IF ByName(store, q) # <<>> THEN ByName(store, q) ELSE ByQname(store, q), LAMBDA s : s.id), limit)
\* where_defined, the ids of the matches
WhereDefined(store, graph, q, limit) ==
  LET ids(ss) == Each(ss, LAMBDA s : s.id)
      first(qnamed, named) == IF qnamed # <<>> THEN ids(qnamed) ELSE IF named # <<>> THEN ids(named) ELSE GraphNamed(graph, q)
  IN  First(first(ByQname(store, q), ByName(store, q)), limit)

\* resolve_symbol_query: by id, by qualified name, by name, by rank, by the graph
ResolveSymbol(store, index, graph, q) ==
  LET named  == ByQname(store, q) \o ByName(store, q)
      known(n) == IF BySymbol(store, n) # <<>> THEN n ELSE 0
      head(ids) == IF ids = <<>> THEN 0 ELSE known(ids[1])
      ranked(cs) == IF cs # <<>> THEN cs[1].symbol ELSE head(WhereDefined(store, graph, q, 1))
  IN  IF q.id # 0 THEN known(q.id)
      ELSE IF named # <<>> THEN named[1].id
      ELSE ranked(SymbolCandidates(store, index, q, 5))

\* graph_neighbors_response for the callers and the callees, as clean_graph_neighbors leaves them;
\* without a seed the graph is asked by the query
CallNeighbors(graph, q, answer, callers, limit) ==
  LET seeds  == IF answer.seed # 0 THEN <<answer.seed>> ELSE GraphNamed(graph, q)
      linked(s) == \E n \in ToSet(seeds) : IF callers THEN n \in s.calls
                                           ELSE \E x \in ToSet(BySymbol(graph, n)) : s.id \in x.calls
      kept   == Where(graph.symbols, LAMBDA s : linked(s) /\ s.kind \in Callable /\ s.id # answer.seed)
  IN  IF answer.how = "ambiguous" THEN {} ELSE {s.id : s \in ToSet(First(kept, limit))}
=============================================================================
