----------------------------- MODULE AgentQuery ------------------------------
(***************************************************************************)
(* A long-lived client of the artifacts: the retrieval and the symbol      *)
(* tools of the agent toolkit, answered one call at a time and step by     *)
(* step, while another process rebuilds the artifacts and the reranking    *)
(* service answers what it likes, or not at all.                           *)
(*                                                                         *)
(* A step of a call reads what is there when it runs: the lexical index    *)
(* and the embeddings are opened each time, the metadata store and the     *)
(* graph once, and they stay what they were.  A rebuild replaces the       *)
(* artifacts one after the other.                                          *)
(***************************************************************************)
EXTENDS SymbolQuery

CONSTANTS
  Worlds,      \* what each generation of the artifacts says, a sequence of corpora
  Requests,    \* the calls: [op, q, opts], see NoRequest
  NeighborsCap, \* neighbours in a bundle, 8 in the code
  Pool         \* lexical, pre-ranked and reranked pool of the paper pipeline, 1000, 100 and 50 in the code

ASSUME PoolAssumption == Pool \in Nat

\* a generation of a repository, whose symbols have an id of their own: a hash
\* of their path, among others
Path == Seq(DOMAIN Lower) \ {<<>>}
SymbolRow ==
  [id : Nat \ {0}, name : DOMAIN Lower, qname : Seq(DOMAIN Lower), kind : STRING, path : Path, pub : BOOLEAN,
   body : SUBSET DOMAIN Lower, note : SUBSET DOMAIN Lower, calls : SUBSET Nat,
   reads : SUBSET Nat, more : Nat, owner : Nat]
ASSUME WorldsAssumption ==
  /\ Worlds # <<>>
  /\ Worlds \in Seq([directories : Seq(Path), files : Seq([path : Path, text : SUBSET DOMAIN Lower]),
                    symbols : Seq(SymbolRow)])
  /\ \A w \in ToSet(Worlds) : \A s \in ToSet(w.symbols) : IsFiniteSet(s.calls) /\ IsFiniteSet(s.reads)
  /\ \A w, x \in ToSet(Worlds) : \A s \in ToSet(w.symbols), t \in ToSet(x.symbols) : s.id = t.id => s.path = t.path
ASSUME RequestsAssumption ==
  \A r \in Requests :
    /\ r.op \in {"context", "bundle", "paper", "trace", "enclosing"}
    /\ DOMAIN r = {"op", "q", "opts"} /\ DOMAIN r.q = {"words", "slash", "id"} /\ "limit" \in DOMAIN r.opts
    /\ r.q.words \in Seq(Seq(DOMAIN Lower)) /\ r.opts.limit \in Nat \ {0}

VARIABLES
  built,   \* generation of each artifact on disk
  handle,  \* generation of the metadata store and the graph the client holds open, or 0
  call     \* the call in progress

queryVars == <<built, handle, call>>

Artifacts == <<"meta", "graph", "index", "vectors">>
NoRequest ==
  [op   |-> "context",       \* or "bundle", "paper", "trace", "enclosing"
   q    |-> Words(<< <<"">> >>),
   opts |-> [limit |-> 1, kinds |-> {}, graph |-> TRUE, rerank |-> TRUE, summaries |-> FALSE, selective |-> TRUE,
             service |-> FALSE, fallback |-> FALSE]]

NoCall == [request |-> NoRequest, stage |-> "idle", round |-> 0, summaries |-> <<>>, localized |-> <<>>,
           pool |-> <<>>, ranked |-> <<>>, selected |-> <<>>, defined |-> <<>>, seeds |-> {}, neighbors |-> <<>>,
           read |-> 0]

q    == call.request.q
opts == call.request.opts

\* what an artifact says, where an open handle hides what is on disk
Generation(a) == IF handle[a] # 0 THEN handle[a] ELSE built[a]
Store         == Worlds[Generation("meta")]
Graph         == Worlds[Generation("graph")]
Index         == Documents(Worlds[built.index])
Vectors       == Documents(Worlds[built.vectors])
Open(as)      == handle' = [a \in DOMAIN handle |-> IF a \in as THEN Generation(a) ELSE handle[a]]
At(stage)     == call.stage = stage /\ UNCHANGED built
Then(next)    == call' = next

QueryInit ==
  /\ built = [meta |-> 1, graph |-> 1, index |-> 1, vectors |-> 1]
  /\ handle = [meta |-> 0, graph |-> 0]
  /\ call = NoCall

FirstStage == [context |-> "summaries", bundle |-> "preview", paper |-> "units", trace |-> "define", enclosing |-> "resolve"]
Ask(r) ==
  /\ At("idle") /\ UNCHANGED handle
  /\ Then([NoCall EXCEPT !.request = r, !.stage = FirstStage[r.op]])

Return ==
  /\ call.stage \in {"done", "failed"} /\ UNCHANGED <<built, handle>>
  /\ Then(NoCall)

-----------------------------------------------------------------------------
(* retrieve_context                                                        *)

SummarySearch(index, o) ==
  LET kinds == StageKinds(SummaryKinds, o.kinds) IN
  IF kinds = {} THEN <<>> ELSE Search(index, q, Grow(o.limit, SummaryFan), kinds, <<>>)

\* the summary search
Summaries ==
  /\ At("summaries") /\ UNCHANGED handle
  /\ Then([call EXCEPT !.summaries = SummarySearch(Index, opts), !.stage = "symbols"])

\* the ranking waits for the service, unless there is nothing to send
Awaited(cs, stage, next) == IF opts.service /\ opts.rerank /\ cs # <<>> THEN stage ELSE next
Ranked(cs) == IF opts.rerank THEN HeuristicRank(q, cs, Profile(q)) ELSE Sorted(cs)

\* the exact symbols, the searches in the scopes, and the first ranking
Symbols ==
  /\ At("symbols") /\ Open({"meta"})
  /\ LET found == Ranked(SymbolResults(Index, Store, q, opts, call.summaries)) IN
     Then([call EXCEPT !.localized = found, !.stage = Awaited(found, "localize", "expand")])

Localize ==
  /\ At("localize") /\ UNCHANGED handle
  /\ \E answer \in Answers(Len(First(call.localized, RerankTop))) \ {<<>>} :
       Then([call EXCEPT !.localized = QwenRank(@, answer), !.stage = "expand"])

Selected(c, ranked) == [c EXCEPT !.ranked = ranked, !.selected = First(ranked, c.request.opts.limit),
                                 !.stage = IF c.request.op = "bundle" THEN "bundle" ELSE "done"]

\* the graph, the bodies and the embeddings, and the second ranking
Expanding ==
  /\ opts.graph /\ call.localized # <<>>
  /\ Gate(q, Profile(q), call.summaries, ExactResults(Store, q), opts.selective).graph
Expand ==
  /\ At("expand") /\ Open({"meta"} \cup (IF Expanding THEN {"graph"} ELSE {}))
  /\ LET found == Ranked(Candidates(Index, Store, Graph, Vectors, q, opts, call.summaries, call.localized))
         next  == [call EXCEPT !.pool = found, !.read = built.vectors]
     IN  Then(IF Awaited(found, "select", "done") = "select" THEN [next EXCEPT !.ranked = found, !.stage = "select"]
              ELSE Selected(next, found))

Select ==
  /\ At("select") /\ UNCHANGED handle
  /\ \E answer \in Answers(Len(First(call.ranked, RerankTop))) \ {<<>>} :
       Then(Selected(call, QwenRank(call.ranked, answer)))

\* the service fails, or returns no result
ServiceFails ==
  /\ call.stage \in {"localize", "select"} /\ UNCHANGED <<built, handle>>
  /\ Then(IF ~opts.fallback THEN [call EXCEPT !.stage = "failed"]
          ELSE IF call.stage = "localize" THEN [call EXCEPT !.stage = "expand"]
          ELSE Selected(call, call.ranked))

-----------------------------------------------------------------------------
(* plan_query, prepare_answer_bundle and retrieve_iterative                *)

\* the preview of the plan, wide, unranked and without the graph
Preview ==
  /\ At("preview") /\ Open({"meta"})
  /\ LET limit == IF opts.limit > 6 THEN 6 ELSE Most(opts.limit, 3)
         plan  == [opts EXCEPT !.limit = limit, !.graph = FALSE, !.rerank = FALSE, !.summaries = TRUE, !.selective = FALSE]
         sums  == SummarySearch(Index, plan)
         found == Sorted(SymbolResults(Index, Store, q, plan, sums))
     IN  Then([call EXCEPT !.selected = First(Sorted(Candidates(Index, Store, Graph, Vectors, q, plan, sums, found)), limit),
                           !.stage = "summaries"])

Recommended(intent) ==
  CASE intent = "symbol" -> {"CALLS", "READS"} [] intent = "docs" -> {"CONTAINS"} [] OTHER -> {"CALLS", "CONTAINS"}

\* the neighbours of the first symbols
AnswerBundle ==
  /\ At("bundle") /\ Open({"meta", "graph"})
  /\ LET symbols == IF call.localized # <<>> THEN First(call.localized, opts.limit)
                    ELSE Where(call.selected, LAMBDA c : c.symbol # 0)
         edges(c) == Where(Neighbors(Graph, c.symbol), LAMBDA e : e.type \in Recommended(Profile(q).intent))
         around(c) == [seed |-> c.symbol, found |-> {<<e.type, e.node.pos>> : e \in ToSet(First(edges(c), NeighborsCap))}]
         top     == First(symbols, IF opts.limit > 3 THEN 3 ELSE opts.limit)
     IN  Then([call EXCEPT !.neighbors = [i \in DOMAIN top |-> around(top[i])],
                           !.pool = First(Evidence(call.selected), opts.limit), !.stage = "done"])

\* once more, with the names of the best symbols as hints
Iterate ==
  /\ At("done") /\ UNCHANGED handle
  /\ call.request.op = "bundle" /\ call.round = 0
  /\ Then([NoCall EXCEPT !.request = [call.request EXCEPT !.q = Refined(q, First(call.localized, opts.limit))],
                         !.stage = "preview", !.round = 1])

-----------------------------------------------------------------------------
(* retrieve_paper_pipeline                                                 *)

NoProfile == [docs |-> FALSE, graph |-> FALSE, body |-> FALSE, statement |-> FALSE, symbol |-> FALSE, intent |-> ""]

Aggregated(c, ranked) ==
  [c EXCEPT !.ranked = ranked, !.pool = <<>>, !.selected = First(MaxP(ranked), c.request.opts.limit), !.stage = "done"]

\* the lexical and embedding searches, and the units before the reranking
Units ==
  /\ At("units") /\ UNCHANGED handle
  /\ LET limit == Most(Pool, opts.limit)
         units == UnitCandidates(q, Search(Index, q, limit, {}, <<>>), QueryEmbeddings(Vectors, q, limit))
         sent  == PreRanked(units, limit)
     IN  Then(IF ~opts.service THEN Aggregated(call, HeuristicRank(q, sent, NoProfile))
              ELSE IF sent = <<>> THEN Aggregated(call, sent)
              ELSE [call EXCEPT !.pool = sent, !.localized = sent, !.stage = "batch"])

\* one batch more; after the last one the units are sorted
Batch ==
  /\ At("batch") /\ UNCHANGED handle
  /\ LET batch == First(call.pool, RerankTop)
         rest  == SubSeq(call.pool, Len(batch) + 1, Len(call.pool))
     IN  \E answer \in Answers(Len(batch)) :
           LET ranked == call.ranked \o RerankBatch(batch, answer) IN
           Then(IF rest = <<>> THEN Aggregated(call, Sort(ranked, ByScore))
                ELSE [call EXCEPT !.pool = rest, !.ranked = ranked])

\* a batch fails: the answers before it are lost, and the heuristics ask the service again
BatchFails ==
  /\ At("batch") /\ UNCHANGED handle
  /\ LET again == HeuristicRank(q, call.localized, NoProfile) IN
     Then(IF opts.fallback THEN [call EXCEPT !.pool = <<>>, !.ranked = again, !.stage = "again"]
          ELSE [call EXCEPT !.stage = "failed"])

Again ==
  /\ At("again") /\ UNCHANGED handle
  /\ \E answer \in Answers(Len(First(call.ranked, RerankTop))) :
       Then(Aggregated(call, QwenRank(call.ranked, answer)))

-----------------------------------------------------------------------------
(* trace_calls and get_enclosing_context                                   *)

Define ==
  /\ At("define")
  /\ LET ids == WhereDefined(Store, Graph, q, 1) IN
     /\ Open(IF ByQname(Store, q) \o ByName(Store, q) = <<>> THEN {"meta", "graph"} ELSE {"meta"})
     /\ Then([call EXCEPT !.defined = ids, !.stage = IF ids = <<>> THEN "done" ELSE "callers"])

\* callers_of, then callees_of, each from a seed of its own
Neighbor(stage, next) ==
  /\ At(stage)
  /\ LET answer == ResolveSeed(Store, Index, q, opts.limit) IN
     /\ Open(IF answer.how = "ambiguous" THEN {"meta"} ELSE {"meta", "graph"})
     /\ Then([call EXCEPT !.seeds = @ \cup {answer.seed}, !.stage = next,
                          !.neighbors = Append(@, CallNeighbors(Graph, q, answer, stage = "callers", opts.limit))])
Callers == Neighbor("callers", "callees")
Callees == Neighbor("callees", "done")

Resolve ==
  /\ At("resolve")
  /\ LET n == ResolveSymbol(Store, Index, Graph, q) IN
     /\ Open(IF q.id = 0 /\ ByQname(Store, q) \o ByName(Store, q) \o SymbolCandidates(Store, Index, q, 5) = <<>>
               THEN {"meta", "graph"} ELSE {"meta"})
     /\ Then([call EXCEPT !.defined = IF n = 0 THEN <<>> ELSE <<n>>, !.stage = IF n = 0 THEN "done" ELSE "slice"])

\* the statement slice, from a seed of its own
Slice ==
  /\ At("slice")
  /\ LET answer == ResolveSeed(Store, Index, q, 8) IN
     /\ Open(IF answer.how = "ambiguous" THEN {"meta"} ELSE {"meta", "graph"})
     /\ Then([call EXCEPT !.seeds = {answer.seed}, !.stage = "done"])

-----------------------------------------------------------------------------
(* The other process, and a client started anew.                           *)

ReplaceArtifact ==
  /\ built.vectors < Len(Worlds) /\ UNCHANGED <<handle, call>>
  /\ LET late == Where(Artifacts, LAMBDA a : built[a] < built.meta)
         next == IF late = <<>> THEN "meta" ELSE late[1]
     IN  built' = [built EXCEPT ![next] = @ + 1]

Restart ==
  /\ At("idle") /\ handle # [meta |-> 0, graph |-> 0]
  /\ handle' = [meta |-> 0, graph |-> 0] /\ UNCHANGED call

QueryNext ==
  \/ \E r \in Requests : Ask(r)
  \/ Return \/ ReplaceArtifact \/ Restart
  \/ Summaries \/ Symbols \/ Localize \/ Expand \/ Select \/ ServiceFails
  \/ Preview \/ AnswerBundle \/ Iterate
  \/ Units \/ Batch \/ BatchFails \/ Again
  \/ Define \/ Callers \/ Callees \/ Resolve \/ Slice

QuerySpec == QueryInit /\ [][QueryNext]_queryVars

-----------------------------------------------------------------------------
(* Properties                                                              *)

\* symbol s is the only one the query can mean: by its qualified name in any
\* case, or, if that is nobody's, by its name
Means(store, s) ==
  LET qnamed == {x \in ToSet(store.symbols) : Lowered(x.qname) = Asked(q)}
      named  == {x \in ToSet(store.symbols) : <<Lower[x.name]>> = Asked(q)}
  IN  /\ IsName(q) /\ s.kind # "local"
      /\ \/ qnamed = {s} /\ s.qname = q.words[1]
         \/ qnamed = {} /\ named = {s} /\ <<s.name>> = q.words[1]

\* A query that can mean one symbol only is resolved to that symbol by every
\* front end, whatever generation the index is of: where_defined and the seeds
\* of the callers and callees in trace_calls, resolve_symbol_query and the
\* seed of the statement slice in get_enclosing_context.
UniqueNameResolves ==
  call.stage = "done" /\ call.request.op \in {"trace", "enclosing"} =>
    \A s \in ToSet(Store.symbols) : Means(Store, s) => call.defined = <<s.id>> /\ call.seeds = {s.id}

\* Such a symbol is in the selected context, when the candidates are reranked
\* and no fewer are selected than the service may reorder: nothing that was
\* searched, and no order the service makes, pushes it out.  What can are its
\* neighbours in the graph, which start from its score, and only if the query
\* is a qualified name: the second reranking compares the terms, joined by
\* blanks, with the name, gives a qualified name no bonus for being exact, and
\* a busy public function gets past the private constant it reads.
ExactSymbolSelected ==
  call.stage = "done" /\ call.request.op = "context" /\ opts.rerank /\ (~opts.service \/ opts.limit >= RerankTop) =>
    \A s \in ToSet(Store.symbols) :
      Means(Store, s) =>
        \/ \E c \in ToSet(call.selected) : c.kind = "symbol" /\ c.symbol = s.id
        \/ /\ Len(Tokens(q)) > 1 /\ Len(call.selected) = opts.limit
           /\ \A c \in ToSet(call.selected) : "graph" \in c.reasons

\* what each stage returned
Reached == {e.node : e \in UNION {ToSet(Neighbors(Graph, s.symbol)) : s \in ToSet(Seeds(call.localized))}}
Embedded == {<<d.kind, Source(d)>> : d \in ToSet(Documents(Worlds[call.read]))}

\* The reasons an agent is shown for a candidate are its own: each stage named
\* did return that symbol or that file, and its containment depth is that of a
\* scope it is in, although candidates of several stages and generations of
\* the artifacts are merged.
ReasonsAreTrue ==
  call.stage = "done" /\ call.request.op = "context" =>
    \A c \in ToSet(call.selected) :
      /\ "symbol-localization" \in c.reasons => c.symbol \in {r.symbol : r \in ToSet(ExactResults(Store, q))}
      /\ "symbol" \in c.reasons => c.symbol \in {r.symbol : r \in ToSet(call.localized)}
      /\ "graph" \in c.reasons => \E n \in Reached : n.symbol = c.symbol /\ (c.symbol # 0 \/ n.path = c.path)
      /\ "body" \in c.reasons => c.kind \in BodyKinds /\ c.symbol \in {r.symbol : r \in ToSet(call.localized)}
      /\ "embedding" \in c.reasons => <<c.kind, Source(c)>> \in Embedded
      /\ "summary" \in c.reasons /\ ~opts.summaries =>
           \E r \in ToSet(call.summaries) : r.kind = c.kind /\ r.path = c.path /\ r.symbol = c.symbol
      /\ c.depth >= 0 => \E s \in ToSet(SummaryScopes(q, call.summaries)) :
                           IsPrefix(s.prefix, c.path) /\ Len(c.path) - Len(s.prefix) = c.depth

\* how often each candidate or unit is in the sequences
Census(cs) == [k \in {<<c.kind, c.pos, c.unit>> : c \in ToSet(cs)} |->
                 Cardinality({i \in DOMAIN cs : <<cs[i].kind, cs[i].pos, cs[i].unit>> = k})]

\* Whatever the service answers, with indexes twice, out of range or missing,
\* a reranking neither loses a candidate nor doubles one.
RerankKeepsCandidates ==
  [][/\ call.stage = "localize" => Census(call'.localized) = Census(call.localized)
     /\ call.stage = "select" /\ call'.stage # "failed" => Census(call'.ranked) = Census(call.ranked)
     /\ call.stage \in {"batch", "again"} /\ call'.stage # "failed" =>
          Census(call'.ranked \o call'.pool) = Census(IF call'.stage = "again" THEN call.localized
                                                      ELSE call.ranked \o call.pool)]_queryVars

\* The paper pipeline answers with the best sources by their best unit, each
\* once, whatever the order the units come in, and with the three best units
\* of each as its hits.
SourcesByBestUnit ==
  call.stage = "done" /\ call.request.op = "paper" =>
    LET sources == {Source(u) : u \in ToSet(call.ranked)}
        scores(s) == [i \in {j \in DOMAIN call.ranked : Source(call.ranked[j]) = s} |-> call.ranked[i].score]
        best(s) == CHOOSE n \in {scores(s)[i] : i \in DOMAIN scores(s)} : \A i \in DOMAIN scores(s) : scores(s)[i] <= n
        shown   == {Source(c) : c \in ToSet(call.selected)}
    IN  /\ Len(call.selected) = IF Cardinality(sources) < opts.limit THEN Cardinality(sources) ELSE opts.limit
        /\ Cardinality(shown) = Len(call.selected) /\ shown \subseteq sources
        /\ \A c \in ToSet(call.selected) :
             /\ c.score = best(Source(c))
             /\ Len(c.hits) = IF Cardinality(DOMAIN scores(Source(c))) < 3 THEN Cardinality(DOMAIN scores(Source(c))) ELSE 3
             /\ \A h \in ToSet(c.hits) :
                  Cardinality({i \in DOMAIN scores(Source(c)) : scores(Source(c))[i] > h.score}) < 3
        /\ \A s \in sources \ shown, c \in ToSet(call.selected) : best(s) <= c.score
=============================================================================
