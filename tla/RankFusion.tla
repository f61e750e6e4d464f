----------------------------- MODULE RankFusion -----------------------------
(***************************************************************************)
(* Reranking of candidates, by the built-in heuristics and by the local    *)
(* Qwen service, and the fusion of lexical and embedding scores over the   *)
(* units of a source (the paper pipeline).                                 *)
(*                                                                         *)
(* The service is not under src/: its answer is any sequence of results,   *)
(* each an index, which may be out of range or be named twice, and a       *)
(* score.  A document that is not a file is one unit; a file is split in   *)
(* Chunks units.                                                           *)
(***************************************************************************)
EXTENDS LexicalSearch

CONSTANTS
  RerankTop,  \* candidates the service is sent at a time, 5 in the code
  UnitCap,    \* units of one source, 4 in the code
  Chunks,     \* units a file is split into
  Scores      \* scores the service gives

ASSUME RerankAssumption == RerankTop \in Nat \ {0} /\ UnitCap \in Nat \ {0} /\ Chunks \in Nat \ {0}
ASSUME ScoresAssumption == Scores \subseteq Int

-----------------------------------------------------------------------------
(* rerank/fusion.py                                                        *)

KindPriority(k) ==
  CASE k = "symbol" -> 6 [] k = "type_body" -> 5 [] k = "function_body" -> 4 [] k = "file" -> 3
    [] k = "doc" -> 3 [] k = "directory" -> 2 [] k = "repo" -> 0 [] k = "statement" -> -2 [] OTHER -> 0

\* the score rerank_candidates gives, on top of the one the candidate has; it
\* compares the terms with the name, so that m::f is nobody's
Heuristic(q, c, profile) ==
  LET t == Tokens(q)
      named == IF c.qname # <<>> THEN <<c.name, Last(c.qname)>> ELSE <<c.name>>
      explore == profile.intent = "exploration"
  IN
  c.score + (IF Len(t) = 1 THEN NameBonus(q, c) ELSE 0) + TermsBonus(t, c, <<1600, 1400, 900, 700, 600>>, 2600)
  + 500 * Cardinality({i \in DOMAIN t : Has(t[i], named)})
  + KindBonus(c) + 50 * KindPriority(c.kind)
  + (IF c.distance > 0 THEN Most(2000 - (c.distance - 1) * 600, 200) ELSE 0)
  + (IF c.depth >= 0 THEN Most(1800 - c.depth * 400, 400) ELSE 0)
  + (CASE c.pub -> 800 [] ~c.pub /\ c.kind = "symbol" -> -200 [] OTHER -> 0)
  + (IF explore THEN ActivityBonus(c, 12, 16, 34) ELSE ActivityBonus(c, 8, 10, 14))
  + 28 * c.relevance
  - If(c.kind = "statement" /\ ~profile.statement, 6000)
  - If(c.symbolKind \in Local /\ ~profile.statement, 2800)
  - If(c.kind \in {"function_body", "type_body"} /\ c.symbolKind \notin Nominal \cup {"", "impl"}, 600)

HeuristicRank(q, cs, profile) ==
  LET before(a, b) == \/ a.score > b.score
                      \/ a.score = b.score /\ KindPriority(a.kind) > KindPriority(b.kind)
                      \/ a.score = b.score /\ KindPriority(a.kind) = KindPriority(b.kind) /\ a.pos < b.pos
  IN  Sort(Each(cs, LAMBDA c : [c EXCEPT !.score = Heuristic(q, c, profile)]), before)

\* qwen_rerank: what the service may answer to n documents
Answers(n) ==
  LET result == [index : -1..n, score : Scores] IN
  UNION {[1..k -> result] : k \in 0..n}

Anything(answer, n) == [i \in DOMAIN answer |-> i]             \* mutant of Usable
\* the results that are taken: in range, and the first of their index
Usable(answer, n) ==
  Ascending({i \in DOMAIN answer : /\ answer[i].index \in 0..(n - 1)
                                   /\ \A j \in 1..(i - 1) : answer[j].index # answer[i].index}, Len(answer))

\* the candidates in the order of the answer, scored by it and by a share of
\* their own score, those it leaves out behind
Reordered(top, answer, share) ==
  LET used    == Usable(answer, Len(top))
      at(u)   == IF answer[u].index \in 0..(Len(top) - 1) THEN answer[u].index + 1 ELSE 1
      left    == {i \in DOMAIN top : \A u \in ToSet(used) : answer[u].index # i - 1}
  IN  Each(used, LAMBDA u : [top[at(u)] EXCEPT !.score = answer[u].score + @ \div share])
      \o Among(top, left)

\* maybe_qwen_rerank: the first RerankTop are reordered, the rest stay
QwenRank(ranked, answer) ==
  Reordered(First(ranked, RerankTop), answer, 1)
    \o SubSeq(ranked, Len(First(ranked, RerankTop)) + 1, Len(ranked))

-----------------------------------------------------------------------------
(* query_embedding_index, and its part in retrieval/staged.py              *)

\* aggregation_key_for
Source(d) == IF d.symbol # 0 THEN <<"symbol", d.symbol>> ELSE <<"path", d.path>>

\* build_retrieval_units
UnitsOf(d) == [k \in 1..(IF d.kind = "file" THEN Chunks ELSE 1) |-> [d EXCEPT !.unit = k]]

ByScore(a, b) ==
  \/ a.score > b.score
  \/ a.score = b.score /\ (a.pos < b.pos \/ (a.pos = b.pos /\ a.unit < b.unit))

LastUnit(s, u) == u                                            \* mutant of BestUnit
BestUnit(s, u) == IF s.score >= u.score THEN s ELSE u

Higher(a, b) == a.score > b.score
HitOf(u) == [unit |-> u.unit, pos |-> u.pos, score |-> u.score]
AddHit(h, u) == First(Sort(Append(h, HitOf(u)), Higher), 3)

\* of each source the best unit, with the three best as its hits
MaxP(units) ==
  LET of(u)   == Where(units, LAMBDA v : Source(v) = Source(u))
      best(u) == [Loop(BestUnit, u, of(u)) EXCEPT !.hits = Loop(AddHit, <<>>, of(u))]
  IN  Sort(Each(Distinct(units, Source), best), ByScore)

\* a vector and its bonuses, external: more for more of the terms, less down the file
Similarity(u, q) == 10 * Cardinality({t \in ToSet(Tokens(q)) : \E w \in u.text : Has(t, <<w>>)}) + 1 - u.unit

QueryEmbeddings(index, q, limit) ==
  LET scored == Each(FlattenSeq(Each(index, UnitsOf)), LAMBDA u : [u EXCEPT !.score = Similarity(u, q)])
  IN  First(MaxP(Where(scored, LAMBDA u : u.score > 0)), limit)

-----------------------------------------------------------------------------
(* retrieval/staged.py                                                     *)

\* build_embedding_score_map: a source is also known by the path of a result
SourceEmbedding(found, source) ==
  LET known == {found[i].score : i \in {j \in DOMAIN found : source \in {Source(found[j]), <<"path", found[j].path>>}}}
  IN  IF known = {} THEN 0 ELSE CHOOSE s \in known : \A r \in known : r <= s

\* exact_query_boost, of a query of one term
ExactBoost(q, d) ==
  LET points(f) == IF Tokens(q) = Lowered(f) THEN 8000 ELSE IF Has(Tokens(q)[1], f) THEN 1200 ELSE 0 IN
  IF Len(Tokens(q)) # 1 THEN 0 ELSE points(d.qname) + points(<<d.name>>) + points(d.path) + points(Title(d))

\* unit_to_candidate; a rank costs a fifth of this in the code
UnitScore(q, found, u, rank) ==
  LET hit == \E i \in DOMAIN found : \E h \in ToSet(found[i].hits) : h.pos = u.pos /\ h.unit = u.unit IN
  u.score + 40 * SourceEmbedding(found, Source(u))
  + TermsPoints(Tokens(q), u, <<300, 300, 300, 300, 300>>) + ExactBoost(q, u) + If(hit, 200) - rank

PathOf(u) == IF u.path # <<>> THEN <<"path", u.path>> ELSE Source(u)

\* no more than UnitCap units of a path or of a source
Capped(units, byPath) ==
  LET key(u) == IF byPath THEN PathOf(u) ELSE Source(u) IN
  Among(units, {i \in DOMAIN units : Cardinality({j \in 1..(i - 1) : key(units[j]) = key(units[i])}) < UnitCap})

\* build_unit_candidates, from the lexical and the embedding results
UnitCandidates(q, lexical, found) ==
  LET scored(i) == Each(UnitsOf(lexical[i]), LAMBDA u : [u EXCEPT !.score = UnitScore(q, found, u, i)])
  IN  Capped(FlattenSeq([i \in DOMAIN lexical |-> scored(i)]), FALSE)

\* sort_units, and select_diverse_units, which counts the units of a path
PreRanked(units, pool) == First(Capped(Sort(units, ByScore), TRUE), pool)

\* qwen_rerank_in_batches: what an answer leaves out keeps its own score
RerankBatch(batch, answer) == Reordered(batch, answer, 100)
=============================================================================
