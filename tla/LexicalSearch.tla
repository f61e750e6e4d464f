---------------------------- MODULE LexicalSearch ----------------------------
(***************************************************************************)
(* The lexical index and its queries: the documents build_documents makes  *)
(* of a repository, the native worker's query_bm25, and the search, file   *)
(* and body lookups of the Tantivy backend.                                *)
(*                                                                         *)
(* Names, paths and queries are sequences of segments; a word of a query   *)
(* is such a sequence, as m::f is.  A document is a record of the fields   *)
(* the ranking looks at, text the terms its content is indexed under.      *)
(* BM25 itself is not modelled: a document scores its Weight for each term *)
(* of the query it has.  Scores are in hundredths.  pos stands for the     *)
(* order of paths and names that breaks ties: files by their place, then   *)
(* symbols by their id.  Packages make documents as the repository does,   *)
(* without a path, and statements make one each; both are left out.        *)
(***************************************************************************)
EXTENDS Integers, FiniteSets, SequencesExt

CONSTANTS
  Lower,    \* Lower[s]: segment s in lower case
  Within,   \* pairs <<a, b>>: a is one of several terms segment b is made of
  Weight,   \* Weight[k]: what BM25 gives a document of kind k for a term
  Fan,      \* <<factor, least>> of the documents asked for, <<12, 120>> in the code
  Collect   \* <<factor, least>> of the documents collected, <<8, 20>> in the code

\* the kinds of the documents
DocumentKinds == {"symbol", "type_body", "function_body", "file", "doc", "directory", "repo"}

ASSUME WeightAssumption ==
  DocumentKinds \subseteq DOMAIN Weight /\ \A k \in DOMAIN Weight : Weight[k] \in Nat \ {0}
ASSUME SegmentAssumption == {"", "repo"} \subseteq DOMAIN Lower /\ Lower \in [DOMAIN Lower -> DOMAIN Lower]
ASSUME FanAssumption == Fan \in Nat \X Nat /\ Collect \in Nat \X Nat

Most(a, b)  == IF a >= b THEN a ELSE b
Each(s, F(_)) == [i \in DOMAIN s |-> F(s[i])]
First(s, n) == SubSeq(s, 1, IF n < Len(s) THEN n ELSE Len(s))

\* FoldLeft, by the number of elements taken
Loop(step(_, _), base, s) ==
  LET f[k \in 0..Len(s)] == IF k = 0 THEN base ELSE step(f[k - 1], s[k]) IN f[Len(s)]

\* the numbers of I up to n, and the elements of s at them, in their order
Ascending(I, n) ==
  LET f[k \in 0..n] == IF k = 0 THEN <<>> ELSE IF k \in I THEN Append(f[k - 1], k) ELSE f[k - 1] IN f[n]
\* s, its elements evaluated once
Once(s) == SubSeq(s, 1, Len(s))
Among(s, I) == LET t == Once(s) IN Each(Ascending(I, Len(t)), LAMBDA i : t[i])
Where(s, P(_)) == LET t == Once(s) IN Among(t, {i \in DOMAIN t : P(t[i])})
Distinct(s, Same(_)) ==
  LET t == Once(s) IN Among(t, {i \in DOMAIN t : \A j \in 1..(i - 1) : Same(t[j]) # Same(t[i])})

\* the numbers up to n, each inserted before those it is to precede, and a stable sort
Arranged(n, precedes) ==
  LET insert(a, k) == InsertAt(a, Cardinality({i \in 1..(k - 1) : <<k, a[i]>> \notin precedes}) + 1, k)
      f[k \in 0..n] == IF k = 0 THEN <<>> ELSE insert(f[k - 1], k)
  IN  f[n]
Sort(s, before(_, _)) ==
  LET t == Once(s)
      precedes == {x \in (DOMAIN t) \X (DOMAIN t) : before(t[x[1]], t[x[2]])}
  IN  Each(Arranged(Len(t), precedes), LAMBDA i : t[i])

Grow(limit, by) == Most(limit * by[1], by[2])
If(b, n) == IF b THEN n ELSE 0

Lowered(s) == [i \in DOMAIN s |-> Lower[s[i]]]

\* a query: its words, whether they are paths, and its symbol id if it is one
Words(ws) == [words |-> ws, slash |-> FALSE, id |-> 0]
ByPath(p) == [words |-> <<p>>, slash |-> TRUE, id |-> 0]
ById(n)   == [words |-> << <<"sym">> >>, slash |-> FALSE, id |-> n]
Tokens(q) == Lowered(FlattenSeq(q.words))
IsName(q) == Len(q.words) = 1 /\ q.id = 0 /\ ~q.slash
Asked(q)  == Lowered(q.words[1])

\* term t occurs in the segments s, alone or as a term of one of them
Has(t, s) == \E i \in DOMAIN s : t = Lower[s[i]] \/ <<t, Lower[s[i]]>> \in Within

\* part is a window of the segments of whole
Window(part, whole) ==
  /\ part # <<>>
  /\ \E i \in 0..(Len(whole) - Len(part)) : SubSeq(whole, i + 1, i + Len(part)) = part

\* the query as it is written, in lower case, is part of the path or the text s,
\* of the qualified name s
InText(q, s) == IsName(q) /\ Len(Asked(q)) = 1 /\ Has(Asked(q)[1], s)
PartOf(q, s) == InText(q, s) \/ (IsName(q) /\ Window(Asked(q), Lowered(s)))

-----------------------------------------------------------------------------
(* The documents of a repository.                                          *)

Callable == {"function", "method", "associated_function"}
Nominal  == {"struct", "trait", "enum", "type"}
Local    == {"local", "field", "parameter", "variable"}

Blank ==
  [kind |-> "", path |-> <<>>, name |-> "", qname |-> <<>>, symbol |-> 0, text |-> {},
   symbolKind |-> "", pub |-> FALSE, activity |-> 0, pos |-> 0, score |-> 0,
   reasons |-> {}, distance |-> 0, depth |-> -1, relevance |-> 0,
   unit |-> 0, hits |-> <<>>]

\* semantic_activity_score: the calls, the reads and the other lists of the
\* semantic summary by their weights, up to 240
Activity(s) ==
  LET weighted == 400 * Cardinality(s.calls) + 125 * Cardinality(s.reads) + s.more
  IN  (7 * (IF weighted <= 24000 THEN weighted ELSE 24000)) \div 10

SymbolDoc(s) ==
  [Blank EXCEPT !.kind = "symbol", !.path = s.path, !.name = s.name, !.qname = s.qname,
                !.symbol = s.id, !.symbolKind = s.kind, !.pub = s.pub, !.activity = Activity(s),
                !.pos = 1000 + 10 * s.id,
                !.text = ToSet(Lowered(s.qname \o s.path))]

\* symbol_body_kind of the index, which leaves out the associated functions
Bodied(s) == s.kind \in {"function", "method"} \cup Nominal \cup {"impl"}
BodyKind(s) == IF s.kind \in Nominal \cup {"impl"} THEN "type_body" ELSE "function_body"
BodyDoc(s) == [SymbolDoc(s) EXCEPT !.kind = BodyKind(s), !.text = @ \cup s.body, !.activity = 0, !.pos = @ + 1]
NoteDoc(s) == [SymbolDoc(s) EXCEPT !.kind = "doc", !.text = @ \cup s.note, !.activity = 0, !.pos = @ + 2]

RepoDoc == [Blank EXCEPT !.kind = "repo", !.name = "repo", !.text = {"repo"}]
PathDoc(kind, path, text, pos) ==
  [Blank EXCEPT !.kind = kind, !.path = path, !.name = Last(path), !.pos = pos,
                !.text = ToSet(Lowered(path)) \cup text]
DirectoryDoc(repo, i) == PathDoc("directory", repo.directories[i], {}, i)
FileDoc(repo, i) == PathDoc("file", repo.files[i].path, repo.files[i].text, 100 + i)

\* build_documents, in the order it yields them
Documents(repo) ==
  LET of(s) == <<SymbolDoc(s)>> \o (IF Bodied(s) /\ s.body # {} THEN <<BodyDoc(s)>> ELSE <<>>)
                                \o (IF s.note # {} THEN <<NoteDoc(s)>> ELSE <<>>)
  IN  <<RepoDoc>>
      \o [i \in DOMAIN repo.directories |-> DirectoryDoc(repo, i)]
      \o [i \in DOMAIN repo.files |-> FileDoc(repo, i)]
      \o FlattenSeq(Each(repo.symbols, of))

-----------------------------------------------------------------------------
(* query_bm25 of the native worker.                                        *)

Bm25(d, terms) == Weight[d.kind] * Cardinality({t \in terms : \E w \in d.text : Has(t, <<w>>)})

\* the prefix is one of the text, so that it also takes a sibling
UnderText(path, prefix) ==
  /\ path # <<>> /\ Len(prefix) <= Len(path)
  /\ Front(prefix) = SubSeq(path, 1, Len(prefix) - 1)
  /\ Has(Last(prefix), <<path[Len(prefix)]>>)

Passes(d, kinds, prefix) ==
  /\ kinds = {} \/ d.kind \in kinds
  /\ prefix = <<>> \/ UnderText(d.path, prefix)

Filtered(top, limit, kinds, prefix) ==
  First(Where(top, LAMBDA d : Passes(d, kinds, prefix)), limit)

Better(a, b) == a.score > b.score \/ (a.score = b.score /\ a.pos < b.pos)

\* a query of terms: collected by score, then filtered
QueryTerms(index, terms, limit, kinds, prefix) ==
  LET scored == Each(index, LAMBDA d : [d EXCEPT !.score = Bm25(d, terms)])
      hits   == Sort(Where(scored, LAMBDA d : d.score > 0), Better)
  IN  Filtered(First(hits, Grow(limit, Collect)), limit, kinds, prefix)

\* the query of everything collects no more than it is asked for
QueryAll(index, limit, kinds, prefix) ==
  Filtered(First(Each(index, LAMBDA d : [d EXCEPT !.score = 100]), Most(limit, 1)), limit, kinds, prefix)

QuerySymbol(index, symbol, limit, kinds) ==
  Filtered(First(Where(index, LAMBDA d : d.symbol = symbol), Grow(limit, Collect)), limit, kinds, <<>>)

-----------------------------------------------------------------------------
(* Ranking: what score_search_result and rerank_candidates have in common. *)

RankKind == [symbol |-> 3000, type_body |-> 1600, function_body |-> 1200, file |-> 800, doc |-> 800,
             directory |-> 200, repo |-> 0, statement |-> -3500]
RankSymbolKind(k) ==
  CASE k = "trait" -> 2400 [] k = "struct" -> 2200 [] k = "enum" -> 2000 [] k = "type" -> 1800
    [] k = "impl" -> 1400 [] k = "module" -> 900
    [] k = "associated_function" -> 700 [] k = "method" -> 600 [] k = "function" -> 500
    [] k \in {"const", "static"} -> -800 [] k = "field" -> -1800
    [] k = "local" -> -2400 [] k \in {"parameter", "variable"} -> -2000 [] OTHER -> 0

\* the query is the name, the qualified name or the end of it
NameBonus(q, d) ==
  IF ~IsName(q) THEN 0
  ELSE If(Asked(q) = Lowered(d.qname), 18000) + If(Asked(q) = Lowered(<<d.name>>), 15000)
       + If(IsStrictSuffix(Asked(q), Lowered(d.qname)), 11000)

Title(d) == IF d.qname # <<>> THEN d.qname ELSE d.path

\* the first field that has a term: qualified name, name, title, preview or path, or none
Missed == 6
InField(t, d, field) ==
  CASE field = 1 -> Has(t, d.qname) [] field = 2 -> Has(t, <<d.name>>) [] field = 3 -> Has(t, Title(d))
    [] field = 4 -> \E w \in d.text : Has(t, <<w>>) [] OTHER -> Has(t, d.path)
FieldOf(t, d) == Min({field \in 1..5 : InField(t, d, field)} \cup {Missed})
FieldsOf(terms, d) == Once(Each(terms, LAMBDA t : FieldOf(t, d)))

\* points for the terms by these fields, a bonus when all are found and a malus when none is
FieldPoints(fields, points) ==
  LET n(field) == Cardinality({i \in DOMAIN fields : fields[i] = field})
  IN  n(1) * points[1] + n(2) * points[2] + n(3) * points[3] + n(4) * points[4] + n(5) * points[5]
FieldBonus(fields, points, all) ==
  FieldPoints(fields, points)
  + (IF fields = <<>> THEN 0 ELSE IF Missed \notin ToSet(fields) THEN all ELSE IF ToSet(fields) = {Missed} THEN -1800 ELSE 0)

TermsPoints(terms, d, points)     == FieldPoints(FieldsOf(terms, d), points)
TermsBonus(terms, d, points, all) == FieldBonus(FieldsOf(terms, d), points, all)

\* the share of the activity in percent, by the kind of symbol
ActivityBonus(d, nominal, impl, callable) ==
  IF d.kind # "symbol" THEN 0
  ELSE LET share == CASE d.symbolKind \in Nominal -> nominal [] d.symbolKind = "impl" -> impl
                      [] d.symbolKind \in Callable -> callable [] OTHER -> 0
       IN  (d.activity * share) \div 100

KindBonus(d) == RankKind[d.kind] + RankSymbolKind(d.symbolKind)
StatementHints == {"statement", "statements", "line", "lines", "expr", "let", "local", "locals"}
AsksStatement(q) == ToSet(Tokens(q)) \cap StatementHints # {}

-----------------------------------------------------------------------------
(* TantivySearchBackend                                                    *)

\* build_query_variants: the whole query, and windows of two and three terms
Variants(q) ==
  LET t == Tokens(q) IN
  {t} \cup {SubSeq(t, w[1], w[2]) : w \in {x \in (1..Len(t)) \X (1..Len(t)) : Len(t) >= 3 /\ x[2] - x[1] \in {1, 2}}}

\* score_search_result, of the best score of the variants and their number
SearchScore(q, d, native, hits) ==
  LET t == Tokens(q) IN
  native + NameBonus(q, d) + TermsBonus(t, d, <<1600, 1400, 1000, 800, 700>>, 2400)
  + KindBonus(d) + If(d.pub, 800) + ActivityBonus(d, 8, 10, 14)
  + 400 * (IF hits > 4 THEN 3 ELSE hits - 1)
  - If(d.symbolKind \in Local /\ ~AsksStatement(q), 3000)
  + If(PartOf(q, d.qname) \/ InText(q, Title(d)), 1800)
  + If(\E w \in d.text : InText(q, <<w>>), 1200) + If(InText(q, d.path), 1600)

KindPlace(k) ==
  CASE k = "symbol" -> 0 [] k = "type_body" -> 1 [] k = "function_body" -> 2 [] k = "file" -> 3
    [] k = "directory" -> 4 [] k = "doc" -> 6 [] OTHER -> 99

\* found: the variants with the documents they were answered with
HitsOf(found, d) == {h \in found : h[2].pos = d.pos}
NativeScore(found, d) ==
  LET scores == {h[2].score : h \in HitsOf(found, d)} IN CHOOSE n \in scores : \A m \in scores : m <= n

\* rerank_search_results
Rescored(found, index, q, limit) ==
  LET variants(d) == {h[1] : h \in HitsOf(found, d)}
      scored(d) == [d EXCEPT !.score = SearchScore(q, d, NativeScore(found, d), Cardinality(variants(d)))]
      before(a, b) == \/ a.score > b.score
                      \/ a.score = b.score /\ KindPlace(a.kind) < KindPlace(b.kind)
                      \/ a.score = b.score /\ a.kind = b.kind /\ a.pos < b.pos
  IN  First(Sort(Each(Where(index, LAMBDA d : HitsOf(found, d) # {}), scored), before), limit)

Search(index, q, limit, kinds, prefix) ==
  LET answer(v) == QueryTerms(index, ToSet(v), Grow(limit, Fan), kinds, prefix)
  IN  Rescored(UNION {{<<v, d>> : d \in ToSet(answer(v))} : v \in Variants(q)}, index, q, limit)

ListDocuments(index, limit, kinds, prefix) == First(QueryAll(index, limit, kinds, prefix), limit)

\* lookup_symbol_docs: the body in the store, else the documents of the index
LookupSymbolDocs(store, index, symbol, kinds, limit) ==
  LET s == {x \in ToSet(store.symbols) : x.id = symbol /\ x.body # {}}
      b == {d \in {BodyDoc(x) : x \in s} : kinds = {} \/ d.kind \in kinds}
  IN  IF b # {} THEN <<[(CHOOSE d \in b : TRUE) EXCEPT !.score = 100]>>
      ELSE First(QuerySymbol(index, symbol, Most(4 * limit, 20), kinds), limit)
=============================================================================
