---------------------------- MODULE SymbolIndex ----------------------------
(***************************************************************************)
(* build_symbol_index once its files are parsed: the passes that turn the  *)
(* symbols, imports and body lines of every file into records that name    *)
(* each other.  Resolution is by name, no compiler runs, so a pass is only *)
(* as good as what the passes before it have left behind.                  *)
(*                                                                         *)
(* A path a::b is a sequence of segments, an identifier a path of one      *)
(* segment, and a body line is what the regular expressions of the indexer *)
(* find in it.  The id of a symbol is its place in the list: the hash it   *)
(* stands for covers the path and the place in the file.  Lists of targets *)
(* are sets: where one is cut short, any of its members may be those the   *)
(* order of lines and names puts first, and a target written under two     *)
(* names counts once.  Left out: texts and columns, records of other       *)
(* providers (ctags, tree-sitter, SCIP) and functions inside functions.    *)
(***************************************************************************)
EXTENDS Integers, Sequences, FiniteSets

CONSTANTS
  Repos,     \* families of parsed repositories a build may start from
  Words,     \* segments an identifier may be: no member's text and not what names a local
  Upper,     \* segments that begin with an upper-case letter, the others with a lower-case one
  Reserved,  \* keywords and primitive types
  Dot,       \* Dot[<<r, m>>] is the text r.m, which is one segment
  TargetCap,   \* MAX_SEMANTIC_TARGETS
  FrontierCap  \* MAX_SEMANTIC_FRONTIER

ASSUME CapAssumption == TargetCap \in Nat \ {0} /\ FrontierCap \in Nat \ {0}

LastSeg(e) == e[Len(e)]
Path       == Seq(Words) \ {<<>>}

-----------------------------------------------------------------------------
(* What a body line says *)

Calls(l)  == l.calls \cup {<<p[2]>> : p \in l.mcalls}   \* r.m( also reads as m(
Dots(ps)  == {Dot[p] : p \in ps}
Segs(es)  == UNION {{e[k] : k \in DOMAIN e} : e \in es}

\* Every identifier of the text.
Tokens(l) == l.lets \cup l.lhs \cup l.idents \cup Segs(l.calls \cup l.paths)
               \cup Segs(l.members \cup l.mcalls \cup l.fields)

\* A read leaves out what the line binds, writes or calls.
Excluded(l) == l.lets \cup l.lhs \cup Dots(l.members \cup l.mcalls)
                 \cup {LastSeg(e) : e \in {c \in Calls(l) : Len(c) = 1}}

\* Every expression of the line, of which each list of its statement has some.
Expressions(l) ==
  {<<x>> : x \in Tokens(l) \cup Dots(l.fields \cup l.members \cup l.mcalls)} \cup Calls(l) \cup l.paths

\* A line of braces holds them, and at most an `else`.
LineOK(l) ==
  /\ l.lets \cup l.lhs \cup l.idents \subseteq Words
  /\ l.calls \cup l.paths \subseteq Path
  /\ l.members \cup l.mcalls \cup l.fields \subseteq DOMAIN Dot
  /\ l.kind = "brace" => Tokens(l) \subseteq Reserved

-----------------------------------------------------------------------------
(* The parsed repository *)

FileOK(f) ==
  /\ f.root \in Path /\ f.module \in Path
  /\ DOMAIN f.deps \subseteq Words /\ \A d \in DOMAIN f.deps : f.deps[d] \in Path

\* What tells the locals of one name apart is the line, which no source can
\* write in an identifier; anything else is called what the source calls it.
SymbolOK(s) ==
  /\ s.name \in Words /\ s.module \in Path
  /\ s.seg \in Words <=> s.kind # "local"
  /\ s.implTarget \in Seq(Words) /\ s.implTrait \in Seq(Words)
  /\ s.kind = "impl" => s.implTarget # <<>>
  /\ \A k \in DOMAIN s.body : LineOK(s.body[k])

\* extract_local_variables: each `let` on a line of a function has a local of
\* that line.
LocalsMade(r) ==
  \A i \in {n \in DOMAIN r.symbols : r.symbols[n].kind \in {"function", "method"}} :
    \A k \in DOMAIN r.symbols[i].body : \A x \in r.symbols[i].body[k].lets :
      \E j \in DOMAIN r.symbols : r.symbols[j].kind = "local" /\ r.symbols[j].name = x
                                 /\ r.symbols[j].container = i /\ r.symbols[j].line = k

\* Symbols come file by file, a container before what it contains.  Places
\* are from 1, and 0 is no place.
WellFormed(r) ==
  /\ \A f \in DOMAIN r.files : Len(r.files[f].dir) \in Nat /\ FileOK(r.files[f])
  /\ Len(r.symbols) \in Nat /\ DOMAIN r.symbols = 1..Len(r.symbols)
  /\ Len(r.imports) \in Nat /\ DOMAIN r.imports = 1..Len(r.imports)
  /\ \A i \in DOMAIN r.symbols :
       /\ r.symbols[i].file \in DOMAIN r.files
       /\ r.symbols[i].container \in 0..(i - 1)
       /\ Len(r.symbols[i].body) \in Nat
       /\ DOMAIN r.symbols[i].body = 1..Len(r.symbols[i].body)
       /\ SymbolOK(r.symbols[i])
  /\ \A k \in DOMAIN r.imports :
       /\ r.imports[k].file \in DOMAIN r.files
       /\ r.imports[k].container \in {0} \cup DOMAIN r.symbols
       /\ r.imports[k].target \in Path
  /\ LocalsMade(r)

ASSUME DotAssumption == DOMAIN Dot \subseteq Words \X Words /\ \A p \in DOMAIN Dot : Dot[p] \notin Words
ASSUME RepoAssumption == \A k \in DOMAIN Repos : \A r \in Repos[k] : WellFormed(r)

VARIABLES
  repo,      \* the parsed repository, which no pass changes
  pass,      \* the pass that runs next
  cursor,    \* imports: those before it have a record
  qname,     \* qualified names, the heart of the resolution index
  aliases,   \* aliases[f]: what each name imported by file f stands for
  imports,   \* import records: what each import resolves to
  impls,     \* what the target and the trait of each impl resolve to
  supers,    \* what the parents of each trait resolve to
  refs,      \* reference records
  stmts,     \* statement records
  summary    \* semantic summary of each symbol

index == <<repo, pass, cursor, qname, aliases, imports, impls, supers, refs, stmts, summary>>

Ids        == DOMAIN repo.symbols
Sym(i)     == repo.symbols[i]
FileOf(i)  == repo.files[Sym(i).file]
IsFunction(i) == Sym(i).kind \in {"function", "method"}
Functions  == {i \in Ids : IsFunction(i)}
NoSelf     == <<>>          \* no self target

Prefix(p, q) == Len(p) < Len(q) /\ SubSeq(q, 1, Len(p)) = p

-----------------------------------------------------------------------------
(* Paths *)

\* `super::` is taken off the front as long as something follows it.
SuperPath(e, module, root) ==
  LET n == Cardinality({k \in 1..(Len(e) - 1) : \A j \in 1..k : e[j] = "super"})
  IN (IF n < Len(module) THEN SubSeq(module, 1, Len(module) - n) ELSE root)
       \o SubSeq(e, n + 1, Len(e))

Normalize(e, module, file, self) ==
  LET x == Head(e)
  IN IF x = "Self" /\ self # NoSelf        THEN self \o Tail(e)
     ELSE IF x = "crate" /\ Len(e) > 1     THEN file.root \o Tail(e)
     ELSE IF x = "super" /\ Len(e) > 1     THEN SuperPath(e, module, file.root)
     ELSE IF x \in DOMAIN file.deps        THEN file.deps[x] \o Tail(e)
     ELSE IF Len(e) = 1 /\ x \in Upper     THEN module \o e
     ELSE e

\* A method of an impl is named after the type, anything else after what
\* contains it.
QualifiedNames ==
  LET q[i \in Ids] ==
        LET c == Sym(i).container
        IN (CASE c = 0 -> Sym(i).module
              [] c # 0 /\ Sym(i).kind = "method" /\ Sym(c).kind = "impl" ->
                   Normalize(Sym(c).implTarget, Sym(i).module, FileOf(i), NoSelf)
              [] OTHER -> q[c]) \o <<Sym(i).seg>>
  IN q

-----------------------------------------------------------------------------
(* Resolution of one path *)

Unresolved(e) == [id |-> 0, name |-> e, hint |-> e]
Resolved(i, h) == [id |-> i, name |-> qname[i], hint |-> h]

\* Where a path is read: its file and what is imported there, its module,
\* container and own name.
Context(i) == [file |-> Sym(i).file, known |-> aliases[Sym(i).file],
               module |-> Sym(i).module, own |-> Sym(i).name,
               outer |-> IF Sym(i).container = 0 THEN NoSelf ELSE qname[Sym(i).container]]

\* by_qname keeps the first symbol of a name.
Exact(q) == {i \in Ids : qname[i] = q /\ \A j \in 1..(i - 1) : qname[j] # q}

LocalsOf(scope, x) ==
  {i \in Ids : Sym(i).kind = "local" /\ Sym(i).container = scope /\ Sym(i).name = x}

Imported(known, x) == IF x \in DOMAIN known THEN known[x] ELSE <<>>

If(condition, p) == IF condition THEN <<p>> ELSE <<>>

\* expand_reference_candidates: the qualified names a path may mean, the
\* likeliest first (repetitions do no harm and stay).
Candidates(e, at, self) ==
  LET file == repo.files[at.file]
      x    == Head(e)
      full == If(x = "Self" /\ self # NoSelf, self \o Tail(e))
                \o If(x = "crate", file.root \o Tail(e))
                \o If(x = "super", SuperPath(e, at.module, file.root))
                \o [k \in DOMAIN Imported(at.known, x) |-> Imported(at.known, x)[k] \o Tail(e)]
                \o <<e>>
  IN IF Len(e) = 1
     THEN Imported(at.known, x)
            \o (IF x \in DOMAIN file.deps THEN <<file.deps[x]>> ELSE <<>>)
            \o If(self # NoSelf /\ x \notin Upper, self \o e)
            \o <<at.module \o e>>
            \o If(x \in Upper, file.root \o e)
            \o <<e>>
     ELSE [k \in DOMAIN full |-> Normalize(full[k], at.module, file, self)]

Points(condition, n) == IF condition THEN n ELSE 0

Score(i, names, at, self) ==
  LET file  == repo.files[at.file]
      roots == {Head(at.module), Head(file.root)} \cup {Head(file.deps[d]) : d \in DOMAIN file.deps}
  IN   Points(\E k \in DOMAIN names : names[k] = qname[i], 100)
     + Points(Head(qname[i]) \in roots, 40)
     + Points(FileOf(i).root = file.root, 20)
     + Points(Sym(i).file = at.file, 15)
     + Points(Sym(i).module = at.module, 15)
     + Points(Prefix(at.module, qname[i]), 10)
     + Points(at.outer # NoSelf /\ Prefix(at.outer, qname[i]), 25)
     + Points(self # NoSelf /\ Prefix(self, qname[i]), 25)
     - Points(Sym(i).name = at.own, 5)

\* pick_best_symbol_candidate: the symbol of that name with the best score,
\* unless it has none above 0 or shares it.
Best(names, x, at, self) ==
  {i \in Ids :
     /\ Sym(i).name = x /\ Score(i, names, at, self) > 0
     /\ \A j \in Ids \ {i} :
          Sym(j).name = x => Score(j, names, at, self) < Score(i, names, at, self)}

Only(S) == CHOOSE x \in S : TRUE

\* The first of the candidates that names a symbol.
Hit(names) ==
  {k \in DOMAIN names : Exact(names[k]) # {} /\ \A j \in 1..(k - 1) : Exact(names[j]) = {}}

Resolve(e, at, scope, self) ==
  LET names == Candidates(e, at, self)
      local == IF Len(e) = 1 /\ scope # 0 THEN LocalsOf(scope, Head(e)) ELSE {}
      best  == Best(names, LastSeg(e), at, self)
      q     == names[Only(Hit(names))]
  IN IF e = <<>> \/ (Len(e) = 1 /\ Head(e) \in Reserved) THEN Unresolved(e)
     ELSE IF \E i \in local : local = {i} THEN Resolved(Only(local), qname[Only(local)])
     ELSE IF Hit(names) # {} THEN Resolved(Only(Exact(q)), q)
     ELSE IF best # {} THEN Resolved(Only(best), qname[Only(best)])
     ELSE Unresolved(names[1])

\* infer_self_target: inside an impl, what its target resolves to.
SelfOf(i) ==
  LET c == Sym(i).container
  IN IF c # 0 /\ Sym(c).kind = "impl" THEN impls[c].target.name ELSE NoSelf

\* A path read inside symbol i.
ResolveIn(i, e) == Resolve(e, Context(i), i, SelfOf(i))

\* resolve_member_expression: r.m means a member of the self target, or of a
\* receiver written like a type; of any other receiver nothing is known.
ResolveMember(i, p) ==
  LET owner == IF p[1] \in {"self", "Self"} /\ SelfOf(i) # NoSelf THEN SelfOf(i)
               ELSE IF p[1] \in Upper \ Reserved THEN ResolveIn(i, <<p[1]>>).name
               ELSE NoSelf
  IN IF owner = NoSelf THEN Unresolved(<<Dot[p]>>) ELSE ResolveIn(i, owner \o <<p[2]>>)

\* What an edge to a resolution points at: the symbol or, by name, a
\* reference node.
Target(r) == IF r.id # 0 THEN <<"sym", r.id>> ELSE <<"ref", r.name>>

-----------------------------------------------------------------------------
(* What the passes keep of the lines of a body *)

\* What build_reference_records finds in symbol i, in the order of its loops:
\* [rank, kind, line, to], line 0 being the signature, where a function's own
\* name reads as a call.
Found(i) ==
  LET s == Sym(i)
      Lines == DOMAIN s.body
      Item(rank, kind, k, r) == [rank |-> rank, kind |-> kind, line |-> k,
                                 hint |-> r.hint, to |-> Target(r)]
      \* the text of a member is what it resolved to, and is resolved again
      Again(p) == ResolveIn(i, ResolveMember(i, p).name)
      body ==
             {Item(2, "call", 0, ResolveIn(i, <<s.name>>))}
        \cup (UNION {{Item(2, "call", k, ResolveIn(i, e)) : e \in Calls(s.body[k])} : k \in Lines})
        \cup (UNION {{Item(3, "call", k, Again(p)) : p \in s.body[k].mcalls} : k \in Lines})
        \cup (UNION {{Item(4, "use", k, ResolveIn(i, e)) : e \in s.body[k].paths} : k \in Lines})
        \cup UNION {{Item(5, "use", k, Again(p)) :
                       p \in s.body[k].fields \cup s.body[k].members} : k \in Lines}
  IN (IF IsFunction(i) \/ s.kind \in {"struct", "enum", "trait", "field"}
      THEN {Item(1, "use", 0, ResolveIn(i, e)) : e \in s.sig} ELSE {})
       \cup (IF IsFunction(i) THEN body ELSE {})

\* Mutant for ViewsAgree: the key of a reference leaves out the line.
OncePerName(i) ==
  LET kept == {x \in Found(i) : x.hint # qname[i]}
  IN {[from |-> i, kind |-> x.kind, line |-> x.line, to |-> x.to] :
        x \in {y \in kept : ~ \E z \in kept :
                  z.line > y.line /\ z.kind = y.kind /\ z.hint = y.hint}}

\* add_reference_record: a reference to the symbol itself is dropped, and of
\* two with the same key the later one stays.
References(i) ==
  LET kept == {x \in Found(i) : x.hint # qname[i]}
  IN {[from |-> i, kind |-> x.kind, line |-> x.line, to |-> x.to] :
        x \in {y \in kept : ~ \E z \in kept :
                  /\ z.rank > y.rank
                  /\ z.kind = y.kind /\ z.line = y.line /\ z.hint = y.hint}}

\* Lines of braces only are not statements.
StatementLines(i) == {k \in DOMAIN Sym(i).body : Sym(i).body[k].kind # "brace"}

\* How deep in braces each line stands, past those it closes first.
Depth(body) ==
  LET before[k \in DOMAIN body] ==
        IF k = 1 THEN 1 ELSE before[k - 1] + body[k - 1].open - body[k - 1].close
  IN [k \in DOMAIN body |->
        IF before[k] - body[k].close < 1 THEN 1 ELSE before[k] - body[k].close]

\* control_stack at line k: no line since has gone below what it opened.
Enclosing(i, k) ==
  LET body == Sym(i).body
      depth == Depth(body)
  IN {c \in StatementLines(i) :
        /\ c < k /\ body[c].kind = "control" /\ body[c].open > 0
        /\ \A m \in (c + 1)..k : depth[m] >= depth[c] + body[c].open}

ControlParent(i, k) == {c \in Enclosing(i, k) : \A d \in Enclosing(i, k) : d <= c}

PreviousStatement(i, k) ==
  {j \in StatementLines(i) : j < k /\ \A m \in StatementLines(i) : m <= j \/ m >= k}

Statement(i, k) ==
  LET l == Sym(i).body[k]
      Local(x) == {j \in LocalsOf(i, x) : Sym(j).line = k}
      Members(ps) == {Target(ResolveMember(i, p)) : p \in ps}
      Paths(es)   == {Target(ResolveIn(i, e)) : e \in es}
  IN [fn |-> i, line |-> k,
      previous |-> PreviousStatement(i, k),
      parent   |-> ControlParent(i, k),
      defines  |-> UNION {IF Local(x) = {} THEN {<<"ref", <<x>>>>} ELSE {<<"sym", j>> : j \in Local(x)} :
                            x \in l.lets},
      writes   |-> Paths({<<x>> : x \in l.lhs}) \cup Members(l.members),
      calls    |-> Paths(Calls(l)) \cup Members(l.mcalls),
      reads    |-> Members({p \in l.fields : Dot[p] \notin Excluded(l)})
                     \cup Paths(l.paths \ l.calls)
                     \cup (Paths({<<x>> : x \in Tokens(l) \ (Excluded(l) \cup Reserved)})
                              \ {<<"ref", <<x>>>> : x \in Tokens(l) \ Upper})]

-----------------------------------------------------------------------------
(* Semantic summaries *)

DirectCalls(i) == {r.to : r \in {x \in refs : x.from = i /\ x.kind = "call"}}
Callees(targets) == {t[2] : t \in {x \in targets : x[1] = "sym"}}

\* What a list of these becomes when it may have `cap` of them.
Cuts(S, cap) == IF Cardinality(S) <= cap THEN {S} ELSE {T \in SUBSET S : Cardinality(T) = cap}

\* The ways to take one of options[k] for each k.
Selections(options) ==
  LET open == {k \in DOMAIN options : ~ \E x \in options[k] : options[k] = {x}}
  IN {[k \in DOMAIN options |-> IF k \in open THEN taken[k] ELSE CHOOSE x \in options[k] : TRUE] :
        taken \in {c \in [open -> UNION {options[k] : k \in open}] :
                     \A k \in open : c[k] \in options[k]}}

\* Mutant for TransitiveIsReach: a walk that never expands where it began.
BeginExpanded(i, direct) ==
  [seen |-> {i}, frontier |-> Callees(direct[i]), found |-> {}, levels |-> {}]

\* A walk along direct calls: the symbols it has expanded, those it found and
\* may not have expanded, the targets it came by, now and after each level.
Begin(i, direct) ==
  [seen |-> {}, frontier |-> Callees(direct[i]), found |-> {}, levels |-> {}]

\* One level: each symbol of the frontier is expanded once (one by_id does not
\* know adds nothing), and as many of its calls as there is room for are the
\* next frontier.  With `fresh` only calls of symbols not expanded take room.
Deeper(w, direct, own, fresh) ==
  LET new   == w.frontier \ w.seen
      found == w.found \cup UNION {own[j] : j \in new \cap Ids}
      calls == UNION {{<<j, t>> : t \in direct[j]} : j \in new \cap Ids}
      next  == {c \in calls : fresh => c[2][1] = "sym" /\ c[2][2] \notin w.seen}
  IN {[seen |-> w.seen \cup new, frontier |-> Callees({c[2] : c \in kept}),
       found |-> found, levels |-> w.levels \cup {found}] : kept \in Cuts(next, FrontierCap)}

Further(walks, direct, own, fresh) == UNION {Deeper(w, direct, own, fresh) : w \in walks}

\* The list a walk leaves: it ends where it is full, each level before the next.
Listed(walks) ==
  UNION {{T \in Cuts(w.found, TargetCap) : \A l \in w.levels : l \subseteq T \/ T \subseteq l} :
           w \in walks}

\* compute_transitive_calls, of two levels
TransitiveCalls(i, direct) ==
  Listed(Further(Further({Begin(i, direct)}, direct, direct, FALSE), direct, direct, FALSE))

\* compute_interprocedural_targets, of three
Interprocedural(i, direct, own) ==
  Listed(Further(Further(Further({Begin(i, direct)}, direct, own, TRUE), direct, own, TRUE),
                 direct, own, TRUE))

NoSummary == [calls |-> {}, reads |-> {}, writes |-> {}, uses |-> {},
              transitive |-> {}, farReads |-> {}, farWrites |-> {}, farUses |-> {}]

Field(f) == [i \in Ids |-> summary[i][f]]

-----------------------------------------------------------------------------
(* The passes *)

IndexInit ==
  /\ \E k \in DOMAIN Repos : repo \in Repos[k]
  /\ pass = "records" /\ cursor = 1
  /\ qname = <<>>
  /\ aliases = [f \in DOMAIN repo.files |-> <<>>]
  /\ imports = {} /\ refs = {} /\ stmts = {}
  /\ impls = <<>> /\ supers = {} /\ summary = <<>>

\* Records and build_resolution_index; an impl is not resolved yet.
BuildRecords ==
  /\ pass = "records" /\ pass' = "imports"
  /\ qname' = QualifiedNames
  /\ impls' = [i \in {j \in Ids : Sym(j).kind = "impl"} |->
                 [target |-> Unresolved(Sym(i).implTarget), trait |-> Unresolved(Sym(i).implTrait)]]
  /\ UNCHANGED <<repo, cursor, aliases, imports, supers, refs, stmts, summary>>

\* One import: its alias is entered first, so it and those after it see it.
BuildImport ==
  /\ pass = "imports" /\ cursor <= Len(repo.imports)
  /\ LET m    == repo.imports[cursor]
         file == repo.files[m.file]
         path == Normalize(m.target, file.module, file, NoSelf)
         name == IF m.alias = "" THEN LastSeg(path) ELSE m.alias
         old  == Imported(aliases[m.file], name)
         new  == IF \E k \in DOMAIN old : old[k] = path THEN old ELSE Append(old, path)
         known == [x \in DOMAIN aliases[m.file] \cup {name} |->
                    IF x = name THEN new ELSE aliases[m.file][x]]
         at   == [file |-> m.file, known |-> known, module |-> file.module, own |-> "",
                  outer |-> IF m.container = 0 THEN NoSelf ELSE qname[m.container]]
     IN /\ aliases' = [aliases EXCEPT ![m.file] = known]
        /\ imports' = imports \cup
              {[file |-> m.file, container |-> m.container,
                to |-> Target(Resolve(m.target, at, 0, NoSelf))]}
  /\ cursor' = cursor + 1
  /\ UNCHANGED <<repo, pass, qname, impls, supers, refs, stmts, summary>>

ImportsDone ==
  /\ pass = "imports" /\ cursor > Len(repo.imports) /\ pass' = "impls"
  /\ UNCHANGED <<repo, cursor, qname, aliases, imports, impls, supers, refs, stmts, summary>>

ResolveImpls ==
  /\ pass = "impls" /\ pass' = "supers"
  /\ impls' = [i \in DOMAIN impls |->
                 [target |-> Resolve(Sym(i).implTarget, Context(i), i, NoSelf),
                  trait  |-> Resolve(Sym(i).implTrait, Context(i), i, NoSelf)]]
  /\ UNCHANGED <<repo, cursor, qname, aliases, imports, supers, refs, stmts, summary>>

ResolveSupers ==
  /\ pass = "supers" /\ pass' = "refs"
  /\ supers' = UNION {{[trait |-> i, to |-> Target(Resolve(e, Context(i), i, NoSelf))] :
                         e \in Sym(i).supers} : i \in Ids}
  /\ UNCHANGED <<repo, cursor, qname, aliases, imports, impls, refs, stmts, summary>>

BuildReferences ==
  /\ pass = "refs" /\ pass' = "stmts"
  /\ refs' = UNION {References(i) : i \in Ids}
  /\ UNCHANGED <<repo, cursor, qname, aliases, imports, impls, supers, stmts, summary>>

BuildStatements ==
  /\ pass = "stmts" /\ pass' = "direct"
  /\ stmts' = UNION {{Statement(i, k) : k \in StatementLines(i)} : i \in Functions}
  /\ UNCHANGED <<repo, cursor, qname, aliases, imports, impls, supers, refs, summary>>

\* The first loop of enrich_symbol_semantics: what each function does itself.
SummarizeDirect ==
  /\ pass = "direct" /\ pass' = "far"
  /\ summary' = [i \in Ids |->
       IF ~IsFunction(i) THEN NoSummary
       ELSE LET own    == {s \in stmts : s.fn = i}
                reads  == UNION {s.reads : s \in own}
                writes == UNION {s.writes : s \in own}
            IN [NoSummary EXCEPT !.calls = DirectCalls(i), !.reads = reads, !.writes = writes,
                  !.uses = {r.to : r \in {x \in refs : x.from = i}} \cup reads \cup writes]]
  /\ UNCHANGED <<repo, cursor, qname, aliases, imports, impls, supers, refs, stmts>>

\* The second loop: what the functions it calls do.
FarFields == {"transitive", "farReads", "farWrites", "farUses"}

FarLists(i, f) ==
  LET direct == Field("calls")
  IN CASE f = "transitive" -> TransitiveCalls(i, direct)
       [] f = "farReads"   -> Interprocedural(i, direct, Field("reads"))
       [] f = "farWrites"  -> Interprocedural(i, direct, Field("writes"))
       [] f = "farUses"    -> Interprocedural(i, direct, Field("uses"))

SummarizeFar ==
  /\ pass = "far" /\ pass' = "indexed"
  /\ \E far \in Selections([k \in Functions \X FarFields |-> FarLists(k[1], k[2])]) :
       summary' = [i \in Ids |->
          IF ~IsFunction(i) THEN summary[i]
          ELSE [summary[i] EXCEPT !.transitive = far[<<i, "transitive">>],
                                  !.farReads   = far[<<i, "farReads">>],
                                  !.farWrites  = far[<<i, "farWrites">>],
                                  !.farUses    = far[<<i, "farUses">>]]]
  /\ UNCHANGED <<repo, cursor, qname, aliases, imports, impls, supers, refs, stmts>>

IndexNext ==
  \/ BuildRecords \/ BuildImport \/ ImportsDone \/ ResolveImpls \/ ResolveSupers
  \/ BuildReferences \/ BuildStatements \/ SummarizeDirect \/ SummarizeFar

=============================================================================
