------------------------------ MODULE SymbolMerge ------------------------------
(***************************************************************************)
(* One Rust file, seen three ways: parse_rust_source_file parses it line   *)
(* by line, probes rust-analyzer (LspProbe) and tree-sitter, and           *)
(* merge_primary_backend_symbols joins what they found into one list of    *)
(* symbols: first the server's answer, then tree-sitter's.                 *)
(*                                                                         *)
(* A text is the tree of its items, in the order they begin: name, kind,   *)
(* parent (0 for none), first and last position, and whether the line      *)
(* parser recognises it.  A qualified name is the sequence of its          *)
(* segments.  Names from the backends begin with an identifier, so the     *)
(* crate::, self:: and super:: cases of qualify_backend_symbol_name never  *)
(* apply to them.                                                          *)
(***************************************************************************)
EXTENDS LspProbe, SequencesExt

CONSTANTS
  Items,       \* Items[t]: the items of text t
  ModulePath,  \* module path of the file
  SitterThere  \* {1}: tree-sitter is installed, {0}: it is not, {0, 1}: either

ItemKinds == {"module", "trait", "impl", "struct", "const", "fn", "field"}

ItemNames == UNION {{Items[t][i].name : i \in DOMAIN Items[t]} : t \in Text}
ItemType ==
  [name : ItemNames, kind : ItemKinds, parent : Nat, first : Nat, last : Nat, plain : {0, 1}]

ASSUME ItemAssumption ==
  \A t \in Text :
    /\ Items[t] \in Seq(ItemType)
    /\ \A i \in DOMAIN Items[t] :
         Items[t][i].parent < i /\ Items[t][i].first <= Items[t][i].last
ASSUME ModuleAssumption == Len(ModulePath) > 0

VARIABLES
  sitter,   \* 1 if tree-sitter is installed
  stage,    \* "probe", "analyzer", "sitter", "merged"
  symbols,  \* parsed.symbols
  byName,   \* symbols_by_qname of the pass: index of a symbol
  left,     \* backend symbols of the pass still to be merged
  primary   \* primary_parser_backend

merging == <<sitter, stage, symbols, byName, left, primary>>

-----------------------------------------------------------------------------
(* What each of the three finds in a text.                                 *)

FunctionLike == {"function", "method"}

\* parse_rust_file: the nearest enclosing item it recognised is the container
Around(items) ==
  LET c[i \in 0..Len(items)] ==
        IF i = 0 THEN 0
        ELSE LET p == items[i].parent
             IN  IF p = 0 \/ items[p].plain = 1 THEN p ELSE c[p]
  IN  c

ParsedName(items) ==
  LET q[i \in 0..Len(items)] ==
        IF i = 0 THEN ModulePath ELSE Append(q[Around(items)[i]], items[i].name)
  IN  q

ParsedKind(items, i) ==
  LET c == Around(items)[i]
  IN  IF items[i].kind # "fn" THEN items[i].kind
      ELSE IF c # 0 /\ items[c].kind \in {"impl", "trait"} THEN "method" ELSE "function"

Recognised(items) == {i \in DOMAIN items : items[i].plain = 1 /\ items[i].kind # "field"}

\* local ids count the symbols from 1
LocalId(items, i) == Cardinality({j \in Recognised(items) : j <= i})

ParsedSymbol(items, i) ==
  LET c == Around(items)[i]
  IN  [id |-> LocalId(items, i), kind |-> ParsedKind(items, i), name |-> items[i].name,
       qname |-> ParsedName(items)[i],
       container |-> IF c = 0 THEN << >> ELSE ParsedName(items)[c],
       cid |-> IF c = 0 THEN 0 ELSE LocalId(items, c),
       first |-> items[i].first, last |-> items[i].last]

Parsed(items) ==
  LET at(n) == CHOOSE i \in Recognised(items) : LocalId(items, i) = n
  IN  [n \in 1..Cardinality(Recognised(items)) |-> ParsedSymbol(items, at(n))]

\* normalize_symbol_kind, on the server's kinds: an impl block is an object
ServerKind(items, i) ==
  CASE items[i].kind = "fn" ->
         IF items[i].parent # 0 /\ items[items[i].parent].kind \in {"impl", "trait"}
           THEN "method" ELSE "function"
    [] items[i].kind = "impl"  -> "const"
    [] items[i].kind = "field" -> "none"
    [] OTHER -> items[i].kind

\* a flat answer has no children and no ranges
Answered(items, form) ==
  IF form = "nested" THEN items
  ELSE [i \in DOMAIN items |-> [items[i] EXCEPT !.parent = 0, !.first = 1, !.last = 1]]

\* normalize_document_symbols: an item of no known kind passes its parent on
Above(items) ==
  LET q[i \in 0..Len(items)] ==
        IF i = 0 THEN << >>
        ELSE IF ServerKind(items, i) = "none" THEN q[items[i].parent]
        ELSE Append(q[items[i].parent], items[i].name)
  IN  q

Analyzed(items, form) ==
  LET shown == Answered(items, form)
  IN  {[kind |-> ServerKind(items, i), name |-> items[i].name, qual |-> Above(shown)[i],
        container |-> Above(shown)[shown[i].parent],
        first |-> shown[i].first, last |-> shown[i].last]
       : i \in {j \in DOMAIN items : ServerKind(items, j) # "none"}}

\* visit_symbols: module names qualify; the owner of a trait or an impl is
\* handed to its body, which hands none to the functions in it
Modules(items) ==
  LET q[i \in 0..Len(items)] ==
        IF i = 0 THEN << >>
        ELSE IF items[i].kind = "module" THEN Append(q[items[i].parent], items[i].name)
        ELSE q[items[i].parent]
  IN  q

Visited(items) ==
  {[kind |-> IF items[i].kind = "fn" THEN "function" ELSE items[i].kind,
    name |-> items[i].name, qual |-> Append(Modules(items)[items[i].parent], items[i].name),
    container |-> << >>, first |-> items[i].first, last |-> items[i].last]
   : i \in {j \in DOMAIN items : items[j].kind \notin {"impl", "field"}}}

\* the symbols of the probe's result
ServerFound ==
  IF parsed = 1 /\ response.result \in Symbols
    THEN Analyzed(Items[response.result.text], response.result.form) ELSE {}
SitterFound == IF sitter = 1 THEN Visited(Items[text]) ELSE {}

-----------------------------------------------------------------------------
(* merge_backend_symbols.                                                  *)

Mergeable == {"module", "function", "method", "struct", "trait", "const"}

Qualify(q) == IF IsPrefix(ModulePath, q) THEN q ELSE ModulePath \o q

\* the last of two symbols of a name is in the table
Named(list) ==
  [q \in {list[i].qname : i \in DOMAIN list} |->
     CHOOSE i \in DOMAIN list :
       list[i].qname = q /\ \A j \in (i + 1)..Len(list) : list[j].qname # q]

SameKind(s, b) == s.name = b.name /\ s.kind = b.kind          \* mutant of Matches
\* find_backend_symbol_match
Matches(s, b) ==
  /\ s.name = b.name
  /\ s.kind = b.kind \/ {s.kind, b.kind} \subseteq FunctionLike
  /\ b.container = << >> \/ s.container = Qualify(b.container)
  /\ {s.kind, b.kind} \subseteq FunctionLike => s.first = b.first

\* the symbol it is merged into, or 0
Existing(b) ==
  LET q == Qualify(b.qual)
      found == {i \in DOMAIN symbols : Matches(symbols[i], b)}
  IN  IF q \in DOMAIN byName THEN byName[q]
      ELSE IF found = {} THEN 0 ELSE CHOOSE i \in found : \A j \in found : i <= j

\* a method that a backend reports without its owner keeps its name
MergedName(s, b) ==
  IF b.container = << >> /\ s.container # << >> /\ {s.kind, b.kind} \subseteq FunctionLike
    THEN s.qname ELSE Qualify(b.qual)

Replaced(s, b) == [s EXCEPT !.qname = MergedName(s, b), !.first = b.first, !.last = b.last]  \* mutant of Updated
\* update_symbol_from_backend: a span only grows
Updated(s, b) ==
  [s EXCEPT !.qname = MergedName(s, b),
            !.first = IF b.first <= @ THEN b.first ELSE @,
            !.last  = IF b.last >= @ THEN b.last ELSE @]

NextId == 1 + Len(symbols)

Added(b) ==
  LET c == IF b.container = << >> THEN << >> ELSE Qualify(b.container)
  IN  [id |-> NextId, kind |-> b.kind, name |-> b.name, qname |-> Qualify(b.qual),
       container |-> c, cid |-> IF c \in DOMAIN byName THEN symbols[byName[c]].id ELSE 0,
       first |-> b.first, last |-> b.last]

\* the order of the pass: depth, then position
Before(a, b) ==
  \/ Len(a.qual) < Len(b.qual)
  \/ Len(a.qual) = Len(b.qual) /\ a.first < b.first

Backend == IF stage = "analyzer" THEN "rust_analyzer_lsp" ELSE "tree_sitter_rust"

MergeOne ==
  /\ stage \in {"analyzer", "sitter"}
  /\ \E b \in left :
       /\ \A a \in left : ~Before(a, b)
       /\ left' = left \ {b}
       /\ LET i == Existing(b) IN
          IF b.kind \notin Mergeable THEN UNCHANGED <<symbols, byName, primary>>
          ELSE /\ IF i # 0
                    THEN /\ symbols' = [symbols EXCEPT ![i] = Updated(@, b)]
                         /\ byName' = (MergedName(symbols[i], b) :> i) @@ byName
                    ELSE /\ symbols' = Append(symbols, Added(b))
                         /\ byName' = (Qualify(b.qual) :> Len(symbols) + 1) @@ byName
               /\ primary' = IF primary = "rust-simple-v3" THEN Backend ELSE primary
  /\ UNCHANGED <<sitter, stage, probeVars>>

Enter(s, found) == stage' = s /\ left' = found /\ byName' = Named(symbols)

\* merge_primary_backend_symbols
StartAnalyzer ==
  /\ stage = "probe" /\ phase = "done"
  /\ Enter("analyzer", ServerFound)
  /\ UNCHANGED <<sitter, symbols, primary, probeVars>>

StartSitter ==
  /\ stage = "analyzer" /\ left = {}
  /\ Enter("sitter", SitterFound)
  /\ UNCHANGED <<sitter, symbols, primary, probeVars>>

Finish ==
  /\ stage = "sitter" /\ left = {}
  /\ Enter("merged", {})
  /\ UNCHANGED <<sitter, symbols, primary, probeVars>>

-----------------------------------------------------------------------------
MergeInit ==
  /\ ProbeInit
  /\ sitter \in SitterThere
  /\ stage = "probe" /\ symbols = Parsed(Items[text])
  /\ byName = Named(symbols) /\ left = {} /\ primary = "rust-simple-v3"

Probe == ProbeNext /\ UNCHANGED merging
Merge == StartAnalyzer \/ MergeOne \/ StartSitter \/ Finish
MergeNext == Probe \/ Merge

MergeSpec == MergeInit /\ [][MergeNext]_<<probeVars, merging>> /\ ProbeFairness

-----------------------------------------------------------------------------
(* Nothing the line parser found is lost or displaced by a backend: ids,   *)
(* kinds and names stay, spans only grow, and the ids of all symbols stay  *)
(* distinct (they key the file cache and every later pass).                *)
ParsedKept ==
  LET found == Parsed(Items[text]) IN
  /\ \A i \in DOMAIN found :
       /\ symbols[i].id = found[i].id /\ symbols[i].kind = found[i].kind
       /\ symbols[i].name = found[i].name
       /\ symbols[i].first <= found[i].first /\ found[i].last <= symbols[i].last
  /\ \A i, j \in DOMAIN symbols : symbols[i].id = symbols[j].id => i = j

\* tree-sitter gives a method and a function beside its owner the same name
SharedName(items) ==
  \E i, j \in DOMAIN items :
    /\ i # j /\ items[i].kind = "fn" /\ items[j].kind = "fn" /\ items[i].name = items[j].name
    /\ ParsedName(items)[j] = ModulePath \o Append(Modules(items)[items[j].parent], items[j].name)

OwnerMissed(items) ==
  \E i \in DOMAIN items : items[i].kind \in {"impl", "trait"} /\ items[i].plain = 0

\* declared more than once under the qualified name q, as cfg variants are
Redeclared(items, q) ==
  \E i, j \in DOMAIN items :
    /\ i # j /\ items[i].kind = "fn" /\ items[j].kind = "fn"
    /\ ParsedName(items)[i] = q /\ ParsedName(items)[j] = q

(* One function is one symbol, whoever reports it and under which name:    *)
(* two symbols of callables begin at one place only where both carry a     *)
(* qualified name that the text declares more than once.  (The first such  *)
(* function is merged into the symbol of the last, which symbols_by_qname  *)
(* kept, and moves its start onto the first's symbol.)  Nothing is claimed *)
(* of a text whose owners of methods the line parser missed or whose       *)
(* method shares its name with a function beside its owner (tree-sitter    *)
(* reports both alike), nor of a flat answer, which has neither ranges nor *)
(* parents.  A flat answer is what the initialize request's empty          *)
(* capabilities ask of a server that keeps to the protocol: every callable *)
(* it names then begins at line 1, and every method it names is a second   *)
(* symbol.                                                                 *)
OneSymbolPerCallable ==
  (response.result \notin [text : Text, form : {"flat"}]
   /\ ~SharedName(Items[text]) /\ ~OwnerMissed(Items[text])) =>
    \A i, j \in DOMAIN symbols :
      /\ symbols[i].kind \in FunctionLike /\ symbols[j].kind \in FunctionLike
      /\ symbols[i].first = symbols[j].first
      => i = j \/ (/\ symbols[i].qname = symbols[j].qname
                  /\ Redeclared(Items[text], symbols[i].qname))
=============================================================================
