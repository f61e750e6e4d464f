--------------------------- MODULE MCSymbolGraph ---------------------------
(***************************************************************************)
(* Families of small repositories for SymbolGraph: call graphs of four     *)
(* functions, names in two files, bodies of four lines, and a few call     *)
(* graphs and lines too dense for the caps.                                *)
(***************************************************************************)
EXTENDS SymbolGraph

MCUpper    == {"Foo", "Bar", "Run", "Walk", "Self"}
MCWords    == MCUpper \cup {"a", "b", "c", "d", "f", "x", "y", "go", "new", "val", "help", "main", "impl",
                            "app", "util", "ext", "extern", "self", "crate", "super"}
MCReserved == {"self", "Self", "crate", "super"}
Receivers  == {"self", "Foo", "Bar", "x", "y"}
MCDot == [p \in Receivers \X {"go", "val"} |->
            CASE p[1] = "self" -> IF p[2] = "go" THEN "self.go" ELSE "self.val"
              [] p[1] = "Foo"  -> IF p[2] = "go" THEN "Foo.go"  ELSE "Foo.val"
              [] p[1] = "Bar"  -> IF p[2] = "go" THEN "Bar.go"  ELSE "Bar.val"
              [] p[1] = "x"    -> IF p[2] = "go" THEN "x.go"    ELSE "x.val"
              [] p[1] = "y"    -> IF p[2] = "go" THEN "y.go"    ELSE "y.val"]

Lib  == [module |-> <<"app">>, root |-> <<"app">>, dir |-> <<"app", "src">>,
         package |-> "app", deps |-> [d \in {"ext"} |-> <<"extern">>]]
Util == [Lib EXCEPT !.module = <<"app", "util">>]

Symbol(kind, file, name, container) ==
  [kind |-> kind, file |-> file, name |-> name, seg |-> name, container |-> container,
   module |-> IF file = 1 THEN <<"app">> ELSE <<"app", "util">>,
   implTarget |-> <<>>, implTrait |-> <<>>, supers |-> {}, test |-> 0, sig |-> {},
   line |-> 0, body |-> <<>>]

Blank == [kind |-> "plain", lets |-> {}, lhs |-> {}, members |-> {}, calls |-> {}, mcalls |-> {},
          fields |-> {}, paths |-> {}, idents |-> {}, open |-> 0, close |-> 0]
CallLine(e)   == [Blank EXCEPT !.calls = {e}]
MethodLine(p) == [Blank EXCEPT !.mcalls = {p}]

-----------------------------------------------------------------------------
\* Which of four functions calls which, the first being a test that calls the
\* second or none.
Names4 == <<"a", "b", "c", "d">>
Callees4 == {c \in SUBSET {1, 2, 3, 4} : Cardinality(c) <= 2}

CallGraph(c) ==
  [files |-> <<Lib>>, imports |-> <<>>,
   symbols |-> [i \in 1..4 |->
     [Symbol("function", 1, Names4[i], 0) EXCEPT
        !.test = IF i = 1 THEN 1 ELSE 0,
        !.body = <<[Blank EXCEPT !.calls = {<<Names4[j]>> : j \in c[i]}]>>]]]

CallGraphs == {CallGraph(c) : c \in {d \in [1..4 -> Callees4] : d[1] \in {{}, {2}}}}

-----------------------------------------------------------------------------
\* An impl in one file of a type, and maybe a trait, of the other, both files
\* with functions and types of the same names.
Import(target, alias) == [file |-> 1, target |-> target, alias |-> alias, container |-> 0]

ImportLists ==
  { <<>>,
    <<Import(<<"crate", "util", "Foo">>, "")>>,
    <<Import(<<"crate", "util", "Foo">>, "Bar")>>,
    <<Import(<<"crate", "util">>, ""), Import(<<"util", "help">>, "")>>,
    <<Import(<<"util", "Run">>, ""), Import(<<"crate", "util">>, "")>>,
    <<Import(<<"ext", "Foo">>, "")>> }

ImplTargets == {<<"Foo">>, <<"Bar">>, <<"crate", "util", "Foo">>}
ImplTraits  == {<<>>, <<"Run">>, <<"crate", "util", "Run">>}

MethodLines ==
  { CallLine(<<"help">>), CallLine(<<"Self", "go">>), CallLine(<<"Self", "new">>),
    CallLine(<<"crate", "util", "help">>), CallLine(<<"util", "help">>), CallLine(<<"ext", "go">>),
    MethodLine(<<"self", "go">>), MethodLine(<<"x", "go">>), MethodLine(<<"Foo", "go">>),
    [Blank EXCEPT !.fields = {<<"self", "val">>}] }
MainLines == { CallLine(<<"Foo", "go">>), CallLine(<<"super", "help">>), MethodLine(<<"Bar", "go">>) }

\* What the method says while main calls Foo::go, and what main says while the
\* method calls help.
LinePairs == {<<line, CallLine(<<"Foo", "go">>)>> : line \in MethodLines}
               \cup {<<CallLine(<<"help">>), main>> : main \in MainLines}

\* What the two files may hold besides: a function or a type of the same name
\* as one of the other file, or a second impl with a method of the same name.
Extras ==
  { [lib |-> <<>>, util |-> <<>>],
    [lib |-> <<Symbol("function", 1, "help", 0)>>, util |-> <<>>],
    [lib |-> <<Symbol("struct", 1, "Foo", 0)>>, util |-> <<>>],
    [lib |-> <<>>, util |-> <<MethodLine(<<"Bar", "go">>)>>] }

TwoFiles(uses, type, trait, extra, line, main) ==
  LET lib ==
        << [Symbol("impl", 1, "impl", 0) EXCEPT !.implTarget = type, !.implTrait = trait],
           [Symbol("method", 1, "go", 1) EXCEPT !.body = <<line>>, !.sig = {<<"Foo">>}],
           Symbol("method", 1, "new", 1),
           [Symbol("trait", 1, "Walk", 0) EXCEPT !.supers = {<<"Run">>}],
           [Symbol("function", 1, "main", 0) EXCEPT !.body = <<main>>, !.test = 1] >>
        \o extra.lib
      n == Len(lib)
      util ==
        << Symbol("struct", 2, "Foo", 0),
           Symbol("trait", 2, "Run", 0),
           Symbol("method", 2, "go", n + 2),
           Symbol("function", 2, "help", 0),
           Symbol("field", 2, "val", n + 1) >>
      second ==
        << [Symbol("impl", 2, "impl", 0) EXCEPT !.implTarget = <<"Foo">>],
           [Symbol("method", 2, "go", n + 6) EXCEPT !.body = extra.util] >>
  IN [files |-> <<Lib, Util>>, imports |-> uses,
      symbols |-> lib \o util \o (IF extra.util = <<>> THEN <<>> ELSE second)]

TwoFileRepos ==
  {TwoFiles(uses, type, trait, extra, lines[1], lines[2]) :
     uses \in ImportLists, type \in ImplTargets, trait \in ImplTraits,
     extra \in Extras, lines \in LinePairs}

-----------------------------------------------------------------------------
\* Four lines of a method, over a variable that may be bound again and a field.
BodyLines ==
  { [Blank EXCEPT !.lets = {"x"}],
    [Blank EXCEPT !.lets = {"y"}, !.idents = {"x"}],
    [Blank EXCEPT !.lhs = {"x"}, !.idents = {"y"}],
    [Blank EXCEPT !.calls = {<<"f">>}, !.idents = {"x"}],
    [Blank EXCEPT !.members = {<<"self", "val">>}, !.idents = {"x"}],
    [Blank EXCEPT !.mcalls = {<<"x", "go">>}, !.fields = {<<"self", "val">>}],
    [Blank EXCEPT !.kind = "control", !.open = 1, !.idents = {"x"}],
    [Blank EXCEPT !.kind = "brace", !.close = 1] }

Bodies == {b \in [1..4 -> BodyLines] : Cardinality({k \in 1..4 : b[k].close = 1}) <= 1}

\* The locals a body binds, in order, with the segment that tells them apart.
Places == << [at |-> 1, name |-> "x", seg |-> "x@1"], [at |-> 1, name |-> "y", seg |-> "y@1"],
             [at |-> 2, name |-> "x", seg |-> "x@2"], [at |-> 2, name |-> "y", seg |-> "y@2"],
             [at |-> 3, name |-> "x", seg |-> "x@3"], [at |-> 3, name |-> "y", seg |-> "y@3"],
             [at |-> 4, name |-> "x", seg |-> "x@4"], [at |-> 4, name |-> "y", seg |-> "y@4"] >>

Locals(b) ==
  LET Binds(p) == p.name \in b[p.at].lets
      bound == SelectSeq(Places, Binds)
  IN [k \in DOMAIN bound |->
        [Symbol("local", 1, bound[k].name, 3) EXCEPT !.seg = bound[k].seg, !.line = bound[k].at]]

MethodBody(b) ==
  [files |-> <<Lib>>, imports |-> <<>>,
   symbols |-> << Symbol("struct", 1, "Foo", 0),
                  [Symbol("impl", 1, "impl", 0) EXCEPT !.implTarget = <<"Foo">>],
                  [Symbol("method", 1, "go", 2) EXCEPT !.body = b],
                  Symbol("function", 1, "f", 0),
                  Symbol("field", 1, "val", 1) >> \o Locals(b)]

MethodBodies == {MethodBody(b) : b \in Bodies}

-----------------------------------------------------------------------------
\* Call graphs of seven functions in which the first reaches more than a list
\* holds, at once or level by level, or its callees make more calls than a
\* frontier does.
Names7 == <<"a", "b", "c", "d", "f", "go", "new">>

Dense(c) ==
  [files |-> <<Lib>>, imports |-> <<>>,
   symbols |-> [i \in 1..7 |->
     [Symbol("function", 1, Names7[i], 0) EXCEPT
        !.body = <<[Blank EXCEPT !.calls = {<<Names7[j]>> : j \in c[i]}]>>]]]

DenseGraphs ==
  { Dense(<<{2}, {3, 4, 5, 6, 7}, {}, {}, {}, {}, {6}>>),
    Dense(<<{2, 3}, {4, 5}, {4, 5, 6}, {}, {}, {7}, {}>>),
    Dense(<<{2, 3}, {4, 5}, {6}, {7}, {3}, {}, {}>>) }

\* A line that reads two variables among more expressions than are kept.
CrowdedLine == [Blank EXCEPT !.idents = {"x", "y", "f"} \cup MCReserved]

CrowdedBodies ==
  { MethodBody(<<[Blank EXCEPT !.lets = {"x"}], [Blank EXCEPT !.lets = {"y"}, !.idents = {"x"}],
                 third, CrowdedLine>>) :
      third \in {[Blank EXCEPT !.lhs = {"x"}, !.idents = {"y"}], [Blank EXCEPT !.calls = {<<"f">>}]} }

MCRepos == <<CallGraphs, TwoFileRepos, MethodBodies, DenseGraphs, CrowdedBodies>>
=============================================================================
