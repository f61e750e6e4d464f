----------------------------- MODULE MCSymbolMerge -----------------------------
(* Four texts: one with an impl block, a function the line parser misses   *)
(* and a field; one with a module, a trait and two methods of one name;    *)
(* one with a function inside a function; one that declares a method twice *)
(* under one name, as cfg(unix) and cfg(windows) variants do.              *)
EXTENDS SymbolMerge

Item(n, k, p, f, l, seen) ==
  [name |-> n, kind |-> k, parent |-> p, first |-> f, last |-> l, plain |-> seen]

MCItems ==
  [methods |-> << Item("Foo", "struct", 0, 1, 3, 1),
                  Item("width", "field", 1, 2, 2, 1),
                  Item("impl Foo", "impl", 0, 4, 8, 1),
                  Item("run", "fn", 3, 5, 6, 1),
                  Item("stop", "fn", 3, 7, 7, 0) >>,
   modules |-> << Item("inner", "module", 0, 1, 7, 1),
                  Item("Act", "trait", 1, 2, 4, 1),
                  Item("run", "fn", 2, 3, 3, 1),
                  Item("impl Foo", "impl", 1, 5, 6, 1),
                  Item("run", "fn", 4, 6, 6, 1),
                  Item("free", "fn", 0, 8, 9, 0) >>,
   nested  |-> << Item("outer", "fn", 0, 1, 5, 1),
                  Item("help", "fn", 1, 2, 3, 1),
                  Item("LIMIT", "const", 0, 6, 6, 0) >>,
   twins   |-> << Item("impl Foo", "impl", 0, 1, 6, 1),
                  Item("run", "fn", 1, 2, 2, 1),
                  Item("run", "fn", 1, 3, 4, 1),
                  Item("stop", "fn", 1, 5, 5, 1) >>]

MCModulePath == << "demo", "lib" >>
=============================================================================
