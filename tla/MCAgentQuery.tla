---------------------------- MODULE MCAgentQuery -----------------------------
(* Two generations of a repository of two files.  In the first, run is a     *)
(* function and the method of a type of m, busy and a reader of a constant   *)
(* that is private to m; in the second, help has become the Help of m and    *)
(* run has got a local of the name task.                                     *)
EXTENDS AgentQuery, TLC

Words0 == {"repo", "src", "a", "b", "m", "run", "help", "task", "go", "loop", "doc", "sym", "line", "code", "readme", "callers", "cap"}
MCLower == [w \in Words0 |-> w] @@ ("Task" :> "task") @@ ("Help" :> "help") @@ ("helper" :> "helper") @@ ("" :> "")
MCWithin == {<<"help", "helper">>}
MCWeight == [symbol |-> 400, type_body |-> 150, function_body |-> 150, file |-> 200, doc |-> 200, directory |-> 120, repo |-> 50]
MCFan == <<4, 6>>
MCCollect == <<2, 6>>

A == <<"src", "a">>
B == <<"src", "b">>

Symbol(id, name, qname, kind, path, pub, body, calls, owner) ==
  [id |-> id, name |-> name, qname |-> qname, kind |-> kind, path |-> path, pub |-> pub, body |-> body,
   note |-> IF id = 4 THEN {"loop"} ELSE {}, calls |-> calls, reads |-> {}, more |-> 0, owner |-> owner]
Busy(s, reads) == [s EXCEPT !.reads = reads, !.more = 24000]

Run     == Symbol(3, "run", <<"run">>, "function", A, TRUE, {"go"}, {2}, 0)
Helper  == Symbol(2, "helper", <<"m", "helper">>, "function", B, FALSE, {}, {}, 0)
Method  == Busy(Symbol(1, "run", <<"m", "Task", "run">>, "method", B, TRUE, {"loop"}, {2}, 4), {7})
Task    == Symbol(4, "Task", <<"m", "Task">>, "struct", B, TRUE, {"go"}, {}, 0)
Help    == Symbol(5, "Help", <<"m", "Help">>, "trait", B, FALSE, {}, {}, 0)
Cap     == Symbol(7, "cap", <<"m", "cap">>, "const", B, FALSE, {}, {}, 0)
LocalOf == Symbol(6, "task", <<"run", "task">>, "local", A, FALSE, {}, {}, 3)

Files == <<[path |-> A, text |-> {"go"}], [path |-> B, text |-> {"loop", "help"}]>>
MCWorlds ==
  <<[directories |-> << <<"src">> >>, files |-> Files, symbols |-> <<Method, Helper, Run, Task, Cap>>],
    [directories |-> << <<"src">> >>, files |-> Files, symbols |-> <<Method, Run, Task, Help, LocalOf>>]>>

Name(w) == Words(<<w>>)
Call(op, query, limit, service) ==
  [NoRequest EXCEPT !.op = op, !.q = query, !.opts.limit = limit, !.opts.service = service]
With(r, o) == [r EXCEPT !.opts = o @@ @]

MCRequests ==
  {Call(op, Name(w), 1, FALSE) : op \in {"trace", "enclosing"},
     w \in {<<"run">>, <<"helper">>, <<"m", "Task", "run">>, <<"Task">>, <<"Task", "run">>, <<"Help">>, <<"go">>}}
  \cup {Call("trace", ById(2), 1, FALSE), Call("enclosing", ById(5), 1, FALSE)}
  \cup {Call("context", Name(w), 1, FALSE) : w \in {<<"run">>, <<"helper">>, <<"m", "Task">>, <<"Help">>}}
  \cup {With(Call("context", Name(<<"run">>), 1, FALSE), [selective |-> FALSE])}
  \cup {With(Call("context", Name(w), 1, FALSE), [selective |-> FALSE]) : w \in {<<"cap">>, <<"m", "cap">>}}
  \cup {With(Call("context", Name(<<"helper">>), 2, FALSE), [kinds |-> {"file", "function_body"}]),
        Call("context", Words(<< <<"helper">>, <<"callers">> >>), 2, FALSE)}
  \cup {Call("context", ByPath(A), 1, FALSE), Call("context", ById(1), 2, FALSE),
        Call("context", Words(<< <<"go">>, <<"loop">>, <<"line">> >>), 2, FALSE)}
  \cup {With(Call("context", Words(<< <<"go">>, <<"loop">>, <<"help">> >>), 2, FALSE),
             [summaries |-> TRUE, rerank |-> FALSE])}
  \cup {Call("context", Name(<<"helper">>), 2, TRUE),
        With(Call("context", Name(<<"m", "Task">>), 2, TRUE), [fallback |-> TRUE, selective |-> FALSE])}
  \cup {Call("bundle", Name(<<"run">>), 2, FALSE), Call("bundle", Words(<< <<"readme">>, <<"doc">> >>), 1, FALSE)}
  \cup {Call("paper", Words(<< <<"run">>, <<"loop">> >>), 2, FALSE), Call("paper", Name(<<"go">>), 2, TRUE),
        With(Call("paper", Name(<<"help">>), 1, TRUE), [fallback |-> TRUE])}
=============================================================================
