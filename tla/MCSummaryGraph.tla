--------------------------- MODULE MCSummaryGraph ---------------------------
(* Two symbols, two files and a directory; the second inventory loses a    *)
(* symbol with its file and gains another.                                 *)
EXTENDS SummaryGraph

MCContent ==
  <<[items |-> {"s1", "s2", "f1", "d1"}, edges |-> {<<"s1", "s2">>, <<"f1", "s1">>, <<"f1", "s2">>}],
    [items |-> {"s1", "f1", "f2", "d1"}, edges |-> {<<"f1", "s1">>}]>>
=============================================================================
