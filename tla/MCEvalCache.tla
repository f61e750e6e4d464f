----------------------------- MODULE MCEvalCache -----------------------------
(* Two commands, two cases, two limits, one rebuild.                       *)
EXTENDS EvalCache, TLC

Processes == Permutations(Proc)

MCNextCase == ("c1" :> "c2") @@ ("c2" :> "none")
=============================================================================
