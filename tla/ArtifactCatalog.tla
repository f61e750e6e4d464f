--------------------------- MODULE ArtifactCatalog ---------------------------
(***************************************************************************)
(* What a reader of one repository's metadata.lmdb is promised, whoever    *)
(* writes it: it sees a whole bundle or nothing, new symbols drop the old  *)
(* summaries, new summaries keep the symbols they were loaded with, and a  *)
(* row of artifact_metadata survives every replacement and is changed only *)
(* by the command it is named after.                                       *)
(***************************************************************************)
CONSTANTS Builds,   \* identities of builds
          RowKeys,  \* keys of artifact_metadata
          None      \* no build

VARIABLES view,     \* what a reader would load
          base      \* what the running replacement loaded first

NoRows  == [k \in RowKeys |-> None]
Nothing == [index |-> None, sums |-> None, rows |-> NoRows]

Init == view = Nothing /\ base = Nothing

Load == base' = view /\ UNCHANGED view
Drop == view' = Nothing /\ UNCHANGED base

PublishIndex(b) ==
  /\ view = Nothing
  /\ view' = [index |-> b, sums |-> None, rows |-> [base.rows EXCEPT !["parsed"] = b]]
  /\ UNCHANGED base

PublishSummaries(b) ==
  /\ view = Nothing /\ base # Nothing
  /\ view' = [base EXCEPT !.sums = b, !.rows["summary"] = b]
  /\ UNCHANGED base

UpdateRow(k, b) ==
  /\ view # Nothing
  /\ view' = [view EXCEPT !.rows[k] = b]
  /\ UNCHANGED base

Next ==
  \/ Load \/ Drop
  \/ \E b \in Builds : PublishIndex(b) \/ PublishSummaries(b)
  \/ \E k \in {"graph", "search"}, b \in Builds \cup {None} : UpdateRow(k, b)

Spec == Init /\ [][Next]_<<view, base>>
=============================================================================
