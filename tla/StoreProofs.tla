----------------------------- MODULE StoreProofs -----------------------------
(***************************************************************************)
(* Proofs about what the builders leave on disk.                           *)
(*                                                                         *)
(* ArtifactStore, for any number of inventories, commands and crashes      *)
(* between any two storage steps: the bundle is the catalogue its readers  *)
(* are promised, and a whole pipeline leaves one generation in every       *)
(* artifact.                                                               *)
(*                                                                         *)
(* EmbeddingCheckpoint, for any documents, batch size, settings, kills and *)
(* torn appends: the index has one vector for every unit, and a resumed    *)
(* build does not mix what it found with what it makes.                    *)
(***************************************************************************)
EXTENDS ArtifactStore, EmbeddingCheckpoint, SequenceTheorems, TLAPS

-----------------------------------------------------------------------------
(* The store: the inductive invariant.                                     *)

\* the steps of each command
StepsOf ==
  /\ pc # "off" => clock >= 1
  /\ pc \in {"rows", "clear", "commit", "graph_clear", "graph_load"} => cmd # "search"
  /\ pc = "graph_read" => cmd = "summaries"
  /\ pc \in {"bm25", "bm25_write"} => cmd = "search"
  /\ pc \in {"read", "bm25", "bm25_write"} => mem.built = 0
  /\ pc = "row" => cmd # "summaries"

\* a bundle is whole or holds nothing
WholeBundle(b) ==
  IF b.dir = "ok" THEN b.index.stamp # None ELSE b = NoBundle(b.dir)

\* what a replacement of the bundle carries over
CarriedOver ==
  /\ pc \in {"clear", "commit"} => mem.rows = loaded.rows
  /\ pc = "commit" => bundle.dir # "ok"
  /\ cmd = "summaries" /\ pc = "rows" => bundle.dir = "ok" /\ mem.sym = bundle.index
  /\ cmd = "summaries" /\ pc \in {"clear", "commit"} =>
       loaded.dir = "ok" /\ mem.sym = loaded.index

\* a build-index no parse-repos overtook
IndexUnderWay ==
  cmd = "index" /\ clean = 1 =>
    /\ pc \in PCs \ {"off", "read"} => mem.out = {raw}
    /\ pc \in {"graph_clear", "graph_load", "row"} => bundle.dir = "ok" /\ bundle.index.from = {raw}
    /\ pc = "row" => graph.dir = "ok" /\ graph.base.from = {raw} /\ graph.sums = NoArtifact

GraphEmptied == cmd = "index" /\ pc = "graph_load" => graph.sums = NoArtifact

\* commands count as finished only after a build-index
DoneInOrder ==
  /\ "index" \notin done => done = {}
  /\ pc # "off" => cmd \notin done
  /\ pc # "off" /\ cmd = "index" => done = {}

FromRaw(a) == a = NoArtifact \/ a.from = {raw}
SearchedRows(rows) == rows["search"] # None => tantivy.docs.from = {raw}

\* what is stored since that build-index finished
SinceIndex ==
  "index" \in done =>
    /\ pc # "commit" => bundle.dir = "ok" /\ bundle.index.from = {raw}
    /\ pc # "graph_load" => graph.dir = "ok" /\ graph.base.from = {raw} /\ FromRaw(graph.sums)
    /\ pc \notin {"off", "read"} => mem.out = {raw}
    /\ pc \in {"rows", "clear", "commit"} => mem.sym.from = {raw}
    /\ pc \in {"graph_clear", "graph_load"} => mem.base.from = {raw} /\ FromRaw(mem.sums)
    /\ pc \in {"graph_read", "graph_clear", "graph_load"} =>
         bundle.sums.from = {raw} /\ bundle.rows["summary"] = bundle.sums.stamp
    /\ pc = "row" /\ mem.built = 1 => tantivy.docs.from = {raw}

\* and since the commands after it did
SinceSummaries ==
  "summaries" \in done =>
    /\ bundle.sums.from = {raw} /\ bundle.rows["summary"] = bundle.sums.stamp
    /\ graph.sums.from = {raw}
SinceSearch ==
  "search" \in done =>
    /\ pc # "commit" => SearchedRows(bundle.rows)
    /\ pc \in {"clear", "commit"} => SearchedRows(mem.rows)

CatalogInv == TypeOK /\ StepsOf /\ WholeBundle(bundle) /\ WholeBundle(loaded) /\ CarriedOver
PipelineInv ==
  IndexUnderWay /\ GraphEmptied /\ DoneInOrder /\ SinceIndex /\ SinceSummaries /\ SinceSearch

StoreInv == CatalogInv /\ PipelineInv

-----------------------------------------------------------------------------
(* Every step keeps the types, and what the catalogue rests on.            *)

\* what build-summaries holds once it has read its inputs
LEMMA SummariesReads ==
  ASSUME TypeOK, SummariesRead, ~Raise
  PROVE  /\ pc = "read" /\ cmd = "summaries" /\ pc' = "rows"
         /\ bundle.dir = "ok" /\ graph.dir # "none"
         /\ mem' = [mem EXCEPT !.sym = bundle.index,
                               !.out = {raw} \cup bundle.index.from \cup GraphFrom]
         /\ mem'.sym = bundle.index
         /\ mem'.out = {raw} \cup bundle.index.from \cup GraphFrom
         /\ mem'.out \subseteq Gens
         /\ UNCHANGED <<raw, stored, cmd, clock, crashes, clean, done, loaded>>
<1>1. GraphFrom \subseteq Gens
  BY GenAssumption DEF GraphFrom, Torn, TypeOK, Artifact, Gens
<1>2. {raw} \cup bundle.index.from \cup GraphFrom \subseteq Gens
  BY <1>1 DEF TypeOK, Bundle, Artifact
<1>3. DOMAIN mem = {"sym", "out", "rows", "base", "sums", "built"}
  BY DEF TypeOK
<1> QED
  BY <1>2, <1>3 DEF SummariesRead, Goto

\* types
LEMMA TypeStep ==
  ASSUME TypeOK, [Next]_vars
  PROVE  TypeOK'
<1> USE GenAssumption, BuildsAssumption, CrashAssumption
    DEF TypeOK, Bundle, Artifact, NoArtifact, Stamps, Gens, PCs, Commands, RowKeys, None, NoRows, stored
<1>1. ASSUME NEW c \in Commands, Start(c) PROVE TypeOK'
  BY <1>1 DEF Start, NoMem
<1>2. CASE IndexRead
  BY <1>2 DEF IndexRead, Raise, Goto
<1>3. CASE LoadRows
  BY <1>3 DEF LoadRows, Raise, Goto, Unreadable
<1>4. CASE ClearBundle
  BY <1>4 DEF ClearBundle, Goto, NoBundle
<1>5. CASE CommitBundle
  BY <1>5 DEF CommitBundle, Goto, MergedRows, OwnKey, New
<1>6. CASE GraphClear
  BY <1>6 DEF GraphClear, Goto, EmptyGraph
<1>7. CASE GraphLoad
  <2> DEFINE made == New
  <2>0. made \in Artifact
    BY DEF New
  <2> HIDE DEF made
  <2>1. CASE cmd = "index"
    <3>1. graph' = [graph EXCEPT !.dir = "ok", !.base = made]
      BY <1>7, <2>1 DEF GraphLoad, made
    <3>2. graph' \in [dir : {"none", "partial", "ok"}, base : Artifact, sums : Artifact]
      BY <2>0, <3>1
    <3> QED
      BY <1>7, <2>1, <3>2 DEF GraphLoad, Goto
  <2>2. CASE cmd # "index"
    <3>1. graph' = [dir |-> "ok", base |-> mem.base, sums |-> GraphSums] /\ GraphSums \in Artifact
      BY <1>7, <2>0, <2>2 DEF GraphLoad, GraphSums, made
    <3> QED
      BY <1>7, <2>2, <3>1 DEF GraphLoad, Finish
  <2> QED
    BY <2>1, <2>2
<1>8. CASE RowGraph
  BY <1>8 DEF RowGraph, UpdateRow, Raise, Finish
<1>9. CASE SearchRead
  BY <1>9 DEF SearchRead, Raise, Goto
<1>10. CASE Bm25Clear
  BY <1>10 DEF Bm25Clear, Goto
<1>11. CASE Bm25Write
  BY <1>11 DEF Bm25Write, Goto, New
<1>12. CASE Bm25NotBuilt
  BY <1>12 DEF Bm25NotBuilt, Goto
<1>13. CASE RowSearch
  BY <1>13 DEF RowSearch, UpdateRow, Raise, Finish, SearchStamp
<1>14. CASE SummariesRead
  <2>1. CASE Raise
    BY <1>14, <2>1 DEF Raise
  <2>2. CASE ~Raise
    <3>1. mem' = [mem EXCEPT !.sym = bundle.index, !.out = mem'.out] /\ mem'.out \subseteq Gens
      BY <2>2, <1>14, SummariesReads
    <3>2. UNCHANGED <<raw, bundle, graph, tantivy, cmd, clock, crashes, clean, done, loaded>> /\ pc' = "rows"
      BY <2>2, <1>14, SummariesReads
    <3> QED
      BY <3>1, <3>2
  <2> QED
    BY <2>1, <2>2
<1>15. CASE GraphRead
  <2>1. GraphFrom \subseteq Gens
    BY DEF GraphFrom, Torn
  <2> QED
    BY <1>15, <2>1 DEF GraphRead, Goto
<1>16. CASE Crash
  BY <1>16 DEF Crash
<1>17. CASE ParseRepos
  BY <1>17 DEF ParseRepos
<1>18. CASE OperatorRemoves
  BY <1>18 DEF OperatorRemoves, NoBundle
<1>19. CASE UNCHANGED vars
  BY <1>19 DEF vars
<1> QED
  BY <1>1, <1>2, <1>3, <1>4, <1>5, <1>6, <1>7, <1>8, <1>9,
     <1>10, <1>11, <1>12, <1>13, <1>14, <1>15, <1>16, <1>17, <1>18, <1>19 DEF Next, BuilderStep

\* which command takes which step
LEMMA StepsOfStep ==
  ASSUME TypeOK, StepsOf, [Next]_vars
  PROVE  StepsOf'
<1> USE BuildsAssumption DEF TypeOK, Stamps, PCs, Commands, StepsOf, stored
<1>1. ASSUME NEW c \in Commands, Start(c) PROVE StepsOf'
  BY <1>1 DEF Start, NoMem
<1>2. CASE IndexRead
  BY <1>2 DEF IndexRead, Raise, Goto
<1>3. CASE LoadRows
  BY <1>3 DEF LoadRows, Raise, Goto, Unreadable
<1>4. CASE ClearBundle
  BY <1>4 DEF ClearBundle, Goto
<1>5. CASE CommitBundle
  BY <1>5 DEF CommitBundle, Goto
<1>6. CASE GraphClear
  BY <1>6 DEF GraphClear, Goto
<1>7. CASE GraphLoad
  BY <1>7 DEF GraphLoad, Goto, Finish
<1>8. CASE RowGraph
  BY <1>8 DEF RowGraph, UpdateRow, Raise, Finish
<1>9. CASE SearchRead
  BY <1>9 DEF SearchRead, Raise, Goto
<1>10. CASE Bm25Clear
  BY <1>10 DEF Bm25Clear, Goto
<1>11. CASE Bm25Write
  BY <1>11 DEF Bm25Write, Goto
<1>12. CASE Bm25NotBuilt
  BY <1>12 DEF Bm25NotBuilt, Goto
<1>13. CASE RowSearch
  BY <1>13 DEF RowSearch, UpdateRow, Raise, Finish
<1>14. CASE SummariesRead
  BY <1>14 DEF SummariesRead, Raise, Goto
<1>15. CASE GraphRead
  BY <1>15 DEF GraphRead, Goto
<1>16. CASE Crash
  BY <1>16 DEF Crash
<1>17. CASE ParseRepos
  BY <1>17 DEF ParseRepos
<1>18. CASE OperatorRemoves
  BY <1>18 DEF OperatorRemoves
<1>19. CASE UNCHANGED vars
  BY <1>19 DEF vars
<1> QED
  BY <1>1, <1>2, <1>3, <1>4, <1>5, <1>6, <1>7, <1>8, <1>9,
     <1>10, <1>11, <1>12, <1>13, <1>14, <1>15, <1>16, <1>17, <1>18, <1>19 DEF Next, BuilderStep

\* whole bundles, and what a replacement carries over
LEMMA CarriedStep ==
  ASSUME CatalogInv, [Next]_vars
  PROVE  (WholeBundle(bundle) /\ WholeBundle(loaded) /\ CarriedOver)'
<1> USE DEF CatalogInv, TypeOK, Bundle, Artifact, Commands, NoArtifact, None,
        StepsOf, WholeBundle, CarriedOver, NoBundle, stored
<1>1. ASSUME NEW c \in Commands, Start(c) PROVE (WholeBundle(bundle) /\ WholeBundle(loaded) /\ CarriedOver)'
  BY <1>1 DEF Start
<1>2. CASE IndexRead
  BY <1>2 DEF IndexRead, Raise, Goto
<1>3. CASE LoadRows
  BY <1>3 DEF LoadRows, Raise, Goto, Unreadable
<1>4. CASE ClearBundle
  BY <1>4 DEF ClearBundle, Goto
<1>5. CASE CommitBundle
  BY <1>5 DEF CommitBundle, Goto, MergedRows, OwnKey, New
<1>6. CASE GraphClear
  BY <1>6 DEF GraphClear, Goto
<1>7. CASE GraphLoad
  BY <1>7 DEF GraphLoad, Goto, Finish, New
<1>8. CASE RowGraph
  BY <1>8 DEF RowGraph, UpdateRow, Raise, Finish
<1>9. CASE SearchRead
  BY <1>9 DEF SearchRead, Raise, Goto
<1>10. CASE Bm25Clear
  BY <1>10 DEF Bm25Clear, Goto
<1>11. CASE Bm25Write
  BY <1>11 DEF Bm25Write, Goto, New
<1>12. CASE Bm25NotBuilt
  BY <1>12 DEF Bm25NotBuilt, Goto
<1>13. CASE RowSearch
  BY <1>13 DEF RowSearch, UpdateRow, Raise, Finish
<1>14. CASE SummariesRead
  <2>1. CASE Raise
    BY <1>14, <2>1 DEF SummariesRead, Raise
  <2>2. CASE ~Raise
    BY <1>14, <2>2, SummariesReads
  <2> QED
    BY <2>1, <2>2
<1>15. CASE GraphRead
  BY <1>15 DEF GraphRead, Goto
<1>16. CASE Crash
  BY <1>16 DEF Crash
<1>17. CASE ParseRepos
  BY <1>17 DEF ParseRepos
<1>18. CASE OperatorRemoves
  BY <1>18 DEF OperatorRemoves
<1>19. CASE UNCHANGED vars
  BY <1>19 DEF vars
<1> QED
  BY <1>1, <1>2, <1>3, <1>4, <1>5, <1>6, <1>7, <1>8, <1>9,
     <1>10, <1>11, <1>12, <1>13, <1>14, <1>15, <1>16, <1>17, <1>18, <1>19 DEF Next, BuilderStep

-----------------------------------------------------------------------------
(* Every step keeps what the pipeline rests on.                            *)

\* a build-index no parse-repos overtook
LEMMA IndexStep ==
  ASSUME CatalogInv, IndexUnderWay, GraphEmptied, [Next]_vars
  PROVE  (IndexUnderWay /\ GraphEmptied)'
<1> USE DEF CatalogInv, TypeOK, PCs, Commands, StepsOf, IndexUnderWay, GraphEmptied, stored
<1>1. ASSUME NEW c \in Commands, Start(c) PROVE (IndexUnderWay /\ GraphEmptied)'
  BY <1>1 DEF Start
<1>2. CASE IndexRead
  BY <1>2 DEF IndexRead, Raise, Goto
<1>3. CASE LoadRows
  BY <1>3 DEF LoadRows, Raise, Goto, Unreadable
<1>4. CASE ClearBundle
  BY <1>4 DEF ClearBundle, Goto
<1>5. CASE CommitBundle
  BY <1>5 DEF CommitBundle, Goto, New
<1>6. CASE GraphClear
  BY <1>6 DEF GraphClear, Goto, EmptyGraph
<1>7. CASE GraphLoad
  BY <1>7 DEF GraphLoad, Goto, Finish, New
<1>8. CASE RowGraph
  BY <1>8 DEF RowGraph, UpdateRow, Raise, Finish
<1>9. CASE SearchRead
  BY <1>9 DEF SearchRead, Raise, Goto
<1>10. CASE Bm25Clear
  BY <1>10 DEF Bm25Clear, Goto
<1>11. CASE Bm25Write
  BY <1>11 DEF Bm25Write, Goto, New
<1>12. CASE Bm25NotBuilt
  BY <1>12 DEF Bm25NotBuilt, Goto
<1>13. CASE RowSearch
  BY <1>13 DEF RowSearch, UpdateRow, Raise, Finish
<1>14. CASE SummariesRead
  BY <1>14 DEF SummariesRead, Raise, Goto
<1>15. CASE GraphRead
  BY <1>15 DEF GraphRead, Goto
<1>16. CASE Crash
  BY <1>16 DEF Crash
<1>17. CASE ParseRepos
  BY <1>17 DEF ParseRepos
<1>18. CASE OperatorRemoves
  BY <1>18 DEF OperatorRemoves
<1>19. CASE UNCHANGED vars
  BY <1>19 DEF vars
<1> QED
  BY <1>1, <1>2, <1>3, <1>4, <1>5, <1>6, <1>7, <1>8, <1>9,
     <1>10, <1>11, <1>12, <1>13, <1>14, <1>15, <1>16, <1>17, <1>18, <1>19 DEF Next, BuilderStep

\* what counts as finished
LEMMA DoneStep ==
  ASSUME CatalogInv, DoneInOrder, [Next]_vars
  PROVE  DoneInOrder'
<1> USE DEF CatalogInv, TypeOK, PCs, Commands, StepsOf, DoneInOrder, stored
<1>1. ASSUME NEW c \in Commands, Start(c) PROVE DoneInOrder'
  BY <1>1 DEF Start
<1>2. CASE IndexRead
  BY <1>2 DEF IndexRead, Raise, Goto
<1>3. CASE LoadRows
  BY <1>3 DEF LoadRows, Raise, Goto
<1>4. CASE ClearBundle
  BY <1>4 DEF ClearBundle, Goto
<1>5. CASE CommitBundle
  BY <1>5 DEF CommitBundle, Goto
<1>6. CASE GraphClear
  BY <1>6 DEF GraphClear, Goto
<1>7. CASE GraphLoad
  BY <1>7 DEF GraphLoad, Goto, Finish
<1>8. CASE RowGraph
  BY <1>8 DEF RowGraph, UpdateRow, Raise, Finish
<1>9. CASE SearchRead
  BY <1>9 DEF SearchRead, Raise, Goto
<1>10. CASE Bm25Clear
  BY <1>10 DEF Bm25Clear, Goto
<1>11. CASE Bm25Write
  BY <1>11 DEF Bm25Write, Goto
<1>12. CASE Bm25NotBuilt
  BY <1>12 DEF Bm25NotBuilt, Goto
<1>13. CASE RowSearch
  BY <1>13 DEF RowSearch, UpdateRow, Raise, Finish
<1>14. CASE SummariesRead
  BY <1>14 DEF SummariesRead, Raise, Goto
<1>15. CASE GraphRead
  BY <1>15 DEF GraphRead, Goto
<1>16. CASE Crash
  BY <1>16 DEF Crash
<1>17. CASE ParseRepos
  BY <1>17 DEF ParseRepos
<1>18. CASE OperatorRemoves
  BY <1>18 DEF OperatorRemoves
<1>19. CASE UNCHANGED vars
  BY <1>19 DEF vars
<1> QED
  BY <1>1, <1>2, <1>3, <1>4, <1>5, <1>6, <1>7, <1>8, <1>9,
     <1>10, <1>11, <1>12, <1>13, <1>14, <1>15, <1>16, <1>17, <1>18, <1>19 DEF Next, BuilderStep

\* since the last build-index
LEMMA SinceIndexStep ==
  ASSUME StoreInv, [Next]_vars
  PROVE  SinceIndex'
<1> USE DEF StoreInv, CatalogInv, PipelineInv, TypeOK, Bundle, PCs, Commands, None, NoArtifact,
        StepsOf, WholeBundle, CarriedOver, DoneInOrder, SinceIndex, FromRaw, NoBundle, stored
<1>1. ASSUME NEW c \in Commands, Start(c) PROVE SinceIndex'
  BY <1>1 DEF Start
<1>2. CASE IndexRead
  BY <1>2 DEF IndexRead, Raise, Goto
<1>3. CASE LoadRows
  BY <1>3 DEF LoadRows, Raise, Goto, Unreadable
<1>4. CASE ClearBundle
  BY <1>4 DEF ClearBundle, Goto
<1>5. CASE CommitBundle
  <2> HAVE "index" \in done'
  <2>1. cmd = "summaries" /\ "index" \in done /\ mem.out = {raw} /\ mem.sym.from = {raw}
    BY <1>5 DEF CommitBundle, Goto
  <2>2. /\ bundle'.dir = "ok" /\ bundle'.index.from = {raw} /\ bundle'.sums.from = {raw}
        /\ bundle'.rows["summary"] = bundle'.sums.stamp
    BY <1>5, <2>1 DEF CommitBundle, MergedRows, OwnKey, New, RowKeys
  <2> QED
    BY <1>5, <2>1, <2>2 DEF CommitBundle, Goto
<1>6. CASE GraphClear
  BY <1>6 DEF GraphClear, Goto, EmptyGraph
<1>7. CASE GraphLoad
  BY <1>7 DEF GraphLoad, Goto, Finish, GraphSums, New
<1>8. CASE RowGraph
  BY <1>8 DEF RowGraph, UpdateRow, Raise, Finish, IndexUnderWay
<1>9. CASE SearchRead
  <2> HAVE "index" \in done'
  <2>1. bundle.dir = "ok" /\ bundle.index.from = {raw} /\ mem'.out = {raw} /\ UNCHANGED <<raw, bundle, graph>>
    BY <1>9 DEF SearchRead, Raise, Goto
  <2> QED
    BY <1>9, <2>1 DEF SearchRead, Raise, Goto
<1>10. CASE Bm25Clear
  BY <1>10 DEF Bm25Clear, Goto
<1>11. CASE Bm25Write
  BY <1>11 DEF Bm25Write, Goto, New
<1>12. CASE Bm25NotBuilt
  <2>1. mem.built # 1
    BY <1>12 DEF Bm25NotBuilt
  <2> QED
    BY <1>12, <2>1 DEF Bm25NotBuilt, Goto
<1>13. CASE RowSearch
  BY <1>13 DEF RowSearch, UpdateRow, Raise, Finish, SearchStamp
<1>14. CASE SummariesRead
  <2>1. CASE Raise
    BY <1>14, <2>1 DEF SummariesRead, Raise
  <2>2. CASE ~Raise
    BY <1>14, <2>2, SummariesReads DEF GraphFrom
  <2> QED
    BY <2>1, <2>2
<1>15. CASE GraphRead
  BY <1>15 DEF GraphRead, Goto, GraphFrom, Torn
<1>16. CASE Crash
  BY <1>16 DEF Crash
<1>17. CASE ParseRepos
  BY <1>17 DEF ParseRepos
<1>18. CASE OperatorRemoves
  BY <1>18 DEF OperatorRemoves
<1>19. CASE UNCHANGED vars
  BY <1>19 DEF vars
<1> QED
  BY <1>1, <1>2, <1>3, <1>4, <1>5, <1>6, <1>7, <1>8, <1>9,
     <1>10, <1>11, <1>12, <1>13, <1>14, <1>15, <1>16, <1>17, <1>18, <1>19 DEF Next, BuilderStep

\* since the last build-summaries
LEMMA SinceSummariesStep ==
  ASSUME StoreInv, [Next]_vars
  PROVE  SinceSummaries'
<1> USE DEF StoreInv, CatalogInv, PipelineInv, TypeOK, Bundle, Artifact, RowKeys, PCs, Commands, None, NoArtifact,
        StepsOf, CarriedOver, DoneInOrder, SinceIndex, SinceSummaries, FromRaw, stored
<1>1. ASSUME NEW c \in Commands, Start(c) PROVE SinceSummaries'
  BY <1>1 DEF Start
<1>2. CASE IndexRead
  BY <1>2 DEF IndexRead, Raise, Goto
<1>3. CASE LoadRows
  BY <1>3 DEF LoadRows, Raise, Goto, Unreadable
<1>4. CASE ClearBundle
  BY <1>4 DEF ClearBundle, Goto
<1>5. CASE CommitBundle
  BY <1>5 DEF CommitBundle, Goto, MergedRows, OwnKey, New
<1>6. CASE GraphClear
  BY <1>6 DEF GraphClear, Goto, EmptyGraph
<1>7. CASE GraphLoad
  BY <1>7 DEF GraphLoad, Goto, Finish, GraphSums, New
<1>8. CASE RowGraph
  BY <1>8 DEF RowGraph, UpdateRow, Raise, Finish, IndexUnderWay
<1>9. CASE SearchRead
  BY <1>9 DEF SearchRead, Raise, Goto
<1>10. CASE Bm25Clear
  BY <1>10 DEF Bm25Clear, Goto
<1>11. CASE Bm25Write
  BY <1>11 DEF Bm25Write, Goto, New
<1>12. CASE Bm25NotBuilt
  BY <1>12 DEF Bm25NotBuilt, Goto
<1>13. CASE RowSearch
  BY <1>13 DEF RowSearch, UpdateRow, Raise, Finish, SearchStamp
<1>14. CASE SummariesRead
  <2>1. CASE Raise
    BY <1>14, <2>1 DEF SummariesRead, Raise
  <2>2. CASE ~Raise
    BY <1>14, <2>2, SummariesReads DEF GraphFrom
  <2> QED
    BY <2>1, <2>2
<1>15. CASE GraphRead
  BY <1>15 DEF GraphRead, Goto, GraphFrom, Torn
<1>16. CASE Crash
  BY <1>16 DEF Crash
<1>17. CASE ParseRepos
  BY <1>17 DEF ParseRepos
<1>18. CASE OperatorRemoves
  BY <1>18 DEF OperatorRemoves
<1>19. CASE UNCHANGED vars
  BY <1>19 DEF vars
<1> QED
  BY <1>1, <1>2, <1>3, <1>4, <1>5, <1>6, <1>7, <1>8, <1>9,
     <1>10, <1>11, <1>12, <1>13, <1>14, <1>15, <1>16, <1>17, <1>18, <1>19 DEF Next, BuilderStep

\* since the last build-search
LEMMA SinceSearchStep ==
  ASSUME StoreInv, [Next]_vars
  PROVE  SinceSearch'
<1> USE DEF StoreInv, CatalogInv, PipelineInv, TypeOK, Bundle, Artifact, RowKeys, PCs, Commands, None, NoArtifact,
        StepsOf, CarriedOver, DoneInOrder, SinceIndex, SinceSearch, SearchedRows, NoRows, stored
<1>1. ASSUME NEW c \in Commands, Start(c) PROVE SinceSearch'
  BY <1>1 DEF Start
<1>2. CASE IndexRead
  BY <1>2 DEF IndexRead, Raise, Goto
<1>3. CASE LoadRows
  BY <1>3 DEF LoadRows, Raise, Goto, Unreadable
<1>4. CASE ClearBundle
  BY <1>4 DEF ClearBundle, Goto, NoBundle
<1>5. CASE CommitBundle
  BY <1>5 DEF CommitBundle, Goto, MergedRows, OwnKey, New
<1>6. CASE GraphClear
  BY <1>6 DEF GraphClear, Goto
<1>7. CASE GraphLoad
  BY <1>7 DEF GraphLoad, Goto, Finish, New
<1>8. CASE RowGraph
  BY <1>8 DEF RowGraph, UpdateRow, Raise, Finish, IndexUnderWay
<1>9. CASE SearchRead
  BY <1>9 DEF SearchRead, Raise, Goto
<1>10. CASE Bm25Clear
  BY <1>10 DEF Bm25Clear, Goto
<1>11. CASE Bm25Write
  BY <1>11 DEF Bm25Write, Goto, New
<1>12. CASE Bm25NotBuilt
  BY <1>12 DEF Bm25NotBuilt, Goto
<1>13. CASE RowSearch
  BY <1>13 DEF RowSearch, UpdateRow, Raise, Finish, SearchStamp
<1>14. CASE SummariesRead
  BY <1>14 DEF SummariesRead, Raise, Goto
<1>15. CASE GraphRead
  BY <1>15 DEF GraphRead, Goto
<1>16. CASE Crash
  BY <1>16 DEF Crash
<1>17. CASE ParseRepos
  BY <1>17 DEF ParseRepos
<1>18. CASE OperatorRemoves
  BY <1>18 DEF OperatorRemoves, NoBundle
<1>19. CASE UNCHANGED vars
  BY <1>19 DEF vars
<1> QED
  BY <1>1, <1>2, <1>3, <1>4, <1>5, <1>6, <1>7, <1>8, <1>9,
     <1>10, <1>11, <1>12, <1>13, <1>14, <1>15, <1>16, <1>17, <1>18, <1>19 DEF Next, BuilderStep

-----------------------------------------------------------------------------
(* The invariant, and the types and the pipeline from it.                  *)

LEMMA StoreInit == Init => StoreInv
  BY GenAssumption, BuildsAssumption, CrashAssumption
  DEF Init, StoreInv, CatalogInv, PipelineInv, TypeOK, Bundle, Artifact, NoArtifact, NoBundle,
      NoMem, NoRows, Stamps, Gens, PCs, Commands, RowKeys, None, StepsOf, WholeBundle, CarriedOver,
      IndexUnderWay, GraphEmptied, DoneInOrder, SinceIndex, SinceSummaries, SinceSearch

LEMMA StoreStep ==
  ASSUME StoreInv, [Next]_vars
  PROVE  StoreInv'
<1>1. CatalogInv'
  BY TypeStep, StepsOfStep, CarriedStep DEF StoreInv, CatalogInv
<1>2. PipelineInv'
  BY IndexStep, DoneStep, SinceIndexStep, SinceSummariesStep, SinceSearchStep
  DEF StoreInv, PipelineInv
<1> QED
  BY <1>1, <1>2 DEF StoreInv

LEMMA StoreInvariant == Spec => []StoreInv
<1>1. StoreInv /\ [Next]_vars => StoreInv'
  BY StoreStep
<1> QED
  BY StoreInit, <1>1, PTL DEF Spec

(* Every variable has its type, whatever is killed and whenever.           *)
THEOREM StoreTypeCorrect == Spec => []TypeOK
<1>1. StoreInv => TypeOK
  BY DEF StoreInv, CatalogInv
<1> QED
  BY StoreInvariant, <1>1, PTL

(* However many commands were killed between which steps before, when      *)
(* build-index and the other two have finished since and nothing happened  *)
(* to the inventory, bundle, graph and index all come from it alone, and   *)
(* the rows of artifact_metadata name what is there.                       *)
THEOREM PipelineLeavesOneGeneration == Spec => []PipelineConsistent
<1>1. StoreInv => PipelineConsistent
  <2> SUFFICES ASSUME StoreInv, done = Commands
               PROVE  /\ bundle.dir = "ok" /\ bundle.index.from = {raw} /\ bundle.sums.from = {raw}
                      /\ graph.dir = "ok" /\ graph.base.from = {raw} /\ graph.sums.from = {raw}
                      /\ bundle.rows["search"] # None => tantivy.docs.from = {raw}
                      /\ bundle.rows["summary"] = bundle.sums.stamp
    BY DEF PipelineConsistent
  <2>1. cmd \in Commands /\ {"index", "search", "summaries"} \subseteq done
    BY DEF StoreInv, CatalogInv, TypeOK, Commands
  <2>2. pc = "off"
    BY <2>1 DEF StoreInv, PipelineInv, DoneInOrder
  <2> QED
    BY <2>1, <2>2 DEF StoreInv, PipelineInv, SinceIndex, SinceSummaries, SinceSearch, SearchedRows
<1> QED
  BY StoreInvariant, <1>1, PTL

-----------------------------------------------------------------------------
(* The bundle is the catalogue.                                            *)

\* a bundle's directory holds an environment or nothing is read from it
LEMMA ViewOfWhole ==
  ASSUME NEW b \in Bundle, WholeBundle(b)
  PROVE  b.dir = "ok" <=> ViewOf(b) # Catalog!Nothing
<1> USE DEF ViewOf, Catalog!Nothing, Catalog!NoRows
<1>1. CASE b.dir = "ok"
  BY <1>1 DEF WholeBundle
<1>2. CASE b.dir # "ok"
  BY <1>2 DEF WholeBundle, NoBundle, NoArtifact, NoRows
<1> QED
  BY <1>1, <1>2

\* a row rewritten in a bundle that is there
LEMMA RowStep ==
  ASSUME CatalogInv, NEW k \in {"graph", "search"}, NEW b \in Stamps, UpdateRow(k, b)
  PROVE  Catalog!UpdateRow(k, b) \/ UNCHANGED <<ViewOf(bundle), ViewOf(loaded)>>
<1>1. CASE bundle.dir # "ok"
  BY <1>1 DEF UpdateRow, Raise, stored
<1>2. CASE bundle.dir = "ok"
  <2>1. bundle' = [bundle EXCEPT !.rows = [@ EXCEPT ![k] = b]] /\ loaded' = loaded
    BY <1>2 DEF UpdateRow, Finish
  <2>2. ViewOf(bundle)' = [ViewOf(bundle) EXCEPT !.rows = [@ EXCEPT ![k] = b]]
    BY <2>1 DEF ViewOf, CatalogInv, TypeOK, Bundle
  <2>3. ViewOf(bundle) # Catalog!Nothing
    BY <1>2, ViewOfWhole DEF CatalogInv, TypeOK
  <2> QED
    BY <2>1, <2>2, <2>3 DEF Catalog!UpdateRow, ViewOf
<1> QED
  BY <1>1, <1>2

\* the transaction that fills the cleared directory
LEMMA CommitStep ==
  ASSUME CatalogInv, CommitBundle
  PROVE  Catalog!PublishIndex(clock) \/ Catalog!PublishSummaries(clock)
<1> USE DEF CatalogInv, TypeOK, Bundle, Commands
<1>1. ViewOf(bundle) = Catalog!Nothing
  BY ViewOfWhole DEF CommitBundle, CarriedOver
<1>2. mem.rows = loaded.rows /\ loaded' = loaded
  BY DEF CommitBundle, CarriedOver
<1>3. CASE cmd = "index"
  <2>1. bundle' = [dir |-> "ok", index |-> New, sums |-> NoArtifact,
                   rows |-> [loaded.rows EXCEPT !["parsed"] = clock]]
    BY <1>2, <1>3 DEF CommitBundle, MergedRows, OwnKey
  <2>2. ViewOf(bundle)' = [index |-> clock, sums |-> None,
                           rows |-> [ViewOf(loaded).rows EXCEPT !["parsed"] = clock]]
    BY <2>1 DEF ViewOf, New, NoArtifact
  <2> QED
    BY <1>1, <1>2, <2>2 DEF Catalog!PublishIndex, ViewOf
<1>4. CASE cmd # "index"
  <2>1. loaded.dir = "ok" /\ mem.sym = loaded.index
    BY <1>4 DEF CommitBundle, CarriedOver, StepsOf
  <2>2. bundle' = [dir |-> "ok", index |-> loaded.index, sums |-> New,
                   rows |-> [loaded.rows EXCEPT !["summary"] = clock]]
    BY <1>2, <1>4, <2>1 DEF CommitBundle, MergedRows, OwnKey
  <2>3. ViewOf(bundle)' = [ViewOf(loaded) EXCEPT !.sums = clock, !.rows = [@ EXCEPT !["summary"] = clock]]
    <3>1. ViewOf(bundle)' = [index |-> loaded.index.stamp, sums |-> clock,
                             rows |-> [loaded.rows EXCEPT !["summary"] = clock]]
      BY <2>2 DEF ViewOf, New
    <3>2. ViewOf(loaded) = [index |-> loaded.index.stamp, sums |-> loaded.sums.stamp, rows |-> loaded.rows]
      BY DEF ViewOf
    <3> DEFINE row == [loaded.rows EXCEPT !["summary"] = clock]
               one == [ViewOf(loaded) EXCEPT !.sums = clock]
    <3>3. one = [index |-> loaded.index.stamp, sums |-> clock, rows |-> loaded.rows]
      BY <3>2
    <3>4. [ViewOf(loaded) EXCEPT !.sums = clock, !.rows = row] = [one EXCEPT !.rows = row]
      BY <3>2
    <3> HIDE DEF row, one
    <3>5. [one EXCEPT !.rows = row] = [index |-> loaded.index.stamp, sums |-> clock, rows |-> row]
      BY <3>3
    <3>6. ViewOf(loaded).rows = loaded.rows
      BY <3>2
    <3> QED
      BY <3>1, <3>4, <3>5, <3>6 DEF row
  <2>4. ViewOf(loaded) # Catalog!Nothing
    BY <2>1, ViewOfWhole
  <2> QED
    BY <1>1, <1>2, <2>3, <2>4 DEF Catalog!PublishSummaries, ViewOf
<1> QED
  BY <1>3, <1>4

LEMMA CatalogStep ==
  ASSUME CatalogInv, [Next]_vars
  PROVE  [Catalog!Next]_<<ViewOf(bundle), ViewOf(loaded)>>
<1> DEFINE Steps == [Catalog!Next]_<<ViewOf(bundle), ViewOf(loaded)>>
<1>1. UNCHANGED <<bundle, loaded>> => Steps
  BY DEF ViewOf
<1>2. CASE LoadRows
  <2>1. CASE Unreadable
    BY <1>1, <1>2, <2>1 DEF LoadRows, Raise, stored
  <2>2. CASE ~Unreadable
    BY <1>2, <2>2 DEF LoadRows, stored, ViewOf, Catalog!Next, Catalog!Load
  <2> QED
    BY <2>1, <2>2
<1>3. CASE ClearBundle
  <2>1. loaded' = loaded /\ \E d : bundle' = NoBundle(d)
    BY <1>3 DEF ClearBundle
  <2>2. ViewOf(bundle)' = Catalog!Nothing
    BY <2>1 DEF ViewOf, NoBundle, NoArtifact, NoRows, Catalog!Nothing, Catalog!NoRows
  <2> QED
    BY <2>1, <2>2 DEF ViewOf, Catalog!Next, Catalog!Drop
<1>4. CASE CommitBundle
  <2>1. clock \in Builds
    BY <1>4, BuildsAssumption DEF CommitBundle, CatalogInv, StepsOf, TypeOK, Stamps, Builds
  <2> QED
    BY <1>4, <2>1, CommitStep DEF Catalog!Next
<1>5. CASE RowGraph \/ RowSearch
  <2>1. clock \in Stamps /\ SearchStamp \in Stamps /\ Stamps = Builds \cup {None}
    BY BuildsAssumption DEF CatalogInv, TypeOK, SearchStamp, Stamps, Builds, None
  <2> QED
    BY <1>5, <2>1, RowStep DEF RowGraph, RowSearch, Catalog!Next
<1>6. CASE OperatorRemoves
  <2>1. ViewOf(bundle) = Catalog!Nothing
    BY <1>6, ViewOfWhole DEF OperatorRemoves, CatalogInv, TypeOK
  <2>2. ViewOf(bundle)' = Catalog!Nothing
    BY <1>6 DEF OperatorRemoves, ViewOf, NoBundle, NoArtifact, NoRows, Catalog!Nothing, Catalog!NoRows
  <2> QED
    BY <1>6, <2>1, <2>2 DEF OperatorRemoves, ViewOf
<1>7. CASE \/ \E c \in Commands : Start(c)
           \/ IndexRead \/ GraphClear \/ GraphLoad \/ SearchRead \/ Bm25Clear \/ Bm25Write
           \/ Bm25NotBuilt \/ SummariesRead \/ GraphRead \/ Crash \/ ParseRepos \/ UNCHANGED vars
  <2>1. UNCHANGED <<bundle, loaded>>
    BY <1>7 DEF Start, IndexRead, GraphClear, GraphLoad, SearchRead, Bm25Clear, Bm25Write,
       Bm25NotBuilt, SummariesRead, GraphRead, Crash, ParseRepos, vars, stored, Goto, Raise, Finish
  <2> QED
    BY <1>1, <2>1
<1> QED
  BY <1>2, <1>3, <1>4, <1>5, <1>6, <1>7 DEF Next, BuilderStep

(* The writers implement the catalogue: the environment a reader opens is  *)
(* whole or absent, new symbols drop the old summaries, new summaries keep *)
(* the symbols they were computed from, and a replacement loses no row of  *)
(* another command (src/src/storage/lmdb_metadata.py, artifacts.py).       *)
THEOREM BundleIsCatalog == Spec => RefinesCatalog
<1>1. Init => Catalog!Init
  BY DEF Init, Catalog!Init, ViewOf, NoBundle, NoArtifact, NoRows, Catalog!Nothing, Catalog!NoRows
<1>2. StoreInv /\ [Next]_vars => [Catalog!Next]_<<ViewOf(bundle), ViewOf(loaded)>>
  BY CatalogStep DEF StoreInv
<1> QED
  BY StoreInvariant, <1>1, <1>2, PTL DEF Spec, RefinesCatalog, Catalog!Spec

-----------------------------------------------------------------------------
(* The checkpoint: the inductive invariant.                                *)

LinesOf(g) == {l \in Line : l = Bad \/ l.gen = g}
OneEach(recs) == \A r, q \in recs : r.unit = q.unit => r = q

\* what the file holds while its documents were not replaced
FileOfNow ==
  /\ file.exists = 0 => file.lines = <<>>
  /\ stale = 0 => file.lines \in Seq(LinesOf(search))

\* what a build that has loaded the file holds
Holding ==
  stage \in {"init_truncate", "init_write", "embed", "append", "index_write"} =>
    /\ OneEach(embedded)
    /\ stale = 0 => \A r \in embedded : r.gen = search
    /\ tainted = 0 => \A r \in embedded : r.ver = ver
    /\ stage = "index_write" => UnitsOf[search] \subseteq UnitsIn(embedded)

\* a batch is new
BatchIsNew ==
  stage = "append" =>
    /\ batch \in Seq(LinesOf(search))
    /\ \A i \in DOMAIN batch :
         /\ batch[i].gen = search /\ batch[i].ver = ver
         /\ batch[i].unit \notin UnitsIn(embedded)
    /\ \A i, j \in DOMAIN batch : batch[i].unit = batch[j].unit => i = j

EmbedParts == FileOfNow /\ Holding /\ BatchIsNew /\ ExactlyOnce /\ ResumeDoesNotMix
EmbedInv == EmbedTypeOK /\ EmbedParts

-----------------------------------------------------------------------------
(* What is written to the file and read back.                              *)

LEMMA NotBad == Bad \notin Record
BY UnitAssumption DEF Bad, Record, Units

\* no append makes a line of anything but the lines there, those appended and Bad
LEMMA GlueIn ==
  ASSUME NEW S, Bad \in S, NEW f, f.lines \in Seq(S), NEW recs \in Seq(S)
  PROVE  Glue(f, recs) \in Seq(S)
<1>1. CASE f.open = 1 /\ recs # <<>>
  <2>1. Len(f.lines) \in Nat /\ \A i \in 1..(Len(f.lines) - 1) : f.lines[i] \in S
    OBVIOUS
  <2>2. SubSeq(f.lines, 1, Len(f.lines) - 1) \in Seq(S)
    BY <2>1, SubSeqProperties
  <2>3. Tail(recs) \in Seq(S) /\ <<Bad>> \in Seq(S)
    BY <1>1
  <2> QED
    BY <1>1, <2>2, <2>3, ConcatProperties DEF Glue
<1>2. CASE ~(f.open = 1 /\ recs # <<>>)
  BY <1>2, ConcatProperties DEF Glue
<1> QED
  BY <1>1, <1>2

LEMMA LastBadIn ==
  ASSUME NEW S, Bad \in S, NEW lines \in Seq(S)
  PROVE  LastBad(lines) \in Seq(S)
<1>1. CASE Len(lines) \in 1..Len(lines)
  BY <1>1, ExceptSeq DEF LastBad
<1>2. CASE Len(lines) \notin 1..Len(lines)
  <2>1. LastBad(lines) = [i \in 1..Len(lines) |-> lines[i]]
    BY <1>2 DEF LastBad
  <2> QED
    BY <2>1, IsASeq
<1> QED
  BY <1>1, <1>2

\* a prefix of a batch
LEMMA PrefixIn ==
  ASSUME NEW S, NEW s \in Seq(S), NEW k \in 1..Len(s)
  PROVE  SubSeq(s, 1, k) \in Seq(S)
<1>1. \A i \in 1..k : s[i] \in S
  BY LenProperties
<1> QED
  BY <1>1, SubSeqProperties

\* of several records for one unit the first counts
LEMMA LoadableOnce ==
  ASSUME NEW lines \in Seq(Line)
  PROVE  Loadable(lines) \subseteq Record /\ OneEach(Loadable(lines))
<1>1. Loadable(lines) \subseteq Record
  BY DEF Loadable, Line
<1>2. ASSUME NEW r \in Loadable(lines), NEW q \in Loadable(lines), r.unit = q.unit
      PROVE  r = q
  <2>1. PICK i \in DOMAIN lines : r = lines[i] /\ \A k \in 1..(i - 1) : lines[k].unit # lines[i].unit
    BY DEF Loadable
  <2>2. PICK j \in DOMAIN lines : q = lines[j] /\ \A k \in 1..(j - 1) : lines[k].unit # lines[j].unit
    BY DEF Loadable
  <2>3. i \in 1..Len(lines) /\ j \in 1..Len(lines) /\ Len(lines) \in Nat
    BY LenProperties
  <2> QED
    BY <1>2, <2>1, <2>2, <2>3
<1> QED
  BY <1>1, <1>2 DEF OneEach

\* a batch names every unit once, of those that are left
LEMMA BatchOfUnits ==
  ASSUME EmbedTypeOK, NEW s \in Ascending, IsBatch(s)
  PROVE  /\ Vectors(s) \in Seq(Record) /\ Vectors(s) \in Seq(LinesOf(search))
         /\ \A i \in DOMAIN Vectors(s) :
              /\ Vectors(s)[i].gen = search /\ Vectors(s)[i].ver = ver
              /\ Vectors(s)[i].unit \notin UnitsIn(embedded)
         /\ \A i, j \in DOMAIN Vectors(s) : Vectors(s)[i].unit = Vectors(s)[j].unit => i = j
<1>1. PICK n \in 1..BatchSize : s \in [1..n -> Units]
  BY DEF Ascending
<1>2. n \in Nat /\ DOMAIN s = 1..n
  BY <1>1, BatchAssumption
<1>3. DOMAIN Vectors(s) = 1..n /\ Vectors(s) = [i \in 1..n |-> Vectors(s)[i]]
  BY <1>2 DEF Vectors
<1>4. \A i \in 1..n : Vectors(s)[i] = [unit |-> s[i], gen |-> search, ver |-> ver] /\ s[i] \in Units
  BY <1>1, <1>2 DEF Vectors
<1>5. \A i \in 1..n : Vectors(s)[i] \in Record /\ Vectors(s)[i] \in LinesOf(search)
  <2> SUFFICES ASSUME NEW i \in 1..n PROVE Vectors(s)[i] \in Record /\ Vectors(s)[i].gen = search
    BY DEF LinesOf, Line
  <2>1. search \in SearchGens /\ ver \in Versions
    BY DEF EmbedTypeOK
  <2>2. Vectors(s)[i] = [unit |-> s[i], gen |-> search, ver |-> ver] /\ s[i] \in Units
    BY <1>4
  <2> HIDE DEF Vectors
  <2>3. [unit |-> s[i], gen |-> search, ver |-> ver] \in Record
    BY <2>1, <2>2 DEF Record
  <2> QED
    BY <2>2, <2>3
<1>6. Vectors(s) \in Seq(Record) /\ Vectors(s) \in Seq(LinesOf(search))
  BY <1>2, <1>3, <1>5, IsASeq
<1>7. \A i \in 1..n : s[i] \notin UnitsIn(embedded)
  BY <1>2 DEF IsBatch, Remaining
<1>8. \A i, j \in 1..n : s[i] = s[j] => i = j
  <2> SUFFICES ASSUME NEW i \in 1..n, NEW j \in 1..n, s[i] = s[j] PROVE i = j
    OBVIOUS
  <2>1. s[i] \in Int /\ s[j] \in Int /\ i \in Int /\ j \in Int
    BY <1>1, <1>2, UnitAssumption DEF Units
  <2>2. (i < j => s[i] < s[j]) /\ (j < i => s[j] < s[i])
    BY <1>2 DEF IsBatch
  <2> QED
    BY <2>1, <2>2
<1> QED
  BY <1>2, <1>3, <1>4, <1>6, <1>7, <1>8

-----------------------------------------------------------------------------
(* The checkpoint's steps.                                                 *)

LEMMA EmbedInitInv == EmbedInit => EmbedInv
BY SearchAssumption, EmptySeq
DEF EmbedInit, EmbedInv, EmbedParts, EmbedTypeOK, FileOfNow, Holding, BatchIsNew, ExactlyOnce,
    ResumeDoesNotMix, NoFile, NoIndex, SearchGens, Versions, Missing, Stages

\* loading: nothing stale, foreign or double
LEMMA LoadKeeps ==
  ASSUME EmbedInv, Load
  PROVE  EmbedInv'
<1> USE DEF EmbedInv, EmbedParts
<1>1. file.lines \in Seq(Line)
  BY DEF EmbedTypeOK
<1>2. Loadable(file.lines) \subseteq Record /\ OneEach(Loadable(file.lines))
  BY <1>1, LoadableOnce
<1>3. embedded' \subseteq Record /\ OneEach(embedded')
  BY <1>2 DEF Load, OneEach
<1>4. EmbedTypeOK'
  BY <1>3 DEF Load, EmbedTypeOK, Stages
<1>5. stale = 0 => \A r \in embedded' : r.gen = search
  <2> SUFFICES ASSUME stale = 0, NEW r \in embedded' PROVE r.gen = search
    OBVIOUS
  <2>1. r \in Loadable(file.lines)
    BY DEF Load
  <2>2. r # Bad /\ \E i \in DOMAIN file.lines : r = file.lines[i]
    BY <2>1, <1>2, NotBad DEF Loadable
  <2> QED
    BY <2>2 DEF FileOfNow, LinesOf
<1>6. tainted' = 0 => \A r \in embedded' : r.ver = ver
  <2> SUFFICES ASSUME tainted' = 0, NEW r \in embedded' PROVE r.ver = ver
    OBVIOUS
  <2>1. r \in Loadable(file.lines) /\ meta = ver /\ ~Foreign(file.lines)
    BY DEF Load, Resumable
  <2> QED
    BY <2>1 DEF Loadable, Foreign
<1>7. /\ Holding' /\ BatchIsNew' /\ FileOfNow'
  BY <1>3, <1>5, <1>6 DEF Load, Holding, BatchIsNew, FileOfNow
<1>8. ExactlyOnce' /\ ResumeDoesNotMix'
  BY DEF Load, ExactlyOnce, ResumeDoesNotMix, UnitsIn
<1> QED
  BY <1>4, <1>7, <1>8

LEMMA EmbedBatchKeeps ==
  ASSUME EmbedInv, NEW s \in Ascending, EmbedBatch(s)
  PROVE  EmbedInv'
<1> USE DEF EmbedInv, EmbedParts
<1>1. /\ Vectors(s) \in Seq(Record) /\ Vectors(s) \in Seq(LinesOf(search))
      /\ \A i \in DOMAIN Vectors(s) :
           /\ Vectors(s)[i].gen = search /\ Vectors(s)[i].ver = ver
           /\ Vectors(s)[i].unit \notin UnitsIn(embedded)
      /\ \A i, j \in DOMAIN Vectors(s) : Vectors(s)[i].unit = Vectors(s)[j].unit => i = j
  BY BatchOfUnits DEF EmbedBatch
<1>2. batch' = Vectors(s) /\ stage' = "append" /\ UNCHANGED <<search, ver, file, meta, index, embedded, stale, tainted, faults>>
  BY DEF EmbedBatch
<1>3. EmbedTypeOK'
  BY <1>1, <1>2 DEF EmbedTypeOK, Stages
<1>4. BatchIsNew'
  BY <1>1, <1>2 DEF BatchIsNew, UnitsIn, LinesOf
<1>5. FileOfNow' /\ Holding' /\ ExactlyOnce' /\ ResumeDoesNotMix'
  BY <1>2 DEF EmbedBatch, FileOfNow, Holding, ExactlyOnce, ResumeDoesNotMix, UnitsIn, OneEach, LinesOf
<1> QED
  BY <1>3, <1>4, <1>5

LEMMA AppendKeeps ==
  ASSUME EmbedInv, AppendBatch
  PROVE  EmbedInv'
<1> USE DEF EmbedInv, EmbedParts
<1>1. file' = [exists |-> 1, lines |-> Glue(file, batch), open |-> 0] /\ embedded' = embedded \cup Batched
      /\ batch' = <<>> /\ stage = "append" /\ stage' = "embed"
      /\ UNCHANGED <<search, ver, meta, index, stale, tainted, faults>>
  BY DEF AppendBatch
<1>2. batch \in Seq(Record) /\ file.lines \in Seq(Line) /\ Bad \in Line /\ Record \subseteq Line
  BY DEF EmbedTypeOK, Line
<1>3. Glue(file, batch) \in Seq(Line)
  BY <1>2, GlueIn, SeqMonotonic
<1>4. Batched \subseteq Record
  BY <1>2 DEF Batched
<1>5. EmbedTypeOK'
  BY <1>1, <1>3, <1>4 DEF EmbedTypeOK, Stages
<1>6. FileOfNow'
  <2>1. stale = 0 => Glue(file, batch) \in Seq(LinesOf(search))
    <3>1. Bad \in LinesOf(search)
      BY DEF LinesOf, Line
    <3> QED
      BY <1>1, <3>1, GlueIn DEF FileOfNow, BatchIsNew
  <2> QED
    BY <1>1, <2>1 DEF FileOfNow, LinesOf
<1>7. OneEach(embedded')
  <2> SUFFICES ASSUME NEW r \in embedded', NEW q \in embedded', r.unit = q.unit PROVE r = q
    BY DEF OneEach
  <2>1. CASE r \in embedded /\ q \in embedded
    BY <1>1, <2>1 DEF Holding, OneEach
  <2>2. CASE r \in Batched /\ q \in Batched
    BY <1>1, <2>2 DEF Batched, BatchIsNew
  <2>3. ASSUME NEW a \in embedded, NEW b \in Batched PROVE a.unit # b.unit
    BY <1>1, <2>3 DEF Batched, BatchIsNew, UnitsIn
  <2> QED
    BY <1>1, <2>1, <2>2, <2>3
<1>8. Holding' /\ BatchIsNew'
  BY <1>1, <1>7 DEF Holding, BatchIsNew, Batched
<1>9. ExactlyOnce' /\ ResumeDoesNotMix'
  BY <1>1 DEF ExactlyOnce, ResumeDoesNotMix, UnitsIn
<1> QED
  BY <1>5, <1>6, <1>8, <1>9

LEMMA KilledKeeps ==
  ASSUME EmbedInv, KilledInAppend
  PROVE  EmbedInv'
<1> USE DEF EmbedInv, EmbedParts
<1>1. PICK k \in 1..Len(batch) :
        file'.lines \in {Glue(file, SubSeq(batch, 1, k)), LastBad(Glue(file, SubSeq(batch, 1, k)))}
  BY DEF KilledInAppend
<1>2. /\ file' = [exists |-> 1, lines |-> file'.lines, open |-> file'.open] /\ file'.open \in {0, 1}
      /\ stage = "append" /\ stage' = "off" /\ faults' = faults + 1 /\ faults < MaxFaults
      /\ UNCHANGED <<search, ver, meta, index, embedded, batch, stale, tainted>>
  BY DEF KilledInAppend
<1>3. ASSUME NEW S, Bad \in S, file.lines \in Seq(S), batch \in Seq(S) PROVE file'.lines \in Seq(S)
  BY <1>1, <1>3, GlueIn, LastBadIn, PrefixIn
<1>4. file'.lines \in Seq(Line)
  <2>1. batch \in Seq(Line) /\ file.lines \in Seq(Line) /\ Bad \in Line
    BY SeqMonotonic DEF EmbedTypeOK, Line
  <2> QED
    BY <1>3, <2>1
<1>5. EmbedTypeOK'
  BY <1>2, <1>4, SearchAssumption DEF EmbedTypeOK, Stages
<1>6. FileOfNow'
  <2>1. Bad \in LinesOf(search)
    BY DEF LinesOf, Line
  <2>2. stale = 0 => file'.lines \in Seq(LinesOf(search))
    BY <1>2, <1>3, <2>1 DEF FileOfNow, BatchIsNew
  <2> QED
    BY <1>2, <2>2 DEF FileOfNow, LinesOf
<1>7. Holding' /\ BatchIsNew' /\ ExactlyOnce' /\ ResumeDoesNotMix'
  BY <1>2 DEF Holding, BatchIsNew, ExactlyOnce, ResumeDoesNotMix, UnitsIn
<1> QED
  BY <1>5, <1>6, <1>7

\* the steps that touch neither the lines nor what was read from them
LEMMA OtherStepsKeep ==
  ASSUME EmbedInv,
         \/ Begin \/ InitTruncate \/ InitWrite \/ EmbedFails
         \/ IndexTruncate \/ IndexWrite \/ ClearFile \/ ClearMeta \/ Kill
         \/ RebuildSearch \/ Upgrade
  PROVE  EmbedInv'
<1> USE SearchAssumption, EmptySeq
    DEF EmbedInv, EmbedParts, EmbedTypeOK, FileOfNow, Holding, BatchIsNew, OneEach, LinesOf, ExactlyOnce,
        ResumeDoesNotMix, UnitsIn, Stages, SearchGens, Versions
<1>1. CASE Begin
  BY <1>1 DEF Begin
<1>2. CASE InitTruncate
  BY <1>2 DEF InitTruncate
<1>3. CASE InitWrite
  BY <1>3 DEF InitWrite
<1>4. CASE EmbedFails
  BY <1>4 DEF EmbedFails
<1>5. CASE IndexTruncate
  BY <1>5 DEF IndexTruncate, NoIndex, Remaining
<1>6. CASE IndexWrite
  BY <1>6 DEF IndexWrite
<1>7. CASE ClearFile
  BY <1>7 DEF ClearFile, NoFile
<1>8. CASE ClearMeta
  BY <1>8 DEF ClearMeta, Missing
<1>9. CASE Kill
  BY <1>9 DEF Kill
<1>10. CASE RebuildSearch
  BY <1>10 DEF RebuildSearch
<1>11. CASE Upgrade
  BY <1>11 DEF Upgrade
<1> QED
  BY <1>1, <1>2, <1>3, <1>4, <1>5, <1>6, <1>7, <1>8, <1>9, <1>10, <1>11

LEMMA EmbedInvariance == EmbedSpec => []EmbedInv
<1>1. EmbedInv /\ [EmbedNext]_embedVars => EmbedInv'
  <2> SUFFICES ASSUME EmbedInv, [EmbedNext]_embedVars PROVE EmbedInv'
    OBVIOUS
  <2>1. CASE UNCHANGED embedVars
    BY <2>1 DEF embedVars, EmbedInv, EmbedParts, EmbedTypeOK, FileOfNow, Holding, BatchIsNew,
       ExactlyOnce, ResumeDoesNotMix, UnitsIn, OneEach, LinesOf
  <2> QED
    BY <2>1, LoadKeeps, EmbedBatchKeeps, AppendKeeps, KilledKeeps, OtherStepsKeep DEF EmbedNext, BuildStep
<1> QED
  BY EmbedInitInv, <1>1, PTL DEF EmbedSpec

(* The file, the index and what a build holds of them keep their types.    *)
THEOREM EmbedTypeCorrect == EmbedSpec => []EmbedTypeOK
<1>1. EmbedInv => EmbedTypeOK
  BY DEF EmbedInv
<1> QED
  BY EmbedInvariance, <1>1, PTL

(* An index that can be read has one vector for every unit of its          *)
(* documents, whatever was torn, glued or skipped when the checkpoint was  *)
(* read back (src/src/embeddings/indexer.py).                              *)
THEOREM OneVectorPerUnit == EmbedSpec => []ExactlyOnce
<1>1. EmbedInv => ExactlyOnce
  BY DEF EmbedInv, EmbedParts
<1> QED
  BY EmbedInvariance, <1>1, PTL

(* Unless the documents were replaced while there was a checkpoint, or its *)
(* records were made under other settings than its meta file says, all     *)
(* vectors of an index were made from its documents under its settings.    *)
THEOREM ResumedOfOneKind == EmbedSpec => []ResumeDoesNotMix
<1>1. EmbedInv => ResumeDoesNotMix
  BY DEF EmbedInv, EmbedParts
<1> QED
  BY EmbedInvariance, <1>1, PTL
=============================================================================
