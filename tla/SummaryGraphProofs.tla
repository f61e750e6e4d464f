------------------------- MODULE SummaryGraphProofs -------------------------
(***************************************************************************)
(* Proofs about SummaryGraph, for every content of the generations, every  *)
(* number of runs, and kills between any two steps: the graph has one edge *)
(* per summary, it tells what the bundle tells, and the feedback of the    *)
(* edge counts settles.                                                    *)
(***************************************************************************)
EXTENDS SummaryGraph, FiniteSetTheorems, TLAPS

-----------------------------------------------------------------------------
(* The inductive invariant.                                                *)

\* what build_summary_artifacts would write now
Texts == [i \in Item |-> IF i \in Summarised THEN TextOf(i) ELSE Absent]

\* a run that has not ended is not counted as completed
RunsCounted == settled <= runs /\ (pc # "off" => settled < runs)

\* neither inventory nor graph changes under a run that has read them
PayloadIsCurrent == pc \in {"commit", "augment"} => payload = Texts

StoredFirst == pc = "augment" => sums = payload

\* one completed run has added every node and edge there is to add ...
GraphIsFull ==
  settled >= 1 => \A i \in Summarised : nodeText[i] # Absent /\ (InGraph(i) => marks[i] = 1)

\* ... and the next one has counted them
BundleIsCurrent == settled >= 2 => sums = Texts

\* while no newer inventory was parsed, what is stored was made from this one
Aligned ==
  /\ index <= raw
  /\ raw = index =>
       \A i \in Item :
         /\ nodeText[i] # Absent => Unmarked(nodeText[i]) = Unmarked(TextOf(i))
         /\ sums[i] # Absent => i \in Summarised /\ Unmarked(sums[i]) = Unmarked(TextOf(i))

IInv ==
  /\ TypeOK /\ RunsCounted /\ OneEdgePerSummary
  /\ PayloadIsCurrent /\ StoredFirst /\ GraphIsFull /\ BundleIsCurrent /\ Aligned

-----------------------------------------------------------------------------
(* Texts.                                                                  *)

LEMMA FiniteCounts ==
  ASSUME TypeOK
  PROVE  /\ Cardinality(BaseEdges) \in Nat /\ TotalMarks \in Nat
         /\ \A i \in Item : InCount(i) \in Nat /\ OutCount(i) \in Nat
<1>1. BaseEdges \subseteq Item \X Item
  BY ContentAssumption DEF BaseEdges, TypeOK
<1>2. IsFiniteSet(BaseEdges)
  BY <1>1, FiniteAssumption, FS_Product, FS_Subset
<1>3. \A i \in Item : InCount(i) \in Nat /\ OutCount(i) \in Nat
  <2> TAKE i \in Item
  <2>1. /\ {e \in BaseEdges : e[2] = i} \subseteq BaseEdges
        /\ {e \in BaseEdges : e[1] = i} \subseteq BaseEdges
    OBVIOUS
  <2>2. /\ IsFiniteSet({e \in BaseEdges : e[2] = i})
        /\ IsFiniteSet({e \in BaseEdges : e[1] = i})
    BY <1>2, <2>1, FS_Subset
  <2> QED
    BY <2>2, FS_CardinalityType DEF InCount, OutCount
<1>4. TotalMarks \in Nat
  <2> DEFINE M == {x \in Item \X (1..MaxRuns) : x[2] <= marks[x[1]]}
  <2>1. IsFiniteSet(1..MaxRuns)
    BY RunsAssumption, FS_Interval
  <2>2. IsFiniteSet(Item \X (1..MaxRuns))
    BY <2>1, FiniteAssumption, FS_Product
  <2>3. M \subseteq Item \X (1..MaxRuns)
    OBVIOUS
  <2>4. IsFiniteSet(M)
    BY <2>2, <2>3, FS_Subset
  <2> QED
    BY <2>4, FS_CardinalityType DEF TotalMarks
<1> QED
  BY <1>2, <1>3, <1>4, FS_CardinalityType

LEMMA TextIsText ==
  ASSUME TypeOK, NEW i \in Item
  PROVE  TextOf(i) \in Text
<1>1. raw \in Gens /\ index \in Gens /\ marks[i] \in Nat
  BY DEF TypeOK
<1>2. Gens \subseteq 0..MaxGen /\ 0 \in 0..MaxGen
  BY RunsAssumption DEF Gens
<1>3. CASE i \in Symbol
  <2>1. TextOf(i) = CountedText(i)
    BY <1>3, KindAssumption DEF TextOf, Place
  <2> QED
    BY <2>1, <1>1, <1>2, FiniteCounts DEF CountedText, Text
<1>4. CASE i = Project
  <2>1. TextOf(i) = [raw |-> raw, index |-> index, in |-> 0,
                     out |-> Cardinality(BaseEdges), marks |-> TotalMarks]
    BY <1>4, KindAssumption DEF TextOf, Place
  <2> QED
    BY <2>1, <1>1, <1>2, FiniteCounts DEF Text
<1>5. CASE i \in Dir
  <2>1. TextOf(i) = [raw |-> raw, index |-> index, in |-> 0, out |-> 0, marks |-> 0]
    BY <1>5, KindAssumption DEF TextOf, Place
  <2> QED
    BY <2>1, <1>1, <1>2 DEF Text
<1>6. CASE i \in File
  <2>1. TextOf(i) = [raw |-> IF i \in OfIndex THEN 0 ELSE raw, index |-> index,
                     in |-> 0, out |-> 0, marks |-> 0]
    BY <1>6, KindAssumption DEF TextOf, Place
  <2> QED
    BY <2>1, <1>1, <1>2 DEF Text
<1> QED
  BY <1>3, <1>4, <1>5, <1>6 DEF Item

LEMMA TextNotAbsent == Absent \notin Text
BY DEF Absent, Text, Gens

LEMMA TextsType ==
  ASSUME TypeOK
  PROVE  /\ Texts \in [Item -> Text \cup {Absent}]
         /\ \A i \in Item : Texts[i] # Absent <=> i \in Summarised
BY TextIsText, TextNotAbsent DEF Texts

\* what a text says besides the edges summaries add depends on the inputs only
LEMMA UnmarkedKept ==
  ASSUME NEW i \in Item, raw' = raw, index' = index
  PROVE  Unmarked(TextOf(i))' = Unmarked(TextOf(i))
<1>1. BaseEdges' = BaseEdges /\ OfIndex' = OfIndex
  BY DEF BaseEdges, OfIndex
<1>2. CASE i \in Symbol
  <2>1. TextOf(i) = CountedText(i) /\ TextOf(i)' = CountedText(i)'
    BY <1>2, KindAssumption DEF TextOf, Place
  <2>2. InCount(i)' = InCount(i) /\ OutCount(i)' = OutCount(i)
    BY <1>1 DEF InCount, OutCount
  <2> QED
    BY <2>1, <2>2 DEF CountedText, Unmarked
<1>3. CASE i = Project
  <2>1. TextOf(i) = [raw |-> raw, index |-> index, in |-> 0,
                     out |-> Cardinality(BaseEdges), marks |-> TotalMarks]
    BY <1>3, KindAssumption DEF TextOf, Place
  <2>2. TextOf(i)' = [raw |-> raw, index |-> index, in |-> 0,
                      out |-> Cardinality(BaseEdges), marks |-> TotalMarks']
    BY <1>3, <1>1, KindAssumption DEF TextOf, Place
  <2> QED
    BY <2>1, <2>2 DEF Unmarked
<1>4. CASE i \in Dir
  <2>1. TextOf(i)' = TextOf(i)
    BY <1>4, KindAssumption DEF TextOf, Place
  <2> QED
    BY <2>1 DEF Unmarked
<1>5. CASE i \in File
  <2>1. TextOf(i)' = TextOf(i)
    BY <1>5, <1>1, KindAssumption DEF TextOf, Place
  <2> QED
    BY <2>1 DEF Unmarked
<1> QED
  BY <1>2, <1>3, <1>4, <1>5 DEF Item

LEMMA SummarisedKept ==
  ASSUME raw' = raw, index' = index
  PROVE  Summarised' = Summarised /\ \A i \in Item : InGraph(i)' <=> InGraph(i)
BY DEF Summarised, OfIndex, OfRaw, InGraph

LEMMA TextsKept ==
  ASSUME raw' = raw, index' = index, marks' = marks
  PROVE  Texts' = Texts
<1>1. Summarised' = Summarised
  BY SummarisedKept
<1>2. ASSUME NEW i \in Item PROVE TextOf(i)' = TextOf(i)
  BY DEF TextOf, CountedText, InCount, OutCount, BaseEdges, TotalMarks, OfIndex
<1> QED
  BY <1>1, <1>2 DEF Texts

-----------------------------------------------------------------------------
(* Init and the steps.                                                     *)

LEMMA InitInv == Init => IInv
<1> SUFFICES ASSUME Init PROVE IInv
  OBVIOUS
<1>1. NoTexts \in [Item -> Text \cup {Absent}]
  BY DEF NoTexts
<1>2. TypeOK
  BY <1>1, RunsAssumption DEF Init, TypeOK, Gens
<1>3. \A i \in Item : marks[i] = 0 /\ nodeText[i] = Absent /\ sums[i] = Absent
  BY DEF Init, NoTexts
<1> QED
  BY <1>2, <1>3, RunsAssumption
     DEF Init, IInv, RunsCounted, OneEdgePerSummary, PayloadIsCurrent, StoredFirst, GraphIsFull,
         BundleIsCurrent, Aligned

\* a step that writes neither store keeps what is said of them
LEMMA StoresKeep ==
  ASSUME IInv, UNCHANGED <<raw, index, sums, nodeText, marks, settled>>
  PROVE  OneEdgePerSummary' /\ GraphIsFull' /\ BundleIsCurrent' /\ Aligned' /\ Texts' = Texts
<1> USE DEF IInv
<1>1. Texts' = Texts
  BY TextsKept
<1>2. Summarised' = Summarised /\ \A i \in Item : InGraph(i)' <=> InGraph(i)
  BY SummarisedKept
<1>3. BundleIsCurrent'
  BY <1>1 DEF BundleIsCurrent
<1>4. Summarised \subseteq Item
  BY DEF Summarised, Item, Place
<1>5. OneEdgePerSummary' /\ GraphIsFull'
  BY <1>2, <1>4 DEF OneEdgePerSummary, GraphIsFull
<1>6. Aligned'
  BY <1>2, UnmarkedKept DEF Aligned, Unmarked
<1> QED
  BY <1>1, <1>3, <1>5, <1>6

LEMMA StartKeeps == IInv /\ Start => IInv'
<1> SUFFICES ASSUME IInv, Start PROVE IInv'
  OBVIOUS
<1> USE DEF IInv
<1>1. OneEdgePerSummary' /\ GraphIsFull' /\ BundleIsCurrent' /\ Aligned'
  BY StoresKeep DEF Start
<1>2. TypeOK' /\ RunsCounted'
  BY RunsAssumption DEF Start, TypeOK, RunsCounted
<1>3. PayloadIsCurrent' /\ StoredFirst'
  BY DEF Start, PayloadIsCurrent, StoredFirst
<1> QED
  BY <1>1, <1>2, <1>3

LEMMA ReadKeeps == IInv /\ Read => IInv'
<1> SUFFICES ASSUME IInv, Read PROVE IInv'
  OBVIOUS
<1> USE DEF IInv
<1>1. OneEdgePerSummary' /\ GraphIsFull' /\ BundleIsCurrent' /\ Aligned' /\ Texts' = Texts
  BY StoresKeep DEF Read
<1>2. payload' = Texts
  BY DEF Read, Texts
<1>3. TypeOK' /\ RunsCounted'
  BY <1>2, TextsType DEF Read, TypeOK, RunsCounted
<1>4. PayloadIsCurrent' /\ StoredFirst'
  BY <1>1, <1>2 DEF Read, PayloadIsCurrent, StoredFirst
<1> QED
  BY <1>1, <1>3, <1>4

LEMMA CommitKeeps == IInv /\ Commit => IInv'
<1> SUFFICES ASSUME IInv, Commit PROVE IInv'
  OBVIOUS
<1> USE DEF IInv
<1>1. Texts' = Texts /\ sums' = Texts /\ payload' = Texts
  BY TextsKept DEF Commit, PayloadIsCurrent
<1>2. TypeOK' /\ RunsCounted'
  BY DEF Commit, TypeOK, RunsCounted
<1>3. PayloadIsCurrent' /\ StoredFirst' /\ BundleIsCurrent'
  BY <1>1 DEF Commit, PayloadIsCurrent, StoredFirst, BundleIsCurrent
<1>4. Summarised' = Summarised /\ \A i \in Item : InGraph(i)' <=> InGraph(i)
  BY SummarisedKept DEF Commit
<1>5. OneEdgePerSummary' /\ GraphIsFull'
  <2>1. Summarised \subseteq Item
    BY DEF Summarised, Item, Place
  <2> QED
    BY <1>4, <2>1 DEF OneEdgePerSummary, GraphIsFull, Commit
<1>6. Aligned'
  <2>1. ASSUME NEW i \in Item
        PROVE  /\ Unmarked(TextOf(i))' = Unmarked(TextOf(i))
               /\ sums'[i] # Absent => i \in Summarised /\ sums'[i] = TextOf(i)
    BY <1>1, UnmarkedKept DEF Texts, Commit
  <2> QED
    BY <2>1, <1>4 DEF Aligned, Unmarked, Commit
<1> QED
  BY <1>2, <1>3, <1>5, <1>6

LEMMA CrashKeeps == IInv /\ Crash => IInv'
<1> SUFFICES ASSUME IInv, Crash PROVE IInv'
  OBVIOUS
<1> USE DEF IInv
<1>1. OneEdgePerSummary' /\ GraphIsFull' /\ BundleIsCurrent' /\ Aligned'
  BY StoresKeep DEF Crash
<1>2. TypeOK' /\ RunsCounted' /\ PayloadIsCurrent' /\ StoredFirst'
  BY DEF Crash, TypeOK, RunsCounted, PayloadIsCurrent, StoredFirst
<1> QED
  BY <1>1, <1>2

LEMMA ParseReposKeeps == IInv /\ ParseRepos => IInv'
<1> SUFFICES ASSUME IInv, ParseRepos PROVE IInv'
  OBVIOUS
<1> USE DEF IInv
<1>1. TypeOK' /\ RunsCounted'
  BY RunsAssumption DEF ParseRepos, TypeOK, RunsCounted, Gens
<1>2. \A i \in Item : InGraph(i)' <=> InGraph(i)
  BY DEF ParseRepos, InGraph, OfIndex
<1>3. OneEdgePerSummary'
  BY <1>2 DEF ParseRepos, OneEdgePerSummary
<1>4. PayloadIsCurrent' /\ StoredFirst' /\ GraphIsFull' /\ BundleIsCurrent'
  BY DEF ParseRepos, PayloadIsCurrent, StoredFirst, GraphIsFull, BundleIsCurrent
<1>5. Aligned'
  BY DEF ParseRepos, Aligned, TypeOK, Gens
<1> QED
  BY <1>1, <1>3, <1>4, <1>5

LEMMA BuildIndexKeeps == IInv /\ BuildIndex => IInv'
<1> SUFFICES ASSUME IInv, BuildIndex PROVE IInv'
  OBVIOUS
<1> USE DEF IInv
<1>1. NoTexts \in [Item -> Text \cup {Absent}]
  BY DEF NoTexts
<1>2. TypeOK' /\ RunsCounted'
  BY <1>1, RunsAssumption DEF BuildIndex, TypeOK, RunsCounted
<1>3. \A i \in Item : marks'[i] = 0 /\ nodeText'[i] = Absent /\ sums'[i] = Absent
  BY DEF BuildIndex, NoTexts
<1>4. OneEdgePerSummary'
  BY <1>3 DEF OneEdgePerSummary
<1>5. PayloadIsCurrent' /\ StoredFirst' /\ GraphIsFull' /\ BundleIsCurrent'
  BY DEF BuildIndex, PayloadIsCurrent, StoredFirst, GraphIsFull, BundleIsCurrent
<1>6. Aligned'
  BY <1>3 DEF BuildIndex, Aligned, TypeOK, Gens
<1> QED
  BY <1>2, <1>4, <1>5, <1>6

\* what a run adds to the graph: nothing, once one run has completed
LEMMA AugmentAdds ==
  ASSUME IInv, Augment
  PROVE  /\ \A i \in Summarised :
               nodeText'[i] # Absent /\ (InGraph(i) => marks'[i] = 1)
         /\ settled >= 1 => nodeText' = nodeText /\ marks' = marks
<1> USE DEF IInv
<1>1. \A i \in Item : payload[i] # Absent <=> i \in Summarised
  BY TextsType DEF Augment, PayloadIsCurrent
<1>2. \A i \in Item : marks[i] \in {0, 1}
  BY DEF OneEdgePerSummary, TypeOK
<1>3. Summarised \subseteq Item
  BY DEF Summarised, Item, Place
<1>4. \A i \in Item : Marked(i) = 1 /\ (payload[i] # Absent => KeptText(i) # Absent)
  BY <1>2 DEF Marked, KeptText
<1>5. ASSUME NEW i \in Summarised
      PROVE  nodeText'[i] # Absent /\ (InGraph(i) => marks'[i] = 1)
  BY <1>1, <1>3, <1>4 DEF Augment
<1>6. ASSUME settled >= 1 PROVE nodeText' = nodeText /\ marks' = marks
  <2>1. \A i \in Summarised : KeptText(i) = nodeText[i] /\ (InGraph(i) => Marked(i) = marks[i])
    BY <1>3, <1>4, <1>6 DEF GraphIsFull, KeptText
  <2>2. nodeText' = [i \in Item |-> nodeText[i]]
    BY <1>1, <2>1 DEF Augment
  <2>3. marks' = [i \in Item |-> marks[i]]
    BY <1>1, <2>1 DEF Augment
  <2> QED
    BY <2>2, <2>3 DEF TypeOK
<1> QED
  BY <1>5, <1>6

LEMMA AugmentKeeps == IInv /\ Augment => IInv'
<1> SUFFICES ASSUME IInv, Augment PROVE IInv'
  OBVIOUS
<1> USE DEF IInv
<1>1. Summarised' = Summarised /\ \A i \in Item : InGraph(i)' <=> InGraph(i)
  BY SummarisedKept DEF Augment
<1>2. Summarised \subseteq Item
  BY DEF Summarised, Item, Place
<1>3. \A i \in Item : payload[i] # Absent <=> i \in Summarised
  BY TextsType DEF Augment, PayloadIsCurrent
<1>4. \A i \in Item : marks[i] \in {0, 1} /\ Marked(i) = 1
  BY DEF OneEdgePerSummary, TypeOK, Marked
<1>5. TypeOK' /\ RunsCounted'
  <2>1. \A i \in Item : KeptText(i) \in Text \cup {Absent}
    BY DEF KeptText, TypeOK
  <2>2. nodeText' \in [Item -> Text \cup {Absent}]
    BY <2>1 DEF Augment, TypeOK
  <2>3. marks' \in [Item -> Nat]
    BY <1>4 DEF Augment, TypeOK
  <2> QED
    BY <2>2, <2>3, RunsAssumption DEF Augment, TypeOK, RunsCounted
<1>6. OneEdgePerSummary'
  <2> SUFFICES ASSUME NEW i \in Item
               PROVE  /\ marks'[i] <= 1
                      /\ marks'[i] = 1 => nodeText'[i] # Absent
                      /\ nodeText'[i] # Absent /\ InGraph(i) => marks'[i] = 1
    BY <1>1 DEF OneEdgePerSummary
  <2>1. CASE i \in Summarised
    BY <2>1, <1>4, AugmentAdds DEF Augment
  <2>2. CASE i \notin Summarised
    BY <2>2, <1>3 DEF Augment, OneEdgePerSummary
  <2> QED
    BY <2>1, <2>2
<1>7. PayloadIsCurrent' /\ StoredFirst'
  BY DEF Augment, PayloadIsCurrent, StoredFirst
<1>8. GraphIsFull'
  BY <1>1, <1>2, AugmentAdds DEF GraphIsFull
<1>9. BundleIsCurrent'
  <2> SUFFICES ASSUME settled' >= 2 PROVE sums' = Texts'
    BY DEF BundleIsCurrent
  <2>1. settled >= 1
    BY DEF Augment, TypeOK
  <2>2. Texts' = Texts
    BY <2>1, AugmentAdds, TextsKept DEF Augment
  <2> QED
    BY <2>2 DEF Augment, PayloadIsCurrent, StoredFirst
<1>10. Aligned'
  <2> SUFFICES ASSUME raw = index, NEW i \in Item
               PROVE  /\ nodeText'[i] # Absent => Unmarked(nodeText'[i]) = Unmarked(TextOf(i))'
                      /\ sums[i] # Absent => i \in Summarised /\ Unmarked(sums[i]) = Unmarked(TextOf(i))'
    BY <1>1 DEF Aligned, Augment, Unmarked
  <2>1. Unmarked(TextOf(i))' = Unmarked(TextOf(i))
    BY UnmarkedKept DEF Augment
  <2>2. payload[i] # Absent => payload[i] = TextOf(i)
    BY DEF Augment, PayloadIsCurrent, Texts
  <2>3. nodeText'[i] = nodeText[i] \/ (nodeText'[i] = payload[i])
    BY DEF Augment, KeptText
  <2> QED
    BY <2>1, <2>2, <2>3 DEF Aligned
<1> QED
  BY <1>5, <1>6, <1>7, <1>8, <1>9, <1>10

LEMMA NextKeeps == IInv /\ [Next]_vars => IInv'
<1> SUFFICES ASSUME IInv, [Next]_vars PROVE IInv'
  OBVIOUS
<1>1. CASE UNCHANGED vars
  <2>1. TypeOK' /\ RunsCounted' /\ PayloadIsCurrent' /\ StoredFirst'
    <3>1. Texts' = Texts
      BY <1>1, TextsKept DEF vars
    <3> QED
      BY <1>1, <3>1 DEF vars, IInv, TypeOK, RunsCounted, PayloadIsCurrent, StoredFirst
  <2> QED
    BY <1>1, <2>1, StoresKeep DEF vars, IInv
<1> QED
  BY <1>1, StartKeeps, ReadKeeps, CommitKeeps, AugmentKeeps, CrashKeeps, ParseReposKeeps,
     BuildIndexKeeps DEF Next

LEMMA Invariance == Spec => []IInv
<1>1. Init => IInv
  BY InitInv
<1>2. IInv /\ [Next]_vars => IInv'
  BY NextKeeps
<1> QED
  BY <1>1, <1>2, PTL DEF Spec

-----------------------------------------------------------------------------
(* Every variable keeps its type: what a run quotes are counts of a finite *)
(* graph, and no more runs complete than are started.                      *)
THEOREM TypeCorrect == Spec => []TypeOK
<1>1. IInv => TypeOK
  BY DEF IInv
<1> QED
  BY <1>1, Invariance, PTL

(* However often runs of build-summaries die between the two stores, the   *)
(* graph holds one SUMMARIZED_BY edge per summary of a node it has.        *)
THEOREM OneEdge == Spec => []OneEdgePerSummary
<1>1. IInv => OneEdgePerSummary
  BY DEF IInv
<1> QED
  BY <1>1, Invariance, PTL

(* Once a run has completed on an index of the inventory there is, the     *)
(* texts append_summary_node keeps differ from the bundle's only in the    *)
(* counts of summary edges.                                                *)
THEOREM GraphMatches == Spec => []GraphMatchesBundle
<1>1. IInv => GraphMatchesBundle
  BY DEF IInv, GraphMatchesBundle, Aligned, GraphIsFull
<1> QED
  BY <1>1, Invariance, PTL

(* The feedback of build-summaries through the edge counts ends: after two *)
(* completed runs on one inventory and index a run changes neither store.  *)
THEOREM Settled == Spec => SummariesSettle
<1>1. IInv /\ [Next]_vars =>
        [settled >= 2 /\ (Commit \/ Augment) => UNCHANGED <<sums, nodeText, marks>>]_vars
  <2> SUFFICES ASSUME IInv, settled >= 2, Commit \/ Augment
               PROVE  UNCHANGED <<sums, nodeText, marks>>
    OBVIOUS
  <2>1. CASE Commit
    BY <2>1 DEF IInv, Commit, PayloadIsCurrent, BundleIsCurrent
  <2>2. CASE Augment
    <3>1. settled >= 1
      BY DEF IInv, TypeOK
    <3> QED
      BY <2>2, <3>1, AugmentAdds DEF Augment
  <2> QED
    BY <2>1, <2>2
<1> QED
  BY <1>1, Invariance, PTL DEF Spec, SummariesSettle
=============================================================================
