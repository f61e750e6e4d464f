------------------------- MODULE BuildResumeProofs -------------------------
(***************************************************************************)
(* Safety of the resume loop for any number of repositories, generations   *)
(* and faults.                                                             *)
(***************************************************************************)
EXTENDS BuildResume, TLAPS

(* The checkpoint table keeps its type under each of the upserts           *)
(* (scripts/build_index.sh:97-165).                                        *)
LEMMA UpsertType ==
  ASSUME row \in [Repos -> Row], NEW r, NEW code \in ExitCodes,
         UpsertRunning(r) \/ UpsertDone(r) \/ UpsertFailed(r, code)
  PROVE  row' \in [Repos -> Row]
<1>1. CASE r \in Repos
  BY <1>1 DEF UpsertRunning, UpsertDone, UpsertFailed, Row, Statuses, ExitCodes, Null
<1>2. CASE r \notin Repos
  <2>1. PICK new : row' = [row EXCEPT ![r] = new]
    BY DEF UpsertRunning, UpsertDone, UpsertFailed
  <2>2. QED
    BY <2>1, <1>2
<1>3. QED
  BY <1>1, <1>2

\* The other rows are untouched by an upsert.
LEMMA UpsertOthers ==
  ASSUME NEW r, NEW q \in Repos, q # r, NEW code, row \in [Repos -> Row],
         UpsertRunning(r) \/ UpsertDone(r) \/ UpsertFailed(r, code)
  PROVE  row'[q] = row[q]
BY DEF UpsertRunning, UpsertDone, UpsertFailed

LEMMA UpsertStatus ==
  ASSUME NEW r \in Repos, NEW code, row \in [Repos -> Row]
  PROVE  /\ UpsertRunning(r) => row'[r].status = "running"
         /\ UpsertDone(r) => row'[r].status = "completed"
         /\ UpsertFailed(r, code) => row'[r].status = "failed"
BY DEF UpsertRunning, UpsertDone, UpsertFailed, Row

LEMMA InitIInv == Init => IInv
<1> SUFFICES ASSUME Init PROVE IInv
  OBVIOUS
<1> USE NAssumption, GenAssumption, FaultAssumption DEF Init
<1>1. TypeOK
  BY DEF TypeOK, NoRepo, Null, ExitCodes, Signals, Statuses, PCs, Outcomes, NoIndex, Row, AbsentRow
<1>2. LoopInv /\ CompletedMeansIndexed /\ ClaimMeansCompleted
  BY DEF LoopInv, CompletedMeansIndexed, ClaimMeansCompleted, AtRepo, AtChild, Completed, AbsentRow
<1>3. QED
  BY <1>1, <1>2 DEF IInv

LEMMA NextType == TypeOK /\ LoopInv /\ [Next]_vars => TypeOK'
<1> SUFFICES ASSUME TypeOK, LoopInv, [Next]_vars PROVE TypeOK'
  OBVIOUS
<1> USE NAssumption, GenAssumption, FaultAssumption
    DEF TypeOK, ExitCodes, Signals, PCs, Outcomes, NoIndex, store, script
<1>1. CASE Start
  BY <1>1 DEF Start, NoRepo
<1>2. CASE ListRepos
  BY <1>2 DEF ListRepos, Finish
<1>3. ASSUME NEW r \in Repos, SkipDone(r) PROVE TypeOK'
  BY <1>3 DEF SkipDone
<1>4. ASSUME NEW r \in Repos, TakeRepo(r) PROVE TypeOK'
  BY <1>4 DEF TakeRepo
<1>5. CASE MarkRunning
  BY <1>5, UpsertType DEF MarkRunning
<1>6. CASE ChildRead
  <2>1. cur \in Repos
    BY <1>6 DEF ChildRead, LoopInv, AtRepo, AtChild
  <2>2. QED
    BY <1>6, <2>1 DEF ChildRead
<1>7. CASE ChildClear
  <2>1. index' = [index EXCEPT ![cur] = 0] /\ 0 \in 0..MaxGen /\ cur \in Repos
    BY <1>7 DEF ChildClear, Cleared, LoopInv, AtRepo, AtChild
  <2>2. index' \in [Repos -> 0..MaxGen] /\ unreadable' \in SUBSET Repos
    BY <1>7, <2>1 DEF ChildClear, Cleared
  <2>3. QED
    BY <1>7, <2>2 DEF ChildClear
<1>8. CASE ChildWrite
  BY <1>8 DEF ChildWrite
<1>9. CASE ChildReturned
  BY <1>9 DEF ChildReturned
<1>10. CASE MarkFailed
  <2>1. UpsertFailed(cur, rc)
    BY <1>10 DEF MarkFailed
  <2>2. row' \in [Repos -> Row]
    BY <2>1, UpsertType
  <2>3. QED
    BY <1>10, <2>2 DEF MarkFailed, Finish
<1>11. CASE MarkDone
  BY <1>11, UpsertType DEF MarkDone
<1>12. CASE AllComplete
  BY <1>12 DEF AllComplete, Finish
<1>13. CASE OnInterrupt
  BY <1>13, UpsertType DEF OnInterrupt, Finish
<1>14. CASE ChildFails
  BY <1>14 DEF ChildFails
<1>15. CASE Signal
  BY <1>15 DEF Signal
<1>16. CASE Kill
  BY <1>16 DEF Kill, Finish
<1>17. ASSUME NEW r \in Repos, ParseRepos(r) PROVE TypeOK'
  BY <1>17 DEF ParseRepos
<1>18. ASSUME NEW r \in Repos, BypassBuild(r) PROVE TypeOK'
  BY <1>18 DEF BypassBuild
<1>19. ASSUME NEW r \in Repos, BypassDies(r) PROVE TypeOK'
  BY <1>19 DEF BypassDies, Cleared
<1>20. CASE UNCHANGED vars
  BY <1>20 DEF vars
<1>21. CASE ChildRaises
  BY <1>21 DEF ChildRaises
<1>22. ASSUME NEW r \in Repos, OperatorRemoves(r) PROVE TypeOK'
  BY <1>22 DEF OperatorRemoves
<1>23. QED
  BY <1>1, <1>2, <1>3, <1>4, <1>5, <1>6, <1>7, <1>8, <1>9, <1>10, <1>11, <1>12, <1>13,
     <1>14, <1>15, <1>16, <1>17, <1>18, <1>19, <1>20, <1>21, <1>22
  DEF Next, ScriptStep

(* What the loop knows, and the two invariants that follow from it, are    *)
(* kept by every step.                                                     *)
LEMMA NextLoop ==
  IInv /\ [Next]_vars => LoopInv' /\ CompletedMeansIndexed' /\ ClaimMeansCompleted'
<1> DEFINE Goal == LoopInv' /\ CompletedMeansIndexed' /\ ClaimMeansCompleted'
<1> SUFFICES ASSUME IInv, [Next]_vars PROVE Goal
  OBVIOUS
<1> USE DEF IInv, LoopInv, CompletedMeansIndexed, ClaimMeansCompleted, AtRepo, AtChild,
        Completed, Indexed, NoIndex, store, script
<1>0. TypeOK
  OBVIOUS
<1>1. CASE Start
  BY <1>1 DEF Start, TypeOK
<1>2. CASE ListRepos
  BY <1>2 DEF ListRepos, Finish, TypeOK
<1>3. ASSUME NEW r \in Repos, SkipDone(r) PROVE Goal
  BY <1>3 DEF SkipDone, IsDone, IsNext, TypeOK
<1>4. ASSUME NEW r \in Repos, TakeRepo(r) PROVE Goal
  BY <1>4 DEF TakeRepo, IsDone, IsNext, TypeOK
<1>5. CASE MarkRunning
  <2>1. cur \in Repos /\ pc = "mark_running" /\ UpsertRunning(cur)
    BY <1>5 DEF MarkRunning, TypeOK
  <2>2. row'[cur].status = "running" /\ \A q \in Repos \ {cur} : row'[q] = row[q]
    BY <2>1, UpsertOthers, UpsertStatus DEF TypeOK
  <2>3. \A r \in listed \ todo : row'[r].status = "completed"
    BY <2>1, <2>2 DEF TypeOK
  <2>4. \A r \in Repos : row'[r].status = "completed" => row[r].status = "completed"
    BY <2>2
  <2>5. QED
    BY <1>5, <2>1, <2>2, <2>3, <2>4 DEF MarkRunning, TypeOK
<1>6. CASE ChildRead
  BY <1>6 DEF ChildRead, TypeOK
<1>7. CASE ChildClear
  BY <1>7 DEF ChildClear, Cleared, TypeOK
<1>8. CASE ChildWrite
  BY <1>8 DEF ChildWrite, TypeOK
<1>9. CASE ChildReturned
  BY <1>9 DEF ChildReturned, BuildSucceeded, TypeOK
<1>10. CASE MarkFailed
  BY <1>10, UpsertOthers, UpsertStatus DEF MarkFailed, Finish, TypeOK
<1>11. CASE MarkDone
  BY <1>11, UpsertOthers, UpsertStatus DEF MarkDone, TypeOK
<1>12. CASE AllComplete
  BY <1>12 DEF AllComplete, Finish, TypeOK
<1>13. CASE OnInterrupt
  <2>1. outcome' = "signalled" /\ pc' = "off" /\ UNCHANGED <<raw, index, lost, listed, todo>>
    BY <1>13 DEF OnInterrupt, Finish
  <2>2. \A r \in Repos : row'[r].status = "completed" => row[r].status = "completed"
    <3>1. CASE Unfinished
      <4>1. PICK code : UpsertFailed(cur, code)
        BY <1>13, <3>1 DEF OnInterrupt
      <4>2. cur \in Repos /\ row'[cur].status = "failed"
        BY <4>1, <3>1, UpsertStatus DEF Unfinished, NoRepo, TypeOK
      <4>3. QED
        BY <4>1, <4>2, UpsertOthers DEF TypeOK
    <3>2. CASE ~ Unfinished
      BY <1>13, <3>2 DEF OnInterrupt
    <3>3. QED
      BY <3>1, <3>2
  <2>3. QED
    BY <2>1, <2>2
<1>14. CASE ChildFails
  BY <1>14 DEF ChildFails, TypeOK
<1>15. CASE Signal
  BY <1>15 DEF Signal
<1>16. CASE Kill
  BY <1>16 DEF Kill, Finish
<1>17. ASSUME NEW r \in Repos, ParseRepos(r) PROVE Goal
  BY <1>17 DEF ParseRepos, TypeOK
<1>18. ASSUME NEW r \in Repos, BypassBuild(r) PROVE Goal
  BY <1>18 DEF BypassBuild, TypeOK
<1>19. ASSUME NEW r \in Repos, BypassDies(r) PROVE Goal
  BY <1>19 DEF BypassDies, Cleared, TypeOK
<1>20. CASE UNCHANGED vars
  BY <1>20 DEF vars
<1>21. CASE ChildRaises
  BY <1>21 DEF ChildRaises, TypeOK
<1>22. ASSUME NEW r \in Repos, OperatorRemoves(r) PROVE Goal
  BY <1>22 DEF OperatorRemoves, TypeOK
<1>23. QED
  BY <1>1, <1>2, <1>3, <1>4, <1>5, <1>6, <1>7, <1>8, <1>9, <1>10, <1>11, <1>12, <1>13,
     <1>14, <1>15, <1>16, <1>17, <1>18, <1>19, <1>20, <1>21, <1>22
  DEF Next, ScriptStep

LEMMA Invariance == Spec => []IInv
<1>1. IInv /\ [Next]_vars => IInv'
  BY NextType, NextLoop DEF IInv
<1>2. QED
  BY InitIInv, <1>1, PTL DEF Spec

(* The checkpoint table and the loop's variables keep their types          *)
(* (scripts/build_index.sh:62-77, 167-205).                                *)
THEOREM TypeCorrect == Spec => []TypeOK
BY Invariance, PTL DEF IInv

(* A completed row has an index behind it whatever order kills, signals    *)
(* and failing builds came in (scripts/build_index.sh:190-205).            *)
THEOREM CompletedIsBacked == Spec => []CompletedMeansIndexed
BY Invariance, PTL DEF IInv

(* "all repos complete" (scripts/build_index.sh:207) is never claimed of a *)
(* listed repository that an earlier, interrupted run left unfinished.     *)
THEOREM ClaimIsTrue == Spec => []ClaimMeansCompleted
BY Invariance, PTL DEF IInv

(* No step takes a repository back from completed: the trap tests          *)
(* RUN_IN_PROGRESS, cleared before mark_done (build_index.sh:170-204).     *)
THEOREM NeverUncompleted == Spec => CompletedIsFinal
<1> DEFINE Final == \A r \in Repos : Completed(r) => Completed(r)'
<1>1. IInv /\ [Next]_vars => [Final]_vars
  <2> SUFFICES ASSUME IInv, Next PROVE Final
    BY DEF vars, store, Completed
  <2> USE DEF IInv, LoopInv, AtRepo, AtChild, Completed
  <2>1. UNCHANGED row => Final
    OBVIOUS
  <2>2. CASE MarkRunning
    BY <2>2, UpsertOthers DEF MarkRunning, TypeOK
  <2>3. CASE MarkFailed
    BY <2>3, UpsertOthers DEF MarkFailed, TypeOK
  <2>4. CASE MarkDone
    BY <2>4, UpsertOthers, UpsertStatus DEF MarkDone, TypeOK
  <2>5. CASE OnInterrupt
    <3>1. CASE Unfinished
      <4>1. PICK code : UpsertFailed(cur, code)
        BY <2>5, <3>1 DEF OnInterrupt
      <4>2. ~ Completed(cur)
        BY <2>5, <3>1 DEF OnInterrupt, Between, Unfinished
      <4>3. QED
        BY <4>1, <4>2, UpsertOthers DEF TypeOK
    <3>2. CASE ~ Unfinished
      BY <2>5, <3>2 DEF OnInterrupt
    <3>3. QED
      BY <3>1, <3>2
  <2>6. CASE \/ Start \/ ListRepos \/ ChildRead \/ ChildRaises \/ ChildClear \/ ChildWrite
             \/ ChildReturned \/ AllComplete \/ ChildFails \/ Signal \/ Kill
    BY <2>1, <2>6 DEF Start, ListRepos, ChildRead, ChildRaises, ChildClear, ChildWrite,
                      ChildReturned, AllComplete, ChildFails, Signal, Kill, store
  <2>7. ASSUME NEW r \in Repos,
               SkipDone(r) \/ TakeRepo(r) \/ ParseRepos(r) \/ BypassBuild(r) \/ BypassDies(r)
                 \/ OperatorRemoves(r)
        PROVE  UNCHANGED row
    BY <2>7 DEF SkipDone, TakeRepo, ParseRepos, BypassBuild, BypassDies, OperatorRemoves, store
  <2>8. QED
    BY <2>1, <2>2, <2>3, <2>4, <2>5, <2>6, <2>7 DEF Next, ScriptStep
<1>2. QED
  BY Invariance, <1>1, PTL DEF Spec, CompletedIsFinal
=============================================================================
