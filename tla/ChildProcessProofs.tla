------------------------- MODULE ChildProcessProofs -------------------------
(***************************************************************************)
(* Proofs about the two processes the workbench starts and talks to.       *)
(*                                                                         *)
(* NativeWorker, for any number of processes, edits, faults and rebuilds:  *)
(* no child runs code older than its caller saw, no repaired source is     *)
(* blocked by an older failure, and a listing of one index, not overtaken  *)
(* by its rebuild, is exact.                                               *)
(*                                                                         *)
(* LspProbe, for every capacity of the pipes, everything the server may    *)
(* log or send in between, whatever ids its own requests bear, and its     *)
(* death at any point: the payload taken for the symbols is the server's   *)
(* answer to that request, or a request of the same id without a symbol.   *)
(*                                                                         *)
(* SymbolMerge, for every text and answer: the merge of what the backends  *)
(* found leaves the symbols of the line parser in place.                   *)
(***************************************************************************)
EXTENDS SymbolMerge, NativeWorker, SequenceTheorems, FiniteSetTheorems, TLAPS

-----------------------------------------------------------------------------
(* The native worker: its inductive invariant.                             *)

\* a binary of older sources began before the last edit; it also ended before
\* it, unless it was overtaken by the edit
BinaryIsDated ==
  binary.ver # 0 /\ binary.ver # src =>
    binary.from < srcTime /\ (binary.torn = 0 => binary.time < srcTime)

\* the same of the sources a process looked at
LookIsDated(p) ==
  binary.ver # 0 /\ binary.ver < look[p].ver /\ binary.torn = 0 => binary.time < look[p].time

Making(p) ==
  pc[p] \in {"compile", "mark"} =>
    /\ made[p].torn = 0 => made[p].ver = src
    /\ made[p].ver # src => made[p].from < srcTime

Served(p) == pc[p] \in {"clear", "run"} => binary.ver >= look[p].ver \/ binary.torn = 1

Pages(gen, n) == [i \in 1..n |-> <<gen, i>>]

\* what a listing has of the index there is
Listing(p) ==
  /\ seen[p] \subseteq 0..index.gen
  /\ ~Openable => index.gen \notin seen[p]
  /\ seen[p] = {} => offset[p] = 0 /\ got[p] = << >>
  /\ seen[p] = {index.gen} =>
       /\ offset[p] <= index.docs /\ got[p] = Pages(index.gen, offset[p])
       /\ pc[p] = "listed" => offset[p] = index.docs

ProcInv(p) == LookIsDated(p) /\ Making(p) /\ Served(p) /\ Listing(p)

\* builds do not overlap, and one that has removed the index may yet commit one
Builders ==
  /\ \A p \in Proc : pc[p] \in {"create", "commit"} => job[p] = "build" /\ index.gen < MaxGen
  /\ \A p, q \in Proc : job[p] = "build" /\ job[q] = "build" => p = q

Core == TypeOK /\ BinaryIsDated /\ MarkerIsDeserved /\ \A p \in Proc : ProcInv(p)

WorkerInv == Core /\ Builders

-----------------------------------------------------------------------------
(* The type invariant in parts: the files, and what a process has looked   *)
(* at, is making and has listed.                                           *)
LookType == [time : 0..clock, ver : 0..src]
MadeType == [ver : 0..src, from : 0..clock, torn : {0, 1}]
ListType == Seq((0..MaxGen) \X Nat)
GenSets  == SUBSET (0..MaxGen)

FilesOK ==
  /\ src \in 1..(MaxEdits + 1) /\ sound \in {0, 1} /\ srcTime \in 1..clock /\ clock \in Nat
  /\ binary \in [ver : 0..src, from : 0..clock, time : 0..clock, torn : {0, 1}]
  /\ marker \in [time : 0..clock, ver : 0..src, torn : {0, 1}]
  /\ index \in [state : States, gen : 0..MaxGen, docs : Sizes \cup {0}]
  /\ starts \in 0..MaxStarts /\ faults \in 0..MaxFaults

LocalOK ==
  /\ pc \in [Proc -> PCs] /\ job \in [Proc -> {"list", "build"}]
  /\ disabled \in [Proc -> {0, 1}]
  /\ look \in [Proc -> LookType] /\ made \in [Proc -> MadeType]
  /\ offset \in [Proc -> Nat] /\ got \in [Proc -> ListType] /\ seen \in [Proc -> GenSets]

LEMMA TypeParts == TypeOK <=> FilesOK /\ LocalOK
BY DEF TypeOK, FilesOK, LocalOK, LookType, MadeType, ListType, GenSets

LEMMA TypePartsAfter ==
  ASSUME FilesOK', LocalOK'
  PROVE  TypeOK'
BY DEF TypeOK, FilesOK, LocalOK, LookType, MadeType, ListType, GenSets

LEMMA TypesKept ==
  ASSUME UNCHANGED <<src, clock>>
  PROVE  LookType' = LookType /\ MadeType' = MadeType
BY DEF LookType, MadeType

\* the numbers the invariant compares
LEMMA Numbers ==
  ASSUME TypeOK
  PROVE  /\ src \in Nat /\ clock \in Nat /\ srcTime \in Nat /\ srcTime <= clock
         /\ binary.ver \in 0..src /\ binary.from \in 0..clock /\ binary.time \in 0..clock
         /\ binary.torn \in {0, 1}
         /\ marker.time \in 0..clock
         /\ index.gen \in 0..MaxGen /\ index.docs \in Nat
         /\ \A p \in Proc :
              /\ look[p].ver \in 0..src /\ look[p].time \in 0..clock
              /\ made[p].ver \in 0..src /\ made[p].from \in 0..clock /\ made[p].torn \in {0, 1}
              /\ offset[p] \in Nat
<1>1. FilesOK /\ LocalOK
  BY TypeParts
<1>2. /\ src \in Nat /\ clock \in Nat /\ srcTime \in Nat /\ srcTime <= clock
      /\ binary.ver \in 0..src /\ binary.from \in 0..clock /\ binary.time \in 0..clock
      /\ binary.torn \in {0, 1} /\ marker.time \in 0..clock
  BY <1>1 DEF FilesOK
<1>3. index.gen \in 0..MaxGen /\ index.docs \in Nat
  <2>1. index.gen \in 0..MaxGen /\ index.docs \in Sizes \cup {0}
    BY <1>1 DEF FilesOK
  <2>2. Sizes \cup {0} \subseteq Nat
    BY SizeAssumption
  <2> QED
    BY <2>1, <2>2
<1>4. ASSUME NEW p \in Proc
      PROVE  /\ look[p].ver \in 0..src /\ look[p].time \in 0..clock
             /\ made[p].ver \in 0..src /\ made[p].from \in 0..clock /\ made[p].torn \in {0, 1}
             /\ offset[p] \in Nat
  <2>1. look[p] \in LookType /\ made[p] \in MadeType /\ offset[p] \in Nat
    BY <1>1 DEF LocalOK
  <2> QED
    BY <2>1 DEF LookType, MadeType
<1> QED
  BY <1>2, <1>3, <1>4

LEMMA WorkerInitInv == Init => WorkerInv
<1> SUFFICES ASSUME Init PROVE WorkerInv
  OBVIOUS
<1>1. TypeOK
  <2>1. index \in [state : States, gen : 0..MaxGen, docs : Sizes \cup {0}]
    BY BoundAssumption DEF Init, States
  <2>2. got \in [Proc -> Seq((0..MaxGen) \X Nat)]
    BY DEF Init
  <2> QED
    BY <2>1, <2>2, BoundAssumption DEF Init, TypeOK, PCs, NoBinary, NoMarker, Unlooked, Unmade
<1>2. BinaryIsDated /\ MarkerIsDeserved
  BY DEF Init, BinaryIsDated, MarkerIsDeserved, NoBinary, NoMarker, Blocks
<1>3. ASSUME NEW p \in Proc PROVE ProcInv(p)
  BY DEF Init, ProcInv, LookIsDated, Making, Served, Listing, Openable, NoBinary
<1> QED
  BY <1>1, <1>2, <1>3 DEF Init, WorkerInv, Core, Builders

Same(q) ==
  /\ pc'[q] = pc[q] /\ look'[q] = look[q] /\ made'[q] = made[q]
  /\ offset'[q] = offset[q] /\ got'[q] = got[q] /\ seen'[q] = seen[q]

\* a step of another process that builds neither binary nor index
LEMMA SameKeeps ==
  ASSUME WorkerInv, NEW q \in Proc, Same(q), UNCHANGED <<tree, binary, index>>
  PROVE  ProcInv(q)'
BY DEF WorkerInv, Core, ProcInv, LookIsDated, Making, Served, Listing, Openable, Same, tree

LEMMA StillDated ==
  ASSUME WorkerInv, UNCHANGED <<tree, binary>>
  PROVE  BinaryIsDated'
BY DEF WorkerInv, Core, BinaryIsDated, tree

LEMMA StillDeserved ==
  ASSUME WorkerInv, UNCHANGED <<tree, marker>>
  PROVE  MarkerIsDeserved'
BY DEF WorkerInv, Core, MarkerIsDeserved, Blocks, tree

\* a job that ends leaves nothing to be said of its process
LEMMA ExitKeeps ==
  ASSUME WorkerInv, NEW p \in Proc, Exit(p), UNCHANGED <<tree, binary>>
  PROVE  /\ ProcInv(p)'
         /\ \A q \in Proc : q # p => Same(q)
         /\ disabled' \in [Proc -> {0, 1}] => LocalOK'
<1> USE DEF WorkerInv, Core
<1>0. LocalOK
  BY TypeParts
<1>1. /\ pc'[p] = "off" /\ look'[p] = Unlooked /\ offset'[p] = 0 /\ got'[p] = << >> /\ seen'[p] = {}
  BY <1>0 DEF Exit, Goto, LocalOK
<1>2. ProcInv(p)'
  <2>1. binary'.ver \in Nat /\ look'[p].ver = 0
    BY <1>1, Numbers DEF Unlooked
  <2>2. LookIsDated(p)' /\ Making(p)' /\ Served(p)'
    BY <1>1, <2>1 DEF LookIsDated, Making, Served
  <2>3. Listing(p)'
    BY <1>1 DEF Listing, Openable
  <2> QED
    BY <2>2, <2>3 DEF ProcInv
<1>3. \A q \in Proc : q # p => Same(q)
  BY <1>0 DEF Exit, Goto, LocalOK, Same
<1>4. Unlooked \in LookType /\ Unmade \in MadeType /\ << >> \in ListType /\ {} \in GenSets
  BY Numbers DEF Unlooked, Unmade, LookType, MadeType, ListType, GenSets
<1>5. LookType' = LookType /\ MadeType' = MadeType
  BY TypesKept DEF tree
<1>6. disabled' \in [Proc -> {0, 1}] => LocalOK'
  BY <1>0, <1>4, <1>5 DEF Exit, Goto, LocalOK, PCs, ListType, GenSets
<1> QED
  BY <1>2, <1>3, <1>6

-----------------------------------------------------------------------------
(* The steps of ensure_native_binary.                                      *)

\* a step from one point of the job to another, with what it changes of p
LEMMA MoveKeeps ==
  ASSUME WorkerInv, NEW p \in Proc, NEW l \in PCs \ {"listed"}, Goto(p, l),
         UNCHANGED <<tree, binary, index, look, made, offset, got, seen>>,
         l \in {"clear", "run"} => binary.ver >= look[p].ver \/ binary.torn = 1,
         l = "mark" => pc[p] = "compile", l # "compile"
  PROVE  /\ \A q \in Proc : ProcInv(q)'
         /\ UNCHANGED job /\ disabled' \in [Proc -> {0, 1}] => LocalOK'
<1> USE DEF WorkerInv, Core
<1>1. ASSUME NEW q \in Proc, q # p PROVE ProcInv(q)'
  <2>1. Same(q)
    BY <1>1 DEF Goto, TypeOK, Same
  <2> QED
    BY <2>1, SameKeeps
<1>2. ProcInv(p)'
  <2>1. pc'[p] = l
    BY DEF Goto, TypeOK
  <2> QED
    BY <2>1 DEF ProcInv, LookIsDated, Making, Served, Listing, Openable, tree
<1>3. UNCHANGED job /\ disabled' \in [Proc -> {0, 1}] => LocalOK'
  <2>1. LocalOK
    BY TypeParts
  <2>2. LookType' = LookType /\ MadeType' = MadeType
    BY TypesKept DEF tree
  <2> QED
    BY <2>1, <2>2 DEF Goto, LocalOK, ListType, GenSets
<1> QED
  BY <1>1, <1>2, <1>3

LEMMA CheckKeeps ==
  ASSUME WorkerInv, NEW p \in Proc, Available(p) \/ Compare(p) \/ Clear(p)
  PROVE  Core'
<1> USE DEF WorkerInv, Core
<1>1. UNCHANGED <<tree, binary, index, look, made, offset, got, seen>>
  BY DEF Available, Compare, Clear, Outside
<1>2. TypeOK' /\ \A q \in Proc : ProcInv(q)'
  <2>1. FilesOK /\ LocalOK
    BY TypeParts
  <2>2. NoMarker \in [time : 0..clock, ver : 0..src, torn : {0, 1}]
    BY Numbers DEF NoMarker
  <2>3. FilesOK'
    BY <2>1, <2>2 DEF Available, Compare, Clear, Outside, tree, FilesOK
  <2>4. UNCHANGED <<job, disabled>> /\ disabled' \in [Proc -> {0, 1}]
    BY <2>1 DEF Available, Compare, Clear, LocalOK
  <2>5. CASE Available(p)
    BY <2>3, <2>4, <2>5, <1>1, MoveKeeps, TypePartsAfter DEF Available, PCs
  <2>6. CASE Compare(p)
    <3>1. Fresh(p) => binary.ver >= look[p].ver \/ binary.torn = 1
      BY Numbers DEF Fresh, ProcInv, LookIsDated
    <3> QED
      BY <2>3, <2>4, <2>6, <3>1, <1>1, MoveKeeps, TypePartsAfter DEF Compare, PCs
  <2>7. CASE Clear(p)
    <3>1. binary.ver >= look[p].ver \/ binary.torn = 1
      BY <2>7 DEF Clear, ProcInv, Served
    <3> QED
      BY <2>3, <2>4, <2>7, <3>1, <1>1, MoveKeeps, TypePartsAfter DEF Clear, PCs
  <2> QED
    BY <2>5, <2>6, <2>7
<1>3. MarkerIsDeserved'
  <2>1. CASE Clear(p)
    BY <2>1 DEF Clear, MarkerIsDeserved, Blocks, NoMarker
  <2>2. CASE Available(p) \/ Compare(p)
    BY <2>2, StillDeserved DEF Available, Compare, Outside
  <2> QED
    BY <2>1, <2>2
<1> QED
  BY <1>1, <1>2, <1>3, StillDated

LEMMA StatKeeps ==
  ASSUME WorkerInv, NEW p \in Proc, Stat(p)
  PROVE  Core'
<1> USE DEF WorkerInv, Core
<1>0. FilesOK /\ LocalOK
  BY TypeParts
<1>1. TypeOK'
  <2>1. [time |-> srcTime, ver |-> src] \in LookType
    BY Numbers DEF LookType
  <2>2. LookType' = LookType /\ MadeType' = MadeType
    BY TypesKept DEF Stat, Outside, tree
  <2>3. LocalOK'
    BY <1>0, <2>1, <2>2 DEF Stat, Goto, LocalOK, PCs, ListType, GenSets
  <2>4. FilesOK'
    BY <1>0 DEF Stat, Outside, tree, FilesOK
  <2> QED
    BY <2>3, <2>4, TypePartsAfter
<1>2. ASSUME NEW q \in Proc, q # p PROVE ProcInv(q)'
  <2>1. Same(q)
    BY <1>0, <1>2 DEF Stat, Goto, LocalOK, Same
  <2> QED
    BY <2>1, SameKeeps DEF Stat, Outside
<1>3. ProcInv(p)'
  <2>1. pc'[p] = "compare" /\ look'[p] = [time |-> srcTime, ver |-> src]
    BY <1>0 DEF Stat, Goto, LocalOK
  <2>2. UNCHANGED <<tree, binary, index, offset, got, seen>>
    BY DEF Stat, Outside
  <2>3. LookIsDated(p)'
    BY <2>1, <2>2, Numbers DEF BinaryIsDated, LookIsDated
  <2> QED
    BY <2>1, <2>2, <2>3 DEF ProcInv, Making, Served, Listing, Openable
<1> QED
  BY <1>1, <1>2, <1>3, StillDated, StillDeserved DEF Stat, Outside

LEMMA CompileKeeps ==
  ASSUME WorkerInv, NEW p \in Proc, Compile(p)
  PROVE  Core'
<1> USE DEF WorkerInv, Core
<1>0. FilesOK /\ LocalOK
  BY TypeParts
<1>1. TypeOK'
  <2>1. [ver |-> src, from |-> clock, torn |-> 0] \in MadeType
    BY Numbers DEF MadeType
  <2>2. LookType' = LookType /\ MadeType' = MadeType
    BY TypesKept DEF Compile, Outside, tree
  <2>3. made' \in [Proc -> MadeType] /\ pc' \in [Proc -> PCs]
    BY <1>0, <2>1 DEF Compile, Goto, LocalOK, PCs
  <2>4. LocalOK'
    BY <1>0, <2>2, <2>3 DEF Compile, LocalOK, ListType, GenSets
  <2>5. FilesOK'
    BY <1>0 DEF Compile, Outside, tree, FilesOK
  <2> QED
    BY <2>4, <2>5, TypePartsAfter
<1>2. ASSUME NEW q \in Proc, q # p PROVE ProcInv(q)'
  <2>1. Same(q)
    BY <1>0, <1>2 DEF Compile, Goto, LocalOK, Same
  <2> QED
    BY <2>1, SameKeeps DEF Compile, Outside
<1>3. ProcInv(p)'
  <2>1. UNCHANGED <<tree, binary, index, look, offset, got, seen>>
    BY DEF Compile, Outside
  <2>2. CASE binary.ver # 0 /\ binary.from >= srcTime
    <3>1. binary.ver = src
      BY <2>2, Numbers DEF BinaryIsDated
    <3>2. pc'[p] = "clear" /\ binary.ver >= look[p].ver
      BY <1>0, <2>2, <3>1, Numbers DEF Compile, Goto, LocalOK
    <3> QED
      BY <2>1, <3>2 DEF ProcInv, LookIsDated, Making, Served, Listing, Openable
  <2>3. CASE ~ (binary.ver # 0 /\ binary.from >= srcTime)
    <3>1. pc'[p] = "compile" /\ made'[p].ver = src
      BY <1>0, <2>3 DEF Compile, Goto, LocalOK
    <3> QED
      BY <2>1, <3>1 DEF ProcInv, LookIsDated, Making, Served, Listing, Openable, tree
  <2> QED
    BY <2>2, <2>3
<1> QED
  BY <1>1, <1>2, <1>3, StillDated, StillDeserved DEF Compile, Outside

\* a compilation no edit overtook is of the sources as they are
LEMMA CompiledKeeps ==
  ASSUME WorkerInv, NEW p \in Proc, Compiled(p)
  PROVE  Core'
<1> USE DEF WorkerInv, Core
<1>0. FilesOK /\ LocalOK
  BY TypeParts
<1>1. /\ binary' = [ver |-> made[p].ver, from |-> made[p].from, time |-> clock + 1, torn |-> made[p].torn]
      /\ UNCHANGED <<src, sound, srcTime, marker, index, look, made, offset, got, seen>>
      /\ clock' = clock + 1 /\ pc'[p] = "clear" /\ \A q \in Proc : q # p => pc'[q] = pc[q]
  BY <1>0 DEF Compiled, Goto, LocalOK
<1>2. /\ made[p].ver \in 0..src /\ made[p].from \in 0..clock /\ made[p].torn \in {0, 1}
      /\ made[p].torn = 0 => made[p].ver = src
      /\ made[p].ver # src => made[p].from < srcTime
  BY Numbers DEF Compiled, ProcInv, Making
<1>3. TypeOK'
  <2>1. binary' \in [ver : 0..src, from : 0..clock', time : 0..clock', torn : {0, 1}]
    BY <1>1, <1>2, Numbers
  <2>2. marker \in [time : 0..clock', ver : 0..src, torn : {0, 1}]
    BY <1>0, <1>1, Numbers DEF FilesOK
  <2>3. srcTime \in 1..clock' /\ clock' \in Nat
    BY <1>0, <1>1 DEF FilesOK
  <2>4. FilesOK'
    BY <1>0, <1>1, <2>1, <2>2, <2>3 DEF FilesOK, Compiled
  <2>5. LookType \subseteq LookType' /\ MadeType \subseteq MadeType'
    BY <1>1, Numbers DEF LookType, MadeType
  <2>6. LocalOK'
    BY <1>0, <1>1, <2>5 DEF LocalOK, Compiled, Goto, PCs, ListType, GenSets
  <2> QED
    BY <2>4, <2>6, TypePartsAfter
<1>4. BinaryIsDated' /\ MarkerIsDeserved'
  BY <1>1, <1>2, Numbers DEF BinaryIsDated, MarkerIsDeserved, Blocks
<1>5. ASSUME NEW q \in Proc PROVE ProcInv(q)'
  <2>1. look[q].ver \in 0..src /\ src \in Nat
    BY Numbers
  <2>2. LookIsDated(q)' /\ Served(q)'
    BY <1>1, <1>2, <2>1 DEF LookIsDated, Served
  <2>3. Making(q)' /\ Listing(q)'
    BY <1>1 DEF Making, Listing, Openable, ProcInv
  <2> QED
    BY <2>2, <2>3 DEF ProcInv
<1> QED
  BY <1>3, <1>4, <1>5

LEMMA CompileFailsKeeps ==
  ASSUME WorkerInv, NEW p \in Proc, CompileFails(p)
  PROVE  Core'
<1> USE DEF WorkerInv, Core
<1>0. FilesOK /\ LocalOK
  BY TypeParts
<1>1. disabled' \in [Proc -> {0, 1}]
  BY <1>0 DEF CompileFails, LocalOK
<1>2. /\ \A q \in Proc : ProcInv(q)'
      /\ LocalOK'
  BY <1>1, MoveKeeps DEF CompileFails, PCs
<1>3. TypeOK'
  <2>1. FilesOK'
    BY <1>0, BoundAssumption DEF CompileFails, FilesOK, tree
  <2> QED
    BY <1>2, <2>1, TypePartsAfter
<1> QED
  BY <1>2, <1>3, StillDated, StillDeserved DEF CompileFails

LEMMA MarkKeeps ==
  ASSUME WorkerInv, NEW p \in Proc, Mark(p)
  PROVE  Core'
<1> USE DEF WorkerInv, Core
<1>1. /\ marker' = [time |-> srcTime, ver |-> made[p].ver, torn |-> made[p].torn]
      /\ UNCHANGED <<tree, binary, index>> /\ Exit(p)
  BY DEF Mark
<1>2. made[p].ver \in 0..src /\ made[p].torn \in {0, 1} /\ (made[p].torn = 0 => made[p].ver = src)
  BY Numbers DEF Mark, ProcInv, Making
<1>3. TypeOK'
  <2>1. marker' \in [time : 0..clock, ver : 0..src, torn : {0, 1}]
    BY <1>1, <1>2, Numbers
  <2>2. FilesOK /\ LocalOK
    BY TypeParts
  <2>3. FilesOK'
    BY <1>1, <2>1, <2>2 DEF Mark, FilesOK, tree
  <2>4. LocalOK'
    BY <1>1, <2>2, ExitKeeps DEF Mark, LocalOK
  <2> QED
    BY <2>3, <2>4, TypePartsAfter
<1>4. MarkerIsDeserved'
  BY <1>1, <1>2 DEF MarkerIsDeserved, tree
<1>5. \A q \in Proc : ProcInv(q)'
  BY <1>1, ExitKeeps, SameKeeps
<1> QED
  BY <1>1, <1>3, <1>4, <1>5, StillDated

-----------------------------------------------------------------------------
(* The steps of a job.                                                     *)

\* a process that leaves its job, and nothing else changes
LEMMA LeaveKeeps ==
  ASSUME WorkerInv, NEW p \in Proc,
         \/ Unavailable(p) \/ PageFails(p) \/ Listed(p) \/ Kill(p)
         \/ Merged(p) \/ ChildFails(p)
  PROVE  Core'
<1> USE DEF WorkerInv, Core
<1>1. FilesOK /\ LocalOK
  BY TypeParts
<1>2. Exit(p) /\ UNCHANGED <<tree, binary, marker, index, starts>>
  BY DEF Unavailable, PageFails, Listed, Kill, Merged, ChildFails, Outside
<1>3. disabled' \in [Proc -> {0, 1}]
  BY <1>1 DEF Unavailable, PageFails, Listed, Kill, Merged, ChildFails, LocalOK
<1>4. FilesOK'
  <2>1. faults' \in 0..MaxFaults
    BY <1>1, BoundAssumption DEF Unavailable, PageFails, Listed, Kill, Merged, ChildFails, Outside, FilesOK
  <2> QED
    BY <1>1, <1>2, <2>1 DEF FilesOK, tree
<1>5. TypeOK'
  BY <1>2, <1>3, <1>4, ExitKeeps, TypePartsAfter
<1>6. \A q \in Proc : ProcInv(q)'
  BY <1>2, ExitKeeps, SameKeeps
<1> QED
  BY <1>2, <1>5, <1>6, StillDated, StillDeserved

LEMMA JobKeeps ==
  ASSUME WorkerInv, NEW p \in Proc, NEW j \in {"list", "build"}, Start(p, j) \/ Quit(p)
  PROVE  Core'
<1> USE DEF WorkerInv, Core
<1>1. FilesOK /\ LocalOK
  BY TypeParts
<1>2. UNCHANGED <<tree, binary, marker, index, faults, look, made, offset, got, seen>>
  BY DEF Start, Quit, Outside
<1>3. FilesOK'
  <2>1. starts' \in 0..MaxStarts
    BY <1>1, BoundAssumption DEF Start, Quit, Outside, FilesOK
  <2> QED
    BY <1>1, <1>2, <2>1 DEF FilesOK, tree
<1>4. LocalOK'
  <2>1. LookType' = LookType /\ MadeType' = MadeType
    BY <1>2, TypesKept DEF tree
  <2> QED
    BY <1>1, <1>2, <2>1 DEF Start, Quit, Goto, LocalOK, PCs, ListType, GenSets
<1>5. \A q \in Proc : pc'[q] = pc[q] \/ pc'[q] = "begin"
  BY <1>1 DEF Start, Quit, Goto, LocalOK
<1>6. ASSUME NEW q \in Proc PROVE ProcInv(q)'
  BY <1>2, <1>5 DEF ProcInv, LookIsDated, Making, Served, Listing, Openable, tree
<1> QED
  BY <1>2, <1>3, <1>4, <1>6, TypePartsAfter, StillDated, StillDeserved

LEMMA BeginKeeps ==
  ASSUME WorkerInv, NEW p \in Proc, Begin(p)
  PROVE  Core'
<1> USE DEF WorkerInv, Core
<1>1. FilesOK /\ LocalOK
  BY TypeParts
<1>2. UNCHANGED <<tree, binary, marker, index, starts, faults, job, disabled, look, made, offset, got, seen>>
  BY DEF Begin, Outside
<1>3. FilesOK'
  BY <1>1, <1>2 DEF FilesOK, tree
<1>4. LocalOK'
  <2>1. LookType' = LookType /\ MadeType' = MadeType
    BY <1>2, TypesKept DEF tree
  <2> QED
    BY <1>1, <1>2, <2>1 DEF Begin, Goto, LocalOK, PCs, ListType, GenSets
<1>5. ASSUME NEW q \in Proc PROVE ProcInv(q)'
  <2>1. \/ pc'[q] = pc[q] \/ pc'[q] = "ready"
        \/ pc'[q] = "listed" /\ ~Openable
    BY <1>1 DEF Begin, Goto, LocalOK, Openable
  <2>2. LookIsDated(q)' /\ Making(q)' /\ Served(q)'
    BY <1>2, <2>1 DEF ProcInv, LookIsDated, Making, Served, tree
  <2>3. Listing(q)'
    BY <1>2, <2>1 DEF ProcInv, Listing, Openable
  <2> QED
    BY <2>2, <2>3 DEF ProcInv
<1> QED
  BY <1>2, <1>3, <1>4, <1>5, TypePartsAfter, StillDated, StillDeserved

\* a source that changes is newer than everything that was made before
LEMMA EditKeeps ==
  ASSUME WorkerInv, NEW s \in {0, 1}, Edit(s)
  PROVE  Core'
<1> USE DEF WorkerInv, Core
<1>1. FilesOK /\ LocalOK
  BY TypeParts
<1>2. /\ src' = src + 1 /\ clock' = clock + 1 /\ srcTime' = clock + 1
      /\ UNCHANGED <<binary, marker, index, pc, look, offset, got, seen>>
  BY DEF Edit
<1>3. \A q \in Proc : made'[q] = IF pc[q] \in {"compile", "mark"} THEN [made[q] EXCEPT !.torn = 1] ELSE made[q]
  BY DEF Edit
<1>4. FilesOK'
  <2>1. /\ binary \in [ver : 0..src', from : 0..clock', time : 0..clock', torn : {0, 1}]
        /\ marker \in [time : 0..clock', ver : 0..src', torn : {0, 1}]
    BY <1>1, <1>2, Numbers DEF FilesOK
  <2>2. src' \in 1..(MaxEdits + 1) /\ srcTime' \in 1..clock' /\ clock' \in Nat
    BY <1>1, <1>2, BoundAssumption, Numbers DEF FilesOK, Edit
  <2> QED
    BY <1>1, <1>2, <2>1, <2>2 DEF FilesOK, Edit
<1>5. LocalOK'
  <2>1. LookType \subseteq LookType' /\ MadeType \subseteq MadeType'
    BY <1>2, Numbers DEF LookType, MadeType
  <2>2. \A q \in Proc : [made[q] EXCEPT !.torn = 1] \in MadeType
    BY <1>1 DEF LocalOK, MadeType
  <2>3. made' \in [Proc -> MadeType]
    BY <1>1, <2>2 DEF Edit, LocalOK
  <2> QED
    BY <1>1, <1>2, <2>1, <2>3 DEF LocalOK, Edit, ListType, GenSets
<1>6. BinaryIsDated' /\ MarkerIsDeserved'
  BY <1>2, Numbers DEF BinaryIsDated, MarkerIsDeserved, Blocks
<1>7. ASSUME NEW q \in Proc PROVE ProcInv(q)'
  <2>1. LookIsDated(q)' /\ Served(q)' /\ Listing(q)'
    BY <1>2 DEF ProcInv, LookIsDated, Served, Listing, Openable
  <2>2. Making(q)'
    <3> SUFFICES ASSUME pc[q] \in {"compile", "mark"}
                 PROVE  made'[q].torn = 1 /\ made'[q].from < srcTime'
      BY <1>2 DEF Making
    <3>1. made[q] \in MadeType
      BY <1>1 DEF LocalOK
    <3>2. made'[q].torn = 1 /\ made'[q].from = made[q].from
      BY <1>3, <3>1 DEF MadeType
    <3> QED
      BY <1>2, <3>2, Numbers
  <2> QED
    BY <2>1, <2>2 DEF ProcInv
<1> QED
  BY <1>4, <1>5, <1>6, <1>7, TypePartsAfter

\* what a build makes of the index, or a merge, is in no listing yet
LEMMA RenewKeeps ==
  ASSUME WorkerInv, NEW p \in Proc, RemoveDir(p) \/ Commit(p) \/ MergeSegments(p)
  PROVE  Core'
<1> USE DEF WorkerInv, Core
<1>1. FilesOK /\ LocalOK
  BY TypeParts
<1>2. /\ index'.gen = index.gen + 1
      /\ UNCHANGED <<tree, binary, marker, job, disabled, look, made, offset, got, seen, starts, faults>>
      /\ pc' = [pc EXCEPT ![p] = pc'[p]] /\ pc'[p] \in {"create", "merge"}
  <2>1. index \in [state : States, gen : 0..MaxGen, docs : Sizes \cup {0}]
    BY <1>1 DEF FilesOK
  <2> QED
    BY <1>1, <2>1 DEF RemoveDir, Commit, MergeSegments, BuildStep, Goto, LocalOK
<1>3. FilesOK'
  <2>1. index.gen \in Nat /\ index.gen < MaxGen
    BY Numbers, BoundAssumption DEF RemoveDir, Commit, MergeSegments, BuildStep, Builders
  <2>2. index \in [state : States, gen : 0..MaxGen, docs : Sizes \cup {0}]
    BY <1>1 DEF FilesOK
  <2>3. index' \in [state : States, gen : 0..MaxGen, docs : Sizes \cup {0}]
    BY <2>1, <2>2, BoundAssumption DEF RemoveDir, Commit, MergeSegments, States
  <2> QED
    BY <1>1, <1>2, <2>3 DEF FilesOK, tree
<1>4. LocalOK'
  <2>1. LookType' = LookType /\ MadeType' = MadeType
    BY <1>2, TypesKept DEF tree
  <2>2. pc' \in [Proc -> PCs]
    BY <1>1, <1>2 DEF LocalOK, PCs
  <2> QED
    BY <1>1, <1>2, <2>1, <2>2 DEF LocalOK, ListType, GenSets
<1>5. ASSUME NEW q \in Proc PROVE ProcInv(q)'
  <2>1. pc'[q] = pc[q] \/ pc'[q] \in {"create", "merge"}
    BY <1>1, <1>2 DEF LocalOK
  <2>2. LookIsDated(q)' /\ Making(q)' /\ Served(q)'
    BY <1>2, <2>1 DEF ProcInv, LookIsDated, Making, Served, tree
  <2>3. Listing(q)'
    <3>1. seen[q] \subseteq 0..index.gen /\ index.gen \in Nat
      BY Numbers DEF ProcInv, Listing
    <3>2. index'.gen = index.gen + 1 /\ seen'[q] = seen[q]
      BY <1>2
    <3>3. index'.gen \notin seen'[q] /\ seen'[q] \subseteq 0..index'.gen
      BY <3>1, <3>2
    <3> QED
      BY <1>2, <3>3 DEF ProcInv, Listing, Openable
  <2> QED
    BY <2>2, <2>3 DEF ProcInv
<1> QED
  BY <1>2, <1>3, <1>4, <1>5, TypePartsAfter, StillDated, StillDeserved

\* an index that is created is as empty as the directory that was removed
LEMMA CreateKeeps ==
  ASSUME WorkerInv, NEW p \in Proc, CreateIndex(p)
  PROVE  Core'
<1> USE DEF WorkerInv, Core
<1>1. FilesOK /\ LocalOK
  BY TypeParts
<1>2. /\ index' = [index EXCEPT !.state = "created"] /\ Goto(p, "commit")
      /\ UNCHANGED <<tree, binary, marker, job, disabled, look, made, offset, got, seen, starts, faults>>
  BY DEF CreateIndex, BuildStep
<1>3. /\ index'.gen = index.gen /\ index'.docs = index.docs /\ index'.state = "created"
      /\ index' \in [state : States, gen : 0..MaxGen, docs : Sizes \cup {0}]
  BY <1>1, <1>2 DEF FilesOK, States
<1>4. FilesOK'
  BY <1>1, <1>2, <1>3 DEF FilesOK, tree
<1>5. LocalOK'
  <2>1. LookType' = LookType /\ MadeType' = MadeType
    BY <1>2, TypesKept DEF tree
  <2> QED
    BY <1>1, <1>2, <2>1 DEF Goto, LocalOK, PCs, ListType, GenSets
<1>6. ASSUME NEW q \in Proc PROVE ProcInv(q)'
  <2>1. pc'[q] = pc[q] \/ pc'[q] = "commit"
    BY <1>1, <1>2 DEF Goto, LocalOK
  <2>2. LookIsDated(q)' /\ Making(q)' /\ Served(q)'
    BY <1>2, <2>1 DEF ProcInv, LookIsDated, Making, Served, tree
  <2>3. Listing(q)'
    BY <1>2, <1>3, <2>1 DEF ProcInv, Listing, Openable
  <2> QED
    BY <2>2, <2>3 DEF ProcInv
<1> QED
  BY <1>2, <1>4, <1>5, <1>6, TypePartsAfter, StillDated, StillDeserved

\* a page continues the listing where the last one ended
LEMMA PageJoins ==
  ASSUME NEW gen \in Nat, NEW n \in Nat, NEW k \in Nat
  PROVE  Pages(gen, n) \o [i \in 1..k |-> <<gen, n + i>>] = Pages(gen, n + k)
<1> DEFINE a == Pages(gen, n)
           b == [i \in 1..k |-> <<gen, n + i>>]
           S == Nat \X Nat
<1>1. a \in [1..n -> S] /\ b \in [1..k -> S]
  BY DEF Pages
<1>2. a \in Seq(S) /\ b \in Seq(S) /\ Len(a) = n /\ Len(b) = k
  <2>1. a \in Seq(S) /\ b \in Seq(S)
    BY <1>1, SeqDef
  <2>2. DOMAIN a = 1..n /\ DOMAIN b = 1..k
    BY <1>1
  <2>3. Len(a) \in Nat /\ DOMAIN a = 1..Len(a) /\ Len(b) \in Nat /\ DOMAIN b = 1..Len(b)
    BY <2>1, LenProperties
  <2> QED
    BY <2>1, <2>2, <2>3
<1>3. /\ a \o b \in [1..(n + k) -> S]
      /\ \A i \in 1..(n + k) : (a \o b)[i] = IF i <= n THEN a[i] ELSE b[i - n]
  <2> HIDE DEF a, b, S
  <2>1. /\ a \o b \in Seq(S) /\ Len(a \o b) = Len(a) + Len(b)
        /\ \A i \in 1..(Len(a) + Len(b)) : (a \o b)[i] = IF i <= Len(a) THEN a[i] ELSE b[i - Len(a)]
    BY <1>2, ConcatProperties
  <2>2. a \o b \in [1..Len(a \o b) -> S]
    BY <2>1, LenProperties
  <2> QED
    BY <1>2, <2>1, <2>2
<1>4. \A i \in 1..(n + k) : (a \o b)[i] = <<gen, i>>
  BY <1>3 DEF Pages
<1> QED
  BY <1>3, <1>4 DEF Pages

LEMMA PageKeeps ==
  ASSUME WorkerInv, NEW p \in Proc, Page(p)
  PROVE  Core'
<1> USE DEF WorkerInv, Core
<1> DEFINE last == IF offset[p] + BatchSize < index.docs THEN offset[p] + BatchSize ELSE index.docs
           page == [i \in 1..(last - offset[p]) |-> <<index.gen, offset[p] + i>>]
<1>1. FilesOK /\ LocalOK
  BY TypeParts
<1>2. /\ UNCHANGED <<tree, binary, marker, index, starts, faults, job, disabled, look, made>>
      /\ got' = [got EXCEPT ![p] = @ \o page]
      /\ seen' = [seen EXCEPT ![p] = @ \cup {index.gen}]
      /\ offset' = [offset EXCEPT ![p] = @ + Len(page)]
      /\ Goto(p, IF page # << >> /\ last < index.docs THEN "ready" ELSE "listed")
  BY DEF Page, Outside, NextOffset
<1>3. /\ index.gen \in 0..MaxGen /\ index.gen \in Nat /\ index.docs \in Nat
      /\ offset[p] \in Nat /\ BatchSize \in Nat \ {0} /\ last \in Nat
  BY Numbers, SizeAssumption
<1>4. page \in ListType /\ Len(page) \in Nat
      /\ (offset[p] <= last => Len(page) = last - offset[p])
      /\ (offset[p] = last => page = << >>) /\ (page = << >> => offset[p] >= last)
  <2>1. PICK k \in Nat : 1..(last - offset[p]) = 1..k /\ (offset[p] <= last => k = last - offset[p])
                        /\ (k = 0 <=> offset[p] >= last)
    <3>1. CASE offset[p] <= last
      <4>1. last - offset[p] \in Nat
        BY <3>1, <1>3
      <4> QED
        BY <3>1, <4>1, <1>3
    <3>2. CASE offset[p] > last
      <4>1. 1..(last - offset[p]) = 1..0
        BY <3>2, <1>3
      <4> QED
        BY <3>2, <4>1, <1>3
    <3> QED
      BY <3>1, <3>2, <1>3
  <2>2. page \in [1..k -> (0..MaxGen) \X Nat]
    BY <2>1, <1>3
  <2> HIDE DEF page, last
  <2>3. page \in Seq((0..MaxGen) \X Nat)
    BY <2>2, SeqDef
  <2>4. Len(page) = k
    <3>1. DOMAIN page = 1..k /\ DOMAIN page = 1..Len(page) /\ Len(page) \in Nat
      BY <2>2, <2>3, LenProperties
    <3> QED
      BY <3>1
  <2>5. page = << >> <=> k = 0
    BY <2>3, <2>4, EmptySeq
  <2> QED
    BY <1>3, <2>1, <2>3, <2>4, <2>5 DEF ListType
<1> HIDE DEF page
<1>5. TypeOK'
  <2>1. LookType' = LookType /\ MadeType' = MadeType
    BY <1>2, TypesKept DEF tree
  <2>2. got' \in [Proc -> ListType]
    <3>1. got[p] \o page \in ListType
      BY <1>1, <1>4 DEF LocalOK, ListType
    <3> QED
      BY <3>1, <1>1, <1>2 DEF LocalOK
  <2>3. offset' \in [Proc -> Nat] /\ seen' \in [Proc -> GenSets] /\ pc' \in [Proc -> PCs]
    BY <1>1, <1>2, <1>3, <1>4 DEF LocalOK, GenSets, Goto, PCs
  <2>4. LocalOK'
    BY <1>1, <1>2, <2>1, <2>2, <2>3 DEF LocalOK, ListType, GenSets
  <2>5. FilesOK'
    BY <1>1, <1>2 DEF FilesOK, tree
  <2> QED
    BY <2>4, <2>5, TypePartsAfter
<1>6. ASSUME NEW q \in Proc, q # p PROVE ProcInv(q)'
  <2>1. Same(q)
    BY <1>1, <1>2, <1>6 DEF Goto, LocalOK, Same
  <2> QED
    BY <2>1, <1>2, SameKeeps
<1>7. ProcInv(p)'
  <2>1. /\ pc'[p] = IF page # << >> /\ last < index.docs THEN "ready" ELSE "listed"
        /\ seen'[p] = seen[p] \cup {index.gen} /\ offset'[p] = offset[p] + Len(page)
        /\ got'[p] = got[p] \o page
    BY <1>1, <1>2 DEF Goto, LocalOK
  <2>2. LookIsDated(p)' /\ Making(p)' /\ Served(p)'
    BY <1>2, <2>1 DEF ProcInv, LookIsDated, Making, Served, tree
  <2>3. ASSUME seen'[p] = {index.gen}
        PROVE  /\ offset'[p] <= index.docs /\ got'[p] = Pages(index.gen, offset'[p])
               /\ pc'[p] = "listed" => offset'[p] = index.docs
    <3>1. offset[p] <= index.docs /\ got[p] = Pages(index.gen, offset[p])
      <4>1. CASE seen[p] = {}
        <5>1. offset[p] = 0 /\ got[p] = << >>
          BY <4>1 DEF ProcInv, Listing
        <5>2. Pages(index.gen, 0) = << >>
          BY DEF Pages
        <5> QED
          BY <5>1, <5>2, <1>3
      <4>2. CASE seen[p] = {index.gen}
        BY <4>2 DEF ProcInv, Listing
      <4> QED
        BY <2>1, <2>3, <4>1, <4>2
    <3>2. offset[p] <= last /\ last <= index.docs
      BY <1>3, <3>1
    <3>3. last - offset[p] \in Nat /\ offset[p] + (last - offset[p]) = last /\ Len(page) = last - offset[p]
      BY <1>3, <1>4, <3>2
    <3>4. offset'[p] = last
      BY <2>1, <3>3
    <3>5. got'[p] = Pages(index.gen, last)
      <4> HIDE DEF last
      <4>1. page = [i \in 1..(last - offset[p]) |-> <<index.gen, offset[p] + i>>]
        BY DEF page
      <4>2. Pages(index.gen, offset[p]) \o page = Pages(index.gen, offset[p] + (last - offset[p]))
        BY <1>3, <3>3, <4>1, PageJoins
      <4> QED
        BY <2>1, <3>1, <3>3, <4>2
    <3>6. pc'[p] = "listed" => last = index.docs
      <4>1. page = << >> => last = index.docs
        BY <1>3, <1>4, <3>2
      <4>2. ~ (last < index.docs) => last = index.docs
        BY <1>3, <3>2
      <4> QED
        BY <2>1, <4>1, <4>2
    <3> QED
      BY <3>2, <3>4, <3>5, <3>6
  <2>4. Listing(p)'
    <3>1. seen'[p] \subseteq 0..index.gen /\ seen'[p] # {} /\ Openable
      <4>1. seen[p] \subseteq 0..index.gen /\ index.gen \in 0..index.gen
        BY <1>3 DEF ProcInv, Listing
      <4> QED
        BY <2>1, <4>1 DEF Page
    <3> QED
      BY <1>2, <2>3, <3>1 DEF Listing, Openable
  <2> QED
    BY <2>2, <2>4 DEF ProcInv
<1> QED
  BY <1>2, <1>5, <1>6, <1>7, StillDated, StillDeserved

\* only Start makes a builder, when there is none
LEMMA BuildersKeep == WorkerInv /\ [Next]_vars => Builders'
<1> SUFFICES ASSUME WorkerInv, [Next]_vars PROVE Builders'
  OBVIOUS
<1> USE DEF WorkerInv, Core
<1>1. LocalOK
  BY TypeParts
<1>2. ASSUME UNCHANGED index,
             \A q \in Proc : /\ job'[q] = job[q] \/ (job'[q] = "list" /\ pc'[q] = "off")
                             /\ pc'[q] \in {"create", "commit"} => pc[q] \in {"create", "commit"}
      PROVE  Builders'
  BY <1>2 DEF Builders
<1>3. ASSUME NEW p \in Proc, Exit(p), UNCHANGED index PROVE Builders'
  BY <1>1, <1>2, <1>3 DEF Exit, Goto, LocalOK
<1>4. ASSUME NEW p \in Proc,
             \/ Unavailable(p) \/ PageFails(p) \/ Listed(p) \/ Mark(p) \/ Kill(p)
             \/ Merged(p) \/ ChildFails(p)
      PROVE  Builders'
  BY <1>3, <1>4 DEF Unavailable, PageFails, Listed, Mark, Kill, Merged, ChildFails, Outside
<1>5. ASSUME NEW p \in Proc, NEW l \in PCs \ {"create", "commit"}, Goto(p, l), UNCHANGED <<index, job>>
      PROVE  Builders'
  BY <1>1, <1>2, <1>5 DEF Goto, LocalOK
<1>6. ASSUME NEW p \in Proc, Available(p) \/ Stat(p) \/ Compare(p) \/ Compile(p) \/ Compiled(p)
      PROVE  Builders'
  BY <1>5, <1>6 DEF Available, Stat, Compare, Compile, Compiled, Outside, PCs
<1>7. ASSUME NEW p \in Proc, CompileFails(p) \/ Clear(p) \/ Begin(p) \/ Page(p)
      PROVE  Builders'
  BY <1>5, <1>7 DEF CompileFails, Clear, Begin, Page, Outside, PCs
<1>8. ASSUME NEW p \in Proc, RemoveDir(p) \/ CreateIndex(p) PROVE Builders'
  <2>1. /\ job[p] = "build" /\ job' = job /\ index'.gen < MaxGen
        /\ \A q \in Proc : q # p => pc'[q] = pc[q]
    <3>1. FilesOK /\ index.gen \in Nat
      BY TypeParts, Numbers
    <3>2. CASE RemoveDir(p)
      BY <1>1, <3>1, <3>2, BoundAssumption DEF RemoveDir, BuildStep, Goto, LocalOK
    <3>3. CASE CreateIndex(p)
      BY <1>1, <3>1, <3>3 DEF CreateIndex, BuildStep, Goto, LocalOK, FilesOK, Builders
    <3> QED
      BY <1>8, <3>2, <3>3
  <2> QED
    BY <2>1 DEF Builders
<1>9. ASSUME NEW p \in Proc, Commit(p) \/ MergeSegments(p) PROVE Builders'
  <2>1. /\ job[p] = "build" /\ job' = job /\ pc'[p] = "merge"
        /\ \A q \in Proc : q # p => pc'[q] = pc[q]
    BY <1>1, <1>9 DEF Commit, MergeSegments, BuildStep, Goto, LocalOK
  <2>2. \A q \in Proc : pc[q] \in {"create", "commit"} => q = p
    BY <2>1 DEF Builders
  <2> QED
    BY <2>1, <2>2 DEF Builders
<1>10. ASSUME NEW p \in Proc, NEW j \in {"list", "build"}, Start(p, j) PROVE Builders'
  <2>1. /\ pc'[p] = "begin" /\ job'[p] = j /\ UNCHANGED index
        /\ j = "build" => \A q \in Proc : job[q] = "list"
        /\ \A q \in Proc : q # p => job'[q] = job[q] /\ pc'[q] = pc[q]
    BY <1>1, <1>10 DEF Start, Goto, LocalOK
  <2> QED
    BY <2>1 DEF Builders
<1>11. ASSUME NEW p \in Proc, Quit(p) PROVE Builders'
  BY <1>2, <1>11 DEF Quit, Outside
<1>12. ASSUME NEW s \in {0, 1}, Edit(s) PROVE Builders'
  BY <1>2, <1>12 DEF Edit
<1>13. CASE UNCHANGED vars
  BY <1>2, <1>13 DEF vars, local
<1> QED
  BY <1>4, <1>6, <1>7, <1>8, <1>9, <1>10, <1>11, <1>12, <1>13 DEF Next, Step

LEMMA NextKeeps == WorkerInv /\ [Next]_vars => WorkerInv'
<1> SUFFICES ASSUME WorkerInv, [Next]_vars PROVE Core'
  BY BuildersKeep DEF WorkerInv
<1>1. ASSUME NEW p \in Proc, Step(p) PROVE Core'
  BY <1>1, BeginKeeps, CheckKeeps, LeaveKeeps, StatKeeps, CompileKeeps, CompiledKeeps,
     CompileFailsKeeps, MarkKeeps, PageKeeps, RenewKeeps, CreateKeeps DEF Step
<1>2. ASSUME NEW p \in Proc, Kill(p) PROVE Core'
  BY <1>2, LeaveKeeps
<1>3. ASSUME NEW p \in Proc, NEW j \in {"list", "build"}, Start(p, j) \/ Quit(p) PROVE Core'
  BY <1>3, JobKeeps
<1>4. ASSUME NEW s \in {0, 1}, Edit(s) PROVE Core'
  BY <1>4, EditKeeps
<1>5. CASE UNCHANGED vars
  <2>1. \A q \in Proc : ProcInv(q)'
    BY <1>5, SameKeeps DEF vars, local, Same
  <2>2. TypeOK'
    BY <1>5 DEF vars, local, tree, WorkerInv, Core, TypeOK
  <2> QED
    BY <1>5, <2>1, <2>2, StillDated, StillDeserved DEF vars, Core
<1> QED
  BY <1>1, <1>2, <1>3, <1>4, <1>5 DEF Next

LEMMA WorkerInvariance == Spec => []WorkerInv
<1>1. Init => WorkerInv
  BY WorkerInitInv
<1>2. WorkerInv /\ [Next]_vars => WorkerInv'
  BY NextKeeps
<1> QED
  BY <1>1, <1>2, PTL DEF Spec

-----------------------------------------------------------------------------
(* Every variable of the worker and its processes keeps its type.          *)
THEOREM WorkerTypeCorrect == Spec => []TypeOK
<1>1. WorkerInv => TypeOK
  BY DEF WorkerInv, Core
<1> QED
  BY <1>1, WorkerInvariance, PTL

(* ensure_native_binary never hands a caller a binary of older sources     *)
(* than it saw, unless they were edited while cargo compiled it.           *)
THEOREM CurrentServed == Spec => []ServedIsCurrent
<1>1. WorkerInv => ServedIsCurrent
  BY DEF WorkerInv, Core, ProcInv, Served, ServedIsCurrent
<1> QED
  BY <1>1, WorkerInvariance, PTL

(* persisted_failure_reason never blocks sources for the failure of older  *)
(* ones, unless they were edited before it was written down.               *)
THEOREM BlockedDeservedly == Spec => []MarkerIsDeserved
<1>1. WorkerInv => MarkerIsDeserved
  BY DEF WorkerInv, Core
<1> QED
  BY <1>1, WorkerInvariance, PTL

(* iter_search_documents yields every document of an index once and in     *)
(* order, for every number of documents and size of a page, if all of its  *)
(* pages are of the index that is still there; a page read before or       *)
(* within a rebuild, empty or not, is of another.                          *)
THEOREM ListedExactly == Spec => []ListingExact
<1>1. WorkerInv => ListingExact
  BY DEF WorkerInv, Core, ProcInv, Listing, ListingExact, Pages
<1> QED
  BY <1>1, WorkerInvariance, PTL

-----------------------------------------------------------------------------
(* The language server: its inductive invariant.                           *)

SymbolsId == 2

\* a request of the server's that looks like the answer
Lookalikes == {x \in {[id |-> SymbolsId, result |-> Empty]} : SymbolsId \in ServerIds}

\* payloads that bear the id of documentSymbol only if they are its answer or
\* a request of that id
Sound ==
  {x \in Payload \cup {LogLine} :
     x.id = SymbolsId => (taken >= 4 /\ x.result = replied) \/ x \in Lookalikes}

Genuine == [text : {text}, form : Form] \cup {Refusal}

\* whatever is on its way to the caller is sound
InFlight == queue \in Seq(Sound) /\ out \in Seq(Sound) /\ work \in Seq(Sound)

\* the text is opened before its symbols are asked for
Truthful ==
  /\ taken >= 3 => opened = 1
  /\ taken >= 4 => replied \in Genuine
  /\ response # NoPayload => (taken >= 4 /\ response.result = replied) \/ response \in Lookalikes

ProbeInv == ProbeTypeOK /\ InFlight /\ Truthful

-----------------------------------------------------------------------------
LEMMA Ids ==
  /\ RequestId("documentSymbol") = SymbolsId
  /\ \A m \in Requests : RequestId(m) \in RequestIds /\ (RequestId(m) = SymbolsId => m = "documentSymbol")
  /\ \A n \in 0..5 : RequestId(Script[n + 1]) \in RequestIds \cup {0}
  /\ \A n \in 0..5 : Script[n + 1] = "documentSymbol" <=> n = 3
  /\ \A n \in 0..5 : Script[n + 1] = "didOpen" <=> n = 2
BY DEF RequestId, SymbolsId, Requests, RequestIds, Script

LEMMA NoiseIsSound == Noise \subseteq Sound
BY DEF Noise, Sound, Lookalikes, SymbolsId, Payload, LogLine, RequestIds, Results

LEMMA NoisesAreSound == Noises \subseteq Seq(Sound)
<1> SUFFICES ASSUME NEW before \in Noises PROVE before \in Seq(Sound)
  OBVIOUS
<1>1. PICK n \in 0..MaxNoise : before \in [1..n -> Noise]
  BY DEF Noises
<1>2. before \in [1..n -> Sound] /\ n \in Nat
  BY <1>1, NoiseIsSound, NoiseAssumption
<1> QED
  BY <1>2, SeqDef

LEMMA ProbeInitInv == ProbeInit => ProbeInv
<1> SUFFICES ASSUME ProbeInit PROVE ProbeInv
  OBVIOUS
<1>1. NoPayload.id # SymbolsId
  BY DEF NoPayload, SymbolsId
<1>2. ProbeTypeOK
  BY PipeAssumption, NoiseAssumption DEF ProbeInit, ProbeTypeOK, Results
<1> QED
  BY <1>2 DEF ProbeInit, ProbeInv, InFlight, Truthful

\* a step that leaves the server alone keeps what is sound
LEMMA SoundKept ==
  ASSUME UNCHANGED <<taken, replied>>
  PROVE  Sound' = Sound
BY DEF Sound

-----------------------------------------------------------------------------
(* The probe's steps.                                                      *)

LEMMA CallerKeeps == ProbeInv /\ Caller => ProbeInv'
<1> SUFFICES ASSUME ProbeInv, Caller PROVE ProbeInv'
  OBVIOUS
<1> USE DEF ProbeInv
<1>1. CASE Send
  <2>1. RequestId(Script[sent + 1]) \in RequestIds \cup {0}
    BY <1>1, Ids DEF Send, Writing, ProbeTypeOK
  <2>2. ProbeTypeOK'
    BY <1>1, <2>1 DEF Send, Writing, ProbeTypeOK, server
  <2> QED
    BY <1>1, <2>2, SoundKept DEF Send, InFlight, Truthful, Genuine, server
<1>2. CASE SendFails
  <2>1. ProbeTypeOK'
    BY <1>2, PipeAssumption DEF SendFails, ProbeTypeOK, server
  <2> QED
    BY <1>2, <2>1, SoundKept DEF SendFails, InFlight, Truthful, Genuine, server
<1>3. CASE Take
  <2>1. Head(queue) \in Sound /\ Head(queue) \in Payload
    BY <1>3 DEF Take, InFlight, ProbeTypeOK
  <2>2. Tail(queue) \in Seq(Sound) /\ Tail(queue) \in Seq(Payload)
    BY <1>3 DEF Take, InFlight, ProbeTypeOK
  <2>3. ProbeTypeOK'
    BY <1>3, <2>1, <2>2 DEF Take, ProbeTypeOK, server
  <2>4. response' = response \/ (response' = Head(queue) /\ Head(queue).id = SymbolsId)
    BY <1>3, Ids DEF Take, Answers
  <2>5. response' # NoPayload => (taken >= 4 /\ response'.result = replied) \/ response' \in Lookalikes
    BY <2>1, <2>4 DEF Sound, Truthful
  <2> QED
    BY <1>3, <2>2, <2>3, <2>5, SoundKept DEF Take, InFlight, Truthful, Genuine, server
<1>4. CASE Wait
  <2>1. ProbeTypeOK'
    BY <1>4 DEF Wait, ProbeTypeOK, server
  <2> QED
    BY <1>4, <2>1, SoundKept DEF Wait, InFlight, Truthful, Genuine, server
<1>5. CASE Reap
  <2>1. ProbeTypeOK'
    BY <1>5, PipeAssumption DEF Reap, ProbeTypeOK, server
  <2> QED
    BY <1>5, <2>1, SoundKept DEF Reap, InFlight, Truthful, Genuine, server
<1>6. CASE Drain
  <2>1. ProbeTypeOK'
    BY <1>6 DEF Drain, ProbeTypeOK, server
  <2> QED
    BY <1>6, <2>1, SoundKept DEF Drain, InFlight, Truthful, Genuine, server
<1> QED
  BY <1>1, <1>2, <1>3, <1>4, <1>5, <1>6 DEF Caller

LEMMA ReadersKeep == ProbeInv /\ Readers => ProbeInv'
<1> SUFFICES ASSUME ProbeInv, Readers PROVE ProbeInv'
  OBVIOUS
<1> USE DEF ProbeInv
<1>1. CASE Read
  <2>1. /\ Head(out) \in Sound /\ Head(out) \in Payload
        /\ Tail(out) \in Seq(Sound) /\ Tail(out) \in Seq(Payload)
    BY <1>1 DEF Read, InFlight, ProbeTypeOK
  <2>2. queue' \in Seq(Sound) /\ queue' \in Seq(Payload)
    BY <1>1, <2>1 DEF Read, InFlight, ProbeTypeOK
  <2>3. ProbeTypeOK'
    BY <1>1, <2>1, <2>2 DEF Read, ProbeTypeOK, client, server
  <2> QED
    BY <1>1, <2>1, <2>2, <2>3, SoundKept DEF Read, InFlight, Truthful, Genuine, client, server
<1>2. CASE ReadEnd
  <2>1. ProbeTypeOK'
    BY <1>2 DEF ReadEnd, ProbeTypeOK, client, server
  <2> QED
    BY <1>2, <2>1, SoundKept DEF ReadEnd, InFlight, Truthful, Genuine, client, server
<1>3. CASE ReadLog
  <2>1. ProbeTypeOK'
    BY <1>3, PipeAssumption DEF ReadLog, LogReady, ProbeTypeOK, client, server
  <2> QED
    BY <1>3, <2>1, SoundKept DEF ReadLog, InFlight, Truthful, Genuine, client, server
<1> QED
  BY <1>1, <1>2, <1>3 DEF Readers

\* what the server takes before the text's symbols bears other ids, and
\* what it takes afterwards does not change its answer to them
LEMMA ServerTakeSound ==
  ASSUME ProbeInv, ServerTake
  PROVE  /\ Sound \subseteq Sound'
         /\ taken' >= 4 => replied' \in Genuine
         /\ taken >= 4 => replied' = replied
         /\ work' \in Seq(Sound') /\ replied' \in Results
<1> USE DEF ProbeInv
<1> DEFINE m == Script[taken + 1]
<1>1. taken \in 0..5 /\ taken' = taken + 1
  BY DEF ServerTake, ProbeTypeOK
<1>2. CASE m \in Requests
  <2>1. PICK before \in Noises, r \in Replies(m) :
          /\ work' = Append(before, [id |-> RequestId(m), result |-> r])
          /\ replied' = IF m = "documentSymbol" THEN r ELSE replied
    BY <1>2 DEF ServerTake
  <2>2. r \in Results /\ (taken = 3 => r \in Genuine)
    BY <1>1, Ids DEF Replies, Results, Symbols, Genuine, Truthful, ProbeTypeOK
  <2>3. taken >= 4 => replied' = replied
    BY <1>1, <2>1, Ids
  <2>4. taken' >= 4 => replied' \in Genuine
    BY <1>1, <2>1, <2>2, Ids DEF Truthful
  <2>5. Sound \subseteq Sound'
    BY <1>1, <2>3 DEF Sound
  <2>6. [id |-> RequestId(m), result |-> r] \in Sound'
    BY <1>1, <1>2, <2>1, <2>2, Ids DEF Sound, Payload
  <2>7. before \in Seq(Sound')
    BY <2>5, NoisesAreSound, SeqMonotonic
  <2>8. replied' \in Results
    BY <2>1, <2>2 DEF ProbeTypeOK
  <2> QED
    BY <2>1, <2>3, <2>4, <2>5, <2>6, <2>7, <2>8
<1>3. CASE m \notin Requests
  <2>1. work' = << >> /\ replied' = replied
    BY <1>3 DEF ServerTake
  <2>2. taken # 3
    BY <1>1, <1>3, Ids DEF Requests
  <2>3. Sound \subseteq Sound'
    BY <1>1, <2>1 DEF Sound
  <2> QED
    BY <1>1, <2>1, <2>2, <2>3 DEF Truthful, ProbeTypeOK
<1> QED
  BY <1>2, <1>3

LEMMA ServerKeeps == ProbeInv /\ (Server \/ ServerDies) => ProbeInv'
<1> SUFFICES ASSUME ProbeInv, Server \/ ServerDies PROVE ProbeInv'
  OBVIOUS
<1> USE DEF ProbeInv
<1>1. CASE ServerTake
  <2> HIDE DEF ProbeInv
  <2>0. /\ Sound \subseteq Sound' /\ (taken' >= 4 => replied' \in Genuine)
        /\ (taken >= 4 => replied' = replied) /\ work' \in Seq(Sound') /\ replied' \in Results
    BY <1>1, ServerTakeSound
  <2> USE DEF ProbeInv
  <2>1. queue' \in Seq(Sound') /\ out' \in Seq(Sound')
    BY <1>1, <2>0, SeqMonotonic DEF ServerTake, InFlight, client
  <2>2. Sound' \subseteq Payload \cup {LogLine}
    BY DEF Sound
  <2>3. work' \in Seq(Payload \cup {LogLine})
    BY <2>0, <2>2, SeqMonotonic
  <2>4. ProbeTypeOK'
    <3>1. taken' \in 0..sent
      BY <1>1 DEF ServerTake, ProbeTypeOK
    <3>2. opened' \in {0, 1} /\ alive' \in {0, 1}
      BY <1>1 DEF ServerTake, ProbeTypeOK
    <3>3. UNCHANGED <<client, queue, reader, lines, deaths, out, err>>
      BY <1>1 DEF ServerTake
    <3> QED
      BY <2>0, <2>3, <3>1, <3>2, <3>3 DEF ProbeTypeOK, client
  <2>5. taken \in 0..5 /\ taken' = taken + 1
    BY <1>1 DEF ServerTake, ProbeTypeOK
  <2>6. taken' >= 3 => opened' = 1
    BY <1>1, <2>5, Ids DEF ServerTake, Truthful
  <2>7. Truthful'
    <3>1. response' = response /\ Genuine' = Genuine
      BY <1>1 DEF ServerTake, client, Genuine
    <3> QED
      BY <2>0, <2>5, <2>6, <3>1 DEF Truthful
  <2> QED
    BY <2>0, <2>1, <2>4, <2>7 DEF InFlight
<1>2. CASE ServerWrite
  <2>1. /\ Head(work) \in Sound /\ Head(work) \in Payload \cup {LogLine}
        /\ Tail(work) \in Seq(Sound) /\ Tail(work) \in Seq(Payload \cup {LogLine})
    BY <1>2 DEF ServerWrite, InFlight, ProbeTypeOK
  <2>2. out' \in Seq(Sound) /\ out' \in Seq(Payload)
    <3>1. out \in Seq(Sound) /\ out \in Seq(Payload)
      BY DEF InFlight, ProbeTypeOK
    <3>2. out' = out \/ (out' = Append(out, Head(work)) /\ Head(work) \in Payload)
      BY <1>2, <2>1 DEF ServerWrite
    <3> HIDE DEF ProbeInv
    <3>3. Append(out, Head(work)) \in Seq(Sound)
      BY <2>1, <3>1
    <3>4. Head(work) \in Payload => Append(out, Head(work)) \in Seq(Payload)
      BY <3>1
    <3> QED
      BY <3>1, <3>2, <3>3, <3>4
  <2>3. ProbeTypeOK'
    BY <1>2, <2>1, <2>2, PipeAssumption DEF ServerWrite, ProbeTypeOK, client
  <2> QED
    BY <1>2, <2>1, <2>2, <2>3, SoundKept DEF ServerWrite, InFlight, Truthful, Genuine, client
<1>3. CASE ServerDies
  <2>1. ProbeTypeOK'
    BY <1>3, NoiseAssumption DEF ServerDies, ProbeTypeOK, client
  <2> QED
    BY <1>3, <2>1, SoundKept DEF ServerDies, InFlight, Truthful, Genuine, client
<1> QED
  BY <1>1, <1>2, <1>3 DEF Server

LEMMA ProbeInvariance == ProbeSpec => []ProbeInv
<1>1. ProbeInit => ProbeInv
  BY ProbeInitInv
<1>2. ProbeInv /\ [ProbeNext]_probeVars => ProbeInv'
  <2> SUFFICES ASSUME ProbeInv, [ProbeNext]_probeVars PROVE ProbeInv'
    OBVIOUS
  <2>1. CASE UNCHANGED probeVars
    BY <2>1, SoundKept DEF probeVars, client, server, ProbeInv, ProbeTypeOK, InFlight, Truthful, Genuine
  <2> QED
    BY <2>1, CallerKeeps, ReadersKeep, ServerKeeps DEF ProbeNext
<1> QED
  BY <1>1, <1>2, PTL DEF ProbeSpec

-----------------------------------------------------------------------------
(* Every variable of the probe keeps its type, and no pipe holds what it   *)
(* cannot.                                                                 *)
THEOREM ProbeTypeCorrect == ProbeSpec => []ProbeTypeOK
<1>1. ProbeInv => ProbeTypeOK
  BY DEF ProbeInv
<1> QED
  BY <1>1, ProbeInvariance, PTL

(* wait_for_response never hands on another payload than the server's      *)
(* answer to documentSymbol, made from the text that was opened, or a      *)
(* request of the server's of the same id, which carries no symbol: one    *)
(* file loses its symbols, none gets another's.                            *)
THEOREM AnswerGenuine == ProbeSpec => []AnswerIsServers
<1>1. ProbeInv => AnswerIsServers
  BY Ids DEF ProbeInv, Truthful, AnswerIsServers, Genuine, Lookalikes
<1> QED
  BY <1>1, ProbeInvariance, PTL

-----------------------------------------------------------------------------
(* The merge: what the line parser found is numbered from 1 in the order  *)
(* of the list, and a pass changes of a symbol its names and the ends of   *)
(* its span only, or adds one with the next number.                        *)

Found == Parsed(Items[text])
Fields == {"id", "kind", "name", "qname", "container", "cid", "first", "last"}

IsSymbol(s) == DOMAIN s = Fields /\ s.first \in Nat /\ s.last \in Nat

Covers(s, f) ==
  s.kind = f.kind /\ s.name = f.name /\ s.first <= f.first /\ f.last <= s.last

MergeInv ==
  /\ text \in Text
  /\ \E S : symbols \in Seq(S)
  /\ \A i \in 1..Len(symbols) : IsSymbol(symbols[i]) /\ symbols[i].id = i
  /\ \A i \in DOMAIN Found :
       /\ i \in 1..Len(symbols) /\ Found[i].id = i
       /\ IsSymbol(Found[i]) /\ Covers(symbols[i], Found[i])
  /\ \A b \in left : b.first \in Nat /\ b.last \in Nat

\* the numbers of the recognised items are 1 to their number
LEMMA Numbered ==
  ASSUME NEW items, NEW T, items \in Seq(T)
  PROVE  /\ Cardinality(Recognised(items)) \in Nat
         /\ \A n \in 1..Cardinality(Recognised(items)) :
              \E i \in Recognised(items) : LocalId(items, i) = n
<1> DEFINE R == Recognised(items)
           N == Cardinality(R)
           Upto(i) == {j \in R : j <= i}
           f == [i \in R |-> Cardinality(Upto(i))]
<1>1. R \subseteq 1..Len(items) /\ Len(items) \in Nat /\ IsFiniteSet(1..Len(items))
  BY FS_Interval DEF Recognised
<1>2. IsFiniteSet(R) /\ N \in Nat
  <2> HIDE DEF R
  <2> QED BY <1>1, FS_Subset, FS_CardinalityType
<1>3. \A i \in R : IsFiniteSet(Upto(i)) /\ Cardinality(Upto(i)) \in 1..N
  <2> SUFFICES ASSUME NEW i \in R PROVE IsFiniteSet(Upto(i)) /\ Cardinality(Upto(i)) \in 1..N
    OBVIOUS
  <2>1. Upto(i) \in SUBSET R /\ i \in Upto(i)
    <3> HIDE DEF R
    <3> QED BY <1>1
  <2> HIDE DEF R, Upto
  <2>2. IsFiniteSet(Upto(i)) /\ Cardinality(Upto(i)) <= N
    BY <1>2, <2>1, FS_Subset
  <2>3. Cardinality(Upto(i)) \in Nat /\ Cardinality(Upto(i)) # 0
    BY <2>1, <2>2, FS_CardinalityType, FS_EmptySet
  <2> QED BY <1>2, <2>2, <2>3
<1>4. \A i, j \in R : i < j => Cardinality(Upto(i)) # Cardinality(Upto(j))
  <2> SUFFICES ASSUME NEW i \in R, NEW j \in R, i < j
               PROVE  Cardinality(Upto(i)) # Cardinality(Upto(j))
    OBVIOUS
  <2>1. Upto(i) \in SUBSET Upto(j) /\ j \in Upto(j) /\ j \notin Upto(i)
    <3> HIDE DEF R
    <3>1. \A k \in R : k \in Nat
      BY <1>1
    <3>2. i \in Nat /\ j \in Nat
      BY <3>1
    <3>3. \A k \in R : k <= i => k <= j
      BY <3>1, <3>2
    <3>4. j <= j /\ ~ (j <= i)
      BY <3>2
    <3> HIDE DEF N, f
    <3> QED BY <3>3, <3>4
  <2>2. IsFiniteSet(Upto(j))
    BY <1>3
  <2> HIDE DEF R, Upto
  <2> QED BY <2>1, <2>2, FS_Subset
<1>5. f \in Injection(R, 1..N)
  <2> HIDE DEF R, Upto, N
  <2>1. f \in [R -> 1..N]
    BY <1>3
  <2>2. \A i, j \in R : f[i] = f[j] => i = j
    BY <1>1, <1>4
  <2> QED BY <2>1, <2>2 DEF Injection, IsInjective
<1>6. f \in Surjection(R, 1..N)
  <2> HIDE DEF R, N, f
  <2>1. IsFiniteSet(1..N) /\ Cardinality(1..N) = N
    BY <1>2, FS_Interval
  <2>2. Cardinality(R) = N
    BY DEF N
  <2> QED BY <1>5, <2>1, <2>2, FS_Injection
<1>7. \A n \in 1..N : \E i \in R : f[i] = n
  <2> HIDE DEF R, N, f
  <2> QED BY <1>6 DEF Surjection
<1>8. \A i \in R : f[i] = LocalId(items, i)
  BY DEF LocalId
<1> QED BY <1>2, <1>7, <1>8

\* so the n-th symbol of the line parser bears the number n
LEMMA ParsedInOrder ==
  ASSUME NEW t \in Text
  PROVE  LET P == Parsed(Items[t])
             N == Cardinality(Recognised(Items[t]))
         IN  /\ N \in Nat /\ DOMAIN P = 1..N /\ \E S : P \in Seq(S)
             /\ \A n \in 1..N : IsSymbol(P[n]) /\ P[n].id = n
<1> DEFINE items == Items[t]
           P == Parsed(items)
           N == Cardinality(Recognised(items))
           at(n) == CHOOSE i \in Recognised(items) : LocalId(items, i) = n
<1>1. items \in Seq(ItemType)
  BY ItemAssumption
<1>2. N \in Nat /\ \A n \in 1..N : at(n) \in Recognised(items) /\ LocalId(items, at(n)) = n
  <2>1. N \in Nat /\ \A n \in 1..N : \E i \in Recognised(items) : LocalId(items, i) = n
    BY <1>1, Numbered
  <2> QED BY <2>1
<1>3. P = [n \in 1..N |-> ParsedSymbol(items, at(n))]
  BY DEF Parsed
<1>4. ASSUME NEW n \in 1..N PROVE IsSymbol(P[n]) /\ P[n].id = n
  <2>1. P[n] = ParsedSymbol(items, at(n))
    BY <1>3
  <2>2. items[at(n)] \in ItemType
    <3>1. at(n) \in DOMAIN items
      BY <1>2 DEF Recognised
    <3> HIDE DEF at, items
    <3> QED BY <1>1, <3>1
  <2> HIDE DEF P, N, at, items
  <2>3. items[at(n)].first \in Nat /\ items[at(n)].last \in Nat
    BY <2>2 DEF ItemType
  <2>4. LocalId(items, at(n)) = n
    BY <1>2
  <2> QED BY <2>1, <2>3, <2>4 DEF ParsedSymbol, IsSymbol, Fields
<1>5. \E S : P \in Seq(S)
  <2>1. P \in Seq({ParsedSymbol(items, at(n)) : n \in 1..N})
    BY <1>2, <1>3
  <2> QED BY <2>1
<1> QED
  BY <1>2, <1>3, <1>4, <1>5

LEMMA MergeInitInv == MergeInit => MergeInv
<1> SUFFICES ASSUME MergeInit PROVE MergeInv
  OBVIOUS
<1>1. text \in Text /\ symbols = Found /\ left = {}
  BY DEF MergeInit, ProbeInit, Found
<1>2. PICK N \in Nat : DOMAIN Found = 1..N /\ (\E S : Found \in Seq(S))
                       /\ \A n \in 1..N : IsSymbol(Found[n]) /\ Found[n].id = n
  BY <1>1, ParsedInOrder DEF Found
<1>3. Len(symbols) = N
  BY <1>1, <1>2
<1> QED
  BY <1>1, <1>2, <1>3 DEF MergeInv, IsSymbol, Covers

\* what either backend finds has a place in the text
LEMMA FoundInText ==
  ASSUME text \in Text
  PROVE  \A b \in ServerFound \cup SitterFound : b.first \in Nat /\ b.last \in Nat
<1>1. \A t \in Text : \A i \in DOMAIN Items[t] : Items[t][i] \in ItemType
  BY ItemAssumption
<1>2. ASSUME NEW b \in ServerFound PROVE b.first \in Nat /\ b.last \in Nat
  <2>1. response.result \in Symbols /\ b \in Analyzed(Items[response.result.text], response.result.form)
    BY <1>2 DEF ServerFound
  <2> DEFINE items == Items[response.result.text]
             shown == Answered(items, response.result.form)
  <2>2. response.result.text \in Text
    BY <2>1 DEF Symbols
  <2>3. PICK i \in DOMAIN items : b.first = shown[i].first /\ b.last = shown[i].last
    BY <2>1 DEF Analyzed
  <2>4. items[i] \in ItemType
    BY <1>1, <2>2
  <2>5. shown[i] = items[i] \/ shown[i] = [items[i] EXCEPT !.parent = 0, !.first = 1, !.last = 1]
    BY DEF Answered
  <2> HIDE DEF items, shown
  <2>6. CASE shown[i] = items[i]
    BY <2>3, <2>4, <2>6 DEF ItemType
  <2>7. CASE shown[i] = [items[i] EXCEPT !.parent = 0, !.first = 1, !.last = 1]
    <3>1. DOMAIN items[i] = {"name", "kind", "parent", "first", "last", "plain"}
      BY <2>4 DEF ItemType
    <3>2. shown[i].first = 1 /\ shown[i].last = 1
      BY <2>7, <3>1
    <3> QED BY <2>3, <3>2
  <2> QED BY <2>5, <2>6, <2>7
<1>3. ASSUME NEW b \in SitterFound PROVE b.first \in Nat /\ b.last \in Nat
  <2>1. PICK i \in DOMAIN Items[text] : b.first = Items[text][i].first /\ b.last = Items[text][i].last
    BY <1>3 DEF SitterFound, Visited
  <2>2. Items[text][i] \in ItemType
    BY <1>1
  <2> QED BY <2>1, <2>2 DEF ItemType
<1> QED BY <1>2, <1>3

\* merging a symbol into another leaves its number, kind and name
LEMMA UpdatedCovers ==
  ASSUME NEW s, NEW b, IsSymbol(s), b.first \in Nat, b.last \in Nat
  PROVE  /\ IsSymbol(Updated(s, b)) /\ Updated(s, b).id = s.id
         /\ \A f : IsSymbol(f) /\ Covers(s, f) => Covers(Updated(s, b), f)
<1> DEFINE u == Updated(s, b)
<1>1. DOMAIN u = Fields /\ u.id = s.id /\ u.kind = s.kind /\ u.name = s.name
  BY DEF Updated, IsSymbol, Fields
<1>2. /\ u.first = IF b.first <= s.first THEN b.first ELSE s.first
      /\ u.last = IF b.last >= s.last THEN b.last ELSE s.last
  BY DEF Updated, IsSymbol, Fields
<1> HIDE DEF u
<1>3. s.first \in Nat /\ s.last \in Nat
  BY DEF IsSymbol
<1>4. IsSymbol(u) /\ u.id = s.id
  BY <1>1, <1>2, <1>3 DEF IsSymbol
<1>5. ASSUME NEW f, IsSymbol(f), Covers(s, f) PROVE Covers(u, f)
  <2>1. u.first <= s.first /\ s.last <= u.last /\ u.first \in Nat /\ u.last \in Nat
    BY <1>2, <1>3
  <2>2. f.first \in Nat /\ f.last \in Nat /\ s.first <= f.first /\ f.last <= s.last
    BY <1>5 DEF IsSymbol, Covers
  <2>3. u.first <= f.first /\ f.last <= u.last
    BY <1>3, <2>1, <2>2
  <2> QED BY <1>1, <1>5, <2>3 DEF Covers
<1> QED BY <1>4, <1>5 DEF u

LEMMA MergeOneKeeps == MergeInv /\ MergeOne => MergeInv'
<1> SUFFICES ASSUME MergeInv, MergeOne PROVE MergeInv'
  OBVIOUS
<1>1. PICK b \in left :
        /\ left' = left \ {b}
        /\ \/ symbols' = symbols
           \/ \E i : i # 0 /\ symbols' = [symbols EXCEPT ![i] = Updated(@, b)]
           \/ symbols' = Append(symbols, Added(b))
  BY DEF MergeOne
<1>2. text' = text /\ Found' = Found
  BY DEF MergeOne, probeVars, client, Found
<1>3. b.first \in Nat /\ b.last \in Nat /\ \A a \in left' : a.first \in Nat /\ a.last \in Nat
  BY <1>1 DEF MergeInv
<1>4. PICK S : symbols \in Seq(S)
  BY DEF MergeInv
<1>5. CASE symbols' = symbols
  BY <1>2, <1>3, <1>5 DEF MergeInv
<1>6. CASE \E i : symbols' = [symbols EXCEPT ![i] = Updated(@, b)]
  <2>1. PICK i : symbols' = [symbols EXCEPT ![i] = Updated(@, b)]
    BY <1>6
  <2> DEFINE u == Updated(symbols[i], b)
  <2>2. symbols' = [j \in 1..Len(symbols) |-> IF j = i THEN u ELSE symbols[j]]
    <3>1. DOMAIN symbols = 1..Len(symbols) /\ DOMAIN symbols' = DOMAIN symbols
      BY <1>4, <2>1
    <3>2. symbols' = [j \in DOMAIN symbols' |-> symbols'[j]]
      BY <2>1
    <3>3. \A j \in DOMAIN symbols : symbols'[j] = IF j = i THEN u ELSE symbols[j]
      BY <2>1
    <3> HIDE DEF u
    <3> QED BY <3>1, <3>2, <3>3
  <2> HIDE DEF u
  <2>3. symbols' \in Seq(S \cup {u}) /\ Len(symbols') = Len(symbols)
    BY <1>4, <2>2
  <2>4. i \in 1..Len(symbols) => 
           /\ IsSymbol(u) /\ u.id = i
           /\ \A f : IsSymbol(f) /\ Covers(symbols[i], f) => Covers(u, f)
    BY <1>3, UpdatedCovers DEF MergeInv, u
  <2>5. \A j \in 1..Len(symbols) :
          /\ IsSymbol(symbols'[j]) /\ symbols'[j].id = j
          /\ \A f : IsSymbol(f) /\ Covers(symbols[j], f) => Covers(symbols'[j], f)
    BY <2>2, <2>4 DEF MergeInv
  <2> QED BY <1>2, <1>3, <2>3, <2>5 DEF MergeInv
<1>7. CASE symbols' = Append(symbols, Added(b))
  <2>1. IsSymbol(Added(b)) /\ Added(b).id = 1 + Len(symbols)
    BY <1>3 DEF Added, NextId, IsSymbol, Fields
  <2> DEFINE a == Added(b)
  <2> HIDE DEF a
  <2>2. /\ symbols' \in Seq(S \cup {a}) /\ Len(symbols') = Len(symbols) + 1
        /\ symbols'[Len(symbols) + 1] = a
        /\ \A j \in 1..Len(symbols) : symbols'[j] = symbols[j]
    BY <1>4, <1>7 DEF a
  <2>3. \A j \in 1..Len(symbols') : IsSymbol(symbols'[j]) /\ symbols'[j].id = j
    BY <1>4, <2>1, <2>2 DEF MergeInv, a
  <2>4. \A j \in DOMAIN Found : j \in 1..Len(symbols') /\ Covers(symbols'[j], Found[j])
    BY <1>4, <2>2 DEF MergeInv
  <2> QED BY <1>2, <1>3, <2>2, <2>3, <2>4 DEF MergeInv
<1> QED BY <1>1, <1>5, <1>6, <1>7

LEMMA MergeInvariance == MergeSpec => []MergeInv
<1>1. MergeInit => MergeInv
  BY MergeInitInv
<1>2. MergeInv /\ [MergeNext]_<<probeVars, merging>> => MergeInv'
  <2> SUFFICES ASSUME MergeInv, [MergeNext]_<<probeVars, merging>> PROVE MergeInv'
    OBVIOUS
  <2>1. CASE UNCHANGED <<probeVars, merging>>
    BY <2>1 DEF probeVars, client, merging, MergeInv, Found
  <2>2. CASE Probe
    <3>1. text' = text /\ symbols' = symbols /\ left' = left
      BY <2>2 DEF Probe, ProbeNext, Caller, Readers, Server, Send, SendFails, Take, Wait, Reap, Drain,
                  Read, ReadEnd, ReadLog, ServerTake, ServerWrite, ServerDies, client, merging
    <3> QED BY <3>1 DEF MergeInv, Found
  <2>3. CASE StartAnalyzer \/ StartSitter \/ Finish
    <3>1. text' = text /\ symbols' = symbols /\ left' \in {ServerFound, SitterFound, {}}
      BY <2>3 DEF StartAnalyzer, StartSitter, Finish, Enter, probeVars, client
    <3>2. \A b \in left' : b.first \in Nat /\ b.last \in Nat
      BY <3>1, FoundInText DEF MergeInv
    <3> QED BY <3>1, <3>2 DEF MergeInv, Found
  <2> QED
    BY <2>1, <2>2, <2>3, MergeOneKeeps DEF MergeNext, Merge
<1> QED
  BY <1>1, <1>2, PTL DEF MergeSpec

(* merge_backend_symbols loses and displaces nothing of what the line      *)
(* parser found, whatever the two backends report and in which order it    *)
(* is merged, and next_local_id never gives a number twice.                *)
THEOREM NothingDisplaced == MergeSpec => []ParsedKept
<1>1. MergeInv => ParsedKept
  <2> SUFFICES ASSUME MergeInv PROVE ParsedKept
    OBVIOUS
  <2>1. \A i \in DOMAIN Found :
          /\ symbols[i].id = Found[i].id /\ symbols[i].kind = Found[i].kind
          /\ symbols[i].name = Found[i].name
          /\ symbols[i].first <= Found[i].first /\ Found[i].last <= symbols[i].last
    BY DEF MergeInv, Covers
  <2>2. \A i, j \in DOMAIN symbols : symbols[i].id = symbols[j].id => i = j
    BY DEF MergeInv
  <2> QED
    BY <2>1, <2>2 DEF ParsedKept, Found
<1> QED
  BY <1>1, MergeInvariance, PTL
=============================================================================
