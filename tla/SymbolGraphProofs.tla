------------------------- MODULE SymbolGraphProofs -------------------------
(***************************************************************************)
(* Proofs about SymbolGraph, for every family of repositories: a record    *)
(* never names a symbol there is not, no edge dangles, and a function is   *)
(* linked to nothing but what it reaches by two or three calls, and to all *)
(* of it where no cap is met.  Then what a path may be resolved to, from   *)
(* which it follows that a variable flows from its last binding and that   *)
(* statements and references agree on what is called.                      *)
(***************************************************************************)
EXTENDS SymbolGraph, SequenceTheorems, FiniteSetTheorems, WellFoundedInduction, TLAPS

-----------------------------------------------------------------------------
(* Whatever is resolved is a symbol of the repository or a name. *)

LEMMA OnlyIn == ASSUME NEW S, S # {} PROVE Only(S) \in S
  BY DEF Only

LEMMA Found0 ==
  ASSUME NEW i, NEW h, i \in Ids
  PROVE  TargetOK(Target(Resolved(i, h)))
BY DEF TargetOK, Target, Resolved

LEMMA NotFound ==
  ASSUME NEW e
  PROVE  TargetOK(Target(Unresolved(e)))
BY DEF TargetOK, Target, Unresolved

LEMMA ResolveOK ==
  ASSUME NEW e, NEW at, NEW scope, NEW self
  PROVE  TargetOK(Target(Resolve(e, at, scope, self)))
<1> DEFINE names == Candidates(e, at, self)
           local == IF Len(e) = 1 /\ scope # 0 THEN LocalsOf(scope, Head(e)) ELSE {}
           best  == Best(names, LastSeg(e), at, self)
           q     == names[Only(Hit(names))]
           r     == Resolve(e, at, scope, self)
<1>1. CASE e = <<>> \/ (Len(e) = 1 /\ Head(e) \in Reserved)
  <2>1. r = Unresolved(e)
    BY <1>1 DEF Resolve
  <2> QED BY <2>1, NotFound
<1>2. CASE ~(e = <<>> \/ (Len(e) = 1 /\ Head(e) \in Reserved))
  <2>1. r = IF \E i \in local : local = {i} THEN Resolved(Only(local), qname[Only(local)])
            ELSE IF Hit(names) # {} THEN Resolved(Only(Exact(q)), q)
            ELSE IF best # {} THEN Resolved(Only(best), qname[Only(best)])
            ELSE Unresolved(names[1])
    BY <1>2 DEF Resolve
  <2>2. CASE \E i \in local : local = {i}
    <3>1. Only(local) \in local
      BY <2>2, OnlyIn
    <3>2. local \subseteq Ids
      BY DEF LocalsOf
    <3> QED BY <2>1, <2>2, <3>1, <3>2, Found0
  <2>3. CASE ~(\E i \in local : local = {i}) /\ Hit(names) # {}
    <3>1. Only(Hit(names)) \in Hit(names)
      BY <2>3, OnlyIn
    <3>2. Exact(q) # {}
      BY <3>1 DEF Hit
    <3>3. Only(Exact(q)) \in Exact(q)
      BY <3>2, OnlyIn
    <3>4. Exact(q) \subseteq Ids
      BY DEF Exact
    <3> QED BY <2>1, <2>3, <3>3, <3>4, Found0
  <2>4. CASE ~(\E i \in local : local = {i}) /\ Hit(names) = {} /\ best # {}
    <3>1. Only(best) \in best
      BY <2>4, OnlyIn
    <3>2. best \subseteq Ids
      BY DEF Best
    <3> QED BY <2>1, <2>4, <3>1, <3>2, Found0
  <2>5. CASE ~(\E i \in local : local = {i}) /\ Hit(names) = {} /\ best = {}
    BY <2>1, <2>5, NotFound
  <2> QED BY <2>2, <2>3, <2>4, <2>5
<1> QED BY <1>1, <1>2

LEMMA ResolveInOK ==
  ASSUME NEW i, NEW e
  PROVE  TargetOK(Target(ResolveIn(i, e)))
BY ResolveOK DEF ResolveIn

LEMMA ResolveMemberOK ==
  ASSUME NEW i, NEW p
  PROVE  TargetOK(Target(ResolveMember(i, p)))
BY ResolveInOK, NotFound DEF ResolveMember

-----------------------------------------------------------------------------
(* Types *)

LEMMA RepoIsWellFormed ==
  ASSUME WellFormed(repo)
  PROVE  /\ \A i \in Ids : Sym(i).file \in DOMAIN repo.files /\ Sym(i).container \in {0} \cup Ids
         /\ \A k \in 1..Len(repo.imports) :
              /\ repo.imports[k].file \in DOMAIN repo.files
              /\ repo.imports[k].container \in {0} \cup Ids
         /\ Len(repo.imports) \in Nat
BY DEF WellFormed, Ids, Sym

\* The targets of a statement, each of which was resolved or is a local.
LEMMA StatementTyped ==
  ASSUME NEW i \in Ids, NEW k \in StatementLines(i)
  PROVE  /\ Statement(i, k).fn = i /\ Statement(i, k).line = k
         /\ Statement(i, k).previous \subseteq StatementLines(i)
         /\ Statement(i, k).parent \subseteq StatementLines(i)
         /\ \A t \in Statement(i, k).defines \cup Statement(i, k).writes
                       \cup Statement(i, k).calls \cup Statement(i, k).reads : TargetOK(t)
<1> DEFINE l == Sym(i).body[k]
           s == Statement(i, k)
           Local(x) == {j \in LocalsOf(i, x) : Sym(j).line = k}
           Members(ps) == {Target(ResolveMember(i, p)) : p \in ps}
           Paths(es)   == {Target(ResolveIn(i, e)) : e \in es}
<1>1. \A ps : \A t \in Members(ps) : TargetOK(t)
  BY ResolveMemberOK
<1>2. \A es : \A t \in Paths(es) : TargetOK(t)
  BY ResolveInOK
<1>3. \A x : \A t \in (IF Local(x) = {} THEN {<<"ref", <<x>>>>} ELSE {<<"sym", j>> : j \in Local(x)}) :
        TargetOK(t)
  BY DEF TargetOK, LocalsOf
<1>4. s.fn = i /\ s.line = k
  BY DEF Statement
<1>5. s.previous \subseteq StatementLines(i)
  BY DEF Statement, PreviousStatement
<1>6. s.parent \subseteq StatementLines(i)
  BY DEF Statement, ControlParent, Enclosing
<1>7. \A t \in s.defines : TargetOK(t)
  <2>1. s.defines = UNION {IF Local(x) = {} THEN {<<"ref", <<x>>>>} ELSE {<<"sym", j>> : j \in Local(x)} :
                             x \in l.lets}
    BY DEF Statement
  <2> QED BY <2>1, <1>3
<1>8. \A t \in s.writes : TargetOK(t)
  <2>1. s.writes = Paths({<<x>> : x \in l.lhs}) \cup Members(l.members)
    BY DEF Statement
  <2> QED BY <2>1, <1>1, <1>2
<1>9. \A t \in s.calls : TargetOK(t)
  <2>1. s.calls = Paths(Calls(l)) \cup Members(l.mcalls)
    BY DEF Statement
  <2> QED BY <2>1, <1>1, <1>2
<1>10. \A t \in s.reads : TargetOK(t)
  <2>1. s.reads \subseteq Members({p \in l.fields : Dot[p] \notin Excluded(l)})
                     \cup Paths(l.paths \ l.calls)
                     \cup Paths({<<x>> : x \in Tokens(l) \ (Excluded(l) \cup Reserved)})
    BY DEF Statement
  <2> QED BY <2>1, <1>1, <1>2
<1> QED BY <1>4, <1>5, <1>6, <1>7, <1>8, <1>9, <1>10

LEMMA ReferencesTyped ==
  ASSUME NEW i
  PROVE  \A r \in References(i) : r.from = i /\ TargetOK(r.to)
<1>1. \A x \in Found(i) : TargetOK(x.to)
  BY ResolveInOK DEF Found
<1> QED BY <1>1 DEF References

\* A part of TypeOK whose variables a step leaves alone stays true.
LEMMA RecordsKept ==
  ASSUME RecordsOK, UNCHANGED <<repo, aliases, imports, impls, supers, refs>>
  PROVE  RecordsOK'
BY DEF RecordsOK, TargetOK, Target, Ids

LEMMA StatementsKept ==
  ASSUME StatementsOK, UNCHANGED <<repo, stmts>>
  PROVE  StatementsOK'
BY DEF StatementsOK, TargetOK, StatementLines, Sym, Ids

LEMMA SummariesKept ==
  ASSUME SummariesOK, UNCHANGED <<repo, summary>>,
         pass' \in {"far", "indexed"} => pass \in {"far", "indexed"}
  PROVE  SummariesOK'
BY DEF SummariesOK, TargetOK, NoSummary, Ids

LEMMA TargetKept ==
  ASSUME repo' = repo
  PROVE  Ids' = Ids /\ \A t : TargetOK(t)' <=> TargetOK(t)
BY DEF TargetOK, Ids

LEMMA TypeInit == Init => TypeOK
<1> SUFFICES ASSUME Init PROVE TypeOK
  OBVIOUS
<1>1. WellFormed(repo)
  BY RepoAssumption DEF Init, IndexInit
<1>2. Len(repo.imports) \in Nat
  BY <1>1 DEF WellFormed
<1>3. PassesOK
  BY <1>1, <1>2 DEF PassesOK, Init, IndexInit, GraphInit, IndexPasses, GraphSteps
<1>4. RecordsOK
  BY DEF RecordsOK, Init, IndexInit
<1>5. StatementsOK /\ SummariesOK
  BY DEF StatementsOK, SummariesOK, Init, IndexInit
<1> QED BY <1>3, <1>4, <1>5 DEF TypeOK

\* A pass of the index goes on to another.
LEMMA PassesStep ==
  ASSUME PassesOK, repo' = repo, UNCHANGED graph, pass # "indexed", pass' \in IndexPasses,
         cursor' \in 1..(Len(repo.imports) + 1)
  PROVE  PassesOK'
<1>1. WellFormed(repo)'
  BY DEF PassesOK
<1>2. step' = step /\ step = "files"
  BY DEF PassesOK, graph
<1> QED BY <1>1, <1>2 DEF PassesOK, GraphSteps

LEMMA BuildRecordsTyped == TypeOK /\ BuildRecords /\ UNCHANGED graph => TypeOK'
<1> SUFFICES ASSUME TypeOK, BuildRecords, UNCHANGED graph PROVE TypeOK'
  OBVIOUS
<1>1. PassesOK'
  BY PassesStep DEF TypeOK, PassesOK, BuildRecords, IndexPasses
<1>2. RecordsOK'
  <2>1. \A i \in DOMAIN impls' : /\ i \in Ids
                                /\ impls'[i].target = Unresolved(Sym(i).implTarget)
                                /\ impls'[i].trait = Unresolved(Sym(i).implTrait)
    BY DEF BuildRecords
  <2>2. \A r : Target(r)' = Target(r)
    BY DEF Target
  <2>3. \A i \in DOMAIN impls' : TargetOK(Target(impls'[i].target)) /\ TargetOK(Target(impls'[i].trait))
    BY <2>1, NotFound
  <2>4. repo' = repo /\ UNCHANGED <<aliases, imports, supers, refs>>
    BY DEF BuildRecords
  <2> QED BY <2>1, <2>2, <2>3, <2>4, TargetKept DEF TypeOK, RecordsOK
<1>3. StatementsOK'
  BY StatementsKept DEF TypeOK, BuildRecords
<1>4. SummariesOK'
  BY SummariesKept DEF TypeOK, BuildRecords
<1> QED BY <1>1, <1>2, <1>3, <1>4 DEF TypeOK

LEMMA BuildImportTyped == TypeOK /\ BuildImport /\ UNCHANGED graph => TypeOK'
<1> SUFFICES ASSUME TypeOK, BuildImport, UNCHANGED graph PROVE TypeOK'
  OBVIOUS
<1>0. WellFormed(repo) /\ cursor \in 1..Len(repo.imports) /\ repo' = repo
  <2>1. WellFormed(repo) /\ cursor \in 1..(Len(repo.imports) + 1)
    BY DEF TypeOK, PassesOK
  <2>2. Len(repo.imports) \in Nat
    BY <2>1 DEF WellFormed
  <2>3. cursor <= Len(repo.imports) /\ repo' = repo
    BY DEF BuildImport
  <2> QED BY <2>1, <2>2, <2>3
<1>1. PassesOK'
  <2>1. Len(repo.imports) \in Nat
    BY <1>0 DEF WellFormed
  <2>2. cursor' = cursor + 1
    BY DEF BuildImport
  <2>3. cursor' \in 1..(Len(repo.imports) + 1)
    BY <1>0, <2>1, <2>2
  <2> QED BY <2>3, PassesStep DEF TypeOK, BuildImport, IndexPasses
<1>2. RecordsOK'
  <2>1. DOMAIN aliases' = DOMAIN repo.files
    BY DEF TypeOK, RecordsOK, BuildImport
  <2>2. PICK at : imports' = imports \cup {[file |-> repo.imports[cursor].file,
                                           container |-> repo.imports[cursor].container,
                                           to |-> Target(Resolve(repo.imports[cursor].target, at, 0, NoSelf))]}
    BY DEF BuildImport
  <2>3. TargetOK(Target(Resolve(repo.imports[cursor].target, at, 0, NoSelf)))
    BY ResolveOK
  <2>4. \A m \in imports' :
          m.file \in DOMAIN repo.files /\ m.container \in {0} \cup Ids /\ TargetOK(m.to)
    BY <1>0, <2>2, <2>3, RepoIsWellFormed DEF TypeOK, RecordsOK
  <2>5. UNCHANGED <<impls, supers, refs>> /\ \A r : Target(r)' = Target(r)
    BY DEF BuildImport, Target
  <2> QED BY <1>0, <2>1, <2>4, <2>5, TargetKept DEF TypeOK, RecordsOK
<1>3. StatementsOK'
  BY StatementsKept DEF TypeOK, BuildImport
<1>4. SummariesOK'
  BY SummariesKept DEF TypeOK, BuildImport
<1> QED BY <1>1, <1>2, <1>3, <1>4 DEF TypeOK

LEMMA ImportsDoneTyped == TypeOK /\ ImportsDone /\ UNCHANGED graph => TypeOK'
<1> SUFFICES ASSUME TypeOK, ImportsDone, UNCHANGED graph PROVE TypeOK'
  OBVIOUS
<1>1. PassesOK'
  BY PassesStep DEF TypeOK, PassesOK, ImportsDone, IndexPasses
<1>2. RecordsOK'
  BY RecordsKept DEF TypeOK, ImportsDone
<1>3. StatementsOK'
  BY StatementsKept DEF TypeOK, ImportsDone
<1>4. SummariesOK'
  BY SummariesKept DEF TypeOK, ImportsDone
<1> QED BY <1>1, <1>2, <1>3, <1>4 DEF TypeOK

LEMMA ResolveImplsTyped == TypeOK /\ ResolveImpls /\ UNCHANGED graph => TypeOK'
<1> SUFFICES ASSUME TypeOK, ResolveImpls, UNCHANGED graph PROVE TypeOK'
  OBVIOUS
<1>1. PassesOK'
  BY PassesStep DEF TypeOK, PassesOK, ResolveImpls, IndexPasses
<1>2. RecordsOK'
  <2>1. /\ DOMAIN impls' = DOMAIN impls
        /\ \A i \in DOMAIN impls' :
             /\ impls'[i].target = Resolve(Sym(i).implTarget, Context(i), i, NoSelf)
             /\ impls'[i].trait = Resolve(Sym(i).implTrait, Context(i), i, NoSelf)
    BY DEF ResolveImpls
  <2>2. \A r : Target(r)' = Target(r)
    BY DEF Target
  <2>3. \A i \in DOMAIN impls' : TargetOK(Target(impls'[i].target)) /\ TargetOK(Target(impls'[i].trait))
    BY <2>1, ResolveOK
  <2>4. repo' = repo /\ UNCHANGED <<aliases, imports, supers, refs>>
    BY DEF ResolveImpls
  <2> QED BY <2>1, <2>2, <2>3, <2>4, TargetKept DEF TypeOK, RecordsOK
<1>3. StatementsOK'
  BY StatementsKept DEF TypeOK, ResolveImpls
<1>4. SummariesOK'
  BY SummariesKept DEF TypeOK, ResolveImpls
<1> QED BY <1>1, <1>2, <1>3, <1>4 DEF TypeOK

LEMMA ResolveSupersTyped == TypeOK /\ ResolveSupers /\ UNCHANGED graph => TypeOK'
<1> SUFFICES ASSUME TypeOK, ResolveSupers, UNCHANGED graph PROVE TypeOK'
  OBVIOUS
<1>1. PassesOK'
  BY PassesStep DEF TypeOK, PassesOK, ResolveSupers, IndexPasses
<1>2. RecordsOK'
  <2>1. \A p \in supers' : p.trait \in Ids /\ TargetOK(p.to)
    BY ResolveOK DEF ResolveSupers
  <2>2. repo' = repo /\ UNCHANGED <<aliases, imports, impls, refs>> /\ \A r : Target(r)' = Target(r)
    BY DEF ResolveSupers, Target
  <2> QED BY <2>1, <2>2, TargetKept DEF TypeOK, RecordsOK
<1>3. StatementsOK'
  BY StatementsKept DEF TypeOK, ResolveSupers
<1>4. SummariesOK'
  BY SummariesKept DEF TypeOK, ResolveSupers
<1> QED BY <1>1, <1>2, <1>3, <1>4 DEF TypeOK

LEMMA BuildReferencesTyped == TypeOK /\ BuildReferences /\ UNCHANGED graph => TypeOK'
<1> SUFFICES ASSUME TypeOK, BuildReferences, UNCHANGED graph PROVE TypeOK'
  OBVIOUS
<1>1. PassesOK'
  BY PassesStep DEF TypeOK, PassesOK, BuildReferences, IndexPasses
<1>2. RecordsOK'
  <2>1. \A r \in refs' : r.from \in Ids /\ TargetOK(r.to)
    BY ReferencesTyped DEF BuildReferences
  <2>2. repo' = repo /\ UNCHANGED <<aliases, imports, impls, supers>> /\ \A r : Target(r)' = Target(r)
    BY DEF BuildReferences, Target
  <2> QED BY <2>1, <2>2, TargetKept DEF TypeOK, RecordsOK
<1>3. StatementsOK'
  BY StatementsKept DEF TypeOK, BuildReferences
<1>4. SummariesOK'
  BY SummariesKept DEF TypeOK, BuildReferences
<1> QED BY <1>1, <1>2, <1>3, <1>4 DEF TypeOK

LEMMA BuildStatementsTyped == TypeOK /\ BuildStatements /\ UNCHANGED graph => TypeOK'
<1> SUFFICES ASSUME TypeOK, BuildStatements, UNCHANGED graph PROVE TypeOK'
  OBVIOUS
<1>1. PassesOK'
  BY PassesStep DEF TypeOK, PassesOK, BuildStatements, IndexPasses
<1>2. RecordsOK'
  BY RecordsKept DEF TypeOK, BuildStatements
<1>3. StatementsOK'
  <2>1. \A i \in Functions : i \in Ids
    BY DEF Functions
  <2>2. \A s \in stmts' : \E i \in Functions : \E k \in StatementLines(i) : s = Statement(i, k)
    BY DEF BuildStatements
  <2>3. \A i \in Functions : \A k \in StatementLines(i) : Statement(i, k) \in stmts'
    BY DEF BuildStatements
  <2>4. ASSUME NEW s \in stmts'
        PROVE  /\ s.fn \in Ids /\ s.line \in StatementLines(s.fn)
               /\ s.previous \subseteq StatementLines(s.fn) /\ s.parent \subseteq StatementLines(s.fn)
               /\ \A t \in s.defines \cup s.writes \cup s.calls \cup s.reads : TargetOK(t)
               /\ \A k \in StatementLines(s.fn) : \E u \in stmts' : u.fn = s.fn /\ u.line = k
    <3>0. PICK i \in Functions : \E k \in StatementLines(i) : s = Statement(i, k)
      BY <2>2
    <3>1. PICK k \in StatementLines(i) : s = Statement(i, k)
      BY <3>0
    <3>2. \A m \in StatementLines(i) : /\ Statement(i, m) \in stmts'
                                      /\ Statement(i, m).fn = i /\ Statement(i, m).line = m
      BY <2>1, <2>3, StatementTyped
    <3> QED BY <2>1, <3>1, <3>2, StatementTyped
  <2>5. repo' = repo
    BY DEF BuildStatements
  <2>6. \A i : StatementLines(i)' = StatementLines(i)
    BY <2>5 DEF StatementLines, Sym
  <2> QED BY <2>4, <2>5, <2>6, TargetKept DEF StatementsOK
<1>4. SummariesOK'
  BY SummariesKept DEF TypeOK, BuildStatements
<1> QED BY <1>1, <1>2, <1>3, <1>4 DEF TypeOK

LEMMA DirectTyped ==
  ASSUME RecordsOK, StatementsOK, NEW i \in Ids, NEW own, own \subseteq stmts
  PROVE  /\ \A t \in DirectCalls(i) : TargetOK(t)
         /\ \A t \in UNION {s.reads : s \in own} : TargetOK(t)
         /\ \A t \in UNION {s.writes : s \in own} : TargetOK(t)
         /\ \A t \in {r.to : r \in {x \in refs : x.from = i}} : TargetOK(t)
BY DEF RecordsOK, StatementsOK, DirectCalls

LEMMA SummarizeDirectTyped == TypeOK /\ SummarizeDirect /\ UNCHANGED graph => TypeOK'
<1> SUFFICES ASSUME TypeOK, SummarizeDirect, UNCHANGED graph PROVE TypeOK'
  OBVIOUS
<1>1. PassesOK'
  BY PassesStep DEF TypeOK, PassesOK, SummarizeDirect, IndexPasses
<1>2. RecordsOK'
  BY RecordsKept DEF TypeOK, SummarizeDirect
<1>3. StatementsOK'
  BY StatementsKept DEF TypeOK, SummarizeDirect
<1>4. SummariesOK'
  <2> DEFINE own(i)    == {s \in stmts : s.fn = i}
             reads(i)  == UNION {s.reads : s \in own(i)}
             writes(i) == UNION {s.writes : s \in own(i)}
             all(i)    == {r.to : r \in {x \in refs : x.from = i}} \cup reads(i) \cup writes(i)
  <2>1. DOMAIN summary' = Ids
    BY DEF SummarizeDirect
  <2>2. ASSUME NEW i \in Ids, NEW f \in DOMAIN NoSummary, NEW t \in summary'[i][f]
        PROVE  TargetOK(t)
    <3>1. CASE ~IsFunction(i)
      <4>1. summary'[i] = NoSummary
        BY <3>1 DEF SummarizeDirect
      <4> QED BY <2>2, <4>1 DEF NoSummary
    <3>2. CASE IsFunction(i)
      <4>1. summary'[i] = [NoSummary EXCEPT !.calls = DirectCalls(i), !.reads = reads(i),
                             !.writes = writes(i), !.uses = all(i)]
        BY <3>2 DEF SummarizeDirect
      <4>2. \/ f = "calls" /\ summary'[i][f] = DirectCalls(i)
            \/ f = "reads" /\ summary'[i][f] = reads(i)
            \/ f = "writes" /\ summary'[i][f] = writes(i)
            \/ f = "uses" /\ summary'[i][f] = all(i)
            \/ summary'[i][f] = {}
        BY <4>1 DEF NoSummary
      <4>3. \A u \in DirectCalls(i) \cup all(i) : TargetOK(u)
        BY DirectTyped DEF TypeOK
      <4> QED BY <2>2, <4>2, <4>3
    <3> QED BY <3>1, <3>2
  <2>3. repo' = repo
    BY DEF SummarizeDirect
  <2>4. \A i \in Ids : DOMAIN summary'[i] = DOMAIN NoSummary
    BY DEF SummarizeDirect, NoSummary
  <2> QED BY <2>1, <2>2, <2>3, <2>4, TargetKept DEF SummariesOK, NoSummary
<1> QED BY <1>1, <1>2, <1>3, <1>4 DEF TypeOK

-----------------------------------------------------------------------------
(* Lists that are cut short *)

LEMMA CutsPart ==
  ASSUME NEW S, NEW cap, NEW T \in Cuts(S, cap)
  PROVE  T \subseteq S /\ (Cardinality(S) <= cap => T = S)
BY DEF Cuts

LEMMA SelectionsTake ==
  ASSUME NEW options, NEW c \in Selections(options)
  PROVE  DOMAIN c = DOMAIN options /\ \A k \in DOMAIN options : c[k] \in options[k]
<1> DEFINE open == {k \in DOMAIN options : ~ \E x \in options[k] : options[k] = {x}}
<1>1. PICK taken : /\ \A k \in open : taken[k] \in options[k]
                   /\ c = [k \in DOMAIN options |->
                             IF k \in open THEN taken[k] ELSE CHOOSE x \in options[k] : TRUE]
  BY DEF Selections
<1>2. \A k \in DOMAIN options \ open : (CHOOSE x \in options[k] : TRUE) \in options[k]
  OBVIOUS
<1> HIDE DEF open
<1> QED BY <1>1, <1>2

\* The calls the symbols a walk expands next make, and those of them that may
\* be followed.
CallsOf(w, direct)        == UNION {{<<j, t>> : t \in direct[j]} : j \in (w.frontier \ w.seen) \cap Ids}
Following(w, direct, fresh) == {c \in CallsOf(w, direct) : fresh => c[2][1] = "sym" /\ c[2][2] \notin w.seen}

\* v is where one level takes the walk w.
Leads(w, direct, own, fresh, v) ==
  \E kept \in Cuts(Following(w, direct, fresh), FrontierCap) :
    /\ \A a : a \in v.seen <=> a \in w.seen \/ a \in w.frontier
    /\ v.frontier = Callees({c[2] : c \in kept})
    /\ \A t : t \in v.found <=>
         \/ t \in w.found
         \/ \E j \in Ids : j \in w.frontier /\ j \notin w.seen /\ t \in own[j]

LEMMA DeeperIs ==
  ASSUME NEW w, NEW direct, NEW own, NEW fresh, NEW v \in Deeper(w, direct, own, fresh)
  PROVE  Leads(w, direct, own, fresh, v)
<1> DEFINE seen  == w.seen \cup (w.frontier \ w.seen)
           found == w.found \cup UNION {own[j] : j \in (w.frontier \ w.seen) \cap Ids}
           next  == Following(w, direct, fresh)
           after(kept) == Callees({c[2] : c \in kept})
           levels == w.levels \cup {found}
           made(kept) == [seen |-> seen, frontier |-> after(kept), found |-> found, levels |-> levels]
<1>1. Deeper(w, direct, own, fresh) = {made(kept) : kept \in Cuts(next, FrontierCap)}
  BY Zenon DEF Deeper, Following, CallsOf
<1> HIDE DEF made, next
<1>2. PICK kept \in Cuts(next, FrontierCap) : v = made(kept)
  BY <1>1
<1> HIDE DEF seen, found, after, levels
<1>3. v.seen = seen /\ v.frontier = after(kept) /\ v.found = found
  BY <1>2 DEF made
<1>4. \A a : a \in seen <=> a \in w.seen \/ a \in w.frontier
  BY DEF seen
<1>5. \A t : t \in found <=> \/ t \in w.found
                            \/ \E j \in Ids : j \in w.frontier /\ j \notin w.seen /\ t \in own[j]
  BY DEF found
<1> QED BY <1>2, <1>3, <1>4, <1>5 DEF Leads, after, next

\* A walk finds what the symbols it expands have of their own.
Founded(walks, own) == \A w \in walks : \A t \in w.found : \E j \in Ids : t \in own[j]

LEMMA FurtherFounded ==
  ASSUME NEW walks, NEW direct, NEW own, NEW fresh, Founded(walks, own)
  PROVE  Founded(Further(walks, direct, own, fresh), own)
<1> SUFFICES ASSUME NEW v \in Further(walks, direct, own, fresh), NEW t \in v.found
             PROVE  \E j \in Ids : t \in own[j]
  BY DEF Founded
<1>1. PICK w \in walks : v \in Deeper(w, direct, own, fresh)
  BY DEF Further
<1>2. Leads(w, direct, own, fresh, v)
  BY <1>1, DeeperIs
<1> QED BY <1>2 DEF Founded, Leads

LEMMA BeginFounded == ASSUME NEW i, NEW direct, NEW own PROVE Founded({Begin(i, direct)}, own)
  BY DEF Founded, Begin

LEMMA ListedPart ==
  ASSUME NEW walks, NEW own, Founded(walks, own), NEW T \in Listed(walks), NEW t \in T
  PROVE  \E j \in Ids : t \in own[j]
<1>1. PICK w \in walks : T \in Cuts(w.found, TargetCap)
  BY DEF Listed
<1> QED BY <1>1, CutsPart DEF Founded

LEMMA FarFounded ==
  ASSUME NEW i, NEW f \in FarFields, NEW T \in FarLists(i, f), NEW t \in T
  PROVE  \E g \in DOMAIN NoSummary : \E j \in Ids : t \in Field(g)[j]
<1> DEFINE direct == Field("calls")
<1>1. ASSUME NEW own, T \in Interprocedural(i, direct, own)
      PROVE  \E j \in Ids : t \in own[j]
  <2> DEFINE w1 == Further({Begin(i, direct)}, direct, own, TRUE)
             w2 == Further(w1, direct, own, TRUE)
             w3 == Further(w2, direct, own, TRUE)
  <2>1. T \in Listed(w3)
    BY <1>1 DEF Interprocedural
  <2>2. Founded(w1, own)
    BY BeginFounded, FurtherFounded
  <2> HIDE DEF w1
  <2>3. Founded(w2, own)
    BY <2>2, FurtherFounded
  <2> HIDE DEF w2
  <2>4. Founded(w3, own)
    BY <2>3, FurtherFounded
  <2> HIDE DEF w3
  <2> QED BY <2>1, <2>4, ListedPart
<1>2. ASSUME T \in TransitiveCalls(i, direct)
      PROVE  \E j \in Ids : t \in direct[j]
  <2> DEFINE w1 == Further({Begin(i, direct)}, direct, direct, FALSE)
             w2 == Further(w1, direct, direct, FALSE)
  <2>1. T \in Listed(w2)
    BY <1>2 DEF TransitiveCalls
  <2>2. Founded(w1, direct)
    BY BeginFounded, FurtherFounded
  <2> HIDE DEF w1
  <2>3. Founded(w2, direct)
    BY <2>2, FurtherFounded
  <2> HIDE DEF w2
  <2> QED BY <2>1, <2>3, ListedPart
<1>3. \/ T \in TransitiveCalls(i, direct)
      \/ \E g \in {"reads", "writes", "uses"} : T \in Interprocedural(i, direct, Field(g))
  BY DEF FarLists, FarFields
<1> QED BY <1>1, <1>2, <1>3 DEF NoSummary

LEMMA SummarizeFarTyped == TypeOK /\ SummarizeFar /\ UNCHANGED graph => TypeOK'
<1> SUFFICES ASSUME TypeOK, SummarizeFar, UNCHANGED graph PROVE TypeOK'
  OBVIOUS
<1>1. PassesOK'
  BY PassesStep DEF TypeOK, PassesOK, SummarizeFar, IndexPasses
<1>2. RecordsOK'
  BY RecordsKept DEF TypeOK, SummarizeFar
<1>3. StatementsOK'
  BY StatementsKept DEF TypeOK, SummarizeFar
<1>4. SummariesOK'
  <2> DEFINE options == [k \in Functions \X FarFields |-> FarLists(k[1], k[2])]
  <2>0. DOMAIN summary = Ids
    BY DEF TypeOK, SummariesOK, SummarizeFar
  <2>2. ASSUME NEW f \in DOMAIN NoSummary, NEW i \in Ids
        PROVE  \A t \in Field(f)[i] : TargetOK(t)
    BY <2>0 DEF TypeOK, SummariesOK, Field
  <2>3. ASSUME NEW i, NEW f \in FarFields, NEW T \in FarLists(i, f), NEW t \in T
        PROVE  TargetOK(t)
    BY <2>2, FarFounded
  <2>4. PICK far \in Selections(options) :
          summary' = [i \in Ids |->
            IF ~IsFunction(i) THEN summary[i]
            ELSE [summary[i] EXCEPT !.transitive = far[<<i, "transitive">>],
                                    !.farReads   = far[<<i, "farReads">>],
                                    !.farWrites  = far[<<i, "farWrites">>],
                                    !.farUses    = far[<<i, "farUses">>]]]
    BY Zenon DEF SummarizeFar
  <2>1. DOMAIN summary' = Ids
    BY <2>4
  <2>5. ASSUME NEW i \in Ids, NEW f \in DOMAIN NoSummary, NEW t \in summary'[i][f]
        PROVE  TargetOK(t)
    <3>1. CASE ~IsFunction(i)
      <4>1. summary'[i] = summary[i]
        BY <2>4, <3>1
      <4> QED BY <2>0, <2>5, <4>1 DEF TypeOK, SummariesOK
    <3>2. CASE IsFunction(i)
      <4>1. \/ summary'[i][f] = summary[i][f]
            \/ \E g \in FarFields : summary'[i][f] = far[<<i, g>>]
        BY <2>0, <2>4, <3>2 DEF TypeOK, SummariesOK, NoSummary, FarFields
      <4>2. \A g \in FarFields : far[<<i, g>>] \in FarLists(i, g)
        <5> SUFFICES ASSUME NEW g \in FarFields PROVE far[<<i, g>>] \in FarLists(i, g)
          OBVIOUS
        <5>1. <<i, g>> \in DOMAIN options /\ options[<<i, g>>] = FarLists(i, g)
          BY <3>2 DEF Functions
        <5> HIDE DEF options
        <5>2. \A k \in DOMAIN options : far[k] \in options[k]
          BY <2>4, SelectionsTake, Zenon
        <5> QED BY <5>1, <5>2
      <4> QED BY <2>0, <2>3, <2>5, <4>1, <4>2 DEF TypeOK, SummariesOK
    <3> QED BY <3>1, <3>2
  <2>6. repo' = repo
    BY DEF SummarizeFar
  <2>7. \A i \in Ids : DOMAIN summary'[i] = DOMAIN summary[i]
    BY <2>4
  <2>8. \A i \in Ids : DOMAIN summary'[i] = DOMAIN NoSummary
    BY <2>0, <2>7 DEF TypeOK, SummariesOK
  <2> QED BY <2>1, <2>5, <2>6, <2>8, TargetKept DEF SummariesOK, NoSummary
<1> QED BY <1>1, <1>2, <1>3, <1>4 DEF TypeOK

\* The passes of the graph leave the records alone.
LEMMA PassTyped ==
  ASSUME TypeOK, NEW from, NEW to \in GraphSteps, Pass(from, to)
  PROVE  TypeOK'
<1>1. PassesOK'
  BY DEF TypeOK, PassesOK, Pass, index, WellFormed
<1>2. RecordsOK'
  BY RecordsKept DEF TypeOK, Pass, index
<1>3. StatementsOK'
  BY StatementsKept DEF TypeOK, Pass, index
<1>4. SummariesOK'
  BY SummariesKept DEF TypeOK, Pass, index
<1> QED BY <1>1, <1>2, <1>3, <1>4 DEF TypeOK

LEMMA GraphStepIsPass ==
  ASSUME GraphNext
  PROVE  \E from \in GraphSteps \ {"done"}, to \in GraphSteps \ {"files"} : Pass(from, to)
BY DEF GraphNext, GraphSteps, AddFiles, AddSymbols, AddImports, AddReferences, AddSemantics,
       AddOverrides, AddStatements

LEMMA StutterTyped ==
  ASSUME TypeOK, UNCHANGED vars
  PROVE  TypeOK'
<1>1. PassesOK'
  BY DEF TypeOK, PassesOK, vars, index, graph, WellFormed
<1>2. RecordsOK' /\ StatementsOK' /\ SummariesOK'
  BY RecordsKept, StatementsKept, SummariesKept DEF TypeOK, vars, index
<1> QED BY <1>1, <1>2 DEF TypeOK

LEMMA TypeNext == TypeOK /\ [Next]_vars => TypeOK'
<1> SUFFICES ASSUME TypeOK, [Next]_vars PROVE TypeOK'
  OBVIOUS
<1>1. CASE IndexNext /\ UNCHANGED graph
  BY <1>1, BuildRecordsTyped, BuildImportTyped, ImportsDoneTyped, ResolveImplsTyped,
     ResolveSupersTyped, BuildReferencesTyped, BuildStatementsTyped, SummarizeDirectTyped,
     SummarizeFarTyped DEF IndexNext
<1>2. CASE GraphNext
  BY <1>2, GraphStepIsPass, PassTyped
<1>3. CASE Done \/ UNCHANGED vars
  BY <1>3, StutterTyped DEF Done
<1> QED BY <1>1, <1>2, <1>3 DEF Next

\* TypeOK: no record of the index names a symbol, file or line there is not.
THEOREM TypeCorrect == Spec => []TypeOK
BY TypeInit, TypeNext, PTL DEF Spec

-----------------------------------------------------------------------------
(* Edges *)

\* What a pass relies on: the nodes the passes before it have made.
NodesMade ==
  /\ step # "files" =>
       Repository \in nodes /\ \A f \in DOMAIN repo.files : FileNode(f) \in nodes
  /\ step \notin {"files", "symbols"} =>
       \A i \in Ids : Node(i) \in nodes /\ (Sym(i).test = 1 => TestNode(i) \in nodes)

GraphInv == NodesMade /\ EdgesEndAtNodes

\* A target that is no symbol has a reference node.
LEMMA TargetHasNode ==
  ASSUME NEW t, TargetOK(t), NEW ts, t \in ts
  PROVE  (\E i \in Ids : t = Node(i)) \/ t \in RefNodes(ts)
BY DEF TargetOK, Node, RefNodes

\* Nodes are never taken back, so a pass needs to look at its own edges only.
LEMMA AddKeepsEdges ==
  ASSUME EdgesEndAtNodes, NEW N, NEW E, Add(N, E),
         \A e \in E : e.from \in nodes \cup N /\ e.to \in nodes \cup N
  PROVE  EdgesEndAtNodes'
BY DEF EdgesEndAtNodes, Add

LEMMA EdgeEnds ==
  ASSUME NEW type, NEW a, NEW b, NEW meta
  PROVE  Edge(type, a, b, meta).from = a /\ Edge(type, a, b, meta).to = b
BY DEF Edge

LEMMA AddFilesEdges == TypeOK /\ GraphInv /\ AddFiles => EdgesEndAtNodes'
<1> SUFFICES ASSUME TypeOK, GraphInv, AddFiles PROVE EdgesEndAtNodes'
  OBVIOUS
<1> DEFINE Contains(a, b) == Edge("CONTAINS", a, b, Plain)
           Files == DOMAIN repo.files
           N == {Repository} \cup {Directory(d) : d \in Directories}
                  \cup {Package(p) : p \in Packages} \cup {FileNode(f) : f \in Files}
           E1 == {Contains(Repository, Directory(<<>>))}
           E2 == {Contains(Repository, Package(p)) : p \in Packages}
           E3 == UNION {{Contains(Directory(Upto(repo.files[f].dir, n - 1)),
                                  Directory(Upto(repo.files[f].dir, n))) :
                            n \in 1..Len(repo.files[f].dir)} : f \in Files}
           E4 == {Contains(Repository, FileNode(f)) : f \in Files}
           E5 == {Contains(Directory(Deepest(repo.files[f].dir)), FileNode(f)) : f \in Files}
           E6 == {Contains(Package(repo.files[f].package), FileNode(f)) :
                      f \in {g \in Files : repo.files[g].package # ""}}
           Ends(E) == \A e \in E : e.from \in nodes \cup N /\ e.to \in nodes \cup N
<1>1. Add(N, E1 \cup E2 \cup E3 \cup E4 \cup E5 \cup E6)
  BY DEF AddFiles
<1>2. \A f \in Files : Len(repo.files[f].dir) \in Nat
  BY DEF TypeOK, PassesOK, WellFormed
<1>3. \A f \in Files : \A n \in 0..Len(repo.files[f].dir) : Directory(Upto(repo.files[f].dir, n)) \in N
  BY DEF Directories, Prefixes
<1>4. Ends(E1) /\ Ends(E2) /\ Ends(E4)
  BY EdgeEnds DEF Directories
<1>5. Ends(E3)
  <2>1. \A f \in Files : \A n \in 1..Len(repo.files[f].dir) :
          n \in 0..Len(repo.files[f].dir) /\ n - 1 \in 0..Len(repo.files[f].dir)
    BY <1>2
  <2>2. \A e \in E3 : \E f \in Files : \E n \in 1..Len(repo.files[f].dir) :
          /\ e.from = Directory(Upto(repo.files[f].dir, n - 1))
          /\ e.to = Directory(Upto(repo.files[f].dir, n))
    BY EdgeEnds
  <2> QED BY <1>3, <2>1, <2>2
<1>6. Ends(E5)
  <2>1. \A f \in Files : Directory(Deepest(repo.files[f].dir)) \in N
    BY <1>2, <1>3 DEF Deepest
  <2> QED BY <2>1, EdgeEnds
<1>7. Ends(E6)
  <2>1. \A f \in Files : repo.files[f].package # "" => repo.files[f].package \in Packages
    BY DEF Packages
  <2>2. \A f \in Files : repo.files[f].package # "" => Package(repo.files[f].package) \in N
    BY <2>1
  <2>3. \A f \in Files : FileNode(f) \in N
    OBVIOUS
  <2>4. \A e \in E6 : \E f \in Files :
          /\ repo.files[f].package # ""
          /\ e = Contains(Package(repo.files[f].package), FileNode(f))
    OBVIOUS
  <2> HIDE DEF N, E6
  <2> SUFFICES ASSUME NEW e \in E6 PROVE e.from \in N /\ e.to \in N
    OBVIOUS
  <2>5. PICK f \in Files : /\ repo.files[f].package # ""
                           /\ e = Contains(Package(repo.files[f].package), FileNode(f))
    BY <2>4
  <2>6. e.from = Package(repo.files[f].package) /\ e.to = FileNode(f)
    BY <2>5 DEF Edge
  <2> QED BY <2>2, <2>3, <2>5, <2>6
<1>8. Ends(E1 \cup E2 \cup E3 \cup E4 \cup E5 \cup E6)
  BY <1>4, <1>5, <1>6, <1>7
<1> HIDE DEF N, E1, E2, E3, E4, E5, E6
<1> QED BY <1>1, <1>8, AddKeepsEdges DEF GraphInv

LEMMA AddSymbolsEdges == TypeOK /\ GraphInv /\ AddSymbols => EdgesEndAtNodes'
<1> SUFFICES ASSUME TypeOK, GraphInv, AddSymbols PROVE EdgesEndAtNodes'
  OBVIOUS
<1> DEFINE Top     == {i \in Ids : Sym(i).container = 0}
           Tests   == {i \in Ids : Sym(i).test = 1}
           Traits  == {i \in DOMAIN impls : impls[i].trait.name # <<>>}
           TypeOf(i)  == Target(impls[i].target)
           TraitOf(i) == Target(impls[i].trait)
           File(i) == FileNode(Sym(i).file)
           T == {TypeOf(i) : i \in DOMAIN impls} \cup {TraitOf(i) : i \in Traits} \cup {p.to : p \in supers}
           N == {Node(i) : i \in Ids} \cup {TestNode(i) : i \in Tests} \cup RefNodes(T)
           E1 == {Edge("CONTAINS", Node(Sym(i).container), Node(i), Plain) : i \in Ids \ Top}
           E2 == {Edge("DEFINES", File(i), Node(i), Plain) : i \in Top}
           E3 == {Edge("DECLARES", File(i), Node(i), Plain) : i \in Top}
           E4 == {Edge("DECLARES", Node(i), TestNode(i), Plain) : i \in Tests}
           E5 == {Edge("REFERENCES", Node(i), TypeOf(i), Plain) : i \in DOMAIN impls}
           E6 == {Edge("IMPLEMENTS", Node(i), TraitOf(i), Plain) : i \in Traits}
           E7 == {Edge("INHERITS", Node(p.trait), p.to, Plain) : p \in supers}
           Ends(E) == \A e \in E : e.from \in nodes \cup N /\ e.to \in nodes \cup N
<1>1. Add(N, E1 \cup E2 \cup E3 \cup E4 \cup E5 \cup E6 \cup E7)
  BY DEF AddSymbols
<1>2. \A i \in Ids : Sym(i).file \in DOMAIN repo.files /\ Sym(i).container \in {0} \cup Ids
  BY RepoIsWellFormed DEF TypeOK, PassesOK
<1>3. \A i \in Ids : Node(i) \in N
  OBVIOUS
<1>4. \A t \in T : TargetOK(t)
  BY DEF TypeOK, RecordsOK
<1>5. \A t \in T : t \in N
  BY <1>3, <1>4, TargetHasNode
<1>6. \A f \in DOMAIN repo.files : FileNode(f) \in nodes
  BY DEF GraphInv, NodesMade, AddSymbols, Pass
<1>7. Ends(E1)
  BY <1>2, <1>3, EdgeEnds
<1>8. Ends(E2) /\ Ends(E3)
  BY <1>2, <1>3, <1>6, EdgeEnds
<1>9. Ends(E4)
  BY <1>3, EdgeEnds
<1>10. Ends(E5) /\ Ends(E6)
  <2>1. \A i \in DOMAIN impls : i \in Ids /\ TypeOf(i) \in T
    BY DEF TypeOK, RecordsOK
  <2>2. \A i \in Traits : i \in Ids /\ TraitOf(i) \in T
    BY DEF TypeOK, RecordsOK
  <2> HIDE DEF T, N
  <2> QED BY <2>1, <2>2, <1>3, <1>5, EdgeEnds
<1>11. Ends(E7)
  <2>1. \A p \in supers : p.trait \in Ids /\ p.to \in T
    BY DEF TypeOK, RecordsOK
  <2> HIDE DEF T, N
  <2> QED BY <2>1, <1>3, <1>5, EdgeEnds
<1>12. Ends(E1 \cup E2 \cup E3 \cup E4 \cup E5 \cup E6 \cup E7)
  BY <1>7, <1>8, <1>9, <1>10, <1>11
<1> HIDE DEF N, E1, E2, E3, E4, E5, E6, E7
<1> QED BY <1>1, <1>12, AddKeepsEdges DEF GraphInv

\* From the third pass on, every symbol has its nodes.
LEMMA SymbolsMade ==
  ASSUME GraphInv, NEW from, NEW to, Pass(from, to), from \notin {"files", "symbols"}
  PROVE  /\ \A f \in DOMAIN repo.files : FileNode(f) \in nodes
         /\ \A i \in Ids : Node(i) \in nodes /\ (Sym(i).test = 1 => TestNode(i) \in nodes)
BY DEF GraphInv, NodesMade, Pass

LEMMA AddImportsEdges == TypeOK /\ GraphInv /\ AddImports => EdgesEndAtNodes'
<1> SUFFICES ASSUME TypeOK, GraphInv, AddImports PROVE EdgesEndAtNodes'
  OBVIOUS
<1> DEFINE From(m) == IF m.container = 0 THEN FileNode(m.file) ELSE Node(m.container)
           targets == {ImportTarget(m.to) : m \in imports}
           N == {t \in targets : t[1] # "sym"}
           E == {Edge("IMPORTS", From(m), ImportTarget(m.to), Plain) : m \in imports}
<1>1. Add(N, E)
  BY DEF AddImports
<1>2. /\ \A f \in DOMAIN repo.files : FileNode(f) \in nodes
      /\ \A i \in Ids : Node(i) \in nodes
  BY SymbolsMade DEF AddImports
<1>3. \A m \in imports : From(m) \in nodes
  BY <1>2 DEF TypeOK, RecordsOK
<1>4. ASSUME NEW m \in imports
      PROVE  ImportTarget(m.to) \in nodes \cup N
  <2>1. TargetOK(m.to)
    BY DEF TypeOK, RecordsOK
  <2>2. CASE \E i \in Ids : m.to = <<"sym", i>>
    <3>1. PICK i \in Ids : m.to = <<"sym", i>>
      BY <2>2
    <3>2. ImportTarget(m.to) = Node(i)
      BY <3>1 DEF ImportTarget, Node
    <3> QED BY <1>2, <3>2
  <2>3. CASE m.to[1] = "ref"
    <3>1. ImportTarget(m.to)[1] # "sym"
      BY <2>3 DEF ImportTarget
    <3> QED BY <3>1
  <2> QED BY <2>1, <2>2, <2>3 DEF TargetOK
<1>5. \A e \in E : e.from \in nodes \cup N /\ e.to \in nodes \cup N
  <2>1. \A e \in E : \E m \in imports : e = Edge("IMPORTS", From(m), ImportTarget(m.to), Plain)
    OBVIOUS
  <2> HIDE DEF N, E, From
  <2> QED BY <1>3, <1>4, <2>1, EdgeEnds
<1> HIDE DEF N, E
<1> QED BY <1>1, <1>5, AddKeepsEdges DEF GraphInv

LEMMA AddReferencesEdges == TypeOK /\ GraphInv /\ AddReferences => EdgesEndAtNodes'
<1> SUFFICES ASSUME TypeOK, GraphInv, AddReferences PROVE EdgesEndAtNodes'
  OBVIOUS
<1> DEFINE Type(r) == IF r.kind = "call" THEN "CALLS" ELSE "USES"
           Uses    == {r \in refs : r.kind = "use"}
           Tests   == {r \in refs : Sym(r.from).test = 1}
           N  == RefNodes({r.to : r \in refs})
           E1 == {Edge(Type(r), Node(r.from), r.to, Line(r.line)) : r \in refs}
           E2 == {Edge("USES_TYPE", Node(r.from), r.to, Line(r.line)) : r \in Uses}
           E3 == {Edge("TESTS", TestNode(r.from), r.to, <<r.kind, r.line>>) : r \in Tests}
<1>1. Add(N, E1 \cup E2 \cup E3)
  BY DEF AddReferences
<1>2. \A i \in Ids : Node(i) \in nodes /\ (Sym(i).test = 1 => TestNode(i) \in nodes)
  BY SymbolsMade DEF AddReferences
<1>3. \A r \in refs : r.from \in Ids /\ r.to \in nodes \cup N
  BY <1>2, TargetHasNode DEF TypeOK, RecordsOK
<1>4. \A e \in E1 \cup E2 \cup E3 : e.from \in nodes \cup N /\ e.to \in nodes \cup N
  <2>1. \A e \in E1 : \E r \in refs : e = Edge(Type(r), Node(r.from), r.to, Line(r.line))
    OBVIOUS
  <2>2. \A e \in E2 : \E r \in refs : e = Edge("USES_TYPE", Node(r.from), r.to, Line(r.line))
    OBVIOUS
  <2>3. \A e \in E3 : \E r \in refs :
          Sym(r.from).test = 1 /\ e = Edge("TESTS", TestNode(r.from), r.to, <<r.kind, r.line>>)
    OBVIOUS
  <2> HIDE DEF N, Type, E1, E2, E3
  <2>4. \A e \in E1 : e.from \in nodes \cup N /\ e.to \in nodes \cup N
    BY <1>2, <1>3, <2>1, EdgeEnds
  <2>5. \A e \in E2 : e.from \in nodes \cup N /\ e.to \in nodes \cup N
    BY <1>2, <1>3, <2>2, EdgeEnds
  <2>6. \A e \in E3 : e.from \in nodes \cup N /\ e.to \in nodes \cup N
    BY <1>2, <1>3, <2>3 DEF Edge
  <2> QED BY <2>4, <2>5, <2>6
<1> HIDE DEF N, E1, E2, E3
<1> QED BY <1>1, <1>4, AddKeepsEdges DEF GraphInv

LEMMA FirstOfPart ==
  ASSUME NEW s, NEW list, NEW cap, NEW T \in FirstOf(s, list, cap)
  PROVE  T \subseteq list /\ (Whole(s, cap) => T = list)
BY DEF FirstOf

\* AddSemantics: edges to targets that summaries list, to all where they fit.
FarKept(kept) ==
  \A i \in Ids : \A f \in Semantics :
    /\ kept[<<i, f>>] \subseteq summary[i][f[2]]
    /\ Cardinality(summary[i][f[2]]) <= FieldCap => kept[<<i, f>>] = summary[i][f[2]]
FarEdges(kept) ==
  UNION {{Edge(k[2][1], Node(k[1]), t, Level(k[2][3])) : t \in kept[k]} : k \in Ids \X Semantics}

LEMMA SemanticsKept ==
  ASSUME AddSemantics
  PROVE  \E kept : /\ FarKept(kept)
                   /\ Add(RefNodes(UNION {kept[k] : k \in Ids \X Semantics}), FarEdges(kept))
<1> DEFINE options == [k \in Ids \X Semantics |-> Cuts(summary[k[1]][k[2][2]], FieldCap)]
<1>1. PICK kept \in Selections(options) :
        Add(RefNodes(UNION {kept[k] : k \in Ids \X Semantics}), FarEdges(kept))
  BY Zenon DEF AddSemantics, FarEdges
<1>2. FarKept(kept)
  <2> SUFFICES ASSUME NEW i \in Ids, NEW f \in Semantics
               PROVE  /\ kept[<<i, f>>] \subseteq summary[i][f[2]]
                      /\ Cardinality(summary[i][f[2]]) <= FieldCap => kept[<<i, f>>] = summary[i][f[2]]
    BY DEF FarKept
  <2>1. <<i, f>> \in DOMAIN options /\ options[<<i, f>>] = Cuts(summary[i][f[2]], FieldCap)
    OBVIOUS
  <2> HIDE DEF options
  <2>2. kept[<<i, f>>] \in Cuts(summary[i][f[2]], FieldCap)
    BY <1>1, <2>1, SelectionsTake
  <2> QED BY <2>2, CutsPart
<1> QED BY <1>1, <1>2

LEMMA FarEdgeIs ==
  ASSUME NEW kept
  PROVE  /\ \A e \in FarEdges(kept) : \E i \in Ids : \E f \in Semantics : \E t \in kept[<<i, f>>] :
              e = Edge(f[1], Node(i), t, Level(f[3]))
         /\ \A i \in Ids : \A f \in Semantics : \A t \in kept[<<i, f>>] :
              Edge(f[1], Node(i), t, Level(f[3])) \in FarEdges(kept)
<1>1. \A e \in FarEdges(kept) : \E i \in Ids : \E f \in Semantics : \E t \in kept[<<i, f>>] :
        e = Edge(f[1], Node(i), t, Level(f[3]))
  <2> SUFFICES ASSUME NEW e \in FarEdges(kept)
               PROVE  \E i \in Ids : \E f \in Semantics : \E t \in kept[<<i, f>>] :
                        e = Edge(f[1], Node(i), t, Level(f[3]))
    OBVIOUS
  <2>1. PICK k \in Ids \X Semantics : \E t \in kept[k] : e = Edge(k[2][1], Node(k[1]), t, Level(k[2][3]))
    BY DEF FarEdges
  <2>2. k[1] \in Ids /\ k[2] \in Semantics /\ k = <<k[1], k[2]>>
    OBVIOUS
  <2> QED BY <2>1, <2>2
<1>2. ASSUME NEW i \in Ids, NEW f \in Semantics, NEW t \in kept[<<i, f>>]
      PROVE  Edge(f[1], Node(i), t, Level(f[3])) \in FarEdges(kept)
  <2> DEFINE k == <<i, f>>
  <2>1. k \in Ids \X Semantics /\ k[1] = i /\ k[2] = f /\ t \in kept[k]
    OBVIOUS
  <2> HIDE DEF k
  <2> QED BY <2>1 DEF FarEdges
<1> QED BY <1>1, <1>2

\* AddStatements: the same of what statements list, and of flows to them.
Parts == {"defines", "reads", "writes", "calls"}
FactEdges(kept) ==
  UNION {UNION {{Edge(f[1], StmtNode(s), t, Line(s.line)) : t \in kept[<<s, f[2]>>]} : f \in Facts} : s \in stmts}
FlowsRead(read) ==
  UNION {UNION {{Edge("DATA_FLOW", StmtNode(s), StmtNode(t), <<"via", key>>) : s \in Writers(t, key)} :
                  key \in read[t]} : t \in stmts}
OrderEdges ==
  LET Of(s, k) == <<"stmt", s.fn, k>>
  IN {Edge("CONTAINS", Node(s.fn), StmtNode(s), Plain) : s \in stmts}
       \cup (UNION {{Edge("CONTROL_FLOW", Of(s, k), StmtNode(s), Plain) : k \in s.previous} : s \in stmts})
       \cup (UNION {{Edge("DEPENDENCE", Of(s, k), StmtNode(s), Plain) : k \in s.parent} : s \in stmts})

LEMMA FactEdgeIs ==
  ASSUME NEW kept
  PROVE  \A e \in FactEdges(kept) : \E s \in stmts : \E f \in Facts : \E t \in kept[<<s, f[2]>>] :
           e = Edge(f[1], StmtNode(s), t, Line(s.line))
<1> SUFFICES ASSUME NEW e \in FactEdges(kept)
             PROVE  \E s \in stmts : \E f \in Facts : \E t \in kept[<<s, f[2]>>] :
                      e = Edge(f[1], StmtNode(s), t, Line(s.line))
  OBVIOUS
<1> DEFINE Of(s, f) == {Edge(f[1], StmtNode(s), t, Line(s.line)) : t \in kept[<<s, f[2]>>]}
<1>1. PICK s \in stmts : e \in UNION {Of(s, f) : f \in Facts}
  BY DEF FactEdges
<1> HIDE DEF Of
<1>2. PICK f \in Facts : e \in Of(s, f)
  BY <1>1
<1> QED BY <1>2 DEF Of

LEMMA StatementsCut ==
  ASSUME AddStatements
  PROVE  \E kept, read :
           /\ \A s \in stmts : \A f \in Parts : kept[<<s, f>>] \subseteq s[f]
           /\ \A s \in stmts : read[s] \subseteq s.reads /\ (Whole(s, FlowCap) => read[s] = s.reads)
           /\ Add({StmtNode(s) : s \in stmts} \cup RefNodes(UNION {kept[k] : k \in stmts \X Parts}),
                  OrderEdges \cup FactEdges(kept) \cup FlowsRead(read))
<1> DEFINE lists == [k \in stmts \X Parts |-> FirstOf(k[1], k[1][k[2]], FieldCap)]
           reads == [t \in stmts |-> FirstOf(t, t.reads, FlowCap)]
<1>1. PICK kept \in Selections(lists), read \in Selections(reads) :
        Add({StmtNode(s) : s \in stmts} \cup RefNodes(UNION {kept[k] : k \in stmts \X Parts}),
            OrderEdges \cup FactEdges(kept) \cup FlowsRead(read))
  BY Zenon DEF AddStatements, OrderEdges, FactEdges, FlowsRead, Parts
<1>2. ASSUME NEW s \in stmts, NEW f \in Parts PROVE kept[<<s, f>>] \subseteq s[f]
  <2>1. <<s, f>> \in DOMAIN lists /\ lists[<<s, f>>] = FirstOf(s, s[f], FieldCap)
    OBVIOUS
  <2> HIDE DEF lists
  <2>2. kept[<<s, f>>] \in FirstOf(s, s[f], FieldCap)
    BY <1>1, <2>1, SelectionsTake
  <2> QED BY <2>2, FirstOfPart
<1>3. ASSUME NEW s \in stmts PROVE read[s] \subseteq s.reads /\ (Whole(s, FlowCap) => read[s] = s.reads)
  <2>1. s \in DOMAIN reads /\ reads[s] = FirstOf(s, s.reads, FlowCap)
    OBVIOUS
  <2> HIDE DEF reads
  <2>2. read[s] \in FirstOf(s, s.reads, FlowCap)
    BY <1>1, <2>1, SelectionsTake
  <2> QED BY <2>2, FirstOfPart
<1> QED BY <1>1, <1>2, <1>3

LEMMA AddSemanticsEdges == TypeOK /\ GraphInv /\ AddSemantics => EdgesEndAtNodes'
<1> SUFFICES ASSUME TypeOK, GraphInv, AddSemantics PROVE EdgesEndAtNodes'
  OBVIOUS
<1>1. PICK kept : /\ FarKept(kept)
                  /\ Add(RefNodes(UNION {kept[k] : k \in Ids \X Semantics}), FarEdges(kept))
  BY SemanticsKept
<1> DEFINE T == UNION {kept[k] : k \in Ids \X Semantics}
           N == RefNodes(T)
           E == FarEdges(kept)
<1>2. \A i \in Ids : Node(i) \in nodes
  BY SymbolsMade DEF AddSemantics
<1>3. \A f \in Semantics : f[2] \in DOMAIN NoSummary
  BY DEF Semantics, NoSummary
<1>4. DOMAIN summary = Ids
  BY DEF TypeOK, SummariesOK, AddSemantics, Pass
<1>5. \A i \in Ids : \A f \in Semantics : \A t \in kept[<<i, f>>] : t \in nodes \cup N
  <2> SUFFICES ASSUME NEW i \in Ids, NEW f \in Semantics, NEW t \in kept[<<i, f>>]
               PROVE  t \in nodes \cup N
    OBVIOUS
  <2>1. TargetOK(t)
    BY <1>1, <1>3, <1>4 DEF TypeOK, SummariesOK, FarKept
  <2>2. t \in T
    OBVIOUS
  <2> HIDE DEF T
  <2> QED BY <1>2, <2>1, <2>2, TargetHasNode
<1> HIDE DEF N
<1> HIDE DEF E
<1>6. \A e \in E : \E i \in Ids : \E f \in Semantics : \E t \in kept[<<i, f>>] :
        e = Edge(f[1], Node(i), t, Level(f[3]))
  BY FarEdgeIs DEF E
<1>7. \A e \in E : e.from \in nodes \cup N /\ e.to \in nodes \cup N
  <2> SUFFICES ASSUME NEW e \in E PROVE e.from \in nodes \cup N /\ e.to \in nodes \cup N
    OBVIOUS
  <2>1. PICK i \in Ids, f \in Semantics : \E t \in kept[<<i, f>>] : e = Edge(f[1], Node(i), t, Level(f[3]))
    BY <1>6
  <2>2. PICK t \in kept[<<i, f>>] : e = Edge(f[1], Node(i), t, Level(f[3]))
    BY <2>1
  <2>3. e.from = Node(i) /\ e.to = t
    BY <2>2, EdgeEnds
  <2> QED BY <1>2, <1>5, <2>3
<1> QED BY <1>1, <1>7, AddKeepsEdges DEF GraphInv, N, E

LEMMA AddOverridesEdges == TypeOK /\ GraphInv /\ AddOverrides => EdgesEndAtNodes'
<1> SUFFICES ASSUME TypeOK, GraphInv, AddOverrides PROVE EdgesEndAtNodes'
  OBVIOUS
<1> DEFINE Near == {p \in Ids \X Ids : Adjacent(p[1], p[2]) \/ Adjacent(p[2], p[1])}
           E1 == UNION {{Edge("OVERRIDES", Node(i), Node(j), Plain) : j \in Overridden(i)} : i \in Ids}
           E2 == {Edge("NEIGHBOR", Node(p[1]), Node(p[2]), Plain) : p \in Near}
<1>1. Add({}, E1 \cup E2)
  BY DEF AddOverrides
<1>2. \A i \in Ids : Node(i) \in nodes
  BY SymbolsMade DEF AddOverrides
<1>3. \A i : Overridden(i) \subseteq Ids
  BY DEF Overridden, LastNamed
<1>4. \A e \in E1 : e.from \in nodes /\ e.to \in nodes
  BY <1>2, <1>3, EdgeEnds
<1>5. \A e \in E2 : e.from \in nodes /\ e.to \in nodes
  BY <1>2, EdgeEnds
<1>6. \A e \in E1 \cup E2 : e.from \in nodes \cup {} /\ e.to \in nodes \cup {}
  BY <1>4, <1>5
<1> HIDE DEF E1, E2
<1> QED BY <1>1, <1>6, AddKeepsEdges DEF GraphInv

LEMMA AddStatementsEdges == TypeOK /\ GraphInv /\ AddStatements => EdgesEndAtNodes'
<1> SUFFICES ASSUME TypeOK, GraphInv, AddStatements PROVE EdgesEndAtNodes'
  OBVIOUS
<1>0. PICK kept, read :
        /\ \A s \in stmts : \A f \in Parts : kept[<<s, f>>] \subseteq s[f]
        /\ \A s \in stmts : read[s] \subseteq s.reads /\ (Whole(s, FlowCap) => read[s] = s.reads)
        /\ Add({StmtNode(s) : s \in stmts} \cup RefNodes(UNION {kept[k] : k \in stmts \X Parts}),
               OrderEdges \cup FactEdges(kept) \cup FlowsRead(read))
  BY StatementsCut
<1> DEFINE Of(s, k) == <<"stmt", s.fn, k>>
           T  == UNION {kept[k] : k \in stmts \X Parts}
           N  == {StmtNode(s) : s \in stmts} \cup RefNodes(T)
           E1 == {Edge("CONTAINS", Node(s.fn), StmtNode(s), Plain) : s \in stmts}
           E2 == UNION {{Edge("CONTROL_FLOW", Of(s, k), StmtNode(s), Plain) : k \in s.previous} :
                            s \in stmts}
           E3 == UNION {{Edge("DEPENDENCE", Of(s, k), StmtNode(s), Plain) : k \in s.parent} :
                            s \in stmts}
           E4 == FactEdges(kept)
           E5 == FlowsRead(read)
           Ends(E) == \A e \in E : e.from \in nodes \cup N /\ e.to \in nodes \cup N
<1>1. Add(N, E1 \cup E2 \cup E3 \cup E4 \cup E5)
  BY <1>0 DEF OrderEdges
<1>2. \A i \in Ids : Node(i) \in nodes
  BY SymbolsMade DEF AddStatements
<1>3. \A s \in stmts : StmtNode(s) \in N
  OBVIOUS
<1>4. \A s \in stmts : \A k \in StatementLines(s.fn) : Of(s, k) \in N
  <2> SUFFICES ASSUME NEW s \in stmts, NEW k \in StatementLines(s.fn) PROVE Of(s, k) \in N
    OBVIOUS
  <2>1. PICK u \in stmts : u.fn = s.fn /\ u.line = k
    BY DEF TypeOK, StatementsOK
  <2>2. Of(s, k) = StmtNode(u)
    BY <2>1 DEF StmtNode
  <2> QED BY <1>3, <2>2
<1>5. \A s \in stmts : \A f \in Parts : \A t \in kept[<<s, f>>] : t \in nodes \cup N
  <2> SUFFICES ASSUME NEW s \in stmts, NEW f \in Parts, NEW t \in kept[<<s, f>>] PROVE t \in nodes \cup N
    OBVIOUS
  <2>1. TargetOK(t)
    <3>1. t \in s[f]
      BY <1>0
    <3>2. s[f] \subseteq s.defines \cup s.writes \cup s.calls \cup s.reads
      BY DEF Parts
    <3> QED BY <3>1, <3>2 DEF TypeOK, StatementsOK
  <2>2. t \in T
    OBVIOUS
  <2> HIDE DEF T
  <2> QED BY <1>2, <2>1, <2>2, TargetHasNode
<1> HIDE DEF N
<1>6. Ends(E1)
  BY <1>2, <1>3, EdgeEnds DEF TypeOK, StatementsOK
<1>7. Ends(E2) /\ Ends(E3)
  <2>1. \A s \in stmts : /\ \A k \in s.previous : Of(s, k) \in N
                        /\ \A k \in s.parent : Of(s, k) \in N
    BY <1>4 DEF TypeOK, StatementsOK
  <2>2. \A e \in E2 : \E s \in stmts : \E k \in s.previous :
          e = Edge("CONTROL_FLOW", Of(s, k), StmtNode(s), Plain)
    OBVIOUS
  <2>3. \A e \in E3 : \E s \in stmts : \E k \in s.parent :
          e = Edge("DEPENDENCE", Of(s, k), StmtNode(s), Plain)
    OBVIOUS
  <2> HIDE DEF Of, E2, E3
  <2>4. Ends(E2)
    BY <1>3, <2>1, <2>2, EdgeEnds
  <2>5. Ends(E3)
    BY <1>3, <2>1, <2>3, EdgeEnds
  <2> QED BY <2>4, <2>5
<1>8. Ends(E4)
  <2>1. \A f \in Facts : f[2] \in Parts
    BY DEF Facts, Parts
  <2>2. \A e \in E4 : \E s \in stmts : \E f \in Facts : \E t \in kept[<<s, f[2]>>] :
          e = Edge(f[1], StmtNode(s), t, Line(s.line))
    BY FactEdgeIs, Zenon
  <2> HIDE DEF E4
  <2>3. ASSUME NEW e \in E4 PROVE e.from \in nodes \cup N /\ e.to \in nodes \cup N
    <3>1. PICK s \in stmts, f \in Facts : \E t \in kept[<<s, f[2]>>] : e = Edge(f[1], StmtNode(s), t, Line(s.line))
      BY <2>2
    <3>2. PICK t \in kept[<<s, f[2]>>] : e = Edge(f[1], StmtNode(s), t, Line(s.line))
      BY <3>1
    <3>3. e.from = StmtNode(s) /\ e.to = t
      BY <3>2, EdgeEnds
    <3> QED BY <1>3, <1>5, <2>1, <3>3
  <2> QED BY <2>3
<1>9. Ends(E5)
  <2>1. \A t, key : Writers(t, key) \subseteq stmts
    BY DEF Writers
  <2>2. \A e \in E5 : \E t \in stmts : \E key \in read[t] : \E s \in Writers(t, key) :
          e = Edge("DATA_FLOW", StmtNode(s), StmtNode(t), <<"via", key>>)
    BY DEF FlowsRead
  <2> HIDE DEF E5
  <2> QED BY <1>3, <2>1, <2>2 DEF Edge
<1>10. Ends(E1 \cup E2 \cup E3 \cup E4 \cup E5)
  BY <1>6, <1>7, <1>8, <1>9
<1> HIDE DEF E1, E2, E3, E4, E5
<1> QED BY <1>1, <1>10, AddKeepsEdges DEF GraphInv

-----------------------------------------------------------------------------
(* The inductive invariant *)

\* Nodes made by a pass stay for the passes after it.
LEMMA NodesKept ==
  ASSUME NodesMade, repo' = repo, nodes \subseteq nodes',
         step' = step \/ step \notin {"files", "symbols"}
  PROVE  NodesMade'
BY DEF NodesMade, Ids, Sym

LEMMA AddFilesMade == NodesMade /\ AddFiles => NodesMade'
<1> SUFFICES ASSUME NodesMade, AddFiles PROVE NodesMade'
  OBVIOUS
<1>1. repo' = repo /\ step' = "symbols"
  BY DEF AddFiles, Pass, index
<1>2. Repository \in nodes' /\ \A f \in DOMAIN repo.files : FileNode(f) \in nodes'
  BY DEF AddFiles, Add
<1> QED BY <1>1, <1>2 DEF NodesMade

LEMMA AddSymbolsMade == NodesMade /\ AddSymbols => NodesMade'
<1> SUFFICES ASSUME NodesMade, AddSymbols PROVE NodesMade'
  OBVIOUS
<1>1. repo' = repo /\ step = "symbols" /\ step' = "imports"
  BY DEF AddSymbols, Pass, index
<1>2. nodes \subseteq nodes'
  BY DEF AddSymbols, Add
<1>3. \A i \in Ids : Node(i) \in nodes' /\ (Sym(i).test = 1 => TestNode(i) \in nodes')
  BY DEF AddSymbols, Add
<1> QED BY <1>1, <1>2, <1>3 DEF NodesMade, Ids, Sym

LEMMA NodesMadeNext == NodesMade /\ [Next]_vars => NodesMade'
<1> SUFFICES ASSUME NodesMade, [Next]_vars PROVE NodesMade'
  OBVIOUS
<1>1. CASE IndexNext /\ UNCHANGED graph
  <2>1. repo' = repo
    BY <1>1 DEF IndexNext, BuildRecords, BuildImport, ImportsDone, ResolveImpls, ResolveSupers,
                BuildReferences, BuildStatements, SummarizeDirect, SummarizeFar
  <2> QED BY <1>1, <2>1, NodesKept DEF graph
<1>2. CASE AddFiles \/ AddSymbols
  BY <1>2, AddFilesMade, AddSymbolsMade
<1>3. CASE AddImports \/ AddReferences \/ AddSemantics \/ AddOverrides \/ AddStatements
  <2>1. repo' = repo /\ step \notin {"files", "symbols"}
    BY <1>3 DEF AddImports, AddReferences, AddSemantics, AddOverrides, AddStatements, Pass, index
  <2>2. nodes \subseteq nodes'
    BY <1>3 DEF AddImports, AddReferences, AddSemantics, AddOverrides, AddStatements, Add
  <2> QED BY <2>1, <2>2, NodesKept
<1>4. CASE Done \/ UNCHANGED vars
  BY <1>4, NodesKept DEF Done, vars, index, graph
<1> QED BY <1>1, <1>2, <1>3, <1>4 DEF Next, GraphNext

LEMMA EdgesNext == TypeOK /\ GraphInv /\ [Next]_vars => EdgesEndAtNodes'
<1> SUFFICES ASSUME TypeOK, GraphInv, [Next]_vars PROVE EdgesEndAtNodes'
  OBVIOUS
<1>1. CASE UNCHANGED graph
  BY <1>1 DEF GraphInv, EdgesEndAtNodes, graph
<1>2. CASE GraphNext
  BY <1>2, AddFilesEdges, AddSymbolsEdges, AddImportsEdges, AddReferencesEdges,
     AddSemanticsEdges, AddOverridesEdges, AddStatementsEdges DEF GraphNext
<1>3. CASE Done \/ UNCHANGED vars
  BY <1>1, <1>3 DEF Done, vars
<1> QED BY <1>1, <1>2, <1>3 DEF Next

LEMMA GraphInvInit == Init => GraphInv
BY DEF Init, GraphInit, GraphInv, NodesMade, EdgesEndAtNodes

\* EdgesEndAtNodes: whatever the repository and whatever could be resolved in
\* it, no edge of the artifact names a node it does not hold.
THEOREM NoDanglingEdge == Spec => []EdgesEndAtNodes
<1>1. TypeOK /\ GraphInv /\ [Next]_vars => GraphInv'
  BY NodesMadeNext, EdgesNext DEF GraphInv
<1>2. GraphInv => EdgesEndAtNodes
  BY DEF GraphInv
<1> QED BY <1>1, <1>2, GraphInvInit, TypeInit, TypeNext, PTL DEF Spec

-----------------------------------------------------------------------------
(* The walk of compute_transitive_calls *)

\* n is called by j, which i calls, or calls a function that calls it
Onwards(i, n) ==
  \E j \in Ids : /\ n \in summary[j].calls
                 /\ \/ Node(j) \in summary[i].calls
                    \/ \E a \in Ids : Node(a) \in summary[i].calls /\ Node(j) \in summary[a].calls

\* All that, the calls its callees make, and that no cap is met on the way.
Reached(i) == {n \in UNION {summary[j].calls : j \in Ids} : Onwards(i, n)}
Beyond(i)  == UNION {{<<a, t>> : t \in summary[a].calls} : a \in {b \in Ids : Node(b) \in summary[i].calls}}
Fits(i)    == Cardinality(Reached(i)) <= TargetCap /\ Cardinality(Beyond(i)) <= FrontierCap

\* What the summaries say of calls, and what the other passes keep of it.
CallsInv ==
  /\ pass \in {"far", "indexed"} =>
       \A i \in Ids : IF IsFunction(i) THEN summary[i].calls = DirectCalls(i) ELSE summary[i] = NoSummary
  /\ pass = "indexed" =>
       \A i \in Ids : \A n : /\ n \in summary[i].transitive => IsFunction(i) /\ Onwards(i, n)
                             /\ IsFunction(i) /\ Fits(i) /\ Onwards(i, n) => n \in summary[i].transitive

\* compute_transitive_calls: targets of what i calls and of what those call,
\* which are all expanded where the second frontier is not cut.
LEMMA TransitiveIs ==
  ASSUME TypeOK, DOMAIN summary = Ids, NEW i \in Ids, NEW T \in TransitiveCalls(i, Field("calls")), NEW n
  PROVE  (n \in T => Onwards(i, n)) /\ (Fits(i) /\ Onwards(i, n) => n \in T)
<1> DEFINE direct == Field("calls")
<1>1. \A j \in Ids : direct[j] = summary[j].calls /\ \A t \in direct[j] : TargetOK(t)
  BY DEF Field, TypeOK, SummariesOK, NoSummary
<1> HIDE DEF direct
<1>2. ASSUME NEW S, \A t \in S : TargetOK(t), NEW a
      PROVE  a \in Callees(S) <=> a \in Ids /\ Node(a) \in S
  <2>1. ASSUME NEW t \in S, t[1] = "sym" PROVE t = Node(t[2]) /\ t[2] \in Ids
    <3>1. TargetOK(t)
      BY <1>2
    <3> QED BY <2>1, <3>1 DEF TargetOK, Node
  <2>2. Node(a)[1] = "sym" /\ Node(a)[2] = a
    BY DEF Node
  <2> QED BY <2>1, <2>2 DEF Callees
<1> DEFINE C == Callees(direct[i])
           calls == UNION {{<<j, t>> : t \in direct[j]} : j \in C \cap Ids}
<1>3. \A a : a \in C <=> a \in Ids /\ Node(a) \in direct[i]
  BY <1>1, <1>2
<1>4. calls = Beyond(i)
  <2>1. \A p : p \in calls <=> \E j \in C \cap Ids : \E t \in direct[j] : p = <<j, t>>
    OBVIOUS
  <2>2. \A p : p \in Beyond(i) <=> \E j \in Ids : Node(j) \in direct[i] /\ \E t \in direct[j] : p = <<j, t>>
    BY <1>1 DEF Beyond
  <2> HIDE DEF calls, C
  <2>3. \A p : p \in calls <=> p \in Beyond(i)
    BY <1>3, <2>1, <2>2
  <2> QED BY <2>3
<1>5. ASSUME NEW w \in Further({Begin(i, direct)}, direct, direct, FALSE)
      PROVE  \E kept \in Cuts(calls, FrontierCap) :
               /\ \A a : a \in w.seen <=> a \in C
               /\ \A m : m \in w.found <=> \E j \in Ids : j \in C /\ m \in direct[j]
               /\ w.frontier = Callees({c[2] : c \in kept})
  <2> DEFINE b == Begin(i, direct)
  <2>1. w \in Deeper(b, direct, direct, FALSE)
    BY DEF Further
  <2>2. b.seen = {} /\ b.frontier = C /\ b.found = {}
    BY DEF Begin
  <2>3. Following(b, direct, FALSE) = calls
    <3>1. (C \ {}) \cap Ids = C \cap Ids
      OBVIOUS
    <3> QED BY <2>2, <3>1 DEF Following, CallsOf
  <2> HIDE DEF calls, C, b
  <2>4. Leads(b, direct, direct, FALSE, w)
    BY <2>1, DeeperIs
  <2> QED BY <2>2, <2>3, <2>4 DEF Leads
<1>6. PICK v \in Further(Further({Begin(i, direct)}, direct, direct, FALSE), direct, direct, FALSE) :
        T \in Cuts(v.found, TargetCap)
  BY DEF TransitiveCalls, Listed, direct
<1>7. PICK w \in Further({Begin(i, direct)}, direct, direct, FALSE) : v \in Deeper(w, direct, direct, FALSE)
  BY <1>6 DEF Further
<1>8. PICK kept \in Cuts(calls, FrontierCap) :
        /\ \A a : a \in w.seen <=> a \in C
        /\ \A m : m \in w.found <=> \E j \in Ids : j \in C /\ m \in direct[j]
        /\ w.frontier = Callees({c[2] : c \in kept})
  BY <1>5, <1>7
<1> DEFINE D == Callees({c[2] : c \in kept})
<1>9. \A m : m \in v.found <=> \E j \in Ids : (j \in C \/ j \in D) /\ m \in direct[j]
  <2>1. w.frontier = D
    BY <1>8
  <2> HIDE DEF C, D
  <2>2. Leads(w, direct, direct, FALSE, v)
    BY <1>7, DeeperIs
  <2> QED BY <1>8, <2>1, <2>2 DEF Leads
<1>10. \A a : a \in D <=> a \in Ids /\ \E c \in kept : c[2] = Node(a)
  <2>1. \A t \in {c[2] : c \in kept} : TargetOK(t)
    <3>1. kept \subseteq calls
      BY <1>8, CutsPart
    <3>2. \A c \in calls : TargetOK(c[2])
      BY <1>1
    <3> QED BY <3>1, <3>2
  <2> QED BY <1>2, <2>1
<1>11. ASSUME NEW m, m \in v.found PROVE Onwards(i, m)
  <2>1. CASE \E j \in C \cap Ids : m \in direct[j]
    BY <1>1, <1>3, <2>1 DEF Onwards
  <2>2. CASE \E j \in D \cap Ids : m \in direct[j]
    <3>1. PICK j \in D \cap Ids : m \in direct[j]
      BY <2>2
    <3>2. PICK c \in kept : c[2] = Node(j)
      BY <1>10, <3>1
    <3>3. c \in calls
      BY <1>8, CutsPart
    <3>4. PICK a \in C \cap Ids : \E t \in direct[a] : c = <<a, t>>
      BY <3>3
    <3>5. Node(j) \in direct[a]
      BY <3>2, <3>4
    <3> QED BY <1>1, <1>3, <3>1, <3>4, <3>5 DEF Onwards
  <2> HIDE DEF C, D
  <2> QED BY <1>9, <1>11, <2>1, <2>2
<1>12. ASSUME Fits(i), NEW m, Onwards(i, m) PROVE m \in v.found
  <2>1. kept = calls
    BY <1>4, <1>8, <1>12, CutsPart DEF Fits
  <2>2. PICK j \in Ids : /\ m \in direct[j]
                         /\ \/ Node(j) \in direct[i]
                            \/ \E a \in Ids : Node(a) \in direct[i] /\ Node(j) \in direct[a]
    BY <1>1, <1>12 DEF Onwards
  <2>3. CASE Node(j) \in direct[i]
    <3>1. j \in C \cap Ids
      BY <1>3, <2>3
    <3> HIDE DEF C, D
    <3> QED BY <1>9, <2>2, <3>1
  <2>4. CASE \E a \in Ids : Node(a) \in direct[i] /\ Node(j) \in direct[a]
    <3>1. PICK a \in Ids : Node(a) \in direct[i] /\ Node(j) \in direct[a]
      BY <2>4
    <3>2. <<a, Node(j)>> \in kept
      BY <1>3, <2>1, <3>1
    <3>3. j \in D
      BY <1>10, <3>2
    <3> HIDE DEF C, D
    <3> QED BY <1>9, <2>2, <3>3
  <2> QED BY <2>2, <2>3, <2>4
<1>13. ASSUME Fits(i) PROVE T = v.found
  <2>1. v.found = Reached(i)
    <3>1. \A m \in v.found : m \in Reached(i)
      <4> SUFFICES ASSUME NEW m \in v.found PROVE m \in Reached(i)
        OBVIOUS
      <4>1. \E j \in Ids : m \in direct[j]
        <5> HIDE DEF C, D
        <5> QED BY <1>9
      <4>2. Onwards(i, m)
        BY <1>11
      <4> QED BY <1>1, <4>1, <4>2 DEF Reached
    <3>2. \A m \in Reached(i) : m \in v.found
      BY <1>12, <1>13 DEF Reached
    <3> QED BY <3>1, <3>2
  <2> QED BY <1>6, <1>13, <2>1, CutsPart DEF Fits
<1>14. T \subseteq v.found
  BY <1>6, CutsPart
<1> QED BY <1>11, <1>12, <1>13, <1>14

LEMMA CallsNext == TypeOK /\ CallsInv /\ [Next]_vars => CallsInv'
<1> SUFFICES ASSUME TypeOK, CallsInv, [Next]_vars PROVE CallsInv'
  OBVIOUS
<1>1. CASE SummarizeDirect
  <2>1. \A i \in Ids : IF IsFunction(i) THEN summary'[i].calls = DirectCalls(i) ELSE summary'[i] = NoSummary
    <3>1. \A i \in Ids : ~IsFunction(i) => summary'[i] = NoSummary
      BY <1>1 DEF SummarizeDirect
    <3>2. \A i \in Ids : IsFunction(i) => summary'[i].calls = DirectCalls(i)
      BY <1>1 DEF SummarizeDirect, NoSummary
    <3> QED BY <3>1, <3>2
  <2>2. /\ pass' = "far" /\ Ids' = Ids
        /\ \A i : IsFunction(i)' = IsFunction(i) /\ DirectCalls(i)' = DirectCalls(i)
    BY <1>1 DEF SummarizeDirect, Ids, IsFunction, Sym, DirectCalls
  <2>3. NoSummary' = NoSummary
    BY DEF NoSummary
  <2> QED BY <2>1, <2>2, <2>3 DEF CallsInv
<1>2. CASE SummarizeFar
  <2>0. DOMAIN summary = Ids /\ pass = "far" /\ \A i \in Ids : DOMAIN summary[i] = DOMAIN NoSummary
    BY <1>2 DEF SummarizeFar, TypeOK, SummariesOK
  <2>1. /\ pass' = "indexed" /\ Ids' = Ids
        /\ \A i : IsFunction(i)' = IsFunction(i) /\ DirectCalls(i)' = DirectCalls(i)
    BY <1>2 DEF SummarizeFar, Ids, IsFunction, Sym, DirectCalls
  <2>2. \A i \in Ids : summary'[i].calls = summary[i].calls
    BY <1>2, <2>0 DEF SummarizeFar, NoSummary
  <2>3. \A i \in Ids : IF IsFunction(i) THEN summary'[i].transitive \in TransitiveCalls(i, Field("calls"))
                       ELSE summary'[i] = NoSummary
    <3> DEFINE options == [k \in Functions \X FarFields |-> FarLists(k[1], k[2])]
    <3>1. ASSUME NEW i \in Ids, IsFunction(i)
          PROVE  summary'[i].transitive \in TransitiveCalls(i, Field("calls"))
      <4>1. PICK far \in Selections(options) : summary'[i].transitive = far[<<i, "transitive">>]
        <5>1. PICK far \in Selections(options) :
                summary' = [j \in Ids |->
                  IF ~IsFunction(j) THEN summary[j]
                  ELSE [summary[j] EXCEPT !.transitive = far[<<j, "transitive">>],
                                          !.farReads   = far[<<j, "farReads">>],
                                          !.farWrites  = far[<<j, "farWrites">>],
                                          !.farUses    = far[<<j, "farUses">>]]]
          BY <1>2, Zenon DEF SummarizeFar
        <5> HIDE DEF options
        <5>2. "transitive" \in DOMAIN summary[i]
          BY <2>0 DEF NoSummary
        <5>3. summary'[i].transitive = far[<<i, "transitive">>]
          BY <3>1, <5>1, <5>2
        <5> QED BY <5>3
      <4>2. /\ <<i, "transitive">> \in DOMAIN options
            /\ options[<<i, "transitive">>] = TransitiveCalls(i, Field("calls"))
        BY <3>1 DEF Functions, FarFields, FarLists
      <4> HIDE DEF options
      <4> QED BY <4>1, <4>2, SelectionsTake
    <3>2. \A i \in Ids : ~IsFunction(i) => summary'[i] = summary[i]
      BY <1>2 DEF SummarizeFar
    <3> QED BY <2>0, <3>1, <3>2 DEF CallsInv
  <2>4. \A i \in Ids : (Fits(i)' <=> Fits(i)) /\ \A n : Onwards(i, n)' <=> Onwards(i, n)
    <3>1. \A i \in Ids : \A n : Onwards(i, n)' <=> Onwards(i, n)
      BY <2>1, <2>2 DEF Onwards
    <3>2. UNION {summary'[j].calls : j \in Ids} = UNION {summary[j].calls : j \in Ids}
      BY <2>2
    <3>3. \A i \in Ids : Reached(i)' = Reached(i)
      BY <2>1, <3>1, <3>2 DEF Reached
    <3>4. \A i \in Ids : Beyond(i)' = Beyond(i)
      <4> SUFFICES ASSUME NEW i \in Ids PROVE Beyond(i)' = Beyond(i)
        OBVIOUS
      <4> DEFINE A == {b \in Ids : Node(b) \in summary[i].calls}
                 P(a) == {<<a, t>> : t \in summary[a].calls}
      <4>1. A' = A
        BY <2>1, <2>2 DEF Node
      <4>2. \A a \in A : P(a)' = P(a)
        BY <2>2
      <4>3. Beyond(i) = UNION {P(a) : a \in A} /\ Beyond(i)' = UNION {P(a)' : a \in A'}
        BY DEF Beyond
      <4> HIDE DEF P, A
      <4> QED BY <4>1, <4>2, <4>3
    <3> QED BY <3>1, <3>3, <3>4 DEF Fits
  <2>5. \A i \in Ids : \A n : /\ n \in summary'[i].transitive => IsFunction(i) /\ Onwards(i, n)
                              /\ IsFunction(i) /\ Fits(i) /\ Onwards(i, n) => n \in summary'[i].transitive
    <3>1. \A i \in Ids : \A T \in TransitiveCalls(i, Field("calls")) : \A n :
            (n \in T => Onwards(i, n)) /\ (Fits(i) /\ Onwards(i, n) => n \in T)
      BY <2>0, TransitiveIs
    <3>2. NoSummary.transitive = {}
      BY DEF NoSummary
    <3> QED BY <2>3, <3>1, <3>2
  <2>6. \A i \in Ids : IF IsFunction(i) THEN summary'[i].calls = DirectCalls(i) ELSE summary'[i] = NoSummary
    BY <2>0, <2>2, <2>3 DEF CallsInv
  <2>7. NoSummary' = NoSummary
    BY DEF NoSummary
  <2> QED BY <2>1, <2>4, <2>5, <2>6, <2>7 DEF CallsInv
<1>3. CASE UNCHANGED index
  <2>1. /\ pass' = pass /\ summary' = summary /\ Ids' = Ids /\ NoSummary' = NoSummary
        /\ \A i : IsFunction(i)' = IsFunction(i) /\ DirectCalls(i)' = DirectCalls(i)
    BY <1>3 DEF index, Ids, IsFunction, Sym, DirectCalls, NoSummary
  <2>2. \A i, n : (Onwards(i, n)' <=> Onwards(i, n)) /\ (Fits(i)' <=> Fits(i))
    BY <2>1 DEF Onwards, Fits, Reached, Beyond
  <2> QED BY <2>1, <2>2 DEF CallsInv
<1>4. CASE BuildRecords \/ BuildImport \/ ImportsDone \/ ResolveImpls \/ ResolveSupers
           \/ BuildReferences \/ BuildStatements
  <2>1. pass' \notin {"far", "indexed"}
    BY <1>4 DEF BuildRecords, BuildImport, ImportsDone, ResolveImpls, ResolveSupers,
                BuildReferences, BuildStatements
  <2> QED BY <2>1 DEF CallsInv
<1>5. GraphNext \/ Done \/ UNCHANGED vars => UNCHANGED index
  BY DEF GraphNext, AddFiles, AddSymbols, AddImports, AddReferences, AddSemantics, AddOverrides,
         AddStatements, Pass, Done, vars
<1> QED BY <1>1, <1>2, <1>3, <1>4, <1>5 DEF Next, IndexNext

-----------------------------------------------------------------------------
(* Where the edges of calls and of the flow of data come from *)

RefEdge(r)     == Edge("CALLS", Node(r.from), r.to, Line(r.line))
FarEdge(i, t)  == Edge("CALLS", Node(i), t, Level("transitive"))
StmtEdge(s, t) == Edge("CALLS", StmtNode(s), t, Line(s.line))
FlowEdge(s, t, key) == Edge("DATA_FLOW", StmtNode(s), StmtNode(t), <<"via", key>>)

CallRefs    == {r \in refs : r.kind = "call"}
RefsDone    == step \in {"semantics", "overrides", "stmts", "done"}
SummaryDone == step \in {"overrides", "stmts", "done"}

IsCallEdge(e) ==
  \/ RefsDone /\ \E r \in CallRefs : e = RefEdge(r)
  \/ SummaryDone /\ \E i \in Ids : \E t \in summary[i].transitive : e = FarEdge(i, t)
  \/ step = "done" /\ \E s \in stmts : \E t \in s.calls : e = StmtEdge(s, t)

IsFlowEdge(e) ==
  step = "done" /\ \E t \in stmts : \E key \in t.reads : \E s \in Writers(t, key) : e = FlowEdge(s, t, key)

EdgeInv ==
  /\ \A e \in edges : (e.type = "CALLS" => IsCallEdge(e)) /\ (e.type = "DATA_FLOW" => IsFlowEdge(e))
  /\ RefsDone => \A r \in CallRefs : RefEdge(r) \in edges
  /\ SummaryDone => \A i \in Ids : Cardinality(summary[i].transitive) <= FieldCap =>
       \A t \in summary[i].transitive : FarEdge(i, t) \in edges
  /\ step = "done" => \A t \in stmts : Whole(t, FlowCap) =>
       \A key \in t.reads : \A s \in Writers(t, key) : FlowEdge(s, t, key) \in edges

\* An edge that is neither a call nor a flow.
Other(e) == e.type \notin {"CALLS", "DATA_FLOW"}

LEMMA EdgeType == \A type, from, to, meta : Edge(type, from, to, meta).type = type
  BY DEF Edge

\* What the index says stays when it does.
LEMMA RecordsStay ==
  ASSUME UNCHANGED index
  PROVE  /\ CallRefs' = CallRefs /\ Ids' = Ids /\ summary' = summary /\ stmts' = stmts
         /\ \A t, key : Writers(t, key)' = Writers(t, key)
         /\ \A t, cap : Whole(t, cap)' <=> Whole(t, cap)
  BY DEF index, CallRefs, Ids, Writers, Whole, Sym, Expressions

LEMMA OldEdges ==
  ASSUME EdgeInv, UNCHANGED index, NEW e \in edges,
         RefsDone => RefsDone', SummaryDone => SummaryDone', step = "done" => step' = "done"
  PROVE  (e.type = "CALLS" => IsCallEdge(e)') /\ (e.type = "DATA_FLOW" => IsFlowEdge(e)')
<1>1. /\ CallRefs' = CallRefs /\ Ids' = Ids /\ summary' = summary /\ stmts' = stmts
      /\ \A t, key : Writers(t, key)' = Writers(t, key)
  BY RecordsStay
<1>2. /\ \A r : RefEdge(r)' = RefEdge(r)
      /\ \A i, t : FarEdge(i, t)' = FarEdge(i, t)
      /\ \A s, t : StmtEdge(s, t)' = StmtEdge(s, t)
      /\ \A s, t, key : FlowEdge(s, t, key)' = FlowEdge(s, t, key)
  BY DEF RefEdge, FarEdge, StmtEdge, FlowEdge
<1>3. e.type = "CALLS" => IsCallEdge(e)'
  <2> SUFFICES ASSUME IsCallEdge(e) PROVE IsCallEdge(e)'
    BY DEF EdgeInv
  <2>1. CASE RefsDone /\ \E r \in CallRefs : e = RefEdge(r)
    BY <1>1, <1>2, <2>1 DEF IsCallEdge
  <2>2. CASE SummaryDone /\ \E i \in Ids : \E t \in summary[i].transitive : e = FarEdge(i, t)
    BY <1>1, <1>2, <2>2 DEF IsCallEdge
  <2>3. CASE step = "done" /\ \E s \in stmts : \E t \in s.calls : e = StmtEdge(s, t)
    BY <1>1, <1>2, <2>3 DEF IsCallEdge
  <2> QED BY <2>1, <2>2, <2>3 DEF IsCallEdge
<1>4. e.type = "DATA_FLOW" => IsFlowEdge(e)'
  BY <1>1, <1>2 DEF EdgeInv, IsFlowEdge
<1> QED BY <1>3, <1>4

\* A pass that makes neither calls nor flows, and is none the others wait for.
LEMMA OtherPass ==
  ASSUME EdgeInv, UNCHANGED index, NEW E, edges' = edges \cup E, \A e \in E : Other(e),
         step' # "done", RefsDone' <=> RefsDone, SummaryDone' <=> SummaryDone, step # "done"
  PROVE  EdgeInv'
<1>1. \A e \in edges' : (e.type = "CALLS" => IsCallEdge(e)') /\ (e.type = "DATA_FLOW" => IsFlowEdge(e)')
  BY OldEdges DEF Other
<1>2. /\ CallRefs' = CallRefs /\ Ids' = Ids /\ summary' = summary
      /\ \A r : RefEdge(r)' = RefEdge(r)
      /\ \A i, t : FarEdge(i, t)' = FarEdge(i, t)
  BY RecordsStay DEF RefEdge, FarEdge
<1> QED BY <1>1, <1>2 DEF EdgeInv

-----------------------------------------------------------------------------
(* No pass makes an edge of these types but from such a record *)

LEMMA FilesOther == EdgeInv /\ AddFiles => EdgeInv'
<1> SUFFICES ASSUME EdgeInv, AddFiles PROVE EdgeInv'
  OBVIOUS
<1>1. \E E : edges' = edges \cup E /\ \A e \in E : e.type = "CONTAINS"
  <2> DEFINE Contains(a, b) == Edge("CONTAINS", a, b, Plain)
             Files == DOMAIN repo.files
             Ups(f) == {Contains(Directory(Upto(repo.files[f].dir, n - 1)),
                                 Directory(Upto(repo.files[f].dir, n))) :
                          n \in 1..Len(repo.files[f].dir)}
             E1 == {Contains(Repository, Directory(<<>>))}
             E2 == {Contains(Repository, Package(p)) : p \in Packages}
             E3 == UNION {Ups(f) : f \in Files}
             E4 == {Contains(Repository, FileNode(f)) : f \in Files}
             E5 == {Contains(Directory(Deepest(repo.files[f].dir)), FileNode(f)) : f \in Files}
             E6 == {Contains(Package(repo.files[f].package), FileNode(f)) :
                      f \in {g \in Files : repo.files[g].package # ""}}
             E == E1 \cup E2 \cup E3 \cup E4 \cup E5 \cup E6
  <2>1. edges' = edges \cup E
    BY DEF AddFiles, Add
  <2>2. \A a, b : Contains(a, b).type = "CONTAINS"
    BY EdgeType
  <2> HIDE DEF Contains
  <2>3. \A e \in E : e.type = "CONTAINS"
    <3>1. \A e \in E1 \cup E2 : e.type = "CONTAINS"
      BY <2>2
    <3>2. \A f : \A e \in Ups(f) : e.type = "CONTAINS"
      BY <2>2
    <3>3. \A e \in E3 : e.type = "CONTAINS"
      <4> HIDE DEF Ups
      <4> QED BY <3>2
    <3>4. \A e \in E4 \cup E5 \cup E6 : e.type = "CONTAINS"
      BY <2>2
    <3> HIDE DEF E1, E2, E3, E4, E5, E6
    <3> QED BY <3>1, <3>3, <3>4
  <2> QED BY <2>1, <2>3
<1>2. step = "files" /\ step' = "symbols" /\ UNCHANGED index
  BY DEF AddFiles, Pass
<1> QED BY <1>1, <1>2, OtherPass DEF Other, RefsDone, SummaryDone

LEMMA SymbolsOther == EdgeInv /\ AddSymbols => EdgeInv'
<1> SUFFICES ASSUME EdgeInv, AddSymbols PROVE EdgeInv'
  OBVIOUS
<1> DEFINE Top     == {i \in Ids : Sym(i).container = 0}
           Tests   == {i \in Ids : Sym(i).test = 1}
           Traits  == {i \in DOMAIN impls : impls[i].trait.name # <<>>}
           E1 == {Edge("CONTAINS", Node(Sym(i).container), Node(i), Plain) : i \in Ids \ Top}
           E2 == {Edge("DEFINES", FileNode(Sym(i).file), Node(i), Plain) : i \in Top}
           E3 == {Edge("DECLARES", FileNode(Sym(i).file), Node(i), Plain) : i \in Top}
           E4 == {Edge("DECLARES", Node(i), TestNode(i), Plain) : i \in Tests}
           E5 == {Edge("REFERENCES", Node(i), Target(impls[i].target), Plain) : i \in DOMAIN impls}
           E6 == {Edge("IMPLEMENTS", Node(i), Target(impls[i].trait), Plain) : i \in Traits}
           E7 == {Edge("INHERITS", Node(p.trait), p.to, Plain) : p \in supers}
           E == E1 \cup E2 \cup E3 \cup E4 \cup E5 \cup E6 \cup E7
<1>1. edges' = edges \cup E
  BY DEF AddSymbols, Add
<1>2. \A e \in E : Other(e)
  <2>1. \A e \in E1 \cup E2 \cup E3 \cup E4 : Other(e)
    BY EdgeType DEF Other
  <2>2. \A e \in E5 \cup E6 \cup E7 : Other(e)
    BY EdgeType DEF Other
  <2> HIDE DEF E1, E2, E3, E4, E5, E6, E7
  <2> QED BY <2>1, <2>2
<1>3. step = "symbols" /\ step' = "imports" /\ UNCHANGED index
  BY DEF AddSymbols, Pass
<1> HIDE DEF E
<1> QED BY <1>1, <1>2, <1>3, OtherPass DEF RefsDone, SummaryDone

LEMMA ImportsOther == EdgeInv /\ AddImports => EdgeInv'
<1> SUFFICES ASSUME EdgeInv, AddImports PROVE EdgeInv'
  OBVIOUS
<1> DEFINE From(m) == IF m.container = 0 THEN FileNode(m.file) ELSE Node(m.container)
           E == {Edge("IMPORTS", From(m), ImportTarget(m.to), Plain) : m \in imports}
<1>1. edges' = edges \cup E
  BY DEF AddImports, Add
<1>2. \A e \in E : Other(e)
  <2> HIDE DEF From
  <2> QED BY EdgeType DEF Other
<1>3. step = "imports" /\ step' = "refs" /\ UNCHANGED index
  BY DEF AddImports, Pass
<1> HIDE DEF E
<1> QED BY <1>1, <1>2, <1>3, OtherPass DEF RefsDone, SummaryDone

LEMMA OverridesOther == EdgeInv /\ AddOverrides => EdgeInv'
<1> SUFFICES ASSUME EdgeInv, AddOverrides PROVE EdgeInv'
  OBVIOUS
<1> DEFINE Near == {p \in Ids \X Ids : Adjacent(p[1], p[2]) \/ Adjacent(p[2], p[1])}
           E1 == UNION {{Edge("OVERRIDES", Node(i), Node(j), Plain) : j \in Overridden(i)} : i \in Ids}
           E2 == {Edge("NEIGHBOR", Node(p[1]), Node(p[2]), Plain) : p \in Near}
           E  == E1 \cup E2
<1>1. edges' = edges \cup E
  BY DEF AddOverrides, Add
<1>2. \A e \in E : Other(e)
  <2> HIDE DEF Near
  <2> QED BY EdgeType DEF Other
<1>3. step = "overrides" /\ step' = "stmts" /\ UNCHANGED index
  BY DEF AddOverrides, Pass
<1> HIDE DEF E
<1> QED BY <1>1, <1>2, <1>3, OtherPass DEF RefsDone, SummaryDone

LEMMA ReferencesMade == EdgeInv /\ AddReferences => EdgeInv'
<1> SUFFICES ASSUME EdgeInv, AddReferences PROVE EdgeInv'
  OBVIOUS
<1> DEFINE Type(r) == IF r.kind = "call" THEN "CALLS" ELSE "USES"
           Uses    == {r \in refs : r.kind = "use"}
           Tests   == {r \in refs : Sym(r.from).test = 1}
           E1 == {Edge(Type(r), Node(r.from), r.to, Line(r.line)) : r \in refs}
           E2 == {Edge("USES_TYPE", Node(r.from), r.to, Line(r.line)) : r \in Uses}
           E3 == {Edge("TESTS", TestNode(r.from), r.to, <<r.kind, r.line>>) : r \in Tests}
<1>1. edges' = edges \cup E1 \cup E2 \cup E3
  BY DEF AddReferences, Add
<1>2. /\ \A e \in E1 : Other(e) \/ \E r \in CallRefs : e = RefEdge(r)
      /\ \A r \in CallRefs : RefEdge(r) \in E1
      /\ \A e \in E2 \cup E3 : Other(e)
  <2>1. ASSUME NEW e \in E1 PROVE Other(e) \/ \E r \in CallRefs : e = RefEdge(r)
    <3>1. PICK r \in refs : e = Edge(Type(r), Node(r.from), r.to, Line(r.line))
      OBVIOUS
    <3>2. e.type = Type(r)
      <4> HIDE DEF Type
      <4> QED BY <3>1, EdgeType
    <3> QED BY <3>1, <3>2 DEF Other, CallRefs, RefEdge
  <2>2. \A r \in CallRefs : RefEdge(r) \in E1
    BY DEF CallRefs, RefEdge
  <2>3. \A e \in E2 \cup E3 : Other(e)
    <3>1. \A e \in E2 : Other(e)
      <4> HIDE DEF Uses
      <4> QED BY EdgeType DEF Other
    <3>2. ASSUME NEW e \in E3 PROVE Other(e)
      <4>1. \E from, to, meta : e = Edge("TESTS", from, to, meta)
        OBVIOUS
      <4> QED BY <4>1, EdgeType DEF Other
    <3> HIDE DEF E2, E3
    <3> QED BY <3>1, <3>2
  <2> QED BY <2>1, <2>2, <2>3
<1>3. step = "refs" /\ step' = "semantics" /\ UNCHANGED index
  BY DEF AddReferences, Pass
<1>4. CallRefs' = CallRefs /\ \A r : RefEdge(r)' = RefEdge(r)
  BY <1>3, RecordsStay DEF RefEdge
<1> HIDE DEF E1, E2, E3
<1>5. ASSUME NEW e \in edges'
      PROVE  (e.type = "CALLS" => IsCallEdge(e)') /\ (e.type = "DATA_FLOW" => IsFlowEdge(e)')
  <2>1. CASE e \in edges
    BY <1>3, <2>1, OldEdges DEF RefsDone, SummaryDone
  <2>2. CASE Other(e)
    BY <2>2 DEF Other
  <2>3. CASE \E r \in CallRefs : e = RefEdge(r)
    <3>1. e.type = "CALLS"
      BY <2>3, EdgeType DEF RefEdge
    <3> QED BY <1>3, <1>4, <2>3, <3>1 DEF IsCallEdge, RefsDone
  <2> QED BY <1>1, <1>2, <2>1, <2>2, <2>3
<1> QED BY <1>1, <1>2, <1>3, <1>4, <1>5 DEF EdgeInv, SummaryDone

LEMMA SemanticsMade == EdgeInv /\ AddSemantics => EdgeInv'
<1> SUFFICES ASSUME EdgeInv, AddSemantics PROVE EdgeInv'
  OBVIOUS
<1>0. PICK kept : /\ FarKept(kept)
                  /\ Add(RefNodes(UNION {kept[k] : k \in Ids \X Semantics}), FarEdges(kept))
  BY SemanticsKept
<1> DEFINE E == FarEdges(kept)
<1>1. edges' = edges \cup E
  BY <1>0 DEF Add
<1>2. \A e \in E : Other(e) \/ \E i \in Ids : \E t \in summary[i].transitive : e = FarEdge(i, t)
  <2> SUFFICES ASSUME NEW e \in E
               PROVE  Other(e) \/ \E j \in Ids : \E u \in summary[j].transitive : e = FarEdge(j, u)
    OBVIOUS
  <2>1. PICK i \in Ids, f \in Semantics : \E t \in kept[<<i, f>>] : e = Edge(f[1], Node(i), t, Level(f[3]))
    BY FarEdgeIs
  <2>2. PICK t \in kept[<<i, f>>] : e = Edge(f[1], Node(i), t, Level(f[3]))
    BY <2>1
  <2>3. e.type = f[1] /\ t \in summary[i][f[2]]
    BY <1>0, <2>2, EdgeType DEF FarKept
  <2>4. f[1] \in {"READS", "WRITES", "REFS"} \/ f = <<"CALLS", "transitive", "transitive">>
    BY DEF Semantics
  <2> QED BY <2>2, <2>3, <2>4 DEF Other, FarEdge
<1>3. \A i \in Ids : Cardinality(summary[i].transitive) <= FieldCap =>
        \A t \in summary[i].transitive : FarEdge(i, t) \in E
  <2> DEFINE f == <<"CALLS", "transitive", "transitive">>
  <2>1. f \in Semantics /\ f[1] = "CALLS" /\ f[2] = "transitive" /\ f[3] = "transitive"
    BY DEF Semantics
  <2> HIDE DEF f
  <2>2. \A i, t : FarEdge(i, t) = Edge(f[1], Node(i), t, Level(f[3]))
    BY <2>1 DEF FarEdge
  <2>3. \A i \in Ids : \A t \in kept[<<i, f>>] : Edge(f[1], Node(i), t, Level(f[3])) \in E
    BY <2>1, FarEdgeIs
  <2>4. \A i \in Ids : Cardinality(summary[i].transitive) <= FieldCap => kept[<<i, f>>] = summary[i].transitive
    BY <1>0, <2>1 DEF FarKept
  <2> HIDE DEF E
  <2> QED BY <2>2, <2>3, <2>4
<1>4. step = "semantics" /\ step' = "overrides" /\ UNCHANGED index
  BY DEF AddSemantics, Pass
<1>5. /\ CallRefs' = CallRefs /\ Ids' = Ids /\ summary' = summary
      /\ \A r : RefEdge(r)' = RefEdge(r)
      /\ \A i, t : FarEdge(i, t)' = FarEdge(i, t)
  BY <1>4, RecordsStay DEF RefEdge, FarEdge
<1> HIDE DEF E
<1>6. ASSUME NEW e \in edges'
      PROVE  (e.type = "CALLS" => IsCallEdge(e)') /\ (e.type = "DATA_FLOW" => IsFlowEdge(e)')
  <2>1. CASE e \in edges
    BY <1>4, <2>1, OldEdges DEF RefsDone, SummaryDone
  <2>2. CASE Other(e)
    BY <2>2 DEF Other
  <2>3. CASE \E i \in Ids : \E t \in summary[i].transitive : e = FarEdge(i, t)
    <3>1. e.type = "CALLS"
      BY <2>3, EdgeType DEF FarEdge
    <3> QED BY <1>4, <1>5, <2>3, <3>1 DEF IsCallEdge, SummaryDone
  <2> QED BY <1>1, <1>2, <2>1, <2>2, <2>3
<1> QED BY <1>1, <1>3, <1>4, <1>5, <1>6 DEF EdgeInv, RefsDone, SummaryDone

LEMMA StatementsMade == EdgeInv /\ AddStatements => EdgeInv'
<1> SUFFICES ASSUME EdgeInv, AddStatements PROVE EdgeInv'
  OBVIOUS
<1>0. PICK kept, read :
        /\ \A s \in stmts : \A f \in Parts : kept[<<s, f>>] \subseteq s[f]
        /\ \A s \in stmts : read[s] \subseteq s.reads /\ (Whole(s, FlowCap) => read[s] = s.reads)
        /\ Add({StmtNode(s) : s \in stmts} \cup RefNodes(UNION {kept[k] : k \in stmts \X Parts}),
               OrderEdges \cup FactEdges(kept) \cup FlowsRead(read))
  BY StatementsCut
<1> DEFINE Of(s, k) == <<"stmt", s.fn, k>>
           E1 == {Edge("CONTAINS", Node(s.fn), StmtNode(s), Plain) : s \in stmts}
           E2 == UNION {{Edge("CONTROL_FLOW", Of(s, k), StmtNode(s), Plain) : k \in s.previous} :
                            s \in stmts}
           E3 == UNION {{Edge("DEPENDENCE", Of(s, k), StmtNode(s), Plain) : k \in s.parent} :
                            s \in stmts}
           E4 == FactEdges(kept)
           E5 == FlowsRead(read)
<1>1. edges' = edges \cup E1 \cup E2 \cup E3 \cup E4 \cup E5
  BY <1>0 DEF Add, OrderEdges
<1>2. \A e \in E1 \cup E2 \cup E3 : Other(e)
  <2> HIDE DEF Of
  <2> QED BY EdgeType DEF Other
<1>3. \A e \in E4 : Other(e) \/ \E s \in stmts : \E t \in s.calls : e = StmtEdge(s, t)
  <2> SUFFICES ASSUME NEW e \in E4
               PROVE  Other(e) \/ \E u \in stmts : \E v \in u.calls : e = StmtEdge(u, v)
    OBVIOUS
  <2>1. PICK s \in stmts, f \in Facts : \E t \in kept[<<s, f[2]>>] : e = Edge(f[1], StmtNode(s), t, Line(s.line))
    BY FactEdgeIs
  <2>2. PICK t \in kept[<<s, f[2]>>] : e = Edge(f[1], StmtNode(s), t, Line(s.line))
    BY <2>1
  <2>3. e.type = f[1] /\ f[2] \in Parts
    BY <2>2, EdgeType DEF Facts, Parts
  <2>4. t \in s[f[2]]
    BY <1>0, <2>3
  <2>5. f[1] \in {"DEFINES", "READS", "WRITES", "REFS"} \/ f = <<"CALLS", "calls">>
    BY DEF Facts
  <2> QED BY <2>2, <2>3, <2>4, <2>5 DEF Other, StmtEdge
<1>4. \A e \in E5 : \E t \in stmts : \E key \in t.reads : \E s \in Writers(t, key) : e = FlowEdge(s, t, key)
  <2>1. \A e \in E5 : \E t \in stmts : \E key \in read[t] : \E s \in Writers(t, key) : e = FlowEdge(s, t, key)
    BY DEF FlowsRead, FlowEdge
  <2> HIDE DEF E5
  <2> QED BY <1>0, <2>1
<1>5. \A t \in stmts : Whole(t, FlowCap) =>
        \A key \in t.reads : \A s \in Writers(t, key) : FlowEdge(s, t, key) \in E5
  <2>1. \A t \in stmts : \A key \in read[t] : \A s \in Writers(t, key) : FlowEdge(s, t, key) \in E5
    BY DEF FlowsRead, FlowEdge
  <2> HIDE DEF E5
  <2> QED BY <1>0, <2>1
<1>6. step = "stmts" /\ step' = "done" /\ UNCHANGED index
  BY DEF AddStatements, Pass
<1>7. /\ CallRefs' = CallRefs /\ Ids' = Ids /\ summary' = summary /\ stmts' = stmts
      /\ \A t, key : Writers(t, key)' = Writers(t, key)
      /\ \A t : Whole(t, FlowCap)' <=> Whole(t, FlowCap)
      /\ \A r : RefEdge(r)' = RefEdge(r)
      /\ \A i, t : FarEdge(i, t)' = FarEdge(i, t)
      /\ \A s, t : StmtEdge(s, t)' = StmtEdge(s, t)
      /\ \A s, t, key : FlowEdge(s, t, key)' = FlowEdge(s, t, key)
  BY <1>6, RecordsStay DEF RefEdge, FarEdge, StmtEdge, FlowEdge
<1> HIDE DEF E1, E2, E3, E4, E5, Of
<1>8. ASSUME NEW e \in edges'
      PROVE  (e.type = "CALLS" => IsCallEdge(e)') /\ (e.type = "DATA_FLOW" => IsFlowEdge(e)')
  <2>1. CASE e \in edges
    BY <1>6, <2>1, OldEdges DEF RefsDone, SummaryDone
  <2>2. CASE Other(e)
    BY <2>2 DEF Other
  <2>3. CASE \E s \in stmts : \E t \in s.calls : e = StmtEdge(s, t)
    <3>1. e.type = "CALLS"
      BY <2>3, EdgeType DEF StmtEdge
    <3> QED BY <1>6, <1>7, <2>3, <3>1 DEF IsCallEdge
  <2>4. CASE e \in E5
    <3>1. e.type = "DATA_FLOW"
      <4>1. \E s, t, key : e = FlowEdge(s, t, key)
        BY <1>4, <2>4
      <4>2. \A u, v, k : FlowEdge(u, v, k).type = "DATA_FLOW"
        BY EdgeType DEF FlowEdge
      <4> QED BY <4>1, <4>2
    <3> QED BY <1>4, <1>6, <1>7, <2>4, <3>1 DEF IsFlowEdge
  <2> QED BY <1>1, <1>2, <1>3, <2>1, <2>2, <2>3, <2>4
<1> QED BY <1>1, <1>5, <1>6, <1>7, <1>8 DEF EdgeInv, RefsDone, SummaryDone

LEMMA EdgeInvNext == TypeOK /\ EdgeInv /\ [Next]_vars => EdgeInv'
<1> SUFFICES ASSUME TypeOK, EdgeInv, [Next]_vars PROVE EdgeInv'
  OBVIOUS
<1>1. CASE IndexNext /\ UNCHANGED graph
  <2>1. step = "files" /\ step' = "files" /\ edges' = edges
    <3>1. pass # "indexed"
      BY <1>1 DEF IndexNext, BuildRecords, BuildImport, ImportsDone, ResolveImpls, ResolveSupers,
                  BuildReferences, BuildStatements, SummarizeDirect, SummarizeFar
    <3> QED BY <1>1, <3>1 DEF TypeOK, PassesOK, graph
  <2>2. \A e \in edges : Other(e)
    BY <2>1 DEF EdgeInv, IsCallEdge, IsFlowEdge, RefsDone, SummaryDone, Other
  <2> QED BY <2>1, <2>2 DEF EdgeInv, Other, RefsDone, SummaryDone
<1>2. CASE GraphNext
  BY <1>2, FilesOther, SymbolsOther, ImportsOther, OverridesOther, ReferencesMade, SemanticsMade,
     StatementsMade DEF GraphNext
<1>3. CASE UNCHANGED vars
  <2>1. UNCHANGED index /\ step' = step /\ edges' = edges
    BY <1>3 DEF vars, graph
  <2>2. \A e \in edges' : (e.type = "CALLS" => IsCallEdge(e)') /\ (e.type = "DATA_FLOW" => IsFlowEdge(e)')
    BY <2>1, OldEdges DEF RefsDone, SummaryDone
  <2>3. /\ CallRefs' = CallRefs /\ Ids' = Ids /\ summary' = summary /\ stmts' = stmts
        /\ \A t, key : Writers(t, key)' = Writers(t, key)
        /\ \A t : Whole(t, FlowCap)' <=> Whole(t, FlowCap)
        /\ \A r : RefEdge(r)' = RefEdge(r)
        /\ \A i, t : FarEdge(i, t)' = FarEdge(i, t)
        /\ \A s, t, key : FlowEdge(s, t, key)' = FlowEdge(s, t, key)
    BY <2>1, RecordsStay DEF RefEdge, FarEdge, FlowEdge
  <2> QED BY <2>1, <2>2, <2>3 DEF EdgeInv, RefsDone, SummaryDone
<1> QED BY <1>1, <1>2, <1>3 DEF Next, Done

-----------------------------------------------------------------------------
(* What the edges of the finished artifact say of calls *)

LEMMA CallsInit == Init => CallsInv /\ EdgeInv
BY DEF Init, IndexInit, GraphInit, CallsInv, EdgeInv, RefsDone, SummaryDone

\* Which edges of the finished artifact are a direct call, and which a
\* transitive one.
LEMMA CallEdges ==
  ASSUME CallsInv, EdgeInv, TypeOK, step = "done", NEW i \in Functions, NEW n
  PROVE  /\ n \in summary[i].calls <=>
              \E e \in edges : e.type = "CALLS" /\ e.from = Node(i) /\ e.meta[1] = "line" /\ e.to = n
         /\ Edge("CALLS", Node(i), n, Level("transitive")) \in edges => n \in summary[i].transitive
         /\ n \in summary[i].transitive /\ Cardinality(summary[i].transitive) <= FieldCap
            => Edge("CALLS", Node(i), n, Level("transitive")) \in edges
<1>1. /\ i \in Ids /\ RefsDone /\ SummaryDone /\ pass = "indexed"
      /\ summary[i].calls = {r.to : r \in {x \in CallRefs : x.from = i}}
  BY DEF Functions, RefsDone, SummaryDone, TypeOK, PassesOK, CallsInv, DirectCalls, CallRefs
<1>2. /\ \A r : /\ RefEdge(r).from = Node(r.from) /\ RefEdge(r).to = r.to
                 /\ RefEdge(r).meta[1] = "line" /\ RefEdge(r).type = "CALLS"
      /\ \A j, t : /\ FarEdge(j, t).from = Node(j) /\ FarEdge(j, t).to = t
                    /\ FarEdge(j, t).meta[1] = "level" /\ FarEdge(j, t).type = "CALLS"
      /\ \A s, t, j : StmtEdge(s, t).from # Node(j)
      /\ \A j, k : Node(j) = Node(k) => j = k
  <2>1. \A r : /\ RefEdge(r).from = Node(r.from) /\ RefEdge(r).to = r.to
               /\ RefEdge(r).meta = Line(r.line) /\ RefEdge(r).type = "CALLS"
    BY DEF RefEdge, Edge
  <2>2. \A j, t : /\ FarEdge(j, t).from = Node(j) /\ FarEdge(j, t).to = t
                  /\ FarEdge(j, t).meta = Level("transitive") /\ FarEdge(j, t).type = "CALLS"
    BY DEF FarEdge, Edge
  <2>3. \A s, t : StmtEdge(s, t).from = StmtNode(s)
    BY DEF StmtEdge, Edge
  <2>4. \A k : Line(k)[1] = "line" /\ Level(k)[1] = "level"
    BY DEF Line, Level
  <2>5. \A s, j : StmtNode(s)[1] = "stmt" /\ Node(j)[1] = "sym" /\ Node(j)[2] = j
    BY DEF StmtNode, Node
  <2>6. \A s, t, j : StmtEdge(s, t).from # Node(j)
    <3> SUFFICES ASSUME NEW s, NEW t, NEW j, StmtEdge(s, t).from = Node(j) PROVE FALSE
      OBVIOUS
    <3> QED BY <2>3, <2>5
  <2>7. \A j, k : Node(j) = Node(k) => j = k
    BY <2>5
  <2>8. /\ \A r : RefEdge(r).meta[1] = "line"
        /\ \A j, t : FarEdge(j, t).meta[1] = "level"
    <3>1. ASSUME NEW r PROVE RefEdge(r).meta[1] = "line"
      <4>1. RefEdge(r).meta = Line(r.line) /\ Line(r.line)[1] = "line"
        BY <2>1, <2>4
      <4> QED BY <4>1
    <3>2. ASSUME NEW j, NEW t PROVE FarEdge(j, t).meta[1] = "level"
      <4>1. FarEdge(j, t).meta = Level("transitive") /\ Level("transitive")[1] = "level"
        BY <2>2, <2>4
      <4> QED BY <4>1
    <3> QED BY <3>1, <3>2
  <2> QED BY <2>1, <2>2, <2>6, <2>7, <2>8
<1>3. \A e \in edges : e.type = "CALLS" =>
         \/ \E r \in CallRefs : e = RefEdge(r)
         \/ \E j \in Ids : \E t \in summary[j].transitive : e = FarEdge(j, t)
         \/ \E s, t : e = StmtEdge(s, t)
  BY DEF EdgeInv, IsCallEdge
<1>4. n \in summary[i].calls <=>
        \E e \in edges : e.type = "CALLS" /\ e.from = Node(i) /\ e.meta[1] = "line" /\ e.to = n
  <2>1. ASSUME n \in summary[i].calls
        PROVE  \E e \in edges : e.type = "CALLS" /\ e.from = Node(i) /\ e.meta[1] = "line" /\ e.to = n
    <3>1. PICK r \in CallRefs : r.from = i /\ r.to = n
      BY <1>1, <2>1
    <3>2. RefEdge(r) \in edges
      BY <1>1 DEF EdgeInv
    <3> QED BY <1>2, <3>1, <3>2
  <2>2. ASSUME NEW e \in edges, e.type = "CALLS", e.from = Node(i), e.meta[1] = "line", e.to = n
        PROVE  n \in summary[i].calls
    <3>1. CASE \E r \in CallRefs : e = RefEdge(r)
      <4>1. PICK r \in CallRefs : e = RefEdge(r)
        BY <3>1
      <4>2. r.from = i /\ r.to = n
        BY <1>2, <2>2, <4>1
      <4> QED BY <1>1, <4>1, <4>2
    <3>2. ~ \E j, t : e = FarEdge(j, t)
      BY <1>2, <2>2
    <3>3. ~ \E s, t : e = StmtEdge(s, t)
      BY <1>2, <2>2
    <3> QED BY <1>3, <2>2, <3>1, <3>2, <3>3
  <2> QED BY <2>1, <2>2
<1>5. /\ Edge("CALLS", Node(i), n, Level("transitive")) \in edges => n \in summary[i].transitive
      /\ n \in summary[i].transitive /\ Cardinality(summary[i].transitive) <= FieldCap
         => Edge("CALLS", Node(i), n, Level("transitive")) \in edges
  <2> DEFINE e == Edge("CALLS", Node(i), n, Level("transitive"))
  <2>1. e = FarEdge(i, n) /\ e.type = "CALLS" /\ e.from = Node(i) /\ e.to = n /\ e.meta[1] = "level"
    <3>1. e = FarEdge(i, n)
      BY DEF FarEdge
    <3> HIDE DEF e
    <3> QED BY <1>2, <3>1
  <2>2. n \in summary[i].transitive /\ Cardinality(summary[i].transitive) <= FieldCap => e \in edges
    BY <1>1, <2>1 DEF EdgeInv
  <2>3. ASSUME e \in edges PROVE n \in summary[i].transitive
    <3> HIDE DEF e
    <3>1. (~ \E r : e = RefEdge(r)) /\ (~ \E s, t : e = StmtEdge(s, t))
      BY <1>2, <2>1
    <3>2. PICK j \in Ids : \E t \in summary[j].transitive : e = FarEdge(j, t)
      BY <1>3, <2>1, <2>3, <3>1
    <3>3. j = i /\ n \in summary[j].transitive
      BY <1>2, <2>1, <3>2
    <3> QED BY <3>3
  <2> QED BY <2>2, <2>3
<1> QED BY <1>4, <1>5

\* TransitiveIsReach: however many functions there are, however they call each
\* other and whatever the caps are, a function is linked to nothing it does not
\* reach by two or three calls, and where no cap is met on the way, in the two
\* levels, in the list and in the edges made of it, to all it reaches.
THEOREM TransitiveIsReachable == Spec => []TransitiveIsReach
<1>1. TypeOK /\ EdgesEndAtNodes /\ CallsInv /\ EdgeInv => TransitiveIsReach
  <2> SUFFICES ASSUME TypeOK, EdgesEndAtNodes, CallsInv, EdgeInv, step = "done" PROVE TransitiveIsReach
    BY DEF TransitiveIsReach
  <2> DEFINE Direct(i, n) == \E e \in edges :
                               e.type = "CALLS" /\ e.from = Node(i) /\ e.meta[1] = "line" /\ e.to = n
             Reaches(i, n) == \E a \in Functions :
                                /\ Direct(i, Node(a))
                                /\ \/ Direct(a, n)
                                   \/ \E b \in Functions : Direct(a, Node(b)) /\ Direct(b, n)
             Linked(i, n)  == Edge("CALLS", Node(i), n, Level("transitive")) \in edges
             Met(i)  == {n \in nodes : Reaches(i, n)}
             Past(i) == {p \in Functions \X nodes : Direct(i, Node(p[1])) /\ Direct(p[1], p[2])}
  <2>1. \A i \in Functions : \A n : Direct(i, n) <=> n \in summary[i].calls
    BY CallEdges
  <2>2. \A i \in Functions : \A n :
           /\ Linked(i, n) => n \in summary[i].transitive
           /\ n \in summary[i].transitive /\ Cardinality(summary[i].transitive) <= FieldCap => Linked(i, n)
    BY CallEdges
  <2>3. \A i \in Functions : i \in Ids /\ IsFunction(i)
    BY DEF Functions
  <2>4. \A i \in Ids : (\E n : n \in summary[i].calls) => i \in Functions
    BY DEF CallsInv, TypeOK, PassesOK, NoSummary, Functions
  <2>5. \A i \in Functions : \A n : /\ n \in summary[i].transitive => Onwards(i, n)
                                    /\ Fits(i) /\ Onwards(i, n) => n \in summary[i].transitive
    BY <2>3 DEF CallsInv, TypeOK, PassesOK
  <2>6. \A i, n : Direct(i, n) => n \in nodes
    BY DEF EdgesEndAtNodes
  <2> HIDE DEF Direct, Linked
  <2>7. \A i \in Functions : \A n : Reaches(i, n) <=> Onwards(i, n)
    BY <2>1, <2>3, <2>4 DEF Onwards
  <2>8. \A i, n : Reaches(i, n) => n \in nodes
    BY <2>6
  <2> HIDE DEF Reaches
  <2>9. ASSUME NEW i \in Functions PROVE Met(i) = Reached(i)
    <3>1. \A n : n \in Reached(i) <=> Onwards(i, n)
      BY DEF Reached, Onwards
    <3>2. \A n : n \in Met(i) <=> Reaches(i, n)
      BY <2>8
    <3> HIDE DEF Met
    <3>3. \A n : n \in Met(i) <=> n \in Reached(i)
      BY <2>7, <3>1, <3>2
    <3> QED BY <3>3
  <2>10. ASSUME NEW i \in Functions PROVE Past(i) = Beyond(i)
    <3>1. \A p : p \in Past(i) <=> \E a \in Functions, t \in nodes :
                    p = <<a, t>> /\ Direct(i, Node(a)) /\ Direct(a, t)
      OBVIOUS
    <3>2. \A p : p \in Beyond(i) <=> \E a \in Ids : Node(a) \in summary[i].calls
                                     /\ \E t \in summary[a].calls : p = <<a, t>>
      BY DEF Beyond
    <3> HIDE DEF Past
    <3>3. \A p : p \in Past(i) <=> p \in Beyond(i)
      BY <2>1, <2>3, <2>4, <2>6, <3>1, <3>2
    <3> QED BY <3>3
  <2>11. ASSUME NEW i \in Functions,
                Cardinality(Met(i)) <= TargetCap, Cardinality(Met(i)) <= FieldCap,
                Cardinality(Past(i)) <= FrontierCap
         PROVE  \A n \in Met(i) : Linked(i, n)
    <3>1. Fits(i)
      BY <2>9, <2>10, <2>11 DEF Fits
    <3>2. summary[i].transitive = Reached(i)
      <4>1. \A n : n \in summary[i].transitive <=> Onwards(i, n)
        BY <2>5, <3>1
      <4>2. \A n : n \in Reached(i) <=> Onwards(i, n)
        BY DEF Reached, Onwards
      <4> QED BY <4>1, <4>2
    <3> HIDE DEF Met
    <3> QED BY <2>2, <2>9, <2>11, <3>2
  <2>12. \A i \in Functions : \A n \in nodes : Linked(i, n) => Reaches(i, n)
    BY <2>2, <2>5, <2>7
  <2> HIDE DEF Met, Past
  <2>13. \A i \in Functions :
           /\ \A n \in nodes : Linked(i, n) => Reaches(i, n)
           /\ /\ Cardinality(Met(i)) <= TargetCap /\ Cardinality(Met(i)) <= FieldCap
              /\ Cardinality(Past(i)) <= FrontierCap
              => \A n \in Met(i) : Linked(i, n)
    BY <2>11, <2>12
  <2> QED BY <2>13, Zenon DEF TransitiveIsReach, Reaches, Direct, Linked, Met, Past
<1>2. GraphInv => EdgesEndAtNodes
  BY DEF GraphInv
<1>3. TypeOK /\ GraphInv /\ [Next]_vars => GraphInv'
  BY NodesMadeNext, EdgesNext DEF GraphInv
<1> QED BY <1>1, <1>2, <1>3, GraphInvInit, CallsInit, CallsNext, EdgeInvNext, TypeInit, TypeNext, PTL DEF Spec

-----------------------------------------------------------------------------
(* Paths *)

\* What two paths joined are.
LEMMA Joined ==
  ASSUME NEW S, NEW p \in Seq(S), NEW q \in Seq(S)
  PROVE  /\ p \o q \in Seq(S) /\ Len(p \o q) = Len(p) + Len(q)
         /\ p # <<>> => p \o q # <<>> /\ Head(p \o q) = Head(p)
         /\ q # <<>> => p \o q # <<>> /\ LastSeg(p \o q) = LastSeg(q)
<1>1. p \o q \in Seq(S) /\ Len(p \o q) = Len(p) + Len(q)
  BY ConcatProperties
<1>2. /\ Len(p) \in Nat /\ Len(q) \in Nat
      /\ p # <<>> => Len(p) >= 1
      /\ q # <<>> => Len(q) >= 1
  BY EmptySeq
<1>3. p # <<>> => p \o q # <<>> /\ Head(p \o q) = Head(p)
  BY <1>1, <1>2
<1>4. q # <<>> => p \o q # <<>> /\ LastSeg(p \o q) = LastSeg(q)
  BY <1>1, <1>2 DEF LastSeg
<1> QED BY <1>1, <1>3, <1>4

\* A path of at least two segments without its first one.
LEMMA TailOf ==
  ASSUME NEW S, NEW p \in Seq(S), Len(p) >= 2
  PROVE  /\ Tail(p) \in Seq(S) /\ Tail(p) # <<>> /\ LastSeg(Tail(p)) = LastSeg(p)
         /\ Len(Tail(p)) = Len(p) - 1
<1>1. Tail(p) \in Seq(S) /\ Len(Tail(p)) = Len(p) - 1 /\ Len(p) \in Nat
  BY HeadTailProperties, EmptySeq
<1>2. LastSeg(Tail(p)) = LastSeg(p)
  BY <1>1 DEF LastSeg
<1> QED BY <1>1, <1>2

\* A piece of a path.
LEMMA Piece ==
  ASSUME NEW S, NEW p \in Seq(S), NEW m \in 1..Len(p), NEW n \in m..Len(p)
  PROVE  /\ SubSeq(p, m, n) \in Seq(S) /\ SubSeq(p, m, n) # <<>>
         /\ LastSeg(SubSeq(p, m, n)) = p[n]
<1>1. m \in Nat /\ n \in Nat /\ m <= n /\ m >= 1 /\ n <= Len(p) /\ Len(p) \in Nat
  BY LenProperties
<1>2. \A i \in m..n : p[i] \in S
  BY <1>1, ElementOfSeq
<1>3. /\ SubSeq(p, m, n) \in Seq(S)
      /\ Len(SubSeq(p, m, n)) = n - m + 1
      /\ \A i \in 1..(n - m + 1) : SubSeq(p, m, n)[i] = p[m + i - 1]
  BY <1>1, <1>2, SubSeqProperties
<1>4. SubSeq(p, m, n)[n - m + 1] = p[n]
  BY <1>1, <1>3
<1> QED BY <1>1, <1>3, <1>4, EmptySeq DEF LastSeg

\* super:: leaves a module or the root and the rest of the path, which has
\* at least its last segment.
LEMMA SuperOf ==
  ASSUME NEW S, NEW e \in Seq(S), NEW module \in Seq(S), NEW root \in Seq(S),
         Len(e) >= 2, module # <<>>, root # <<>>
  PROVE  LET s == SuperPath(e, module, root)
         IN s \in Seq(S) /\ Len(s) >= 2 /\ LastSeg(s) = LastSeg(e) /\ Head(s) \in S
<1> DEFINE K == {k \in 1..(Len(e) - 1) : \A j \in 1..k : e[j] = "super"}
           n == Cardinality(K)
           front == IF n < Len(module) THEN SubSeq(module, 1, Len(module) - n) ELSE root
           rest  == SubSeq(e, n + 1, Len(e))
<1>1. n \in Nat /\ n <= Len(e) - 1
  <2>1. IsFiniteSet(1..(Len(e) - 1)) /\ Cardinality(1..(Len(e) - 1)) = Len(e) - 1
    BY FS_Interval
  <2> QED BY <2>1, FS_Subset, FS_CardinalityType
<1>2. SuperPath(e, module, root) = front \o rest
  BY DEF SuperPath
<1> HIDE DEF n
<1>3. front \in Seq(S) /\ front # <<>>
  <2>1. CASE n < Len(module)
    <3>1. Len(module) - n \in 1..Len(module)
      BY <1>1, <2>1, LenProperties
    <3> QED BY <2>1, <3>1, Piece, LenProperties
  <2>2. CASE ~(n < Len(module))
    BY <2>2
  <2> QED BY <2>1, <2>2
<1>4. rest \in Seq(S) /\ rest # <<>> /\ LastSeg(rest) = LastSeg(e)
  <2>1. n + 1 \in 1..Len(e) /\ Len(e) \in (n + 1)..Len(e)
    BY <1>1, LenProperties
  <2> QED BY <2>1, Piece DEF LastSeg
<1> HIDE DEF front, rest
<1> QED BY <1>2, <1>3, <1>4, Joined

-----------------------------------------------------------------------------
(* What a path may mean *)

Seg    == Words \cup {Sym(i).seg : i \in Ids} \cup Dots(DOMAIN Dot)
Names  == Seq(Seg) \ {<<>>}
AtOK(at) ==
  /\ at.file \in DOMAIN repo.files /\ at.module \in Path
  /\ \A x \in DOMAIN at.known : at.known[x] \in Seq(Path)

\* A condition gives at most one candidate.
LEMMA IfSeq == ASSUME NEW T, NEW c, NEW p \in T PROVE If(c, p) \in Seq(T)
<1>1. CASE c
  <2>1. If(c, p) = <<p>>
    BY <1>1 DEF If
  <2> QED BY <2>1
<1>2. CASE ~c
  <2>1. If(c, p) = <<>>
    BY <1>2 DEF If
  <2> QED BY <2>1, EmptySeq
<1> QED BY <1>1, <1>2

\* What the source writes is a name.
LEMMA PathsAreNames == Path \subseteq Names /\ Seq(Words) \subseteq Seq(Seg)
  BY SeqMonotonic DEF Path, Names, Seg

\* A path of more than one segment keeps the last one, whatever its first one
\* stands for.
LEMMA NormalizeLong ==
  ASSUME NEW file, FileOK(file), NEW module \in Path, NEW self \in Seq(Seg),
         NEW p \in Seq(Seg), Len(p) >= 2
  PROVE  /\ Normalize(p, module, file, self) \in Names
         /\ LastSeg(Normalize(p, module, file, self)) = LastSeg(p)
<1> DEFINE r == Normalize(p, module, file, self)
<1>1. /\ file.root \in Seq(Seg) /\ file.root # <<>> /\ module \in Seq(Seg) /\ module # <<>>
      /\ \A d \in DOMAIN file.deps : file.deps[d] \in Seq(Seg)
  BY PathsAreNames DEF FileOK, Names
<1>2. /\ Tail(p) \in Seq(Seg) /\ Tail(p) # <<>> /\ LastSeg(Tail(p)) = LastSeg(p) /\ p # <<>>
      /\ Len(p) > 1 /\ Len(p) # 1
  <2>1. Len(p) \in Nat
    BY LenProperties
  <2>2. \A n \in Nat : n >= 2 => n > 1 /\ n # 1 /\ n # 0
    OBVIOUS
  <2>3. Len(p) > 1 /\ Len(p) # 1 /\ p # <<>>
    BY <2>1, <2>2, EmptySeq
  <2> QED BY <2>3, TailOf
<1>3. \A q \in Seq(Seg) : q \o Tail(p) \in Names /\ LastSeg(q \o Tail(p)) = LastSeg(p)
  BY <1>2, Joined DEF Names
<1>4. CASE Head(p) = "Self" /\ self # NoSelf
  <2>1. r = self \o Tail(p)
    BY <1>4 DEF Normalize
  <2> QED BY <1>3, <2>1
<1>5. CASE ~(Head(p) = "Self" /\ self # NoSelf) /\ Head(p) = "crate"
  <2>1. r = file.root \o Tail(p)
    BY <1>2, <1>5 DEF Normalize
  <2> QED BY <1>1, <1>3, <2>1
<1>6. CASE ~(Head(p) = "Self" /\ self # NoSelf) /\ Head(p) = "super"
  <2>1. r = SuperPath(p, module, file.root)
    BY <1>2, <1>6 DEF Normalize
  <2>2. r \in Seq(Seg) /\ Len(r) >= 2 /\ LastSeg(r) = LastSeg(p)
    BY <1>1, <2>1, SuperOf
  <2> QED BY <2>2, EmptySeq DEF Names
<1>7. CASE ~(Head(p) = "Self" /\ self # NoSelf) /\ Head(p) \notin {"crate", "super"}
           /\ Head(p) \in DOMAIN file.deps
  <2>1. r = file.deps[Head(p)] \o Tail(p)
    BY <1>2, <1>7 DEF Normalize
  <2> QED BY <1>1, <1>3, <1>7, <2>1
<1>8. CASE ~(Head(p) = "Self" /\ self # NoSelf) /\ Head(p) \notin {"crate", "super"} \cup DOMAIN file.deps
  <2>1. r = p
    BY <1>2, <1>8 DEF Normalize
  <2> QED BY <1>2, <2>1 DEF Names
<1> QED BY <1>4, <1>5, <1>6, <1>7, <1>8

\* What an import brings is a path of identifiers.
LEMMA NormalizePath ==
  ASSUME NEW file, FileOK(file), NEW module \in Path, NEW p \in Path
  PROVE  Normalize(p, module, file, NoSelf) \in Path
<1> DEFINE r == Normalize(p, module, file, NoSelf)
<1>1. /\ file.root \in Path /\ p \in Seq(Words) /\ p # <<>>
      /\ \A d \in DOMAIN file.deps : file.deps[d] \in Path
  BY DEF FileOK, Path
<1>2. Tail(p) \in Seq(Words) /\ Len(p) \in Nat /\ Len(p) >= 1
  BY <1>1, HeadTailProperties, EmptySeq
<1>3. \A q \in Path : q \o Tail(p) \in Path /\ q \o p \in Path
  BY <1>1, <1>2, Joined DEF Path
<1>4. CASE Head(p) = "crate" /\ Len(p) > 1
  <2>1. r = file.root \o Tail(p)
    BY <1>4 DEF Normalize, NoSelf
  <2> QED BY <1>1, <1>3, <2>1
<1>5. CASE ~(Head(p) = "crate" /\ Len(p) > 1) /\ Head(p) = "super" /\ Len(p) > 1
  <2>1. r = SuperPath(p, module, file.root)
    BY <1>5 DEF Normalize, NoSelf
  <2>2. r \in Seq(Words) /\ Len(r) >= 2
    BY <1>1, <1>2, <1>5, <2>1, SuperOf DEF Path
  <2> QED BY <2>2, EmptySeq DEF Path
<1>6. CASE ~(Head(p) \in {"crate", "super"} /\ Len(p) > 1) /\ Head(p) \in DOMAIN file.deps
  <2>1. r = file.deps[Head(p)] \o Tail(p)
    BY <1>6 DEF Normalize, NoSelf
  <2> QED BY <1>1, <1>3, <1>6, <2>1
<1>7. CASE ~(Head(p) \in {"crate", "super"} /\ Len(p) > 1) /\ Head(p) \notin DOMAIN file.deps
  <2>1. r \in {p, module \o p}
    BY <1>7 DEF Normalize, NoSelf
  <2> QED BY <1>1, <1>3, <2>1
<1> QED BY <1>4, <1>5, <1>6, <1>7

\* What a path may mean is a name, and ends as the path does or as an
\* identifier the source imports.
LEMMA CandidatesOK ==
  ASSUME WellFormed(repo), NEW at, AtOK(at), NEW self \in Seq(Seg), NEW e \in Names
  PROVE  /\ Candidates(e, at, self) \in Seq({p \in Names : LastSeg(p) \in Words \cup {LastSeg(e)}})
         /\ Candidates(e, at, self) # <<>>
<1> DEFINE T == {p \in Names : LastSeg(p) \in Words \cup {LastSeg(e)}}
           file == repo.files[at.file]
           x    == Head(e)
           imported == Imported(at.known, x)
<1>1. /\ FileOK(file) /\ at.module \in Seq(Seg) /\ file.root \in Seq(Seg) /\ file.root # <<>>
      /\ at.module # <<>> /\ e \in Seq(Seg) /\ e # <<>> /\ Len(e) \in Nat /\ Len(e) >= 1
  <2>1. FileOK(file)
    BY DEF WellFormed, AtOK
  <2>2. file.root \in Names /\ at.module \in Names
    BY <2>1, PathsAreNames DEF FileOK, AtOK
  <2> QED BY <2>1, <2>2, EmptySeq DEF Names
<1>2. Path \subseteq T
  <2> SUFFICES ASSUME NEW p \in Path PROVE p \in T
    OBVIOUS
  <2>1. p \in Names
    BY PathsAreNames
  <2>2. LastSeg(p) \in Words
    BY EmptySeq, ElementOfSeq DEF Path, LastSeg
  <2> QED BY <2>1, <2>2
<1>3. imported \in Seq(Path)
  BY EmptySeq DEF Imported, AtOK
<1>4. \A c : \A p \in T : If(c, p) \in Seq(T)
  BY IfSeq
<1>5. \A q \in Seq(Seg) : q \o e \in T
  BY <1>1, Joined DEF Names
<1>6. CASE Len(e) = 1
  <2> DEFINE P1 == imported
             P2 == IF x \in DOMAIN file.deps THEN <<file.deps[x]>> ELSE <<>>
             P3 == If(self # NoSelf /\ x \notin Upper, self \o e)
             P4 == <<at.module \o e>>
             P5 == If(x \in Upper, file.root \o e)
             P6 == <<e>>
  <2>1. P1 \in Seq(T)
    BY <1>2, <1>3, SeqMonotonic
  <2>2. P2 \in Seq(T)
    <3>1. x \in DOMAIN file.deps => file.deps[x] \in T
      BY <1>1, <1>2 DEF FileOK
    <3> HIDE DEF T
    <3> QED BY <3>1, EmptySeq
  <2>3. P3 \in Seq(T) /\ P5 \in Seq(T) /\ P4 \in Seq(T) /\ P6 \in Seq(T) /\ P6 # <<>>
    <3>1. self \o e \in T /\ file.root \o e \in T /\ at.module \o e \in T /\ e \in T
      BY <1>1, <1>5 DEF Names
    <3> HIDE DEF T
    <3> QED BY <1>4, <3>1
  <2>4. Candidates(e, at, self) = P1 \o P2 \o P3 \o P4 \o P5 \o P6
    BY <1>6 DEF Candidates
  <2> HIDE DEF T, P1, P2, P3, P4, P5, P6
  <2>5. P1 \o P2 \o P3 \o P4 \o P5 \in Seq(T)
    BY <2>1, <2>2, <2>3, Joined
  <2> QED BY <2>3, <2>4, <2>5, Joined DEF T
<1>7. CASE Len(e) # 1
  <2> DEFINE L == {p \in Seq(Seg) : Len(p) >= 2 /\ LastSeg(p) = LastSeg(e)}
             F1 == If(x = "Self" /\ self # NoSelf, self \o Tail(e))
             F2 == If(x = "crate", file.root \o Tail(e))
             F3 == If(x = "super", SuperPath(e, at.module, file.root))
             F4 == [k \in DOMAIN imported |-> imported[k] \o Tail(e)]
             F5 == <<e>>
             full == F1 \o F2 \o F3 \o F4 \o F5
  <2>0. Len(e) >= 2
    <3>1. \A n \in Nat : n >= 1 /\ n # 1 => n >= 2
      OBVIOUS
    <3> QED BY <1>1, <1>7, <3>1
  <2>1. Tail(e) \in Seq(Seg) /\ Tail(e) # <<>> /\ LastSeg(Tail(e)) = LastSeg(e) /\ Len(Tail(e)) >= 1
    BY <1>1, <2>0, TailOf
  <2>2. \A q \in Seq(Seg) : q # <<>> => q \o Tail(e) \in L
    <3> SUFFICES ASSUME NEW q \in Seq(Seg), q # <<>> PROVE q \o Tail(e) \in L
      OBVIOUS
    <3>1. Len(q) \in Nat /\ Len(q) >= 1 /\ Len(Tail(e)) \in Nat
      BY <2>1, EmptySeq, LenProperties
    <3>2. q \o Tail(e) \in Seq(Seg) /\ Len(q \o Tail(e)) >= 2
      BY <2>1, <3>1, Joined
    <3>3. LastSeg(q \o Tail(e)) = LastSeg(e)
      BY <2>1, Joined
    <3> QED BY <3>2, <3>3
  <2>3. \A c : \A p \in L : If(c, p) \in Seq(L)
    BY IfSeq
  <2>4. F1 \in Seq(L)
    <3>1. CASE self = NoSelf
      BY <3>1, EmptySeq DEF If
    <3>2. CASE self # NoSelf
      BY <2>2, <2>3, <3>2 DEF NoSelf
    <3> QED BY <3>1, <3>2
  <2>5. F2 \in Seq(L)
    BY <1>1, <2>2, <2>3
  <2>6. F3 \in Seq(L)
    <3>1. SuperPath(e, at.module, file.root) \in L
      BY <1>1, <2>0, SuperOf
    <3> QED BY <2>3, <3>1
  <2>7. F4 \in Seq(L)
    <3>1. \A k \in DOMAIN imported : imported[k] \in Seq(Seg) /\ imported[k] # <<>>
      BY <1>3, ElementOfSeq, LenProperties, PathsAreNames DEF Names
    <3>2. \A k \in DOMAIN imported : imported[k] \o Tail(e) \in L
      BY <2>2, <3>1
    <3>3. DOMAIN imported = 1..Len(imported) /\ Len(imported) \in Nat
      BY <1>3, LenProperties
    <3> HIDE DEF L, imported
    <3>4. F4 \in [1..Len(imported) -> L]
      BY <3>2, <3>3
    <3> QED BY <3>3, <3>4, SeqDef
  <2>8. F5 \in Seq(L) /\ F5 # <<>>
    BY <1>1, <2>0
  <2>9. Candidates(e, at, self) = [k \in DOMAIN full |-> Normalize(full[k], at.module, file, self)]
    BY <1>7 DEF Candidates
  <2>10. full \in Seq(L) /\ full # <<>>
    <3> HIDE DEF L, F1, F2, F3, F4, F5
    <3>1. F1 \o F2 \o F3 \o F4 \in Seq(L)
      BY <2>4, <2>5, <2>6, <2>7, Joined
    <3> QED BY <2>8, <3>1, Joined
  <2>11. \A p \in L : Normalize(p, at.module, file, self) \in T
    BY <1>1, NormalizeLong DEF AtOK
  <2> HIDE DEF L, full, T
  <2>12. DOMAIN full = 1..Len(full) /\ Len(full) \in Nat /\ Len(full) >= 1
         /\ \A k \in 1..Len(full) : full[k] \in L
    BY <2>10, LenProperties, EmptySeq, ElementOfSeq
  <2>13. Candidates(e, at, self) \in [1..Len(full) -> T]
    BY <2>9, <2>11, <2>12
  <2>14. Candidates(e, at, self) \in Seq(T)
    BY <2>12, <2>13, SeqDef
  <2>15. Candidates(e, at, self) # <<>>
    BY <2>12, <2>13
  <2> QED BY <2>14, <2>15 DEF T
<1> QED BY <1>6, <1>7

-----------------------------------------------------------------------------
(* Qualified names *)

LEMMA Least ==
  ASSUME NEW C, C \subseteq Nat, C # {}
  PROVE  \E c \in C : \A d \in C : c <= d
<1> DEFINE Down(k) == {j \in Nat : j <= k}
           D == {Down(k) : k \in C}
<1>1. D \subseteq FiniteSubsetsOf(Nat) /\ D # {}
  <2> SUFFICES ASSUME NEW k \in C PROVE Down(k) \in FiniteSubsetsOf(Nat)
    OBVIOUS
  <2>1. k \in Nat /\ Down(k) \in SUBSET Nat /\ \A j \in Down(k) : j <= k
    OBVIOUS
  <2>2. IsFiniteSet(Down(k))
    BY <2>1, FS_BoundedSetOfNaturals
  <2> QED BY <2>1, <2>2 DEF FiniteSubsetsOf
<1>2. PICK x \in D : \A y \in D : ~ (<<y, x>> \in StrictSubsetOrdering(Nat))
  <2> HIDE DEF D
  <2>1. IsWellFoundedOn(StrictSubsetOrdering(Nat), FiniteSubsetsOf(Nat))
    BY FS_StrictSubsetOrderingWellFounded
  <2> QED BY <1>1, <2>1, WFMin
<1>3. PICK c \in C : x = Down(c)
  OBVIOUS
<1>4. ASSUME NEW d \in C PROVE c <= d
  <2> SUFFICES ASSUME ~(c <= d) PROVE FALSE
    OBVIOUS
  <2>1. c \in Nat /\ d \in Nat /\ d < c
    OBVIOUS
  <2>2. Down(d) \subseteq Down(c) /\ c \in Down(c) /\ c \notin Down(d)
    BY <2>1
  <2>3. Down(d) # Down(c)
    BY <2>2
  <2>4. Down(d) \in SUBSET Nat /\ Down(c) \in SUBSET Nat
    OBVIOUS
  <2>5. Down(d) \in D
    OBVIOUS
  <2> HIDE DEF D, Down
  <2>6. <<Down(d), x>> \in StrictSubsetOrdering(Nat)
    BY <1>3, <2>2, <2>3, <2>4 DEF StrictSubsetOrdering
  <2> QED BY <1>2, <2>5, <2>6
<1> QED BY <1>4

LEMMA UpTo ==
  ASSUME NEW K \in Nat, NEW T, 0 \in T, \A k \in 0..(K - 1) : k \in T => k + 1 \in T
  PROVE  0..K \subseteq T
<1> DEFINE C == (0..K) \ T
<1> SUFFICES ASSUME C # {} PROVE FALSE
  OBVIOUS
<1>1. C \subseteq Nat
  OBVIOUS
<1>2. PICK c \in C : \A d \in C : c <= d
  <2> HIDE DEF C
  <2> QED BY <1>1, Least
<1>3. c # 0 /\ c - 1 \in 0..K /\ c - 1 \in 0..(K - 1) /\ c - 1 \notin C /\ (c - 1) + 1 = c
  BY <1>2
<1> QED BY <1>3

\* The name of symbol i, given those of the symbols before it.
NameFrom(V, i) ==
  LET c == Sym(i).container
  IN (CASE c = 0 -> Sym(i).module
        [] c # 0 /\ Sym(i).kind = "method" /\ Sym(c).kind = "impl" ->
             Normalize(Sym(c).implTarget, Sym(i).module, FileOf(i), NoSelf)
        [] OTHER -> V[c]) \o <<Sym(i).seg>>

\* A name is made of those of the symbols before it.
LEMMA NameOfPrevious ==
  ASSUME WellFormed(repo), NEW i \in Ids, NEW V, NEW W, \A j \in 1..(i - 1) : V[j] = W[j]
  PROVE  NameFrom(V, i) = NameFrom(W, i)
<1>1. Sym(i).container = 0 \/ Sym(i).container \in 1..(i - 1)
  BY DEF WellFormed, Ids, Sym
<1> QED BY <1>1 DEF NameFrom

\* The recursion is over the places of the symbols, and has a solution.
LEMMA NamesExist ==
  ASSUME WellFormed(repo)
  PROVE  \A i \in Ids : QualifiedNames[i] = NameFrom(QualifiedNames, i)
<1> DEFINE N == Len(repo.symbols)
           Has(n) == \E V : DOMAIN V = 1..n /\ \A i \in 1..n : V[i] = NameFrom(V, i)
           T == {n \in 0..N : Has(n)}
<1>1. N \in Nat /\ Ids = 1..N
  BY DEF WellFormed, Ids
<1> HIDE DEF N
<1>2. 0 \in T
  <2> DEFINE V == [i \in 1..0 |-> 0]
  <2>1. DOMAIN V = 1..0 /\ \A i \in 1..0 : V[i] = NameFrom(V, i)
    OBVIOUS
  <2> HIDE DEF V
  <2>2. Has(0)
    BY <2>1
  <2> HIDE DEF Has
  <2> QED BY <1>1, <2>2
<1>3. ASSUME NEW k \in 0..(N - 1), k \in T PROVE k + 1 \in T
  <2>0. k + 1 \in 0..N /\ k + 1 \in Ids /\ k \in Nat
    BY <1>1, <1>3
  <2>1. PICK V : DOMAIN V = 1..k /\ \A i \in 1..k : V[i] = NameFrom(V, i)
    BY <1>3
  <2> DEFINE W == [i \in 1..(k + 1) |-> IF i = k + 1 THEN NameFrom(V, k + 1) ELSE V[i]]
  <2>2. DOMAIN W = 1..(k + 1) /\ W[k + 1] = NameFrom(V, k + 1) /\ \A i \in 1..k : W[i] = V[i]
    BY <2>0
  <2> HIDE DEF W
  <2>3. ASSUME NEW i \in 1..(k + 1) PROVE W[i] = NameFrom(W, i)
    <3>1. i \in Ids /\ \A j \in 1..(i - 1) : j \in 1..k
      BY <1>1, <2>0
    <3>2. NameFrom(V, i) = NameFrom(W, i)
      BY <2>2, <3>1, NameOfPrevious
    <3>3. CASE i = k + 1
      BY <2>2, <3>2, <3>3
    <3>4. CASE i # k + 1
      <4>1. i \in 1..k
        BY <2>0, <3>4
      <4> QED BY <2>1, <2>2, <3>2, <4>1
    <3> QED BY <3>3, <3>4
  <2>4. Has(k + 1)
    BY <2>2, <2>3
  <2> HIDE DEF Has
  <2> QED BY <2>0, <2>4
<1>4. Has(N)
  <2> HIDE DEF Has
  <2>1. 0..N \subseteq T
    <3> HIDE DEF T
    <3> QED BY <1>1, <1>2, <1>3, UpTo
  <2> QED BY <1>1, <2>1
<1> DEFINE Solves(q) == q = [i \in Ids |-> NameFrom(q, i)]
<1>5. \E q : Solves(q)
  <2>1. PICK V : DOMAIN V = 1..N /\ \A i \in 1..N : V[i] = NameFrom(V, i)
    BY <1>4
  <2> DEFINE q == [i \in Ids |-> V[i]]
  <2>2. \A i \in Ids : q[i] = V[i]
    OBVIOUS
  <2>3. ASSUME NEW i \in Ids PROVE q[i] = NameFrom(q, i)
    <3>1. \A j \in 1..(i - 1) : j \in Ids
      BY <1>1
    <3>2. \A j \in 1..(i - 1) : q[j] = V[j]
      BY <2>2, <3>1
    <3> HIDE DEF q
    <3>3. NameFrom(q, i) = NameFrom(V, i)
      BY <3>2, NameOfPrevious
    <3> QED BY <1>1, <2>1, <2>2, <3>3
  <2>4. q = [i \in Ids |-> q[i]]
    OBVIOUS
  <2> HIDE DEF q
  <2>5. Solves(q)
    BY <2>3, <2>4
  <2> QED BY <2>5
<1>6. QualifiedNames = CHOOSE q : Solves(q)
  BY DEF QualifiedNames, NameFrom
<1>7. Solves(QualifiedNames)
  <2> HIDE DEF Solves
  <2> QED BY <1>5, <1>6
<1> QED BY <1>7

\* A symbol is named by a path that ends in its segment and has another before.
NamesOK == \A i \in Ids : \E p \in Names : qname[i] = p \o <<Sym(i).seg>>

\* What the recursion gives is such a name.
LEMMA NamesMade ==
  ASSUME WellFormed(repo)
  PROVE  \A i \in Ids : \E p \in Names : QualifiedNames[i] = p \o <<Sym(i).seg>>
<1> DEFINE q == QualifiedNames
           N == Len(repo.symbols)
           Is(i) == \E p \in Names : q[i] = p \o <<Sym(i).seg>>
           T == {n \in 0..N : \A i \in 1..n : Is(i)}
<1>1. N \in Nat /\ Ids = 1..N
  BY DEF WellFormed, Ids
<1>2. \A i \in Ids : q[i] = NameFrom(q, i)
  BY NamesExist
<1> HIDE DEF N, q
<1>3. ASSUME NEW i \in Ids, \A j \in 1..(i - 1) : Is(j) PROVE Is(i)
  <2> DEFINE c == Sym(i).container
             p == CASE c = 0 -> Sym(i).module
                    [] c # 0 /\ Sym(i).kind = "method" /\ Sym(c).kind = "impl" ->
                         Normalize(Sym(c).implTarget, Sym(i).module, FileOf(i), NoSelf)
                    [] OTHER -> q[c]
  <2>1. q[i] = p \o <<Sym(i).seg>>
    BY <1>2 DEF NameFrom
  <2>2. /\ c = 0 \/ c \in 1..(i - 1)
        /\ SymbolOK(Sym(i)) /\ FileOK(FileOf(i))
        /\ c \in 1..(i - 1) => SymbolOK(Sym(c))
    BY <1>1 DEF WellFormed, Ids, Sym, FileOf
  <2>3. CASE c = 0
    <3>1. p = Sym(i).module
      BY <2>3
    <3> QED BY <2>1, <2>2, <3>1, PathsAreNames DEF SymbolOK
  <2>4. CASE c # 0 /\ Sym(i).kind = "method" /\ Sym(c).kind = "impl"
    <3>1. p = Normalize(Sym(c).implTarget, Sym(i).module, FileOf(i), NoSelf)
      BY <2>4
    <3>2. Sym(c).implTarget \in Path /\ Sym(i).module \in Path
      BY <2>2, <2>4 DEF SymbolOK, Path
    <3>3. p \in Path
      BY <2>2, <3>1, <3>2, NormalizePath
    <3> QED BY <2>1, <3>3, PathsAreNames
  <2>5. CASE c # 0 /\ ~(Sym(i).kind = "method" /\ Sym(c).kind = "impl")
    <3>1. p = q[c]
      BY <2>5
    <3>2. Is(c) /\ c \in Ids
      <4>1. c \in 1..(i - 1)
        BY <2>2, <2>5
      <4>2. c \in Ids
        BY <1>1, <4>1
      <4> HIDE DEF Is, c, p
      <4> QED BY <1>3, <4>1, <4>2
    <3>3. PICK r \in Names : q[c] = r \o <<Sym(c).seg>>
      BY <3>2
    <3>4. q[c] \in Names
      <4>1. Sym(c).seg \in Seg /\ r \in Seq(Seg)
        BY <3>2 DEF Seg, Names
      <4>2. <<Sym(c).seg>> \in Seq(Seg) /\ <<Sym(c).seg>> # <<>>
        BY <4>1
      <4> QED BY <3>3, <4>1, <4>2, Joined DEF Names
    <3> QED BY <2>1, <3>1, <3>4
  <2> QED BY <2>3, <2>4, <2>5
<1> HIDE DEF Is
<1>4. 0..N \subseteq T
  <2>1. 0 \in T
    BY <1>1
  <2>2. ASSUME NEW k \in 0..(N - 1), k \in T PROVE k + 1 \in T
    <3>1. k + 1 \in Ids /\ k \in Nat /\ (k + 1) - 1 = k
      BY <1>1, <2>2
    <3>2. Is(k + 1)
      BY <1>3, <2>2, <3>1
    <3>3. \A i \in 1..(k + 1) : i \in 1..k \/ i = k + 1
      BY <3>1
    <3> QED BY <1>1, <2>2, <3>1, <3>2, <3>3
  <2> HIDE DEF T
  <2> QED BY <1>1, <2>1, <2>2, UpTo
<1>5. N \in T
  BY <1>1, <1>4
<1> QED BY <1>1, <1>5 DEF Is, q

-----------------------------------------------------------------------------
(* What a path resolves to *)

\* The name of any symbol there is.
LEMMA NameIn ==
  ASSUME NamesOK, NEW i \in Ids
  PROVE  qname[i] \in Names /\ Len(qname[i]) >= 2 /\ LastSeg(qname[i]) = Sym(i).seg
<1>1. PICK p \in Names : qname[i] = p \o <<Sym(i).seg>>
  BY DEF NamesOK
<1> DEFINE s == <<Sym(i).seg>>
<1>2. s \in Seq(Seg) /\ s # <<>> /\ Len(s) = 1 /\ LastSeg(s) = Sym(i).seg
  BY DEF Seg, LastSeg
<1>3. p \in Seq(Seg) /\ p # <<>> /\ Len(p) \in Nat /\ Len(p) >= 1
  BY EmptySeq, LenProperties DEF Names
<1>4. qname[i] = p \o s
  BY <1>1
<1> HIDE DEF s
<1>5. p \o s \in Seq(Seg) /\ p \o s # <<>> /\ Len(p \o s) = Len(p) + 1 /\ LastSeg(p \o s) = Sym(i).seg
  BY <1>2, <1>3, Joined
<1> QED BY <1>3, <1>4, <1>5 DEF Names

\* The cases of Resolve, one of which holds.
LEMMA ResolveCases ==
  ASSUME WellFormed(repo), NamesOK, NEW at, AtOK(at), NEW self \in Seq(Seg), NEW e \in Seq(Seg), NEW scope
  PROVE  LET r     == Resolve(e, at, scope, self)
             names == Candidates(e, at, self)
         IN \/ (e = <<>> \/ (Len(e) = 1 /\ Head(e) \in Reserved)) /\ r = Unresolved(e)
            \/ /\ e \in Names
               /\ \/ /\ Len(e) = 1 /\ scope # 0
                     /\ \E j \in LocalsOf(scope, Head(e)) : r = Resolved(j, qname[j])
                  \/ \E k \in DOMAIN names : \E j \in Exact(names[k]) : r = Resolved(j, names[k])
                  \/ \E j \in Ids : Sym(j).name = LastSeg(e) /\ r = Resolved(j, qname[j])
                  \/ Hit(names) = {} /\ r = Unresolved(names[1])
<1> DEFINE names == Candidates(e, at, self)
           local == IF Len(e) = 1 /\ scope # 0 THEN LocalsOf(scope, Head(e)) ELSE {}
           best  == Best(names, LastSeg(e), at, self)
           q     == names[Only(Hit(names))]
           r     == Resolve(e, at, scope, self)
<1>1. CASE e = <<>> \/ (Len(e) = 1 /\ Head(e) \in Reserved)
  <2>1. r = Unresolved(e)
    BY <1>1 DEF Resolve
  <2> HIDE DEF names, local, best, q, r
  <2> QED BY <1>1, <2>1 DEF r
<1>2. CASE ~(e = <<>> \/ (Len(e) = 1 /\ Head(e) \in Reserved))
  <2>0. e \in Names
    BY <1>2 DEF Names
  <2>1. r = IF \E i \in local : local = {i} THEN Resolved(Only(local), qname[Only(local)])
            ELSE IF Hit(names) # {} THEN Resolved(Only(Exact(q)), q)
            ELSE IF best # {} THEN Resolved(Only(best), qname[Only(best)])
            ELSE Unresolved(names[1])
    BY <1>2 DEF Resolve
  <2>2. CASE \E i \in local : local = {i}
    <3>1. Only(local) \in local
      BY <2>2, OnlyIn
    <3>2. Len(e) = 1 /\ scope # 0 /\ local = LocalsOf(scope, Head(e))
      BY <2>2
    <3>3. r = Resolved(Only(local), qname[Only(local)])
      BY <2>1, <2>2
    <3> HIDE DEF local, r
    <3>4. \E j \in LocalsOf(scope, Head(e)) : r = Resolved(j, qname[j])
      BY <3>1, <3>2, <3>3
    <3> QED BY <2>0, <3>2, <3>4 DEF r
  <2>3. CASE ~(\E i \in local : local = {i}) /\ Hit(names) # {}
    <3>1. Only(Hit(names)) \in Hit(names)
      BY <2>3, OnlyIn
    <3>2. Exact(q) # {} /\ Only(Hit(names)) \in DOMAIN names
      BY <3>1 DEF Hit
    <3>3. Only(Exact(q)) \in Exact(q)
      BY <3>2, OnlyIn
    <3>4. r = Resolved(Only(Exact(q)), q)
      BY <2>1, <2>3
    <3> HIDE DEF names, r
    <3>5. \E k \in DOMAIN names : \E j \in Exact(names[k]) : r = Resolved(j, names[k])
      BY <3>2, <3>3, <3>4
    <3> QED BY <2>0, <3>5 DEF r, names
  <2>4. CASE ~(\E i \in local : local = {i}) /\ Hit(names) = {} /\ best # {}
    <3>1. Only(best) \in best
      BY <2>4, OnlyIn
    <3>2. \A j \in best : j \in Ids /\ Sym(j).name = LastSeg(e)
      BY DEF Best
    <3>3. r = Resolved(Only(best), qname[Only(best)])
      BY <2>1, <2>4
    <3> HIDE DEF best, r
    <3>4. \E j \in Ids : Sym(j).name = LastSeg(e) /\ r = Resolved(j, qname[j])
      BY <3>1, <3>2, <3>3
    <3> QED BY <2>0, <3>4 DEF r
  <2>5. CASE ~(\E i \in local : local = {i}) /\ Hit(names) = {} /\ best = {}
    BY <2>0, <2>1, <2>5
  <2> QED BY <2>2, <2>3, <2>4, <2>5
<1> QED BY <1>1, <1>2

\* What a path resolves to has a name.
LEMMA ResolveTyped ==
  ASSUME WellFormed(repo), NamesOK, NEW at, AtOK(at), NEW self \in Seq(Seg), NEW e \in Seq(Seg), NEW scope
  PROVE  Resolve(e, at, scope, self).name \in Seq(Seg)
<1> DEFINE names == Candidates(e, at, self)
           r     == Resolve(e, at, scope, self)
<1>1. \A j, h : Resolved(j, h).name = qname[j]
  BY DEF Resolved
<1>2. \A j \in Ids : qname[j] \in Seq(Seg)
  BY NameIn DEF Names
<1>3. \A p : Unresolved(p).name = p
  BY DEF Unresolved
<1>4. \A p : Exact(p) \subseteq Ids
  BY DEF Exact
<1>5. LocalsOf(scope, Head(e)) \subseteq Ids
  BY DEF LocalsOf
<1>6. e \in Names => names[1] \in Seq(Seg)
  <2> SUFFICES ASSUME e \in Names PROVE names[1] \in Seq(Seg)
    OBVIOUS
  <2> DEFINE T == {p \in Names : LastSeg(p) \in Words \cup {LastSeg(e)}}
  <2>1. names \in Seq(T) /\ names # <<>>
    BY CandidatesOK
  <2> HIDE DEF names, T
  <2>2. names[1] \in T
    BY <2>1, EmptySeq, ElementOfSeq, LenProperties
  <2> QED BY <2>2 DEF T, Names
<1> HIDE DEF names, r
<1>7. \/ r = Unresolved(e)
      \/ e \in Names /\ r = Unresolved(names[1])
      \/ \E j \in Ids : \E h : r = Resolved(j, h)
  BY <1>4, <1>5, ResolveCases DEF names, r
<1>8. r.name \in Seq(Seg)
  BY <1>1, <1>2, <1>3, <1>6, <1>7
<1> QED BY <1>8 DEF r

\* A local is only found by what it is called: no path the source can write
\* is its qualified name.
LEMMA LocalByName ==
  ASSUME WellFormed(repo), NamesOK, NEW at, AtOK(at), NEW self \in Seq(Seg), NEW e \in Names,
         LastSeg(e) \in Words, NEW scope, NEW j \in Ids, Sym(j).kind = "local",
         Resolve(e, at, scope, self).id = j
  PROVE  Sym(j).name = LastSeg(e)
<1> DEFINE names == Candidates(e, at, self)
           r     == Resolve(e, at, scope, self)
<1>0. j # 0 /\ Sym(j).seg \notin Words
  <2>1. j # 0
    BY DEF WellFormed, Ids
  <2>2. SymbolOK(Sym(j))
    BY DEF WellFormed, Ids, Sym
  <2> QED BY <2>1, <2>2 DEF SymbolOK
<1>1. \A i, h : Resolved(i, h).id = i
  BY DEF Resolved
<1>2. \A p : Unresolved(p).id = 0
  BY DEF Unresolved
<1>3. \A k \in DOMAIN names : j \notin Exact(names[k])
  <2> SUFFICES ASSUME NEW k \in DOMAIN names, j \in Exact(names[k]) PROVE FALSE
    OBVIOUS
  <2> DEFINE T == {p \in Names : LastSeg(p) \in Words \cup {LastSeg(e)}}
  <2>1. names \in Seq(T)
    BY CandidatesOK
  <2>2. names[k] \in T
    <3> HIDE DEF T, names
    <3> QED BY <2>1, ElementOfSeq, LenProperties
  <2>3. qname[j] = names[k]
    BY DEF Exact
  <2> QED BY <1>0, <2>2, <2>3, NameIn
<1>4. \A i \in LocalsOf(scope, Head(e)) : Sym(i).name = Head(e)
  BY DEF LocalsOf
<1>5. Len(e) = 1 => Head(e) = LastSeg(e)
  BY DEF LastSeg, Names
<1>6. r.id = j
  OBVIOUS
<1>7. e \in Seq(Seg)
  BY DEF Names
<1> HIDE DEF names, r
<1>8. \/ \E p : r = Unresolved(p)
      \/ /\ Len(e) = 1
         /\ \E i \in LocalsOf(scope, Head(e)) : r = Resolved(i, qname[i])
      \/ \E k \in DOMAIN names : \E i \in Exact(names[k]) : r = Resolved(i, names[k])
      \/ \E i \in Ids : Sym(i).name = LastSeg(e) /\ r = Resolved(i, qname[i])
  BY <1>7, ResolveCases DEF names, r
<1> QED BY <1>0, <1>1, <1>2, <1>3, <1>4, <1>5, <1>6, <1>8

-----------------------------------------------------------------------------
(* What the resolution index holds *)

AliasesOK == \A f \in DOMAIN aliases : \A x \in DOMAIN aliases[f] : aliases[f][x] \in Seq(Path)
ImplsOK   == /\ \A c \in Ids : Sym(c).kind = "impl" => c \in DOMAIN impls
             /\ \A c \in DOMAIN impls : impls[c].target.name \in Seq(Seg)

IndexOK == AliasesOK /\ (pass # "records" => NamesOK /\ ImplsOK)

\* Where the lines of a symbol are read.
LEMMA ContextOK ==
  ASSUME TypeOK, AliasesOK, NEW i \in Ids
  PROVE  AtOK(Context(i))
<1>1. /\ Sym(i).file \in DOMAIN repo.files /\ SymbolOK(Sym(i))
      /\ DOMAIN aliases = DOMAIN repo.files
  BY DEF TypeOK, PassesOK, RecordsOK, WellFormed, Ids, Sym
<1>2. /\ Context(i).file = Sym(i).file /\ Context(i).known = aliases[Sym(i).file]
      /\ Context(i).module = Sym(i).module
  BY DEF Context
<1> QED BY <1>1, <1>2 DEF AtOK, SymbolOK, AliasesOK

\* The self target is a name, or none.
LEMMA SelfTyped ==
  ASSUME TypeOK, ImplsOK, NEW i \in Ids
  PROVE  SelfOf(i) \in Seq(Seg)
<1>1. Sym(i).container = 0 \/ Sym(i).container \in Ids
  BY RepoIsWellFormed DEF TypeOK, PassesOK
<1>2. NoSelf \in Seq(Seg)
  BY EmptySeq DEF NoSelf
<1> QED BY <1>1, <1>2 DEF SelfOf, ImplsOK

\* An import adds a path of identifiers to its file.
LEMMA ImportedPaths ==
  ASSUME TypeOK, IndexOK, BuildImport
  PROVE  AliasesOK'
<1> DEFINE m == repo.imports[cursor]
           file == repo.files[m.file]
           path == Normalize(m.target, file.module, file, NoSelf)
           name == IF m.alias = "" THEN LastSeg(path) ELSE m.alias
           old  == Imported(aliases[m.file], name)
           new  == IF \E k \in DOMAIN old : old[k] = path THEN old ELSE Append(old, path)
           known == [x \in DOMAIN aliases[m.file] \cup {name} |->
                       IF x = name THEN new ELSE aliases[m.file][x]]
<1>1. aliases' = [aliases EXCEPT ![m.file] = known]
  BY DEF BuildImport
<1>2. cursor \in 1..Len(repo.imports)
  <2>1. Len(repo.imports) \in Nat /\ cursor \in 1..(Len(repo.imports) + 1)
    BY DEF TypeOK, PassesOK, WellFormed
  <2>2. cursor <= Len(repo.imports)
    BY DEF BuildImport
  <2> QED BY <2>1, <2>2
<1>3. m.file \in DOMAIN aliases /\ FileOK(file) /\ m.target \in Path
  BY <1>2 DEF TypeOK, PassesOK, RecordsOK, WellFormed
<1>4. path \in Path
  BY <1>3, NormalizePath DEF FileOK
<1>5. old \in Seq(Path)
  BY <1>3, EmptySeq DEF Imported, IndexOK, AliasesOK
<1> HIDE DEF path, old, m
<1>6. new \in Seq(Path)
  BY <1>4, <1>5, AppendProperties
<1> HIDE DEF new, name
<1>7. \A x \in DOMAIN known : known[x] \in Seq(Path)
  BY <1>3, <1>6 DEF IndexOK, AliasesOK
<1>8. DOMAIN aliases' = DOMAIN aliases /\ aliases'[m.file] = known
      /\ \A f \in DOMAIN aliases : f # m.file => aliases'[f] = aliases[f]
  <2> HIDE DEF known
  <2> QED BY <1>1, <1>3
<1> HIDE DEF known
<1>9. \A f \in DOMAIN aliases' : \A x \in DOMAIN aliases'[f] : aliases'[f][x] \in Seq(Path)
  BY <1>7, <1>8 DEF IndexOK, AliasesOK
<1>10. Path' = Path
  BY DEF Path
<1> QED BY <1>9, <1>10 DEF AliasesOK

\* Names and typing do not depend on what the passes find later.
LEMMA NamesStay ==
  ASSUME repo' = repo
  PROVE  /\ Ids' = Ids /\ Seg' = Seg /\ Names' = Names
         /\ \A i : Sym(i)' = Sym(i) /\ FileOf(i)' = FileOf(i)
         /\ qname' = qname => (NamesOK' <=> NamesOK)
         /\ impls' = impls => (ImplsOK' <=> ImplsOK)
         /\ aliases' = aliases => (AliasesOK' <=> AliasesOK)
<1>1. Ids' = Ids /\ \A i : Sym(i)' = Sym(i) /\ FileOf(i)' = FileOf(i)
  BY DEF Ids, Sym, FileOf
<1>2. Seg' = Seg
  BY <1>1 DEF Seg
<1>3. Names' = Names
  BY <1>2 DEF Names
<1> QED BY <1>1, <1>2, <1>3 DEF NamesOK, ImplsOK, AliasesOK, Path

\* Every pass leaves the index so.
LEMMA IndexOKNext == TypeOK /\ IndexOK /\ [Next]_vars => IndexOK'
<1> SUFFICES ASSUME TypeOK, IndexOK, [Next]_vars PROVE IndexOK'
  OBVIOUS
<1>0. WellFormed(repo)
  BY DEF TypeOK, PassesOK
<1>1. CASE BuildRecords
  <2>1. /\ repo' = repo /\ aliases' = aliases /\ qname' = QualifiedNames
        /\ impls' = [i \in {j \in Ids : Sym(j).kind = "impl"} |->
                       [target |-> Unresolved(Sym(i).implTarget), trait |-> Unresolved(Sym(i).implTrait)]]
    BY <1>1 DEF BuildRecords
  <2>2. NamesOK'
    <3>1. \A i \in Ids : \E p \in Names : qname'[i] = p \o <<Sym(i).seg>>
      BY <1>0, <2>1, NamesMade
    <3> QED BY <2>1, <3>1, NamesStay DEF NamesOK
  <2>3. ImplsOK'
    <3>1. /\ DOMAIN impls' = {j \in Ids : Sym(j).kind = "impl"}
          /\ \A c \in DOMAIN impls' : impls'[c].target.name = Sym(c).implTarget
      BY <2>1 DEF Unresolved
    <3>2. \A c \in Ids : Sym(c).implTarget \in Seq(Words)
      BY <1>0 DEF WellFormed, SymbolOK, Ids, Sym
    <3> QED BY <2>1, <3>1, <3>2, NamesStay, PathsAreNames DEF ImplsOK
  <2> QED BY <2>1, <2>2, <2>3, NamesStay DEF IndexOK
<1>2. CASE BuildImport
  <2>1. pass = "imports" /\ repo' = repo /\ qname' = qname /\ impls' = impls
    BY <1>2 DEF BuildImport
  <2> QED BY <1>2, <2>1, NamesStay, ImportedPaths DEF IndexOK
<1>3. CASE ResolveImpls
  <2>1. /\ pass = "impls" /\ UNCHANGED <<repo, qname, aliases>>
        /\ DOMAIN impls' = DOMAIN impls
        /\ \A i \in DOMAIN impls : impls'[i].target = Resolve(Sym(i).implTarget, Context(i), i, NoSelf)
    BY <1>3 DEF ResolveImpls
  <2>2. ASSUME NEW i \in DOMAIN impls PROVE impls'[i].target.name \in Seq(Seg)
    <3>1. i \in Ids
      BY DEF TypeOK, RecordsOK
    <3>2. Sym(i).implTarget \in Seq(Seg)
      <4>1. Sym(i).implTarget \in Seq(Words)
        BY <1>0, <3>1 DEF WellFormed, SymbolOK, Ids, Sym
      <4> QED BY <4>1, PathsAreNames
    <3>3. NoSelf \in Seq(Seg)
      BY EmptySeq DEF NoSelf
    <3>4. Resolve(Sym(i).implTarget, Context(i), i, NoSelf).name \in Seq(Seg)
      BY <1>0, <2>1, <3>1, <3>2, <3>3, ContextOK, ResolveTyped DEF IndexOK
    <3> QED BY <2>1, <3>4
  <2>3. ImplsOK'
    BY <2>1, <2>2, NamesStay DEF ImplsOK, IndexOK
  <2> QED BY <2>1, <2>3, NamesStay DEF IndexOK
<1>4. CASE UNCHANGED <<repo, qname, aliases, impls>> /\ (pass # "records" \/ pass' = pass)
  BY <1>4, NamesStay DEF IndexOK
<1>5. CASE ImportsDone \/ ResolveSupers \/ BuildReferences \/ BuildStatements \/ SummarizeDirect \/ SummarizeFar
  <2>1. UNCHANGED <<repo, qname, aliases, impls>> /\ pass # "records"
    BY <1>5 DEF ImportsDone, ResolveSupers, BuildReferences, BuildStatements, SummarizeDirect, SummarizeFar
  <2> QED BY <1>4, <2>1
<1>6. CASE GraphNext \/ Done \/ UNCHANGED vars
  <2>1. UNCHANGED index
    BY <1>6 DEF GraphNext, AddFiles, AddSymbols, AddImports, AddReferences, AddSemantics, AddOverrides,
                AddStatements, Pass, Done, vars
  <2> QED BY <1>4, <2>1 DEF index
<1> QED BY <1>1, <1>2, <1>3, <1>5, <1>6 DEF Next, IndexNext

LEMMA IndexOKInit == Init => IndexOK
  BY DEF Init, IndexInit, IndexOK, AliasesOK

-----------------------------------------------------------------------------
(* What is resolved once, is resolved so as long as the index stays *)

LEMMA ResolveStays ==
  ASSUME UNCHANGED <<repo, qname, aliases, impls>>
  PROVE  /\ \A e, at, scope, self : Resolve(e, at, scope, self)' = Resolve(e, at, scope, self)
         /\ \A i, e : ResolveIn(i, e)' = ResolveIn(i, e)
         /\ \A i, p : ResolveMember(i, p)' = ResolveMember(i, p)
<1>1. Ids' = Ids /\ \A i : Sym(i)' = Sym(i) /\ FileOf(i)' = FileOf(i)
  BY DEF Ids, Sym, FileOf
<1>2. \A q : Exact(q)' = Exact(q)
  BY <1>1 DEF Exact
<1>3. \A scope, x : LocalsOf(scope, x)' = LocalsOf(scope, x)
  BY <1>1 DEF LocalsOf
<1>4. \A e, at, self : Candidates(e, at, self)' = Candidates(e, at, self)
  BY DEF Candidates, Imported, If, Normalize, SuperPath
<1>5. \A i, names, at, self : Score(i, names, at, self)' = Score(i, names, at, self)
  BY <1>1 DEF Score, Points, Prefix
<1>6. \A names, x, at, self : Best(names, x, at, self)' = Best(names, x, at, self)
  BY <1>1, <1>5 DEF Best
<1>7. \A names : Hit(names)' = Hit(names)
  BY <1>2 DEF Hit
<1>8. \A i, h : Resolved(i, h)' = Resolved(i, h)
  BY DEF Resolved
<1>9. \A e, at, scope, self : Resolve(e, at, scope, self)' = Resolve(e, at, scope, self)
  <2> SUFFICES ASSUME NEW e, NEW at, NEW scope, NEW self
               PROVE  Resolve(e, at, scope, self)' = Resolve(e, at, scope, self)
    OBVIOUS
  <2> DEFINE names == Candidates(e, at, self)
             local == IF Len(e) = 1 /\ scope # 0 THEN LocalsOf(scope, Head(e)) ELSE {}
             best  == Best(names, LastSeg(e), at, self)
             q     == names[Only(Hit(names))]
             found(o, b, k, c) ==
               IF e = <<>> \/ (Len(e) = 1 /\ Head(e) \in Reserved) THEN Unresolved(e)
               ELSE IF \E i \in o : o = {i} THEN Resolved(Only(o), qname[Only(o)])
               ELSE IF k # {} THEN Resolved(Only(Exact(c)), c)
               ELSE IF b # {} THEN Resolved(Only(b), qname[Only(b)])
               ELSE Unresolved(names[1])
  <2>1. names' = names
    BY <1>4
  <2>2. local' = local
    BY <1>3
  <2>3. best' = best /\ Hit(names)' = Hit(names)
    <3> HIDE DEF names
    <3> QED BY <1>6, <1>7, <2>1
  <2>4. q' = q
    <3> HIDE DEF names
    <3> QED BY <2>1, <2>3 DEF Only
  <2>5. Resolve(e, at, scope, self) = found(local, best, Hit(names), q)
    BY DEF Resolve
  <2>6. (Resolve(e, at, scope, self) = found(local, best, Hit(names), q))'
    BY DEF Resolve
  <2>7. \A o, b, k, c : found(o, b, k, c)' = found(o, b, k, c)
    <3> HIDE DEF names
    <3> QED BY <1>2, <1>8, <2>1
  <2> HIDE DEF names, local, best, q, found
  <2> QED BY <2>2, <2>3, <2>4, <2>5, <2>6, <2>7
<1>10. \A i : Context(i)' = Context(i) /\ SelfOf(i)' = SelfOf(i)
  BY <1>1 DEF Context, SelfOf
<1>11. \A i, e : ResolveIn(i, e)' = ResolveIn(i, e)
  BY <1>9, <1>10 DEF ResolveIn
<1>12. \A i, p : ResolveMember(i, p)' = ResolveMember(i, p)
  BY <1>10, <1>11 DEF ResolveMember, Unresolved
<1> QED BY <1>9, <1>11, <1>12

\* The same of the records made of what is resolved.
LEMMA RecordsOfSame ==
  ASSUME UNCHANGED <<repo, qname, aliases, impls>>
  PROVE  /\ \A i, k : Statement(i, k)' = Statement(i, k)
         /\ \A i : References(i)' = References(i) /\ StatementLines(i)' = StatementLines(i)
<1>1. Ids' = Ids /\ (\A i : Sym(i)' = Sym(i)) /\ qname' = qname
  BY DEF Ids, Sym
<1>2. /\ \A i, e : ResolveIn(i, e)' = ResolveIn(i, e)
      /\ \A i, p : ResolveMember(i, p)' = ResolveMember(i, p)
  BY ResolveStays
<1>3. \A scope, x : LocalsOf(scope, x)' = LocalsOf(scope, x)
  BY <1>1 DEF LocalsOf
<1>4. \A r : Target(r)' = Target(r)
  BY DEF Target
<1>5. \A i : StatementLines(i)' = StatementLines(i)
  BY <1>1 DEF StatementLines
<1>6. \A i, k : /\ PreviousStatement(i, k)' = PreviousStatement(i, k)
                /\ ControlParent(i, k)' = ControlParent(i, k)
  BY <1>1, <1>5 DEF PreviousStatement, ControlParent, Enclosing
<1>7. \A i, k : Statement(i, k)' = Statement(i, k)
  <2> SUFFICES ASSUME NEW i, NEW k PROVE Statement(i, k)' = Statement(i, k)
    OBVIOUS
  <2> DEFINE l == Sym(i).body[k]
             Local(x) == {j \in LocalsOf(i, x) : Sym(j).line = k}
             Members(ps) == {Target(ResolveMember(i, p)) : p \in ps}
             Paths(es)   == {Target(ResolveIn(i, e)) : e \in es}
             defines == UNION {IF Local(x) = {} THEN {<<"ref", <<x>>>>} ELSE {<<"sym", j>> : j \in Local(x)} :
                                 x \in l.lets}
             writes == Paths({<<x>> : x \in l.lhs}) \cup Members(l.members)
             calls  == Paths(Calls(l)) \cup Members(l.mcalls)
             reads  == Members({p \in l.fields : Dot[p] \notin Excluded(l)})
                         \cup Paths(l.paths \ l.calls)
                         \cup (Paths({<<x>> : x \in Tokens(l) \ (Excluded(l) \cup Reserved)})
                                  \ {<<"ref", <<x>>>> : x \in Tokens(l) \ Upper})
             record(p, c, d, w, a, r) == [fn |-> i, line |-> k, previous |-> p, parent |-> c,
                                          defines |-> d, writes |-> w, calls |-> a, reads |-> r]
  <2>1. l' = l
    BY <1>1
  <2>2. \A x : Local(x)' = Local(x)
    BY <1>1, <1>3
  <2>3. (\A ps : Members(ps)' = Members(ps)) /\ (\A es : Paths(es)' = Paths(es))
    BY <1>2, <1>4
  <2>4. /\ Statement(i, k) = record(PreviousStatement(i, k), ControlParent(i, k), defines, writes, calls, reads)
        /\ (Statement(i, k) = record(PreviousStatement(i, k), ControlParent(i, k), defines, writes, calls, reads))'
    BY DEF Statement
  <2>5. \A p, c, d, w, a, r : record(p, c, d, w, a, r)' = record(p, c, d, w, a, r)
    OBVIOUS
  <2> HIDE DEF l, Local, Members, Paths, record
  <2>6. defines' = defines
    BY <2>1, <2>2
  <2>7. writes' = writes /\ calls' = calls
    BY <2>1, <2>3
  <2>8. reads' = reads
    BY <2>1, <2>3
  <2> HIDE DEF defines, writes, calls, reads
  <2> QED BY <1>6, <2>4, <2>5, <2>6, <2>7, <2>8
<1>8. \A i : Found(i)' = Found(i)
  BY <1>1, <1>2, <1>4 DEF Found, IsFunction, Calls
<1>9. \A i : References(i)' = References(i)
  BY <1>1, <1>8 DEF References
<1> QED BY <1>5, <1>7, <1>9

AllReferences == UNION {References(i) : i \in Ids}
AllStatements == UNION {{Statement(i, k) : k \in StatementLines(i)} : i \in Functions}

\* Each pass leaves every record it is there to make, and no other.
RecordsMade ==
  /\ pass \in {"stmts", "direct", "far", "indexed"} => refs = AllReferences
  /\ pass \in {"direct", "far", "indexed"} => stmts = AllStatements

LEMMA AllStay ==
  ASSUME UNCHANGED <<repo, qname, aliases, impls>>
  PROVE  AllReferences' = AllReferences /\ AllStatements' = AllStatements
<1>1. Ids' = Ids /\ Functions' = Functions
  BY DEF Ids, Functions, IsFunction, Sym
<1> QED BY <1>1, RecordsOfSame DEF AllReferences, AllStatements

\* No pass adds to the records of another.
LEMMA RecordsMadeNext == TypeOK /\ RecordsMade /\ [Next]_vars => RecordsMade'
<1> SUFFICES ASSUME TypeOK, RecordsMade, [Next]_vars PROVE RecordsMade'
  OBVIOUS
<1>1. CASE BuildRecords \/ BuildImport \/ ImportsDone \/ ResolveImpls \/ ResolveSupers
  <2>1. pass' \notin {"stmts", "direct", "far", "indexed"}
    BY <1>1 DEF BuildRecords, BuildImport, ImportsDone, ResolveImpls, ResolveSupers
  <2> QED BY <2>1 DEF RecordsMade
<1>2. CASE BuildReferences
  <2>1. pass' = "stmts" /\ refs' = AllReferences /\ UNCHANGED <<repo, qname, aliases, impls>>
    BY <1>2 DEF BuildReferences, AllReferences
  <2> QED BY <2>1, AllStay DEF RecordsMade
<1>3. CASE BuildStatements
  <2>1. /\ pass = "stmts" /\ pass' = "direct" /\ stmts' = AllStatements /\ refs' = refs
        /\ UNCHANGED <<repo, qname, aliases, impls>>
    BY <1>3 DEF BuildStatements, AllStatements
  <2> QED BY <2>1, AllStay DEF RecordsMade
<1>4. CASE SummarizeDirect \/ SummarizeFar
  <2>1. pass \in {"direct", "far"} /\ UNCHANGED <<repo, qname, aliases, impls, refs, stmts>>
    BY <1>4 DEF SummarizeDirect, SummarizeFar
  <2> QED BY <2>1, AllStay DEF RecordsMade
<1>5. CASE GraphNext \/ Done \/ UNCHANGED vars
  <2>1. UNCHANGED index
    BY <1>5 DEF GraphNext, AddFiles, AddSymbols, AddImports, AddReferences, AddSemantics, AddOverrides,
                AddStatements, Pass, Done, vars
  <2> QED BY <2>1, AllStay DEF index, RecordsMade
<1> QED BY <1>1, <1>2, <1>3, <1>4, <1>5 DEF Next, IndexNext

-----------------------------------------------------------------------------
(* A variable bound by one `let` *)

\* What is known of symbol i when its lines are resolved.
LEMMA InsideOf ==
  ASSUME TypeOK, IndexOK, pass # "records", NEW i \in Ids
  PROVE  /\ WellFormed(repo) /\ NamesOK /\ AtOK(Context(i)) /\ SelfOf(i) \in Seq(Seg) /\ i # 0
         /\ \A k \in DOMAIN Sym(i).body : LineOK(Sym(i).body[k])
<1>1. WellFormed(repo) /\ NamesOK /\ ImplsOK /\ AliasesOK
  BY DEF TypeOK, PassesOK, IndexOK
<1>2. i # 0 /\ SymbolOK(Sym(i))
  BY <1>1 DEF WellFormed, Ids, Sym
<1> QED BY <1>1, <1>2, ContextOK, SelfTyped DEF SymbolOK

\* An identifier as a path.
LEMMA OneSegment ==
  ASSUME NEW x \in Words
  PROVE  <<x>> \in Names /\ Len(<<x>>) = 1 /\ Head(<<x>>) = x /\ LastSeg(<<x>>) = x
<1>1. x \in Seg
  BY DEF Seg
<1>2. <<x>> \in Seq(Seg) /\ <<x>> # <<>> /\ Len(<<x>>) = 1 /\ <<x>>[1] = x /\ Head(<<x>>) = x
  BY <1>1
<1> QED BY <1>2 DEF Names, LastSeg

\* What symbol i reads as x is its only local of that name.
LEMMA ReadsTheLocal ==
  ASSUME TypeOK, IndexOK, pass # "records", NEW i \in Ids, NEW x \in Words, x \notin Reserved,
         NEW j, LocalsOf(i, x) = {j}
  PROVE  Target(ResolveIn(i, <<x>>)) = Node(j)
<1> DEFINE e     == <<x>>
           names == Candidates(e, Context(i), SelfOf(i))
           local == IF Len(e) = 1 /\ i # 0 THEN LocalsOf(i, Head(e)) ELSE {}
           best  == Best(names, LastSeg(e), Context(i), SelfOf(i))
           q     == names[Only(Hit(names))]
<1>1. Len(e) = 1 /\ Head(e) = x /\ e # <<>> /\ i # 0
  BY OneSegment, InsideOf DEF Names
<1>2. ResolveIn(i, e) =
        IF e = <<>> \/ (Len(e) = 1 /\ Head(e) \in Reserved) THEN Unresolved(e)
        ELSE IF \E v \in local : local = {v} THEN Resolved(Only(local), qname[Only(local)])
        ELSE IF Hit(names) # {} THEN Resolved(Only(Exact(q)), q)
        ELSE IF best # {} THEN Resolved(Only(best), qname[Only(best)])
        ELSE Unresolved(names[1])
  BY DEF ResolveIn, Resolve
<1>3. local = {j}
  BY <1>1
<1> HIDE DEF e, names, local, best, q
<1>4. ResolveIn(i, e) = Resolved(Only(local), qname[Only(local)])
  BY <1>1, <1>2, <1>3
<1>5. Only(local) = j
  BY <1>3, OnlyIn
<1>6. j # 0
  <2>1. j \in Ids
    BY DEF LocalsOf
  <2> QED BY <2>1, InsideOf
<1>7. ResolveIn(i, e).id = j
  BY <1>4, <1>5 DEF Resolved
<1> QED BY <1>6, <1>7 DEF Target, Node, e

\* An edge to a symbol comes of a resolution to it.
LEMMA TargetIs ==
  ASSUME NEW r, NEW j, Target(r) = Node(j)
  PROVE  r.id = j
<1>1. Node(j)[1] = "sym" /\ Node(j)[2] = j
  BY DEF Node
<1>2. CASE r.id # 0
  <2>1. Target(r)[2] = r.id
    BY <1>2 DEF Target
  <2> QED BY <1>1, <2>1
<1>3. CASE r.id = 0
  <2>1. Target(r)[1] = "ref"
    BY <1>3 DEF Target
  <2>2. Node(j)[1] = "ref"
    BY <2>1
  <2> QED BY <1>1, <2>2
<1> QED BY <1>2, <1>3

\* A path or a member that means a local is called as it is.
LEMMA MeansALocal ==
  ASSUME TypeOK, IndexOK, pass # "records", NEW i \in Ids, NEW j \in Ids, Sym(j).kind = "local"
  PROVE  /\ \A e \in Names : LastSeg(e) \in Words /\ Target(ResolveIn(i, e)) = Node(j)
                                => Sym(j).name = LastSeg(e)
         /\ \A p \in DOMAIN Dot : Target(ResolveMember(i, p)) = Node(j) => Sym(j).name = p[2]
<1>1. WellFormed(repo) /\ NamesOK /\ AtOK(Context(i)) /\ SelfOf(i) \in Seq(Seg) /\ j # 0
  BY InsideOf
<1>2. ASSUME NEW e \in Names, LastSeg(e) \in Words, Target(ResolveIn(i, e)) = Node(j)
      PROVE  Sym(j).name = LastSeg(e)
  <2>1. Resolve(e, Context(i), i, SelfOf(i)).id = j
    BY <1>2, TargetIs DEF ResolveIn
  <2> QED BY <1>1, <1>2, <2>1, LocalByName
<1>3. ASSUME NEW p \in DOMAIN Dot, Target(ResolveMember(i, p)) = Node(j)
      PROVE  Sym(j).name = p[2]
  <2> DEFINE owner == IF p[1] \in {"self", "Self"} /\ SelfOf(i) # NoSelf THEN SelfOf(i)
                      ELSE IF p[1] \in Upper \ Reserved THEN ResolveIn(i, <<p[1]>>).name
                      ELSE NoSelf
  <2>1. p[1] \in Words /\ p[2] \in Words
    BY DotAssumption
  <2>2. owner \in Seq(Seg)
    <3>1. ResolveIn(i, <<p[1]>>).name \in Seq(Seg)
      <4>1. <<p[1]>> \in Seq(Seg)
        BY <2>1, OneSegment DEF Names
      <4> QED BY <1>1, <4>1, ResolveTyped DEF ResolveIn
    <3>2. NoSelf \in Seq(Seg)
      BY EmptySeq DEF NoSelf
    <3> QED BY <1>1, <3>1, <3>2
  <2>3. ResolveMember(i, p) = IF owner = NoSelf THEN Unresolved(<<Dot[p]>>) ELSE ResolveIn(i, owner \o <<p[2]>>)
    BY DEF ResolveMember
  <2>4. ResolveMember(i, p).id = j
    BY <1>3, TargetIs
  <2> HIDE DEF owner
  <2>5. CASE owner = NoSelf
    BY <1>1, <2>3, <2>4, <2>5 DEF Unresolved
  <2>6. CASE owner # NoSelf
    <3>1. owner \o <<p[2]>> \in Names /\ LastSeg(owner \o <<p[2]>>) = p[2]
      <4>1. <<p[2]>> \in Seq(Seg) /\ <<p[2]>> # <<>> /\ LastSeg(<<p[2]>>) = p[2]
        BY <2>1, OneSegment DEF Names
      <4> QED BY <2>2, <4>1, Joined DEF Names
    <3>2. Target(ResolveIn(i, owner \o <<p[2]>>)) = Node(j)
      BY <1>3, <2>3, <2>6
    <3> QED BY <1>2, <2>1, <3>1, <3>2
  <2> QED BY <2>5, <2>6
<1> QED BY <1>2, <1>3

\* What a line binds, writes, names or takes a member of, it holds.
LEMMA NamedTokens ==
  ASSUME NEW l, LineOK(l),
         NEW x \in l.lets \cup l.lhs \cup l.idents \cup {p[1] : p \in l.mcalls \cup l.fields \cup l.members}
  PROVE  x \in Tokens(l)
<1>1. CASE x \in l.lets \cup l.lhs \cup l.idents
  BY <1>1 DEF Tokens
<1>2. CASE \E p \in l.mcalls \cup l.fields \cup l.members : x = p[1]
  <2>1. PICK p \in l.members \cup l.mcalls \cup l.fields : x = p[1]
    BY <1>2
  <2>2. p \in Words \X Words
    BY <2>1, DotAssumption DEF LineOK
  <2>3. 1 \in DOMAIN p
    BY <2>2
  <2>4. x \in Segs(l.members \cup l.mcalls \cup l.fields)
    BY <2>1, <2>3 DEF Segs
  <2> QED BY <2>4 DEF Tokens
<1> QED BY <1>1, <1>2

\* A statement is seen to bind the local where its line does.
LEMMA BindsTheLocal ==
  ASSUME TypeOK, IndexOK, pass # "records", NEW i \in Functions, NEW j \in Ids, NEW k \in DOMAIN Sym(i).body,
         LocalsOf(i, Sym(j).name) = {j}, Sym(j).name \notin Reserved,
         \A p \in Sym(i).body[k].members : p[2] # Sym(j).name
  PROVE  Node(j) \in Statement(i, k).defines \cup Statement(i, k).writes
           <=> Sym(j).name \in Sym(i).body[k].lets \cup Sym(i).body[k].lhs
<1> DEFINE x == Sym(j).name
           l == Sym(i).body[k]
           s == Statement(i, k)
           Local(y) == {v \in LocalsOf(i, y) : Sym(v).line = k}
<1>1. /\ LineOK(l) /\ WellFormed(repo) /\ Sym(j).kind = "local" /\ Sym(j).container = i
      /\ x \in Words /\ i \in Ids /\ IsFunction(i)
  <2>0. i \in Ids /\ IsFunction(i)
    BY DEF Functions
  <2>1. j \in LocalsOf(i, x) /\ SymbolOK(Sym(j))
    BY <2>0, InsideOf DEF WellFormed, Ids, Sym
  <2> QED BY <2>0, <2>1, InsideOf DEF LocalsOf, SymbolOK
<1>2. s.defines = UNION {IF Local(y) = {} THEN {<<"ref", <<y>>>>} ELSE {<<"sym", v>> : v \in Local(y)} : y \in l.lets}
  BY DEF Statement
<1>3. s.writes = {Target(ResolveIn(i, e)) : e \in {<<y>> : y \in l.lhs}}
                   \cup {Target(ResolveMember(i, p)) : p \in l.members}
  BY DEF Statement
<1>4. Node(j) \in s.defines <=> x \in l.lets
  <2>1. ASSUME x \in l.lets PROVE Node(j) \in s.defines
    <3>1. \E v \in Ids : Sym(v).kind = "local" /\ Sym(v).name = x /\ Sym(v).container = i /\ Sym(v).line = k
      <4>1. LocalsMade(repo)
        BY <1>1 DEF WellFormed
      <4> QED BY <1>1, <2>1, <4>1 DEF LocalsMade, Ids, Sym, IsFunction
    <3>2. j \in Local(x)
      BY <3>1 DEF LocalsOf
    <3>3. <<"sym", j>> \in {<<"sym", v>> : v \in Local(x)} /\ Local(x) # {}
      BY <3>2
    <3> HIDE DEF Local, x, l
    <3> QED BY <1>2, <2>1, <3>3 DEF Node
  <2>2. ASSUME Node(j) \in s.defines PROVE x \in l.lets
    <3>1. PICK y \in l.lets : Node(j) \in (IF Local(y) = {} THEN {<<"ref", <<y>>>>} ELSE {<<"sym", v>> : v \in Local(y)})
      <4> HIDE DEF Local, l
      <4> QED BY <1>2, <2>2
    <3>2. j \in Local(y)
      <4> HIDE DEF Local
      <4>1. Node(j)[1] = "sym" /\ Node(j)[2] = j /\ <<"ref", <<y>>>>[1] = "ref"
        BY DEF Node
      <4> QED BY <3>1, <4>1
    <3> QED BY <3>2 DEF LocalsOf
  <2> QED BY <2>1, <2>2
<1>5. Node(j) \in s.writes <=> x \in l.lhs
  <2>1. ASSUME x \in l.lhs PROVE Node(j) \in s.writes
    <3>1. Target(ResolveIn(i, <<x>>)) = Node(j)
      BY <1>1, ReadsTheLocal
    <3> QED BY <1>3, <2>1, <3>1
  <2>2. ASSUME Node(j) \in s.writes PROVE x \in l.lhs
    <3>1. CASE \E y \in l.lhs : Node(j) = Target(ResolveIn(i, <<y>>))
      <4>1. PICK y \in l.lhs : Node(j) = Target(ResolveIn(i, <<y>>))
        BY <3>1
      <4>2. y \in Words
        BY <1>1 DEF LineOK
      <4>3. <<y>> \in Names /\ LastSeg(<<y>>) = y
        BY <4>2, OneSegment
      <4>4. x = y
        BY <1>1, <4>1, <4>2, <4>3, MeansALocal
      <4> QED BY <4>4
    <3>2. CASE \E p \in l.members : Node(j) = Target(ResolveMember(i, p))
      <4>1. PICK p \in l.members : Node(j) = Target(ResolveMember(i, p))
        BY <3>2
      <4>2. p \in DOMAIN Dot
        BY <1>1 DEF LineOK
      <4> QED BY <1>1, <4>1, <4>2, MeansALocal
    <3> QED BY <1>3, <2>2, <3>1, <3>2
  <2> QED BY <2>1, <2>2
<1> QED BY <1>4, <1>5

\* A statement is seen to read the local where its line names it, and neither
\* binds nor calls it.
LEMMA ReadsOfTheLocal ==
  ASSUME TypeOK, IndexOK, pass # "records", NEW i \in Ids, NEW j \in Ids, NEW k \in DOMAIN Sym(i).body,
         LocalsOf(i, Sym(j).name) = {j}, Sym(j).name \notin Reserved,
         LET x == Sym(j).name
             l == Sym(i).body[k]
         IN /\ x \in l.idents \cup {p[1] : p \in l.mcalls \cup l.fields \cup l.members}
            /\ x \notin l.lets \cup l.lhs /\ <<x>> \notin Calls(l)
  PROVE  Node(j) \in Statement(i, k).reads
<1> DEFINE x == Sym(j).name
           l == Sym(i).body[k]
<1>1. LineOK(l) /\ x \in Words
  <2>1. j \in LocalsOf(i, x) /\ SymbolOK(Sym(j))
    BY InsideOf DEF WellFormed, Ids, Sym
  <2> QED BY <2>1, InsideOf DEF LocalsOf, SymbolOK
<1>2. x \in Tokens(l)
  BY <1>1, NamedTokens
<1>3. x \notin Excluded(l)
  <2>1. x \notin Dots(l.members \cup l.mcalls)
    BY <1>1, DotAssumption DEF Dots, LineOK
  <2>2. ASSUME NEW e \in Calls(l), Len(e) = 1 PROVE x # LastSeg(e)
    <3>1. e \in Seq(Words)
      <4>1. CASE e \in l.calls
        BY <1>1, <4>1 DEF LineOK, Path
      <4>2. CASE \E p \in l.mcalls : e = <<p[2]>>
        <5>1. PICK p \in l.mcalls : e = <<p[2]>>
          BY <4>2
        <5>2. p[2] \in Words
          BY <1>1, <5>1, DotAssumption DEF LineOK
        <5> QED BY <5>1, <5>2
      <4> QED BY <4>1, <4>2 DEF Calls
    <3>2. e = <<LastSeg(e)>>
      BY <2>2, <3>1 DEF LastSeg
    <3> QED BY <2>2, <3>2
  <2> HIDE DEF l, x
  <2>3. x \notin {LastSeg(e) : e \in {c \in Calls(l) : Len(c) = 1}}
    BY <2>2
  <2>4. x \notin l.lets \cup l.lhs
    BY DEF x, l
  <2> QED BY <2>1, <2>3, <2>4 DEF Excluded
<1>4. Target(ResolveIn(i, <<x>>)) = Node(j)
  BY <1>1, ReadsTheLocal
<1>5. \A y : Node(j) # <<"ref", <<y>>>>
  <2>1. Node(j)[1] = "sym"
    BY DEF Node
  <2> QED BY <2>1
<1>6. <<x>> \in {<<y>> : y \in Tokens(l) \ (Excluded(l) \cup Reserved)}
  BY <1>2, <1>3
<1>7. {Target(ResolveIn(i, e)) : e \in {<<y>> : y \in Tokens(l) \ (Excluded(l) \cup Reserved)}}
         \ {<<"ref", <<y>>>> : y \in Tokens(l) \ Upper} \subseteq Statement(i, k).reads
  BY DEF Statement
<1> HIDE DEF x, l
<1> QED BY <1>4, <1>5, <1>6, <1>7

\* The statements of a function are those of its lines.
LEMMA StatementOf ==
  ASSUME stmts = AllStatements, NEW i \in Functions
  PROVE  /\ \A k \in StatementLines(i) : Statement(i, k) \in stmts
         /\ \A k \in StatementLines(i) : Statement(i, k).fn = i /\ Statement(i, k).line = k
         /\ \A s \in stmts : s.fn = i => s.line \in StatementLines(i) /\ s = Statement(i, s.line)
<1>1. \A n \in Functions : \A k : Statement(n, k).fn = n /\ Statement(n, k).line = k
  BY DEF Statement
<1>2. \A k \in StatementLines(i) : Statement(i, k) \in stmts
  BY DEF AllStatements
<1>3. ASSUME NEW s \in stmts, s.fn = i PROVE s.line \in StatementLines(i) /\ s = Statement(i, s.line)
  <2>1. PICK n \in Functions : \E k \in StatementLines(n) : s = Statement(n, k)
    BY DEF AllStatements
  <2>2. PICK k \in StatementLines(n) : s = Statement(n, k)
    BY <2>1
  <2> QED BY <1>1, <1>3, <2>2
<1> QED BY <1>1, <1>2, <1>3

\* The ends of an edge of the flow of data.
LEMMA FlowParts ==
  \A s, t, key : /\ FlowEdge(s, t, key).type = "DATA_FLOW"
                 /\ FlowEdge(s, t, key).from[3] = s.line
                 /\ FlowEdge(s, t, key).to = <<"stmt", t.fn, t.line>>
                 /\ FlowEdge(s, t, key).meta = <<"via", key>>
<1> SUFFICES ASSUME NEW s, NEW t, NEW key
             PROVE  /\ FlowEdge(s, t, key).type = "DATA_FLOW"
                    /\ FlowEdge(s, t, key).from[3] = s.line
                    /\ FlowEdge(s, t, key).to = <<"stmt", t.fn, t.line>>
                    /\ FlowEdge(s, t, key).meta = <<"via", key>>
  OBVIOUS
<1>1. /\ FlowEdge(s, t, key).type = "DATA_FLOW" /\ FlowEdge(s, t, key).from = StmtNode(s)
      /\ FlowEdge(s, t, key).to = StmtNode(t) /\ FlowEdge(s, t, key).meta = <<"via", key>>
  BY DEF FlowEdge, Edge
<1>2. StmtNode(s)[3] = s.line
  BY DEF StmtNode
<1>3. FlowEdge(s, t, key).from[3] = s.line
  BY <1>1, <1>2
<1> QED BY <1>1, <1>3 DEF StmtNode

BindsAt(i, m, x) == x \in Sym(i).body[m].lets \cup Sym(i).body[m].lhs
ReadsAt(i, k, x) ==
  LET l == Sym(i).body[k]
  IN /\ x \in l.idents \cup {p[1] : p \in l.mcalls \cup l.fields \cup l.members}
     /\ ~BindsAt(i, k, x) /\ <<x>> \notin Calls(l)
BoundBefore(i, k, x) == {m \in 1..(k - 1) : BindsAt(i, m, x)}
LastBound(i, k, x)   == {m \in BoundBefore(i, k, x) : \A n \in BoundBefore(i, k, x) : n <= m}
FlowEdges(i, k, j) ==
  {d \in edges : /\ d.type = "DATA_FLOW" /\ d.to = <<"stmt", i, k>>
                 /\ d.meta = <<"via", Node(j)>>}

\* The edges into a reader, which come from the last line before it that binds.
LEMMA FlowOfTheLocal ==
  ASSUME TypeOK, IndexOK, RecordsMade, EdgeInv, step = "done",
         NEW i \in Functions, NEW j \in Ids, NEW k \in DOMAIN Sym(i).body,
         LocalsOf(i, Sym(j).name) = {j}, Sym(j).name \notin Reserved,
         \A m \in DOMAIN Sym(i).body : \A p \in Sym(i).body[m].members : p[2] # Sym(j).name,
         ReadsAt(i, k, Sym(j).name)
  PROVE  LET flows == {e.from[3] : e \in FlowEdges(i, k, j)}
         IN /\ flows \subseteq LastBound(i, k, Sym(j).name)
            /\ Cardinality(Expressions(Sym(i).body[k])) <= FlowCap => flows = LastBound(i, k, Sym(j).name)
<1> DEFINE x == Sym(j).name
           body == Sym(i).body
           Binds(m) == BindsAt(i, m, x)
           Before == BoundBefore(i, k, x)
           Last == LastBound(i, k, x)
           F == FlowEdges(i, k, j)
           t == Statement(i, k)
<1>1. /\ i \in Ids /\ pass = "indexed" /\ stmts = AllStatements
      /\ \A m \in DOMAIN body : LineOK(body[m])
      /\ DOMAIN body = 1..Len(body) /\ Len(body) \in Nat
  <2>1. i \in Ids /\ pass = "indexed"
    BY DEF Functions, TypeOK, PassesOK
  <2>2. DOMAIN body = 1..Len(body) /\ Len(body) \in Nat
    BY <2>1 DEF TypeOK, PassesOK, WellFormed, Ids, Sym
  <2> QED BY <2>1, <2>2, InsideOf DEF RecordsMade
<1>2. \A m \in DOMAIN body : x \in Tokens(body[m]) => m \in StatementLines(i)
  BY <1>1 DEF LineOK, StatementLines
<1>3. k \in StatementLines(i)
  <2>1. x \in Tokens(body[k])
    BY <1>1, NamedTokens DEF ReadsAt
  <2> QED BY <1>2, <2>1
<1>4. \A m \in DOMAIN body : Binds(m) => m \in StatementLines(i)
  <2> SUFFICES ASSUME NEW m \in DOMAIN body, Binds(m) PROVE x \in Tokens(body[m])
    BY <1>2
  <2> QED BY <1>1, NamedTokens DEF BindsAt
<1>5. Node(j) \in t.reads
  BY <1>1, ReadsOfTheLocal DEF ReadsAt, BindsAt
<1>6. \A m \in DOMAIN body : Node(j) \in Statement(i, m).defines \cup Statement(i, m).writes <=> Binds(m)
  BY <1>1, BindsTheLocal DEF BindsAt
<1>7. /\ \A m \in StatementLines(i) : Statement(i, m) \in stmts /\ Statement(i, m).fn = i /\ Statement(i, m).line = m
      /\ \A s \in stmts : s.fn = i => s.line \in StatementLines(i) /\ s = Statement(i, s.line)
      /\ StatementLines(i) \subseteq DOMAIN body
  BY <1>1, StatementOf DEF StatementLines
<1>8. \A m \in 1..(k - 1) : m \in DOMAIN body
  BY <1>1
<1> HIDE DEF Binds, body, t
<1> DEFINE B == {s \in stmts : s.fn = i /\ s.line < k /\ Node(j) \in s.defines \cup s.writes}
<1>9. Writers(t, Node(j)) = {s \in B : \A u \in B : u.line <= s.line}
  <2>1. t.fn = i /\ t.line = k
    BY <1>3, <1>7 DEF t
  <2> QED BY <2>1 DEF Writers
<1>10. /\ \A s \in B : s.line \in Before
       /\ \A m \in Before : Statement(i, m) \in B /\ Statement(i, m).line = m
  <2>1. ASSUME NEW s \in B PROVE s.line \in Before
    <3>1. s.line \in DOMAIN body /\ s = Statement(i, s.line) /\ s.line < k
      BY <1>7
    <3>2. Binds(s.line)
      BY <1>6, <3>1
    <3>3. s.line \in 1..(k - 1)
      <4>1. DOMAIN body = 1..Len(body) /\ Len(body) \in Nat /\ k \in DOMAIN body
        BY <1>1 DEF body
      <4>2. s.line \in 1..Len(body)
        BY <3>1, <4>1
      <4> QED BY <3>1, <4>1, <4>2
    <3> QED BY <3>2, <3>3 DEF BoundBefore, Binds
  <2>2. ASSUME NEW m \in Before PROVE Statement(i, m) \in B /\ Statement(i, m).line = m
    <3>1. m \in 1..(k - 1) /\ Binds(m)
      BY DEF BoundBefore, Binds
    <3>2. m \in DOMAIN body /\ m \in StatementLines(i)
      BY <1>4, <1>8, <3>1
    <3>3. m < k
      <4>1. k \in Int
        BY <1>1 DEF body
      <4> QED BY <3>1, <4>1
    <3> QED BY <1>6, <1>7, <3>1, <3>2, <3>3
  <2> QED BY <2>1, <2>2
<1> HIDE DEF B
<1>11. ASSUME NEW e \in F PROVE e.from[3] \in Last
  <2>0. e \in edges /\ e.type = "DATA_FLOW" /\ e.to = <<"stmt", i, k>> /\ e.meta = <<"via", Node(j)>>
    BY DEF FlowEdges
  <2>1. IsFlowEdge(e)
    BY <2>0 DEF EdgeInv
  <2>2. PICK u \in stmts : \E key \in u.reads : \E s \in Writers(u, key) : e = FlowEdge(s, u, key)
    BY <2>1 DEF IsFlowEdge
  <2>3. PICK key \in u.reads : \E s \in Writers(u, key) : e = FlowEdge(s, u, key)
    BY <2>2
  <2>4. PICK s \in Writers(u, key) : e = FlowEdge(s, u, key)
    BY <2>3
  <2>5. e.from[3] = s.line /\ e.to = <<"stmt", u.fn, u.line>> /\ e.meta = <<"via", key>>
    BY <2>4, FlowParts
  <2>6. u.fn = i /\ u.line = k /\ key = Node(j)
    <3>1. <<"stmt", u.fn, u.line>> = <<"stmt", i, k>> /\ <<"via", key>> = <<"via", Node(j)>>
      BY <2>0, <2>5
    <3> QED BY <3>1
  <2>7. u = t
    BY <1>7, <2>6 DEF t
  <2>8. s \in B /\ \A v \in B : v.line <= s.line
    BY <1>9, <2>4, <2>6, <2>7
  <2>9. s.line \in Before /\ \A n \in Before : n <= s.line
    BY <1>10, <2>8
  <2> QED BY <2>5, <2>9 DEF LastBound
<1>12. ASSUME Whole(t, FlowCap), NEW m \in Last PROVE \E e \in F : e.from[3] = m
  <2> DEFINE s == Statement(i, m)
  <2>1. s \in B /\ s.line = m /\ \A v \in B : v.line <= s.line
    BY <1>10 DEF LastBound
  <2> HIDE DEF s
  <2>2. s \in Writers(t, Node(j)) /\ t \in stmts /\ t.fn = i /\ t.line = k
    BY <1>3, <1>7, <1>9, <2>1 DEF t
  <2>3. FlowEdge(s, t, Node(j)) \in edges
    BY <1>5, <1>12, <2>2 DEF EdgeInv
  <2>4. FlowEdge(s, t, Node(j)) \in F /\ FlowEdge(s, t, Node(j)).from[3] = m
    BY <2>1, <2>2, <2>3, FlowParts DEF FlowEdges
  <2> QED BY <2>4
<1>13. Cardinality(Expressions(body[k])) <= FlowCap => Whole(t, FlowCap)
  BY <1>3, <1>7 DEF Whole, body, t
<1> HIDE DEF F, Last
<1>14. /\ {e.from[3] : e \in F} \subseteq Last
       /\ Cardinality(Expressions(body[k])) <= FlowCap => {e.from[3] : e \in F} = Last
  BY <1>11, <1>12, <1>13
<1> QED BY <1>14 DEF F, Last, body

\* FlowIsLastBinding: in every repository, however the passes resolve the other
\* names of the body, and whatever a line that is cut short leaves out.
THEOREM FlowsFromLastBinding == Spec => []FlowIsLastBinding
<1>1. TypeOK /\ IndexOK /\ RecordsMade /\ EdgeInv => FlowIsLastBinding
  <2> SUFFICES ASSUME TypeOK, IndexOK, RecordsMade, EdgeInv, step = "done",
                      NEW i \in Functions, NEW j \in {v \in Ids : Sym(v).kind = "local" /\ Sym(v).container = i},
                      \A v \in LocalsOf(i, Sym(j).name) : v = j, Sym(j).name \notin Reserved,
                      \A k \in DOMAIN Sym(i).body : \A p \in Sym(i).body[k].members : p[2] # Sym(j).name,
                      NEW k \in DOMAIN Sym(i).body, ReadsAt(i, k, Sym(j).name)
               PROVE  LET flows == {e.from[3] : e \in FlowEdges(i, k, j)}
                      IN /\ flows \subseteq LastBound(i, k, Sym(j).name)
                         /\ Cardinality(Expressions(Sym(i).body[k])) <= FlowCap
                            => flows = LastBound(i, k, Sym(j).name)
    BY DEF FlowIsLastBinding, FlowEdges, LastBound, BoundBefore, BindsAt, ReadsAt
  <2>1. LocalsOf(i, Sym(j).name) = {j}
    BY DEF LocalsOf
  <2> QED BY <2>1, FlowOfTheLocal
<1>2. Init => TypeOK /\ IndexOK /\ RecordsMade /\ EdgeInv
  BY TypeInit, IndexOKInit, CallsInit DEF Init, IndexInit, RecordsMade
<1> QED BY <1>1, <1>2, TypeNext, IndexOKNext, RecordsMadeNext, EdgeInvNext, PTL DEF Spec

-----------------------------------------------------------------------------
(* The calls of a statement among the references of its function *)

\* No symbol but j has the qualified name of j.
Alone(j) == \A v \in Ids : qname[v] = qname[j] => v = j

\* A path resolves to a symbol that alone bears its name exactly if it is
\* resolved by that name.
LEMMA HintIs ==
  ASSUME WellFormed(repo), NamesOK, NEW at, AtOK(at), NEW self \in Seq(Seg), NEW e \in Seq(Seg), NEW scope,
         NEW j \in Ids, Alone(j)
  PROVE  LET r == Resolve(e, at, scope, self)
         IN (r.id = j <=> r.hint = qname[j]) /\ (r.id = j => r.name = qname[j])
<1> DEFINE names == Candidates(e, at, self)
           r     == Resolve(e, at, scope, self)
<1>1. /\ \A i, h : Resolved(i, h).id = i /\ Resolved(i, h).hint = h /\ Resolved(i, h).name = qname[i]
      /\ \A p : Unresolved(p).id = 0 /\ Unresolved(p).hint = p
  BY DEF Resolved, Unresolved
<1>2. j # 0 /\ Len(qname[j]) # 1 /\ qname[j] # <<>>
  <2>1. j # 0
    BY DEF WellFormed, Ids
  <2>2. qname[j] \in Seq(Seg) /\ qname[j] # <<>> /\ Len(qname[j]) >= 2
    BY NameIn DEF Names
  <2>3. Len(qname[j]) \in Nat
    BY <2>2, LenProperties
  <2>4. \A n \in Nat : n >= 2 => n # 1
    OBVIOUS
  <2> QED BY <2>1, <2>2, <2>3, <2>4
<1>3. j \in Exact(qname[j])
  <2>1. \A v \in 1..(j - 1) : v \in Ids /\ v # j
    BY DEF WellFormed, Ids
  <2> QED BY <2>1 DEF Exact, Alone
<1>4. e \in Names => 1 \in DOMAIN names
  <2> SUFFICES ASSUME e \in Names PROVE 1 \in DOMAIN names
    OBVIOUS
  <2> DEFINE T == {p \in Names : LastSeg(p) \in Words \cup {LastSeg(e)}}
  <2>1. names \in Seq(T) /\ names # <<>>
    BY CandidatesOK
  <2> HIDE DEF names, T
  <2> QED BY <2>1, EmptySeq, LenProperties
<1> HIDE DEF names, r
<1>5. \/ (e = <<>> \/ (Len(e) = 1 /\ Head(e) \in Reserved)) /\ r = Unresolved(e)
      \/ \E v \in Ids : r = Resolved(v, qname[v])
      \/ e \in Names /\ Hit(names) = {} /\ r = Unresolved(names[1])
  <2>1. \A p : \A v \in Exact(p) : v \in Ids /\ p = qname[v]
    BY DEF Exact
  <2>2. \A x : \A v \in LocalsOf(scope, x) : v \in Ids
    BY DEF LocalsOf
  <2> QED BY <2>1, <2>2, ResolveCases DEF names, r
<1>6. CASE (e = <<>> \/ (Len(e) = 1 /\ Head(e) \in Reserved)) /\ r = Unresolved(e)
  <2>1. e # qname[j]
    BY <1>2, <1>6
  <2>2. r.id = 0 /\ r.hint = e
    BY <1>1, <1>6
  <2>3. (r.id = j <=> r.hint = qname[j]) /\ (r.id = j => r.name = qname[j])
    BY <1>2, <2>1, <2>2
  <2> QED BY <2>3 DEF r
<1>7. CASE \E v \in Ids : r = Resolved(v, qname[v])
  <2>1. PICK v \in Ids : r = Resolved(v, qname[v])
    BY <1>7
  <2>2. r.id = v /\ r.hint = qname[v] /\ r.name = qname[v]
    BY <1>1, <2>1
  <2>3. (r.id = j <=> r.hint = qname[j]) /\ (r.id = j => r.name = qname[j])
    BY <2>2 DEF Alone
  <2> QED BY <2>3 DEF r
<1>8. CASE e \in Names /\ Hit(names) = {} /\ r = Unresolved(names[1])
  <2>1. Exact(names[1]) = {}
    <3>1. 1 \in DOMAIN names /\ 1..(1 - 1) = {}
      BY <1>4, <1>8
    <3> QED BY <1>8, <3>1 DEF Hit
  <2>2. r.id = 0 /\ r.hint = names[1]
    BY <1>1, <1>8
  <2>3. (r.id = j <=> r.hint = qname[j]) /\ (r.id = j => r.name = qname[j])
    BY <1>2, <1>3, <2>1, <2>2
  <2> QED BY <2>3 DEF r
<1> QED BY <1>5, <1>6, <1>7, <1>8

\* A qualified name that means there what it says is resolved to who bears it.
LEMMA MeansItself ==
  ASSUME TypeOK, IndexOK, pass # "records", NEW i \in Ids, NEW j \in Ids, Alone(j),
         OwnMeaning(qname[j], Sym(i).file)
  PROVE  ResolveIn(i, qname[j]).id = j
<1> DEFINE e     == qname[j]
           at    == Context(i)
           self  == SelfOf(i)
           x     == Head(e)
           file  == repo.files[at.file]
           names == Candidates(e, at, self)
           local == IF Len(e) = 1 /\ i # 0 THEN LocalsOf(i, Head(e)) ELSE {}
           best  == Best(names, LastSeg(e), at, self)
           q     == names[Only(Hit(names))]
<1>1. /\ WellFormed(repo) /\ NamesOK /\ AtOK(at) /\ self \in Seq(Seg)
      /\ e \in Seq(Seg) /\ e # <<>> /\ Len(e) >= 2 /\ Len(e) \in Nat
  <2>1. e \in Names /\ Len(e) >= 2
    BY InsideOf, NameIn
  <2> QED BY <2>1, InsideOf, LenProperties DEF Names
<1>2. Len(e) # 1
  <2>1. \A n \in Nat : n >= 2 => n # 1
    OBVIOUS
  <2> QED BY <1>1, <2>1
<1>3. at.file = Sym(i).file /\ at.known = aliases[Sym(i).file]
  BY DEF Context
<1>4. x \notin {"Self", "crate", "super"} /\ x \notin DOMAIN at.known
      /\ (x \in DOMAIN file.deps => file.deps[x] = <<x>>)
  BY <1>3 DEF OwnMeaning
<1>5. Normalize(e, at.module, file, self) = e
  <2>1. <<x>> \o Tail(e) = e
    BY <1>1
  <2> QED BY <1>2, <1>4, <2>1 DEF Normalize
<1>6. names = <<e>>
  <2> DEFINE F1 == If(x = "Self" /\ self # NoSelf, self \o Tail(e))
             F2 == If(x = "crate", file.root \o Tail(e))
             F3 == If(x = "super", SuperPath(e, at.module, file.root))
             F4 == [k \in DOMAIN Imported(at.known, x) |-> Imported(at.known, x)[k] \o Tail(e)]
             full == F1 \o F2 \o F3 \o F4 \o <<e>>
  <2>1. F1 = <<>> /\ F2 = <<>> /\ F3 = <<>>
    BY <1>4 DEF If
  <2>2. F4 = <<>>
    <3>1. Imported(at.known, x) = <<>>
      BY <1>4 DEF Imported
    <3>2. DOMAIN F4 = 1..0
      BY <3>1
    <3>3. F4 \in Seq(Names) /\ Len(F4) = 0
      <4> HIDE DEF F4
      <4>1. F4 = [k \in 1..0 |-> F4[k]]
        BY <3>2 DEF F4
      <4>2. F4 \in [1..0 -> Names]
        BY <3>2, <4>1
      <4> QED BY <3>2, <4>2, SeqDef
    <3> QED BY <3>3, EmptySeq
  <2>3. names = [k \in DOMAIN full |-> Normalize(full[k], at.module, file, self)]
    BY <1>2 DEF Candidates
  <2> HIDE DEF F1, F2, F3, F4
  <2>4. full = <<e>>
    BY <2>1, <2>2
  <2> HIDE DEF full, e, names, file, self, at
  <2>5. names = [k \in {1} |-> e]
    BY <1>5, <2>3, <2>4
  <2> QED BY <2>5
<1> HIDE DEF names
<1>7. Exact(e) = {j}
  <2>1. \A v \in 1..(j - 1) : v \in Ids /\ v # j
    BY <1>1 DEF WellFormed, Ids
  <2> QED BY <2>1 DEF Exact, Alone
<1>8. Hit(names) = {1}
  <2>1. DOMAIN names = {1} /\ names[1] = e
    BY <1>6
  <2> QED BY <1>7, <2>1 DEF Hit
<1>9. q = e
  <2>1. Only(Hit(names)) = 1
    BY <1>8, OnlyIn
  <2> QED BY <1>6, <2>1
<1>10. ResolveIn(i, e) =
         IF e = <<>> \/ (Len(e) = 1 /\ Head(e) \in Reserved) THEN Unresolved(e)
         ELSE IF \E v \in local : local = {v} THEN Resolved(Only(local), qname[Only(local)])
         ELSE IF Hit(names) # {} THEN Resolved(Only(Exact(q)), q)
         ELSE IF best # {} THEN Resolved(Only(best), qname[Only(best)])
         ELSE Unresolved(names[1])
  BY DEF ResolveIn, Resolve, names
<1>11. local = {}
  BY <1>2
<1> HIDE DEF local, best, q, e, at, self
<1>12. ResolveIn(i, e) = Resolved(Only(Exact(q)), q)
  BY <1>1, <1>2, <1>8, <1>10, <1>11
<1>13. Only(Exact(q)) = j
  BY <1>7, <1>9, OnlyIn
<1>14. ResolveIn(i, e).id = j
  BY <1>12, <1>13 DEF Resolved
<1> QED BY <1>14 DEF e

\* What build_reference_records resolves a member call to.
Again(i, p) == ResolveIn(i, ResolveMember(i, p).name)
CallItem(rank, k, r) == [rank |-> rank, kind |-> "call", line |-> k, hint |-> r.hint, to |-> Target(r)]

\* The calls found on a line of a function.
LEMMA FoundCalls ==
  ASSUME NEW i \in Functions, NEW k \in DOMAIN Sym(i).body, k # 0
  PROVE  /\ \A e \in Calls(Sym(i).body[k]) : CallItem(2, k, ResolveIn(i, e)) \in Found(i)
         /\ \A p \in Sym(i).body[k].mcalls : CallItem(3, k, Again(i, p)) \in Found(i)
         /\ \A z \in Found(i) : z.kind = "call" /\ z.line = k =>
              \/ \E e \in Calls(Sym(i).body[k]) : z = CallItem(2, k, ResolveIn(i, e))
              \/ \E p \in Sym(i).body[k].mcalls : z = CallItem(3, k, Again(i, p))
<1> DEFINE body == Sym(i).body
           Lines == DOMAIN body
           Use(rank, n, r) == [rank |-> rank, kind |-> "use", line |-> n, hint |-> r.hint, to |-> Target(r)]
           F1 == {Use(1, 0, ResolveIn(i, e)) : e \in Sym(i).sig}
           F2 == {CallItem(2, 0, ResolveIn(i, <<Sym(i).name>>))}
           F3 == UNION {{CallItem(2, n, ResolveIn(i, e)) : e \in Calls(body[n])} : n \in Lines}
           F4 == UNION {{CallItem(3, n, Again(i, p)) : p \in body[n].mcalls} : n \in Lines}
           F5 == UNION {{Use(4, n, ResolveIn(i, e)) : e \in body[n].paths} : n \in Lines}
           F6 == UNION {{Use(5, n, Again(i, p)) : p \in body[n].fields \cup body[n].members} : n \in Lines}
<1>1. IsFunction(i)
  BY DEF Functions
<1>2. Found(i) = F1 \cup (F2 \cup F3 \cup F4 \cup F5 \cup F6)
  BY <1>1 DEF Found, CallItem, Again
<1>3. \A e \in Calls(body[k]) : CallItem(2, k, ResolveIn(i, e)) \in F3
  OBVIOUS
<1>4. \A p \in body[k].mcalls : CallItem(3, k, Again(i, p)) \in F4
  OBVIOUS
<1>5. \A rank, n, r : /\ Use(rank, n, r).kind = "use" /\ CallItem(rank, n, r).kind = "call"
                      /\ CallItem(rank, n, r).line = n
  BY DEF CallItem
<1>6. ASSUME NEW z \in Found(i), z.kind = "call", z.line = k
      PROVE  \/ \E e \in Calls(body[k]) : z = CallItem(2, k, ResolveIn(i, e))
             \/ \E p \in body[k].mcalls : z = CallItem(3, k, Again(i, p))
  <2> HIDE DEF Use
  <2>1. z \notin F1 \cup F5 \cup F6
    <3>1. \A y \in F1 \cup F5 \cup F6 : \E rank, n, r : y = Use(rank, n, r)
      OBVIOUS
    <3> HIDE DEF F1, F5, F6
    <3> QED BY <1>5, <1>6, <3>1
  <2>2. z \notin F2
    BY <1>5, <1>6
  <2>3. z \in F3 => \E e \in Calls(body[k]) : z = CallItem(2, k, ResolveIn(i, e))
    BY <1>5, <1>6
  <2>4. z \in F4 => \E p \in body[k].mcalls : z = CallItem(3, k, Again(i, p))
    BY <1>5, <1>6
  <2> HIDE DEF F1, F2, F3, F4, F5, F6
  <2> QED BY <1>2, <2>1, <2>2, <2>3, <2>4
<1> HIDE DEF F1, F2, F3, F4, F5, F6
<1> QED BY <1>2, <1>3, <1>4, <1>6

\* Whatever names a symbol has its qualified name.
LEMMA ResolvedName ==
  /\ \A i, e : ResolveIn(i, e).id # 0 => ResolveIn(i, e).name = qname[ResolveIn(i, e).id]
  /\ \A i, p : ResolveMember(i, p).id # 0 => ResolveMember(i, p).name = qname[ResolveMember(i, p).id]
<1>1. /\ \A e : Unresolved(e).id = 0
      /\ \A v, h : Resolved(v, h).name = qname[Resolved(v, h).id]
  BY DEF Unresolved, Resolved
<1>2. \A e, at, scope, self : LET r == Resolve(e, at, scope, self)
                            IN r.id # 0 => r.name = qname[r.id]
  <2> SUFFICES ASSUME NEW e, NEW at, NEW scope, NEW self
               PROVE  LET r == Resolve(e, at, scope, self)
                      IN r.id # 0 => r.name = qname[r.id]
    OBVIOUS
  <2>1. (\E p : Resolve(e, at, scope, self) = Unresolved(p))
        \/ (\E v, h : Resolve(e, at, scope, self) = Resolved(v, h))
    BY DEF Resolve
  <2> QED BY <1>1, <2>1
<1>3. \A i, e : ResolveIn(i, e).id # 0 => ResolveIn(i, e).name = qname[ResolveIn(i, e).id]
  BY <1>2 DEF ResolveIn
<1> QED BY <1>1, <1>3 DEF ResolveMember

\* What a member resolves to has a name.
LEMMA MemberTyped ==
  ASSUME TypeOK, IndexOK, pass # "records", NEW i \in Ids, NEW p \in DOMAIN Dot
  PROVE  ResolveMember(i, p).name \in Seq(Seg)
<1> DEFINE owner == IF p[1] \in {"self", "Self"} /\ SelfOf(i) # NoSelf THEN SelfOf(i)
                    ELSE IF p[1] \in Upper \ Reserved THEN ResolveIn(i, <<p[1]>>).name
                    ELSE NoSelf
<1>1. WellFormed(repo) /\ NamesOK /\ AtOK(Context(i)) /\ SelfOf(i) \in Seq(Seg)
  BY InsideOf
<1>2. /\ <<p[1]>> \in Seq(Seg) /\ <<p[2]>> \in Seq(Seg) /\ <<Dot[p]>> \in Seq(Seg)
  <2>1. p[1] \in Seg /\ p[2] \in Seg /\ Dot[p] \in Seg
    BY DotAssumption DEF Seg, Dots
  <2> QED BY <2>1
<1>3. \A e \in Seq(Seg) : ResolveIn(i, e).name \in Seq(Seg)
  BY <1>1, ResolveTyped DEF ResolveIn
<1>4. owner \in Seq(Seg)
  <2>1. NoSelf \in Seq(Seg)
    BY EmptySeq DEF NoSelf
  <2> QED BY <1>1, <1>2, <1>3, <2>1
<1>5. ResolveMember(i, p) = IF owner = NoSelf THEN Unresolved(<<Dot[p]>>) ELSE ResolveIn(i, owner \o <<p[2]>>)
  BY DEF ResolveMember
<1> HIDE DEF owner
<1>6. Unresolved(<<Dot[p]>>).name = <<Dot[p]>>
  BY DEF Unresolved
<1>7. owner \o <<p[2]>> \in Seq(Seg)
  BY <1>2, <1>4, Joined
<1> QED BY <1>2, <1>3, <1>5, <1>6, <1>7

\* Of the references of one key, which here all point at j, one stays.
LEMMA CallKept ==
  ASSUME WellFormed(repo), NEW i \in Functions, NEW k \in DOMAIN Sym(i).body, k # 0, NEW j,
         qname[j] # qname[i],
         NEW z \in Found(i), z.kind = "call", z.line = k, z.hint = qname[j],
         \A y \in Found(i) : y.kind = "call" /\ y.line = k /\ y.hint = qname[j] => y.to = Node(j)
  PROVE  [from |-> i, kind |-> "call", line |-> k, to |-> Node(j)] \in References(i)
<1> DEFINE kept == {y \in Found(i) : y.hint # qname[i]}
           Same(y) == y.kind = "call" /\ y.line = k /\ y.hint = qname[j]
           Last(y) == ~ \E v \in kept : v.rank > y.rank /\ v.kind = y.kind /\ v.line = y.line /\ v.hint = y.hint
<1>1. \A y \in Found(i) : Same(y) => y \in kept /\ y.rank \in {2, 3}
  <2>1. \A rank, r : CallItem(rank, k, r).rank = rank
    BY DEF CallItem
  <2> QED BY <2>1, FoundCalls
<1>2. PICK y \in kept : Same(y) /\ Last(y)
  <2>1. CASE \E y \in kept : Same(y) /\ y.rank = 3
    <3>1. PICK y \in kept : Same(y) /\ y.rank = 3
      BY <2>1
    <3>2. Last(y)
      <4> SUFFICES ASSUME NEW v \in kept, v.rank > 3, Same(v) PROVE FALSE
        BY <3>1
      <4> QED BY <1>1
    <3> QED BY <3>1, <3>2
  <2>2. CASE ~ \E y \in kept : Same(y) /\ y.rank = 3
    <3>1. z \in kept /\ Same(z) /\ z.rank = 2
      BY <1>1, <2>2
    <3>2. Last(z)
      <4> SUFFICES ASSUME NEW v \in kept, v.rank > 2, Same(v) PROVE FALSE
        BY <3>1
      <4>1. v.rank = 2
        BY <1>1, <2>2
      <4> QED BY <4>1
    <3> QED BY <3>1, <3>2
  <2> QED BY <2>1, <2>2
<1>3. y \in {v \in kept : Last(v)}
  BY <1>2
<1>4. References(i) = {[from |-> i, kind |-> x.kind, line |-> x.line, to |-> x.to] : x \in {v \in kept : Last(v)}}
  BY DEF References
<1> HIDE DEF kept, Last
<1>5. [from |-> i, kind |-> y.kind, line |-> y.line, to |-> y.to] \in References(i)
  BY <1>3, <1>4
<1>6. y.kind = "call" /\ y.line = k /\ y.to = Node(j)
  BY <1>2 DEF kept
<1> QED BY <1>5, <1>6

\* The callee of a statement is one of the calls of its function on that line.
LEMMA CallSeenTwice ==
  ASSUME TypeOK, IndexOK, pass # "records", NEW i \in Functions, NEW k \in DOMAIN Sym(i).body,
         NEW j \in Ids, j # i, Alone(j), OwnMeaning(qname[j], Sym(i).file),
         Node(j) \in Statement(i, k).calls
  PROVE  [from |-> i, kind |-> "call", line |-> k, to |-> Node(j)] \in References(i)
<1> DEFINE l == Sym(i).body[k]
<1>1. /\ i \in Ids /\ WellFormed(repo) /\ NamesOK /\ AtOK(Context(i)) /\ SelfOf(i) \in Seq(Seg) /\ LineOK(l)
      /\ j # 0 /\ k # 0
  <2>1. i \in Ids
    BY DEF Functions
  <2>2. k # 0
    BY <2>1 DEF TypeOK, PassesOK, WellFormed, Ids, Sym
  <2> QED BY <2>1, <2>2, InsideOf
<1>2. qname[j] # qname[i]
  BY <1>1 DEF Alone
<1>3. \A r : r.id = j => Target(r) = Node(j)
  BY <1>1 DEF Target, Node
<1>4. \A e \in Seq(Seg) : /\ ResolveIn(i, e).id = j <=> ResolveIn(i, e).hint = qname[j]
                          /\ ResolveIn(i, e).id = j => ResolveIn(i, e).name = qname[j]
  BY <1>1, HintIs DEF ResolveIn
<1>5. \A e \in Calls(l) : e \in Seq(Seg)
  <2>1. \A e \in l.calls : e \in Seq(Seg)
    BY <1>1, PathsAreNames DEF LineOK, Names
  <2>2. ASSUME NEW p \in l.mcalls PROVE <<p[2]>> \in Seq(Seg)
    <3>1. p[2] \in Words
      BY <1>1, DotAssumption DEF LineOK
    <3> QED BY <3>1, OneSegment DEF Names
  <2> QED BY <2>1, <2>2 DEF Calls
<1>6. \A p \in l.mcalls : p \in DOMAIN Dot
  BY <1>1 DEF LineOK
<1>7. \A p \in l.mcalls : ResolveMember(i, p).name \in Seq(Seg)
  BY <1>1, <1>6, MemberTyped
<1> HIDE DEF l
<1>8. \A rank, r : /\ CallItem(rank, k, r).kind = "call" /\ CallItem(rank, k, r).line = k
                   /\ CallItem(rank, k, r).hint = r.hint /\ CallItem(rank, k, r).to = Target(r)
  BY DEF CallItem
<1>9. /\ \A e \in Calls(l) : CallItem(2, k, ResolveIn(i, e)) \in Found(i)
      /\ \A p \in l.mcalls : CallItem(3, k, Again(i, p)) \in Found(i)
      /\ \A z \in Found(i) : z.kind = "call" /\ z.line = k =>
           \/ \E e \in Calls(l) : z = CallItem(2, k, ResolveIn(i, e))
           \/ \E p \in l.mcalls : z = CallItem(3, k, Again(i, p))
  BY <1>1, FoundCalls DEF l
<1>10. ASSUME NEW y \in Found(i), y.kind = "call", y.line = k, y.hint = qname[j]
       PROVE  y.to = Node(j)
  <2>1. PICK e \in Seq(Seg) : y = CallItem(2, k, ResolveIn(i, e)) \/ y = CallItem(3, k, ResolveIn(i, e))
    BY <1>5, <1>7, <1>9, <1>10 DEF Again
  <2>2. ResolveIn(i, e).hint = qname[j]
    BY <1>8, <1>10, <2>1
  <2> QED BY <1>3, <1>4, <1>8, <2>1, <2>2
<1>11. \E z \in Found(i) : z.kind = "call" /\ z.line = k /\ z.hint = qname[j]
  <2>1. Statement(i, k).calls = {Target(ResolveIn(i, e)) : e \in Calls(l)}
                                  \cup {Target(ResolveMember(i, p)) : p \in l.mcalls}
    BY DEF Statement, l
  <2>2. CASE \E e \in Calls(l) : Node(j) = Target(ResolveIn(i, e))
    <3>1. PICK e \in Calls(l) : Node(j) = Target(ResolveIn(i, e))
      BY <2>2
    <3>2. ResolveIn(i, e).hint = qname[j]
      BY <1>4, <1>5, <3>1, TargetIs
    <3> QED BY <1>8, <1>9, <3>1, <3>2
  <2>3. CASE \E p \in l.mcalls : Node(j) = Target(ResolveMember(i, p))
    <3>1. PICK p \in l.mcalls : Node(j) = Target(ResolveMember(i, p))
      BY <2>3
    <3>2. ResolveMember(i, p).id = j
      BY <3>1, TargetIs
    <3>3. ResolveMember(i, p).name = qname[j]
      BY <1>1, <3>2, ResolvedName
    <3>4. ResolveIn(i, qname[j]).id = j /\ qname[j] \in Seq(Seg)
      BY <1>1, MeansItself, NameIn DEF Names
    <3>5. Again(i, p).hint = qname[j]
      BY <1>4, <3>3, <3>4 DEF Again
    <3> QED BY <1>8, <1>9, <3>1, <3>5
  <2> QED BY <2>1, <2>2, <2>3
<1> QED BY <1>1, <1>2, <1>10, <1>11, CallKept

\* ViewsAgree: what the two passes make of a call meets again in the edges.
THEOREM CallsAgree == Spec => []ViewsAgree
<1>1. TypeOK /\ IndexOK /\ RecordsMade /\ EdgeInv => ViewsAgree
  <2> SUFFICES ASSUME TypeOK, IndexOK, RecordsMade, EdgeInv, step = "done", NEW e \in edges,
                      e.type = "CALLS", e.from[1] = "stmt", e.to[1] = "sym", e.to # Node(e.from[2]),
                      \A j \in Ids : qname[j] = qname[e.to[2]] => Node(j) = e.to,
                      OwnMeaning(qname[e.to[2]], Sym(e.from[2]).file)
               PROVE  Edge("CALLS", Node(e.from[2]), e.to, e.meta) \in edges
    BY DEF ViewsAgree
  <2>1. pass = "indexed" /\ stmts = AllStatements /\ refs = AllReferences
    BY DEF TypeOK, PassesOK, RecordsMade
  <2>2. PICK s \in stmts : \E t \in s.calls : e = StmtEdge(s, t)
    <3>1. IsCallEdge(e)
      BY DEF EdgeInv
    <3>2. \A r : RefEdge(r).from[1] = "sym"
      BY DEF RefEdge, Edge, Node
    <3>3. \A i, t : FarEdge(i, t).from[1] = "sym"
      BY DEF FarEdge, Edge, Node
    <3> QED BY <3>1, <3>2, <3>3 DEF IsCallEdge
  <2>3. PICK t \in s.calls : e = StmtEdge(s, t)
    BY <2>2
  <2>4. e.from = StmtNode(s) /\ e.to = t /\ e.meta = Line(s.line)
    BY <2>3 DEF StmtEdge, Edge
  <2>5. e.from[2] = s.fn
    BY <2>4 DEF StmtNode
  <2>6. PICK i \in Functions : \E k \in StatementLines(i) : s = Statement(i, k)
    BY <2>1 DEF AllStatements
  <2>7. PICK k \in StatementLines(i) : s = Statement(i, k)
    BY <2>6
  <2>8. s.fn = i /\ s.line = k /\ k \in DOMAIN Sym(i).body /\ i \in Ids
    BY <2>7 DEF Statement, StatementLines, Functions
  <2>9. PICK j \in Ids : t = Node(j)
    <3>1. TargetOK(t)
      BY DEF TypeOK, StatementsOK
    <3>2. t[1] # "ref"
      BY <2>4
    <3> QED BY <3>1, <3>2 DEF TargetOK, Node
  <2>10. \A v : Node(v)[2] = v
    BY DEF Node
  <2>11. e.to[2] = j /\ j # i
    BY <2>4, <2>5, <2>8, <2>9, <2>10
  <2>12. Alone(j)
    <3> SUFFICES ASSUME NEW v \in Ids, qname[v] = qname[j] PROVE v = j
      BY DEF Alone
    <3>1. Node(v) = Node(j)
      BY <2>4, <2>9, <2>11
    <3> QED BY <2>10, <3>1
  <2> DEFINE r == [from |-> i, kind |-> "call", line |-> k, to |-> Node(j)]
  <2>13. r \in References(i)
    <3>1. OwnMeaning(qname[j], Sym(i).file)
      BY <2>5, <2>8, <2>11
    <3>2. Node(j) \in Statement(i, k).calls
      BY <2>7, <2>9
    <3>3. pass # "records"
      BY <2>1
    <3> QED BY <2>8, <2>11, <2>12, <3>1, <3>2, <3>3, CallSeenTwice
  <2>14. r \in CallRefs /\ RefEdge(r) = Edge("CALLS", Node(i), Node(j), Line(k))
    <3>1. r \in refs
      BY <2>1, <2>8, <2>13 DEF AllReferences
    <3> QED BY <3>1 DEF CallRefs, RefEdge
  <2>15. RefEdge(r) \in edges
    BY <2>14 DEF EdgeInv, RefsDone
  <2> QED BY <2>4, <2>5, <2>8, <2>9, <2>14, <2>15
<1>2. Init => TypeOK /\ IndexOK /\ RecordsMade /\ EdgeInv
  BY TypeInit, IndexOKInit, CallsInit DEF Init, IndexInit, RecordsMade
<1> QED BY <1>1, <1>2, TypeNext, IndexOKNext, RecordsMadeNext, EdgeInvNext, PTL DEF Spec

=============================================================================
