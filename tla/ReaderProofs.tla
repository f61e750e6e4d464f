---------------------------- MODULE ReaderProofs ----------------------------
(***************************************************************************)
(* Proofs about the readers that live on while artifacts are rebuilt: the  *)
(* retrieval and symbol tools of the agent toolkit (AgentQuery) and the    *)
(* commands with a cache of evaluation cases (EvalCache), for any          *)
(* repositories, generations, queries, limits, processes and answers of    *)
(* the reranking service.                                                  *)
(*                                                                         *)
(* AgentQuery first: an agent is told true reasons, a reranking keeps the  *)
(* candidates, and the paper pipeline answers with its best sources.  The  *)
(* proof follows a call: sequences, sorts and cuts; searches, units and    *)
(* their fusion; the documents of a repository; what reasons rest on, from *)
(* stage to stage; the invariant and its steps.  EvalCache is last: an     *)
(* answer is scored against the bundle of its prompt, and no entry is      *)
(* older than its fingerprint.                                             *)
(***************************************************************************)
EXTENDS AgentQuery, EvalCache, SequenceTheorems, FiniteSetTheorems, WellFoundedInduction, TLAPS

-----------------------------------------------------------------------------
(* Induction, and loops over a sequence.                                   *)

\* A nonempty set of natural numbers has a least one.
LEMMA Least ==
  ASSUME NEW C, C \subseteq Nat, C # {}
  PROVE  \E c \in C : \A d \in C : c <= d
<1> DEFINE Down(k) == {j \in Nat : j <= k}
           D == {Down(k) : k \in C}
<1>1. D \subseteq FiniteSubsetsOf(Nat) /\ D # {}
  <2> SUFFICES ASSUME NEW k \in C PROVE Down(k) \in FiniteSubsetsOf(Nat)
    OBVIOUS
  <2>1. k \in Nat /\ Down(k) \in SUBSET Nat /\ \A j \in Down(k) : j <= k
    OBVIOUS
  <2>2. IsFiniteSet(Down(k))
    BY <2>1, FS_BoundedSetOfNaturals
  <2> QED BY <2>1, <2>2 DEF FiniteSubsetsOf
<1>2. PICK x \in D : \A y \in D : ~ (<<y, x>> \in StrictSubsetOrdering(Nat))
  <2> HIDE DEF D
  <2>1. IsWellFoundedOn(StrictSubsetOrdering(Nat), FiniteSubsetsOf(Nat))
    BY FS_StrictSubsetOrderingWellFounded
  <2> QED BY <1>1, <2>1, WFMin
<1>3. PICK c \in C : x = Down(c)
  OBVIOUS
<1>4. ASSUME NEW d \in C PROVE c <= d
  <2> SUFFICES ASSUME ~(c <= d) PROVE FALSE
    OBVIOUS
  <2>1. c \in Nat /\ d \in Nat /\ d < c
    OBVIOUS
  <2>2. Down(d) \subseteq Down(c) /\ c \in Down(c) /\ c \notin Down(d)
    BY <2>1
  <2>3. Down(d) # Down(c)
    BY <2>2
  <2>4. Down(d) \in SUBSET Nat /\ Down(c) \in SUBSET Nat
    OBVIOUS
  <2>5. Down(d) \in D
    OBVIOUS
  <2> HIDE DEF D, Down
  <2>6. <<Down(d), x>> \in StrictSubsetOrdering(Nat)
    BY <1>3, <2>2, <2>3, <2>4 DEF StrictSubsetOrdering
  <2> QED BY <1>2, <2>5, <2>6
<1> QED BY <1>4

\* What holds of 0, and of k + 1 when of k, holds up to K.
LEMMA UpTo ==
  ASSUME NEW K \in Nat, NEW T, 0 \in T, \A k \in 0..(K - 1) : k \in T => k + 1 \in T
  PROVE  0..K \subseteq T
<1> DEFINE C == (0..K) \ T
<1> SUFFICES ASSUME C # {} PROVE FALSE
  OBVIOUS
<1>1. C \subseteq Nat
  OBVIOUS
<1>2. PICK c \in C : \A d \in C : c <= d
  <2> HIDE DEF C
  <2> QED BY <1>1, Least
<1>3. c # 0 /\ c - 1 \in 0..K /\ c - 1 \in 0..(K - 1) /\ c - 1 \notin C /\ (c - 1) + 1 = c
  BY <1>2
<1> QED BY <1>3

-----------------------------------------------------------------------------
(* Sequences: cuts, selections, stable sorts.                              *)

\* A sequence evaluated once, as the code binds a list to a name, is the sequence.
LEMMA OnceIs ==
  ASSUME NEW S, NEW s \in Seq(S)
  PROVE  Once(s) = s
BY DEF Once

\* The cut results[:limit] is the first elements, all of them if there are fewer.
LEMMA FirstLaw ==
  ASSUME NEW S, NEW s \in Seq(S), NEW n \in Int
  PROVE  /\ First(s, n) \in Seq(S)
         /\ Len(First(s, n)) = IF n < 0 THEN 0 ELSE IF n < Len(s) THEN n ELSE Len(s)
         /\ \A k \in 1..Len(First(s, n)) : k \in 1..Len(s) /\ First(s, n)[k] = s[k]
BY DEF First

\* Where the elements are after x is inserted at p.
LEMMA InsertLaw ==
  ASSUME NEW S, NEW a \in Seq(S), NEW x \in S, NEW p \in 1..(Len(a) + 1)
  PROVE  /\ InsertAt(a, p, x) \in Seq(S)
         /\ Len(InsertAt(a, p, x)) = Len(a) + 1
         /\ \A i \in 1..(p - 1) : InsertAt(a, p, x)[i] = a[i]
         /\ InsertAt(a, p, x)[p] = x
         /\ \A i \in (p + 1)..(Len(a) + 1) : InsertAt(a, p, x)[i] = a[i - 1]
<1> DEFINE b == SubSeq(a, 1, p - 1)
           c == SubSeq(a, p, Len(a))
<1>1. /\ b \in Seq(S) /\ Len(b) = p - 1 /\ \A i \in 1..(p - 1) : b[i] = a[i]
      /\ c \in Seq(S) /\ Len(c) = Len(a) - p + 1 /\ \A i \in 1..(Len(a) - p + 1) : c[i] = a[p + i - 1]
  OBVIOUS
<1>2. <<x>> \in Seq(S) /\ Len(<<x>>) = 1 /\ <<x>>[1] = x
  OBVIOUS
<1>3. InsertAt(a, p, x) = (b \o <<x>>) \o c
  BY DEF InsertAt
<1> HIDE DEF b, c
<1>4. b \o <<x>> \in Seq(S) /\ Len(b \o <<x>>) = p
  BY <1>1, <1>2
<1>5. (b \o <<x>>)[p] = x
  BY <1>1, <1>2
<1>51. \A i \in 1..(p - 1) : (b \o <<x>>)[i] = a[i]
  <2> SUFFICES ASSUME NEW i \in 1..(p - 1) PROVE (b \o <<x>>)[i] = a[i]
    OBVIOUS
  <2>1. (b \o <<x>>)[i] = b[i]
    BY <1>1, <1>2
  <2> QED BY <1>1, <2>1
<1> DEFINE d == b \o <<x>>
<1> HIDE DEF d
<1>6. d \in Seq(S) /\ Len(d) = p /\ d[p] = x /\ \A i \in 1..(p - 1) : d[i] = a[i]
  BY <1>4, <1>5, <1>51 DEF d
<1>7. /\ d \o c \in Seq(S) /\ Len(d \o c) = Len(a) + 1
      /\ \A i \in 1..p : (d \o c)[i] = d[i]
      /\ \A i \in (p + 1)..(Len(a) + 1) : (d \o c)[i] = c[i - p]
  BY <1>1, <1>6
<1>8. \A i \in (p + 1)..(Len(a) + 1) : c[i - p] = a[i - 1]
  <2> SUFFICES ASSUME NEW i \in (p + 1)..(Len(a) + 1) PROVE c[i - p] = a[i - 1]
    OBVIOUS
  <2>1. i - p \in 1..(Len(a) - p + 1) /\ p + (i - p) - 1 = i - 1
    OBVIOUS
  <2> QED BY <1>1, <2>1
<1>9. InsertAt(a, p, x) = d \o c
  BY <1>3 DEF d
<1> QED BY <1>6, <1>7, <1>8, <1>9

\* f goes from base by the steps of G, where it is in V
Runs(f, N, V, G, base) == f[0] = base /\ \A k \in 1..N : f[k - 1] \in V[k - 1] => f[k] = G[<<f[k - 1], k>>]

\* A recursion over 0..N whose step k leads from V[k - 1] to V[k] has a
\* solution, and every solution is in V.
LEMMA Recursion ==
  ASSUME NEW N \in Nat, NEW V, NEW G, NEW base, base \in V[0],
         \A k \in 1..N : \A v \in V[k - 1] : G[<<v, k>>] \in V[k]
  PROVE  /\ \E f : Runs(f, N, V, G, base)
         /\ \A f : Runs(f, N, V, G, base) => \A k \in 0..N : f[k] \in V[k]
<1>1. ASSUME NEW f, Runs(f, N, V, G, base) PROVE \A k \in 0..N : f[k] \in V[k]
  <2> DEFINE T == {k \in 0..N : f[k] \in V[k]}
  <2>1. 0 \in T
    BY <1>1 DEF Runs
  <2>2. ASSUME NEW k \in 0..(N - 1), k \in T PROVE k + 1 \in T
    <3>1. k + 1 \in 1..N /\ (k + 1) - 1 = k /\ f[k] \in V[k]
      BY <2>2
    <3>2. f[k + 1] = G[<<f[k], k + 1>>]
      BY <1>1, <3>1 DEF Runs
    <3> QED BY <3>1, <3>2
  <2>3. 0..N \subseteq T
    <3> HIDE DEF T
    <3> QED BY <2>1, <2>2, UpTo
  <2> QED BY <2>3
<1> DEFINE T == {n \in 0..N : \E f : Runs(f, n, V, G, base)}
<1>2. 0 \in T
  <2> DEFINE f == [k \in 0..0 |-> base]
  <2>1. Runs(f, 0, V, G, base)
    BY DEF Runs
  <2> HIDE DEF f
  <2> QED BY <2>1
<1>3. ASSUME NEW n \in 0..(N - 1), n \in T PROVE n + 1 \in T
  <2>1. PICK f : Runs(f, n, V, G, base)
    BY <1>3
  <2> DEFINE g == [k \in 0..(n + 1) |-> IF k = n + 1 THEN G[<<f[n], n + 1>>] ELSE f[k]]
  <2>2. (\A k \in 0..n : g[k] = f[k]) /\ g[n + 1] = G[<<f[n], n + 1>>]
    OBVIOUS
  <2> HIDE DEF g
  <2>3. g[0] = base
    BY <2>1, <2>2 DEF Runs
  <2>4. ASSUME NEW k \in 1..(n + 1), g[k - 1] \in V[k - 1] PROVE g[k] = G[<<g[k - 1], k>>]
    <3>1. CASE k = n + 1
      BY <2>2, <3>1
    <3>2. CASE k # n + 1
      <4>1. k - 1 \in 0..n /\ k \in 0..n /\ k \in 1..n
        BY <3>2
      <4> QED BY <2>1, <2>2, <2>4, <4>1 DEF Runs
    <3> QED BY <3>1, <3>2
  <2>5. Runs(g, n + 1, V, G, base)
    BY <2>3, <2>4 DEF Runs
  <2> QED BY <2>5
<1>4. 0..N \subseteq T
  <2> HIDE DEF T
  <2> QED BY <1>2, <1>3, UpTo
<1> QED BY <1>1, <1>4

\* v is the numbers of I up to k, in their order
Ascends(v, I, k) ==
  /\ v \in Seq(I \cap (1..k))
  /\ \A p, r \in 1..Len(v) : p < r => v[p] < v[r]
  /\ \A i \in I \cap (1..k) : \E p \in 1..Len(v) : v[p] = i

\* One number more, appended if it is selected.
LEMMA AscendsStep ==
  ASSUME NEW I, NEW k \in Nat \ {0}, NEW v, Ascends(v, I, k - 1)
  PROVE  Ascends(IF k \in I THEN Append(v, k) ELSE v, I, k)
<1>1. ASSUME k \in I PROVE Ascends(Append(v, k), I, k)
  <2>1. v \in Seq(I \cap (1..(k - 1))) /\ v \in Seq(I \cap (1..k))
    BY DEF Ascends
  <2>2. Len(v) \in Nat /\ \A p \in 1..Len(v) : v[p] < k
    BY <2>1
  <2> DEFINE w == Append(v, k)
  <2>3. w \in Seq(I \cap (1..k)) /\ Len(w) = Len(v) + 1 /\ w[Len(v) + 1] = k /\ \A p \in 1..Len(v) : w[p] = v[p]
    BY <1>1, <2>1
  <2>30. Len(w) = Len(v) + 1
    BY <2>3
  <2> HIDE DEF w
  <2>4. ASSUME NEW p \in 1..Len(w), NEW r \in 1..Len(w), p < r PROVE w[p] < w[r]
    <3>1. p \in 1..Len(v) /\ (r = Len(v) + 1 \/ r \in 1..Len(v))
      BY <2>2, <2>30, <2>4
    <3>2. \A x, y \in 1..Len(v) : x < y => v[x] < v[y]
      BY DEF Ascends
    <3> QED BY <2>2, <2>3, <2>4, <3>1, <3>2
  <2>5. ASSUME NEW i \in I \cap (1..k) PROVE \E p \in 1..Len(w) : w[p] = i
    <3>1. CASE i = k
      BY <2>2, <2>3, <3>1
    <3>2. CASE i # k
      <4>1. i \in I \cap (1..(k - 1))
        BY <3>2
      <4>2. PICK p \in 1..Len(v) : v[p] = i
        BY <4>1 DEF Ascends
      <4> QED BY <2>2, <2>3, <4>2
    <3> QED BY <3>1, <3>2
  <2>6. Ascends(w, I, k)
    BY <2>3, <2>4, <2>5 DEF Ascends
  <2> QED BY <2>6 DEF w
<1>2. ASSUME k \notin I PROVE Ascends(v, I, k)
  <2>1. I \cap (1..k) = I \cap (1..(k - 1))
    BY <1>2
  <2> QED BY <2>1 DEF Ascends
<1> QED BY <1>1, <1>2

\* The loop that collects the selected numbers yields them in their order.
LEMMA AscendingLaw ==
  ASSUME NEW n \in Nat, NEW I
  PROVE  Ascends(Ascending(I, n), I, n)
<1> DEFINE step(v, k) == IF k \in I THEN Append(v, k) ELSE v
           V == [k \in 0..n |-> {v \in Seq(I \cap (1..k)) : Ascends(v, I, k)}]
           G == [x \in (UNION {V[k] : k \in 0..n}) \X (1..n) |-> step(x[1], x[2])]
           Solves(f) == f = [k \in 0..n |-> IF k = 0 THEN <<>> ELSE step(f[k - 1], k)]
<1>1. \A k \in 0..n : \A v : v \in V[k] <=> Ascends(v, I, k)
  BY DEF Ascends
<1> HIDE DEF V
<1>2. \A k \in 1..n : \A v \in V[k - 1] : G[<<v, k>>] = step(v, k) /\ step(v, k) \in V[k]
  <2> SUFFICES ASSUME NEW k \in 1..n, NEW v \in V[k - 1] PROVE G[<<v, k>>] = step(v, k) /\ step(v, k) \in V[k]
    OBVIOUS
  <2>1. k \in 0..n /\ k - 1 \in 0..n
    OBVIOUS
  <2>2. <<v, k>> \in (UNION {V[j] : j \in 0..n}) \X (1..n)
    BY <2>1
  <2>3. G[<<v, k>>] = step(v, k)
    <3> HIDE DEF step
    <3> QED BY <2>2
  <2>4. step(v, k) \in V[k]
    BY <1>1, <2>1, AscendsStep
  <2> QED BY <2>3, <2>4
<1> HIDE DEF G, step
<1>3. <<>> \in V[0]
  <2>1. Ascends(<<>>, I, 0)
    BY DEF Ascends
  <2> QED BY <1>1, <2>1
<1>4. PICK f : Runs(f, n, V, G, <<>>)
  BY <1>2, <1>3, Recursion
<1> DEFINE h == [k \in 0..n |-> f[k]]
<1>5. Solves(h)
  <2>1. \A k \in 0..n : f[k] \in V[k]
    BY <1>2, <1>3, <1>4, Recursion
  <2> DEFINE of(k) == IF k = 0 THEN <<>> ELSE step(h[k - 1], k)
  <2>2. \A k \in 0..n : f[k] = of(k)
    <3> SUFFICES ASSUME NEW k \in 0..n PROVE f[k] = of(k)
      OBVIOUS
    <3>1. CASE k = 0
      BY <1>4, <3>1 DEF Runs
    <3>2. CASE k # 0
      <4>1. k \in 1..n /\ k - 1 \in 0..n
        BY <3>2
      <4>2. f[k] = step(f[k - 1], k) /\ h[k - 1] = f[k - 1]
        BY <1>2, <1>4, <2>1, <4>1 DEF Runs
      <4> QED BY <3>2, <4>2
    <3> QED BY <3>1, <3>2
  <2>3. h = [k \in 0..n |-> of(k)]
    <3> HIDE DEF of
    <3> QED BY <2>2
  <2> QED BY <2>3
<1> HIDE DEF h
<1> DEFINE g == CHOOSE x : Solves(x)
<1>6. Solves(g)
  <2> HIDE DEF Solves
  <2> QED BY <1>5
<1>7. Ascending(I, n) = g[n]
  BY DEF Ascending, step
<1> HIDE DEF g
<1>8. Runs(g, n, V, G, <<>>)
  <2> DEFINE of(k) == IF k = 0 THEN <<>> ELSE step(g[k - 1], k)
  <2>1. \A k \in 0..n : g[k] = of(k)
    <3>1. g = [k \in 0..n |-> of(k)]
      BY <1>6
    <3> HIDE DEF of
    <3> QED BY <3>1
  <2> QED BY <1>2, <2>1 DEF Runs
<1>9. \A k \in 0..n : g[k] \in V[k]
  BY <1>2, <1>3, <1>8, Recursion
<1> QED BY <1>1, <1>7, <1>9

\* R is a strict weak order of the numbers up to n
WeakOrder(R, n) ==
  /\ \A i, j \in 1..n : <<i, j>> \in R => <<j, i>> \notin R
  /\ \A i, j, k \in 1..n : <<i, k>> \in R => <<i, j>> \in R \/ <<j, k>> \in R

\* v is the numbers up to k, each once; no number is before one it is to follow,
\* when R is such an order
Arranges(v, R, n, k) ==
  /\ v \in Seq(1..k) /\ Len(v) = k
  /\ \A p, r \in 1..k : v[p] = v[r] => p = r
  /\ \A i \in 1..k : \E p \in 1..k : v[p] = i
  /\ WeakOrder(R, n) => \A p, r \in 1..k : p < r => <<v[r], v[p]>> \notin R

\* k put before the first it precedes, as a stable sort inserts
Inserted(v, R, k) == InsertAt(v, Cardinality({i \in 1..(k - 1) : <<k, v[i]>> \notin R}) + 1, k)

\* A set of numbers up to n that has all numbers below its own is an interval.
LEMMA DownwardClosed ==
  ASSUME NEW n \in Nat, NEW D \in SUBSET (1..n), \A d \in D : \A c \in 1..(d - 1) : c \in D
  PROVE  Cardinality(D) \in 0..n /\ D = 1..Cardinality(D)
<1> DEFINE C == (1..(n + 1)) \ D
<1>1. C \subseteq Nat /\ C # {} /\ C \subseteq 1..(n + 1)
  OBVIOUS
<1>2. PICK c \in C : \A d \in C : c <= d
  <2> HIDE DEF C
  <2> QED BY <1>1, Least
<1>3. D = 1..(c - 1)
  <2>1. \A d \in 1..(c - 1) : d \in D
    BY <1>1, <1>2
  <2>2. \A d \in D : d \in 1..(c - 1)
    <3> SUFFICES ASSUME NEW d \in D, ~(d \in 1..(c - 1)) PROVE FALSE
      OBVIOUS
    <3>1. c \notin D /\ c \in 1..(n + 1) /\ d \in 1..n /\ d # c
      BY <1>1, <1>2
    <3>2. c \in 1..(d - 1)
      BY <3>1
    <3> QED BY <3>1, <3>2
  <2> QED BY <2>1, <2>2
<1>4. c - 1 \in 0..n /\ Cardinality(1..(c - 1)) = c - 1
  BY <1>1, <1>2, FS_Interval
<1> QED BY <1>3, <1>4

\* One number more keeps the arrangement sorted and stable.
LEMMA ArrangesStep ==
  ASSUME NEW n \in Nat, NEW k \in 1..n, NEW R, NEW v, Arranges(v, R, n, k - 1)
  PROVE  Arranges(Inserted(v, R, k), R, n, k)
<1> DEFINE D == {i \in 1..(k - 1) : <<k, v[i]>> \notin R}
           p == Cardinality(D) + 1
           w == InsertAt(v, p, k)
<1>1. v \in Seq(1..(k - 1)) /\ v \in Seq(1..k) /\ Len(v) = k - 1
  <2>1. v \in Seq(1..(k - 1)) /\ Len(v) = k - 1
    BY DEF Arranges
  <2> QED BY <2>1
<1>2. Cardinality(D) \in 0..(k - 1)
  <2>1. IsFiniteSet(1..(k - 1)) /\ Cardinality(1..(k - 1)) = k - 1
    BY FS_Interval
  <2>2. D \in SUBSET (1..(k - 1))
    OBVIOUS
  <2>3. IsFiniteSet(D) /\ Cardinality(D) <= k - 1
    BY <2>1, <2>2, FS_Subset, ZenonT(60)
  <2> QED BY <2>3, FS_CardinalityType
<1>3. p \in 1..k /\ w = Inserted(v, R, k)
  BY <1>2 DEF Inserted
<1>4. /\ w \in Seq(1..k) /\ Len(w) = k /\ w[p] = k
      /\ \A i \in 1..(p - 1) : w[i] = v[i]
      /\ \A i \in (p + 1)..k : w[i] = v[i - 1]
  <2>1. p \in 1..(Len(v) + 1) /\ k \in 1..k
    BY <1>1, <1>3
  <2> HIDE DEF p, D
  <2>2. /\ InsertAt(v, p, k) \in Seq(1..k) /\ Len(InsertAt(v, p, k)) = Len(v) + 1
        /\ \A i \in 1..(p - 1) : InsertAt(v, p, k)[i] = v[i]
        /\ InsertAt(v, p, k)[p] = k
        /\ \A i \in (p + 1)..(Len(v) + 1) : InsertAt(v, p, k)[i] = v[i - 1]
    <3>1. v \in Seq(1..k) /\ k \in 1..k /\ p \in 1..(Len(v) + 1)
      BY <1>1, <2>1
    <3> HIDE DEF w
    <3> DEFINE T == 1..k
    <3>2. v \in Seq(T) /\ k \in T
      BY <3>1
    <3> HIDE DEF T
    <3>3. /\ InsertAt(v, p, k) \in Seq(T) /\ Len(InsertAt(v, p, k)) = Len(v) + 1
          /\ \A i \in 1..(p - 1) : InsertAt(v, p, k)[i] = v[i]
          /\ InsertAt(v, p, k)[p] = k
          /\ \A i \in (p + 1)..(Len(v) + 1) : InsertAt(v, p, k)[i] = v[i - 1]
      BY <3>1, <3>2, InsertLaw
    <3> QED BY <3>3 DEF T
  <2>3. Len(v) + 1 = k
    BY <1>1
  <2> QED BY <2>2, <2>3
<1>5. \A i \in 1..(k - 1) : v[i] \in 1..(k - 1)
  BY <1>1, ElementOfSeq
<1> HIDE DEF w, p
\* the place in v of what is at i in w
<1> DEFINE from(i) == IF i < p THEN i ELSE i - 1
<1>6. ASSUME NEW i \in 1..k, i # p PROVE from(i) \in 1..(k - 1) /\ w[i] = v[from(i)] /\ w[i] # k
  <2>1. from(i) \in 1..(k - 1)
    BY <1>3, <1>6
  <2>2. w[i] = v[from(i)]
    <3>1. CASE i < p
      BY <1>3, <1>4, <3>1
    <3>2. CASE ~(i < p)
      <4>1. i \in (p + 1)..k
        BY <1>3, <1>6, <3>2
      <4> QED BY <1>4, <3>2, <4>1
    <3> QED BY <3>1, <3>2
  <2> QED BY <1>5, <2>1, <2>2
<1>7. ASSUME NEW i \in 1..k, NEW j \in 1..k, w[i] = w[j] PROVE i = j
  <2>1. CASE i = p \/ j = p
    BY <1>4, <1>6, <1>7, <2>1
  <2>2. CASE i # p /\ j # p
    <3>1. from(i) = from(j)
      <4>1. from(i) \in 1..(k - 1) /\ from(j) \in 1..(k - 1) /\ v[from(i)] = v[from(j)]
        BY <1>6, <1>7, <2>2
      <4> HIDE DEF from
      <4> QED BY <4>1 DEF Arranges
    <3> QED BY <1>3, <2>2, <3>1
  <2> QED BY <2>1, <2>2
<1>8. ASSUME NEW i \in 1..k PROVE \E j \in 1..k : w[j] = i
  <2>1. CASE i = k
    BY <1>3, <1>4, <2>1
  <2>2. CASE i # k
    <3>1. i \in 1..(k - 1)
      BY <2>2
    <3>2. PICK qq \in 1..(k - 1) : v[qq] = i
      BY <3>1 DEF Arranges
    <3>3. CASE qq < p
      <4>1. qq \in 1..k /\ qq # p /\ from(qq) = qq
        BY <3>3
      <4> QED BY <1>6, <3>2, <4>1
    <3>4. CASE ~(qq < p)
      <4>1. qq + 1 \in 1..k /\ qq + 1 # p /\ from(qq + 1) = qq
        BY <1>3, <3>4
      <4> HIDE DEF from
      <4> QED BY <1>6, <3>2, <4>1
    <3> QED BY <3>3, <3>4
  <2> QED BY <2>1, <2>2
<1>9. ASSUME WeakOrder(R, n), NEW i \in 1..k, NEW j \in 1..k, i < j PROVE <<w[j], w[i]>> \notin R
  <2>0. \A x, y \in 1..(k - 1) : x < y => <<v[y], v[x]>> \notin R
    BY <1>9 DEF Arranges
  <2>1. D = 1..(p - 1)
    <3>1. ASSUME NEW d \in D, NEW c \in 1..(d - 1) PROVE c \in D
      <4>1. c \in 1..(k - 1) /\ d \in 1..(k - 1) /\ c < d /\ <<k, v[d]>> \notin R
        OBVIOUS
      <4>2. <<v[d], v[c]>> \notin R
        BY <2>0, <4>1
      <4>3. v[d] \in 1..n /\ v[c] \in 1..n /\ k \in 1..n
        BY <1>5, <4>1
      <4>4. <<k, v[c]>> \notin R
        BY <1>9, <4>1, <4>2, <4>3 DEF WeakOrder
      <4> QED BY <4>1, <4>4
    <3>2. D \in SUBSET (1..(k - 1)) /\ k - 1 \in Nat
      OBVIOUS
    <3>3. D = 1..Cardinality(D) /\ Cardinality(D) \in 0..(k - 1)
      <4> HIDE DEF D
      <4> QED BY <3>1, <3>2, DownwardClosed
    <3> HIDE DEF D
    <3>4. p - 1 = Cardinality(D)
      BY <3>3 DEF p
    <3> QED BY <3>3, <3>4
  <2>2. CASE i # p /\ j # p
    <3>1. from(i) < from(j)
      BY <1>3, <1>9, <2>2
    <3>2. from(i) \in 1..(k - 1) /\ from(j) \in 1..(k - 1) /\ w[i] = v[from(i)] /\ w[j] = v[from(j)]
      BY <1>6, <2>2
    <3> HIDE DEF from
    <3> QED BY <2>0, <3>1, <3>2
  <2>3. CASE j = p
    <3>1. i \in 1..(p - 1)
      BY <1>3, <1>9, <2>3
    <3>2. w[i] = v[i] /\ i \in D
      BY <1>4, <2>1, <3>1
    <3> QED BY <1>4, <2>3, <3>2
  <2>4. CASE i = p
    <3>0. j \in (p + 1)..k /\ j - 1 \in 1..(k - 1) /\ ~(j - 1 \in 1..(p - 1))
      BY <1>3, <1>9, <2>4
    <3>1. w[j] = v[j - 1] /\ j - 1 \notin D /\ j - 1 \in 1..(k - 1)
      <4> HIDE DEF D
      <4> QED BY <1>4, <2>1, <3>0
    <3>2. <<k, w[j]>> \in R
      BY <3>1
    <3>3. w[j] \in 1..n /\ k \in 1..n
      BY <1>5, <3>1
    <3> QED BY <1>4, <1>9, <2>4, <3>2, <3>3 DEF WeakOrder
  <2> QED BY <2>2, <2>3, <2>4
<1> HIDE DEF D, from
<1>10. Arranges(w, R, n, k)
  BY <1>4, <1>7, <1>8, <1>9 DEF Arranges
<1> QED BY <1>3, <1>10

\* The loop of the stable sort arranges all numbers.
LEMMA ArrangedLaw ==
  ASSUME NEW n \in Nat, NEW R
  PROVE  Arranges(Arranged(n, R), R, n, n)
<1> DEFINE step(v, k) == Inserted(v, R, k)
           V == [k \in 0..n |-> {v \in Seq(1..k) : Arranges(v, R, n, k)}]
           G == [x \in (UNION {V[k] : k \in 0..n}) \X (1..n) |-> step(x[1], x[2])]
           Solves(f) == f = [k \in 0..n |-> IF k = 0 THEN <<>> ELSE step(f[k - 1], k)]
<1>1. \A k \in 0..n : \A v : v \in V[k] <=> Arranges(v, R, n, k)
  BY DEF Arranges
<1> HIDE DEF V
<1>2. \A k \in 1..n : \A v \in V[k - 1] : G[<<v, k>>] = step(v, k) /\ G[<<v, k>>] \in V[k]
  <2> SUFFICES ASSUME NEW k \in 1..n, NEW v \in V[k - 1] PROVE G[<<v, k>>] = step(v, k) /\ G[<<v, k>>] \in V[k]
    OBVIOUS
  <2>1. k \in 0..n /\ k - 1 \in 0..n
    OBVIOUS
  <2>2. <<v, k>> \in (UNION {V[j] : j \in 0..n}) \X (1..n)
    BY <2>1
  <2>3. G[<<v, k>>] = step(v, k)
    <3> HIDE DEF step
    <3> QED BY <2>2
  <2>4. step(v, k) \in V[k]
    BY <1>1, <2>1, ArrangesStep
  <2> QED BY <2>3, <2>4
<1> HIDE DEF G, step
<1>3. <<>> \in V[0]
  <2>1. Arranges(<<>>, R, n, 0)
    BY DEF Arranges
  <2> QED BY <1>1, <2>1
<1>4. PICK f : Runs(f, n, V, G, <<>>)
  BY <1>2, <1>3, Recursion
<1> DEFINE h == [k \in 0..n |-> f[k]]
<1>5. Solves(h)
  <2>1. \A k \in 0..n : f[k] \in V[k]
    BY <1>2, <1>3, <1>4, Recursion
  <2> DEFINE of(k) == IF k = 0 THEN <<>> ELSE step(h[k - 1], k)
  <2>2. \A k \in 0..n : f[k] = of(k)
    <3> SUFFICES ASSUME NEW k \in 0..n PROVE f[k] = of(k)
      OBVIOUS
    <3>1. CASE k = 0
      BY <1>4, <3>1 DEF Runs
    <3>2. CASE k # 0
      <4>1. k \in 1..n /\ k - 1 \in 0..n
        BY <3>2
      <4>2. f[k] = step(f[k - 1], k) /\ h[k - 1] = f[k - 1]
        BY <1>2, <1>4, <2>1, <4>1 DEF Runs
      <4> QED BY <3>2, <4>2
    <3> QED BY <3>1, <3>2
  <2>3. h = [k \in 0..n |-> of(k)]
    <3> HIDE DEF of
    <3> QED BY <2>2
  <2> QED BY <2>3
<1> HIDE DEF h
<1> DEFINE g == CHOOSE x : Solves(x)
<1>6. Solves(g)
  <2> HIDE DEF Solves
  <2> QED BY <1>5
<1>7. Arranged(n, R) = g[n]
  BY DEF Arranged, step, Inserted
<1> HIDE DEF g
<1>8. Runs(g, n, V, G, <<>>)
  <2> DEFINE of(k) == IF k = 0 THEN <<>> ELSE step(g[k - 1], k)
  <2>1. \A k \in 0..n : g[k] = of(k)
    <3>1. g = [k \in 0..n |-> of(k)]
      BY <1>6
    <3> HIDE DEF of
    <3> QED BY <3>1
  <2> QED BY <1>2, <2>1 DEF Runs
<1>9. \A k \in 0..n : g[k] \in V[k]
  BY <1>2, <1>3, <1>8, Recursion
<1> QED BY <1>1, <1>7, <1>9

\* A selection of s, by the numbers of its elements.
LEMMA AmongLaw ==
  ASSUME NEW S, NEW s \in Seq(S), NEW I
  PROVE  LET a == Ascending(I, Len(s)) IN
         /\ Ascends(a, I, Len(s))
         /\ Among(s, I) \in Seq(S)
         /\ Len(Among(s, I)) = Len(a)
         /\ \A k \in 1..Len(a) : a[k] \in I \cap (1..Len(s)) /\ Among(s, I)[k] = s[a[k]]
<1> DEFINE a == Ascending(I, Len(s))
<1>1. Ascends(a, I, Len(s))
  BY AscendingLaw
<1>2. Among(s, I) = [k \in DOMAIN a |-> s[a[k]]]
  <2>1. Once(s) = s
    BY OnceIs
  <2> QED BY <2>1 DEF Among, Each
<1> HIDE DEF a
<1>3. a \in Seq(I \cap (1..Len(s)))
  BY <1>1 DEF Ascends
<1>4. DOMAIN a = 1..Len(a) /\ Len(a) \in Nat /\ \A k \in 1..Len(a) : a[k] \in I \cap (1..Len(s))
  BY <1>3, ElementOfSeq
<1>5. \A k \in 1..Len(a) : s[a[k]] \in S
  BY <1>4
<1>6. Among(s, I) \in Seq(S) /\ Len(Among(s, I)) = Len(a)
  BY <1>2, <1>4, <1>5
<1> QED BY <1>1, <1>2, <1>4, <1>6 DEF a

\* What a selection has, and what it leaves out.
LEMMA AmongHas ==
  ASSUME NEW S, NEW s \in Seq(S), NEW I
  PROVE  /\ Among(s, I) \in Seq(S)
         /\ \A k \in 1..Len(Among(s, I)) : \E i \in I \cap (1..Len(s)) : Among(s, I)[k] = s[i]
         /\ \A i \in I \cap (1..Len(s)) : \E k \in 1..Len(Among(s, I)) : Among(s, I)[k] = s[i]
<1>1. Ascends(Ascending(I, Len(s)), I, Len(s))
  BY AmongLaw
<1>2. \A i \in I \cap (1..Len(s)) : \E k \in 1..Len(Ascending(I, Len(s))) : Ascending(I, Len(s))[k] = i
  BY <1>1 DEF Ascends
<1> QED BY <1>2, AmongLaw

\* s in the order of R, which is what Sort makes of its comparison
InOrder(s, R) == [k \in DOMAIN Arranged(Len(s), R) |-> s[Arranged(Len(s), R)[k]]]

\* A sort by a comparison (results.sort(key=...)) is an arrangement of what it sorts.
LEMMA InOrderLaw ==
  ASSUME NEW S, NEW s \in Seq(S), NEW R
  PROVE  LET a == Arranged(Len(s), R) IN
         /\ Arranges(a, R, Len(s), Len(s))
         /\ InOrder(s, R) \in Seq(S)
         /\ Len(InOrder(s, R)) = Len(s)
         /\ \A k \in 1..Len(s) : a[k] \in 1..Len(s) /\ InOrder(s, R)[k] = s[a[k]]
<1> DEFINE a == Arranged(Len(s), R)
           n == Len(s)
           t == InOrder(s, R)
<1>0. n \in Nat
  OBVIOUS
<1>1. Arranges(a, R, n, n)
  BY <1>0, ArrangedLaw
<1>2. t = [k \in DOMAIN a |-> s[a[k]]]
  BY DEF InOrder
<1> HIDE DEF a, t
<1>3. a \in Seq(1..n) /\ Len(a) = n
  BY <1>1 DEF Arranges
<1>4. DOMAIN a = 1..n /\ \A k \in 1..n : a[k] \in 1..n
  BY <1>3, ElementOfSeq
<1>5. \A k \in 1..n : s[a[k]] \in S
  BY <1>4
<1>6. t \in Seq(S) /\ Len(t) = n
  <2> HIDE DEF n
  <2> QED BY <1>0, <1>2, <1>4, <1>5
<1>7. \A k \in 1..n : t[k] = s[a[k]]
  BY <1>2, <1>4
<1> QED BY <1>1, <1>4, <1>6, <1>7 DEF a, t

\* It has what s has.
LEMMA InOrderHas ==
  ASSUME NEW S, NEW s \in Seq(S), NEW R
  PROVE  /\ InOrder(s, R) \in Seq(S)
         /\ Len(InOrder(s, R)) = Len(s)
         /\ \A k \in 1..Len(s) : \E i \in 1..Len(s) : InOrder(s, R)[k] = s[i]
         /\ \A i \in 1..Len(s) : \E k \in 1..Len(s) : InOrder(s, R)[k] = s[i]
<1>1. \A i \in 1..Len(s) : \E k \in 1..Len(s) : Arranged(Len(s), R)[k] = i
  <2>1. Arranges(Arranged(Len(s), R), R, Len(s), Len(s))
    BY InOrderLaw
  <2> QED BY <2>1 DEF Arranges
<1>2. \A k \in 1..Len(s) : Arranged(Len(s), R)[k] \in 1..Len(s) /\ InOrder(s, R)[k] = s[Arranged(Len(s), R)[k]]
  BY InOrderLaw
<1>3. InOrder(s, R) \in Seq(S) /\ Len(InOrder(s, R)) = Len(s)
  BY InOrderLaw
<1>4. \A i \in 1..Len(s) : \E k \in 1..Len(s) : InOrder(s, R)[k] = s[i]
  <2> SUFFICES ASSUME NEW i \in 1..Len(s) PROVE \E k \in 1..Len(s) : InOrder(s, R)[k] = s[i]
    OBVIOUS
  <2>1. PICK k \in 1..Len(s) : Arranged(Len(s), R)[k] = i
    BY <1>1
  <2> QED BY <1>2, <2>1
<1> QED BY <1>2, <1>3, <1>4

\* What is in one of the sequences of ss
Parts(v, ss) == \A p \in 1..Len(v) : \E i \in 1..Len(ss) : \E r \in 1..Len(ss[i]) : v[p] = ss[i][r]

\* The results of the scopes put together are those of the scopes.
LEMMA FlattenLaw ==
  ASSUME NEW S, NEW ss \in Seq(Seq(S))
  PROVE  FlattenSeq(ss) \in Seq(S) /\ Parts(FlattenSeq(ss), ss)
<1> DEFINE n == Len(ss)
<1>0. n \in Nat /\ \A i \in 1..n : ss[i] \in Seq(S)
  OBVIOUS
<1>1. CASE n = 0
  BY <1>1 DEF FlattenSeq, Parts
<1>2. CASE n # 0
  <2> DEFINE m == n - 1
             W == {v \in Seq(S) : Parts(v, ss)}
             V == [k \in 0..m |-> W]
             step(v, i) == v \o ss[i]
             G == [x \in W \X (1..m) |-> step(x[1], x[2] + 1)]
             Solves(f) == f = [i \in 1..n |-> IF i = 1 THEN ss[i] ELSE step(f[i - 1], i)]
  <2>0. m \in Nat /\ 1 \in 1..n /\ n \in Nat /\ m + 1 = n
    BY <1>0, <1>2
  <2>1. \A k \in 1..m : \A v \in W : G[<<v, k>>] = step(v, k + 1) /\ step(v, k + 1) \in W
    <3> SUFFICES ASSUME NEW k \in 1..m, NEW v \in W PROVE G[<<v, k>>] = step(v, k + 1) /\ step(v, k + 1) \in W
      OBVIOUS
    <3>1. k + 1 \in 1..n
      OBVIOUS
    <3>2. v \in Seq(S) /\ ss[k + 1] \in Seq(S) /\ Parts(v, ss)
      BY <1>0, <3>1
    <3> DEFINE w == v \o ss[k + 1]
    <3>3. /\ w \in Seq(S) /\ Len(w) = Len(v) + Len(ss[k + 1])
          /\ \A p \in 1..Len(w) : w[p] = IF p <= Len(v) THEN v[p] ELSE ss[k + 1][p - Len(v)]
      BY <3>2
    <3> HIDE DEF w
    <3>4. Parts(w, ss)
      <4> SUFFICES ASSUME NEW p \in 1..Len(w)
                   PROVE  \E i \in 1..n : \E r \in 1..Len(ss[i]) : w[p] = ss[i][r]
        BY DEF Parts
      <4>1. Len(v) \in Nat /\ Len(ss[k + 1]) \in Nat
        BY <3>2
      <4>2. CASE p <= Len(v)
        <5>1. p \in 1..Len(v)
          BY <4>1, <4>2
        <5>2. w[p] = v[p]
          BY <3>3, <4>2
        <5> HIDE DEF W, G, step
        <5>3. \E i \in 1..Len(ss) : \E r \in 1..Len(ss[i]) : v[p] = ss[i][r]
          BY <3>2, <5>1 DEF Parts
        <5> QED BY <5>2, <5>3
      <4>3. CASE ~(p <= Len(v))
        <5>1. p - Len(v) \in 1..Len(ss[k + 1])
          BY <3>3, <4>1, <4>3
        <5> QED BY <3>1, <3>3, <4>3, <5>1
      <4> QED BY <4>2, <4>3
    <3>5. step(v, k + 1) \in W
      BY <3>3, <3>4 DEF w
    <3>6. G[<<v, k>>] = step(v, k + 1)
      <4> HIDE DEF step, W
      <4> QED OBVIOUS
    <3> QED BY <3>5, <3>6
  <2>2. ss[1] \in W
    <3>1. ss[1] \in Seq(S) /\ 1 \in 1..n
      BY <1>0, <2>0
    <3>2. Parts(ss[1], ss)
      BY <3>1 DEF Parts
    <3> QED BY <3>1, <3>2
  <2> HIDE DEF W, G, step, m
  <2>3. /\ ss[1] \in V[0]
        /\ \A k \in 1..m : \A v \in V[k - 1] : G[<<v, k>>] \in V[k]
    BY <2>0, <2>1, <2>2
  <2>4. \A k \in 0..m : V[k] = W
    OBVIOUS
  <2> HIDE DEF V
  <2>5. PICK f : Runs(f, m, V, G, ss[1])
    BY <2>0, <2>3, Recursion
  <2> DEFINE h == [i \in 1..n |-> f[i - 1]]
  <2>6. Solves(h)
    <3>1. \A k \in 0..m : f[k] \in W
      <4>1. \A k \in 0..m : f[k] \in V[k]
        BY <2>0, <2>3, <2>5, Recursion
      <4> QED BY <2>4, <4>1
    <3> DEFINE of(i) == IF i = 1 THEN ss[i] ELSE step(h[i - 1], i)
    <3>2. \A i \in 1..n : f[i - 1] = of(i)
      <4> SUFFICES ASSUME NEW i \in 1..n PROVE f[i - 1] = of(i)
        OBVIOUS
      <4>1. CASE i = 1
        BY <2>5, <4>1 DEF Runs
      <4>2. CASE i # 1
        <5>1. i - 1 \in 1..m /\ i - 1 \in 1..n /\ (i - 1) - 1 \in 0..m /\ (i - 1) + 1 = i
          BY <2>0, <4>2
        <5>2. f[i - 1] = G[<<f[(i - 1) - 1], i - 1>>]
          BY <2>4, <2>5, <3>1, <5>1 DEF Runs
        <5>3. G[<<f[(i - 1) - 1], i - 1>>] = step(f[(i - 1) - 1], i)
          BY <2>1, <3>1, <5>1
        <5> QED BY <4>2, <5>1, <5>2, <5>3
      <4> QED BY <4>1, <4>2
    <3>3. h = [i \in 1..n |-> of(i)]
      <4> HIDE DEF of
      <4> QED BY <3>2
    <3> QED BY <3>3
  <2> HIDE DEF h
  <2> DEFINE g == CHOOSE x : Solves(x)
  <2>7. Solves(g)
    <3> HIDE DEF Solves
    <3> QED BY <2>6
  <2>8. FlattenSeq(ss) = g[n]
    BY <1>2 DEF FlattenSeq, step
  <2> HIDE DEF g
  <2> DEFINE d == [k \in 0..m |-> g[k + 1]]
  <2>9. Runs(d, m, V, G, ss[1])
    <3> DEFINE of(i) == IF i = 1 THEN ss[i] ELSE step(g[i - 1], i)
    <3>1. \A i \in 1..n : g[i] = of(i)
      <4>1. g = [i \in 1..n |-> of(i)]
        BY <2>7
      <4> HIDE DEF of
      <4> QED BY <4>1
    <3>2. d[0] = ss[1]
      BY <2>0, <3>1
    <3>3. ASSUME NEW k \in 1..m, d[k - 1] \in V[k - 1] PROVE d[k] = G[<<d[k - 1], k>>]
      <4>1. k + 1 \in 1..n /\ k \in 0..m /\ k - 1 \in 0..m /\ (k + 1) - 1 = k /\ (k - 1) + 1 = k /\ k + 1 # 1
        BY <2>0
      <4>2. d[k] = g[k + 1] /\ d[k - 1] = g[k] /\ d[k - 1] \in W
        BY <2>4, <3>3, <4>1
      <4>3. g[k + 1] = step(g[k], k + 1)
        BY <3>1, <4>1
      <4> HIDE DEF d
      <4> QED BY <2>1, <4>2, <4>3
    <3> HIDE DEF d
    <3> QED BY <3>2, <3>3 DEF Runs
  <2>10. d[m] \in W
    <3> HIDE DEF d
    <3>1. \A k \in 0..m : d[k] \in V[k]
      BY <2>0, <2>3, <2>9, Recursion
    <3> QED BY <2>0, <2>4, <3>1, SMTT(60)
  <2>11. d[m] = g[n]
    BY <2>0
  <2> HIDE DEF d
  <2> QED BY <2>8, <2>10, <2>11 DEF W
<1> QED BY <1>1, <1>2

\* the parts of names and paths, what a kind and a symbol kind are, the symbols of all generations
Segment == DOMAIN Lower
Kinds == DOMAIN RankKind
KindLabels == Kinds \cup {""}
KnownRows == UNION {ToSet(w.symbols) : w \in ToSet(Worlds)}
SymbolLabels == {s.kind : s \in KnownRows} \cup {"", "statement", "file"}
Reasons == {"symbol-localization", "summary", "symbol", "graph", "body", "embedding"}
Hit == [unit : Nat, pos : Nat, score : Int]
Record ==
  [kind : KindLabels, path : Seq(Segment), name : Segment, qname : Seq(Segment), symbol : Nat,
   text : SUBSET Segment, symbolKind : SymbolLabels, pub : BOOLEAN, activity : Nat, pos : Nat, score : Int,
   reasons : SUBSET Reasons, distance : Nat, depth : Int, relevance : Nat, unit : Nat, hits : Seq(Hit)]
\* a candidate: only the repository has no path, and a symbol's is the one of its id
Cand ==
  {c \in Record : /\ c.kind \in Kinds
                  /\ c.path = <<>> => c.kind = "repo" /\ c.symbol = 0
                  /\ c.symbol # 0 => \E s \in KnownRows : s.id = c.symbol /\ s.path = c.path}
\* a document, as the index has it
Doc == {c \in Cand : c.kind \in DocumentKinds /\ c.reasons = {} /\ c.depth = -1}

Corpus == [directories : Seq(Path), files : Seq([path : Path, text : SUBSET Segment]), symbols : Seq(SymbolRow)]

-----------------------------------------------------------------------------
(* Scores are numbers, searches answer with documents.                     *)

\* A nonempty set of integers with an upper bound has a greatest one.
LEMMA Greatest ==
  ASSUME NEW C \in SUBSET Int, C # {}, NEW b \in Int, \A c \in C : c <= b
  PROVE  \E c \in C : \A d \in C : d <= c
<1> DEFINE D == {b - c : c \in C}
<1>1. D \subseteq Nat /\ D # {}
  <2>1. \A c \in C : b - c \in Nat
    OBVIOUS
  <2> QED BY <2>1
<1>2. PICK n \in D : \A d \in D : n <= d
  <2> HIDE DEF D
  <2> QED BY <1>1, Least
<1>3. PICK c \in C : n = b - c
  OBVIOUS
<1>4. ASSUME NEW d \in C PROVE d <= c
  <2>1. b - d \in D
    OBVIOUS
  <2>2. b - c <= b - d
    <3> HIDE DEF D
    <3> QED BY <1>2, <1>3, <2>1
  <2> QED BY <2>2
<1> QED BY <1>4

\* The numbers of a sequence have an upper bound.
LEMMA Bounded ==
  ASSUME NEW n \in Nat, NEW f, \A i \in 1..n : f[i] \in Int
  PROVE  \E b \in Int : \A i \in 1..n : f[i] <= b
<1> DEFINE T == {k \in 0..n : \E b \in Int : \A i \in 1..k : f[i] <= b}
<1>1. 0 \in T
  OBVIOUS
<1>2. ASSUME NEW k \in 0..(n - 1), k \in T PROVE k + 1 \in T
  <2>1. PICK b \in Int : \A i \in 1..k : f[i] <= b
    BY <1>2
  <2>2. k + 1 \in 0..n /\ k + 1 \in 1..n /\ f[k + 1] \in Int
    OBVIOUS
  <2> DEFINE m == IF f[k + 1] > b THEN f[k + 1] ELSE b
  <2>3. m \in Int /\ b <= m /\ f[k + 1] <= m
    <3> DEFINE x == f[k + 1]
    <3>1. x \in Int
      BY <2>2
    <3> HIDE DEF x
    <3>2. (IF x > b THEN x ELSE b) \in Int /\ b <= (IF x > b THEN x ELSE b) /\ x <= (IF x > b THEN x ELSE b)
      BY <3>1
    <3> QED BY <3>2 DEF x
  <2> HIDE DEF m
  <2>4. ASSUME NEW i \in 1..(k + 1) PROVE f[i] <= m
    <3>1. CASE i = k + 1
      BY <2>3, <3>1
    <3>2. CASE i # k + 1
      <4>1. i \in 1..k /\ i \in 1..n
        BY <3>2
      <4> QED BY <2>1, <2>3, <4>1
    <3> QED BY <3>1, <3>2
  <2> QED BY <2>2, <2>3, <2>4
<1>3. 0..n \subseteq T
  <2> HIDE DEF T
  <2> QED BY <1>1, <1>2, UpTo
<1>4. n \in T
  <2> HIDE DEF T
  <2> QED BY <1>3
<1> QED BY <1>4

\* The numbers 1..n are n.
LEMMA Numbers ==
  ASSUME NEW n \in Nat
  PROVE  IsFiniteSet(1..n) /\ Cardinality(1..n) = n
BY FS_Interval

\* max(a, b) is one of the two, and no less than the other.
LEMMA MostIs ==
  ASSUME NEW a \in Int, NEW b \in Int
  PROVE  Most(a, b) \in Int /\ Most(a, b) >= a /\ Most(a, b) >= b /\ Most(a, b) \in {a, b}
BY DEF Most

\* max(limit * factor, least) is a natural number.
LEMMA GrowIs ==
  ASSUME NEW n \in Nat, NEW by \in Nat \X Nat
  PROVE  Grow(n, by) \in Nat
<1>1. by[1] \in Nat /\ by[2] \in Nat
  OBVIOUS
<1>2. n * by[1] \in Nat
  BY <1>1
<1> QED BY <1>1, <1>2, MostIs DEF Grow, Most

\* A bonus is its points or nothing.
LEMMA IfIs ==
  ASSUME NEW b, NEW n \in Int
  PROVE  If(b, n) \in Int
BY DEF If

\* The numbers of the elements of a sequence that are in some set.
LEMMA CountIs ==
  ASSUME NEW S, NEW s \in Seq(S), NEW I \in SUBSET (DOMAIN s)
  PROVE  IsFiniteSet(I) /\ Cardinality(I) \in 0..Len(s)
<1>1. DOMAIN s = 1..Len(s) /\ Len(s) \in Nat
  OBVIOUS
<1>2. IsFiniteSet(1..Len(s)) /\ Cardinality(1..Len(s)) = Len(s)
  BY <1>1, Numbers
<1> QED BY <1>1, <1>2, FS_Subset, FS_CardinalityType

\* The elements of a sequence are finitely many.
LEMMA ToSetIs ==
  ASSUME NEW S, NEW s \in Seq(S)
  PROVE  /\ ToSet(s) \subseteq S
         /\ \A x : x \in ToSet(s) <=> \E i \in 1..Len(s) : x = s[i]
         /\ \A C \in SUBSET ToSet(s) : IsFiniteSet(C) /\ Cardinality(C) \in 0..Len(s)
<1>1. DOMAIN s = 1..Len(s) /\ Len(s) \in Nat /\ \A i \in 1..Len(s) : s[i] \in S
  BY ElementOfSeq
<1>2. ToSet(s) \subseteq S /\ \A x : x \in ToSet(s) <=> \E i \in 1..Len(s) : x = s[i]
  BY <1>1 DEF ToSet
<1>3. IsFiniteSet(1..Len(s)) /\ Cardinality(1..Len(s)) = Len(s)
  BY <1>1, Numbers
<1> DEFINE f == [i \in 1..Len(s) |-> s[i]]
<1>4. f \in Surjection(1..Len(s), ToSet(s))
  <2>1. f \in [1..Len(s) -> ToSet(s)]
    BY <1>2
  <2> QED BY <1>2, <2>1 DEF Surjection
<1>5. IsFiniteSet(ToSet(s)) /\ Cardinality(ToSet(s)) <= Len(s)
  <2> HIDE DEF f
  <2> QED BY <1>3, <1>4, FS_Surjection
<1>6. \A C \in SUBSET ToSet(s) : IsFiniteSet(C) /\ Cardinality(C) \in 0..Len(s)
  <2> SUFFICES ASSUME NEW C \in SUBSET ToSet(s) PROVE IsFiniteSet(C) /\ Cardinality(C) \in 0..Len(s)
    OBVIOUS
  <2>1. IsFiniteSet(C) /\ Cardinality(C) <= Cardinality(ToSet(s))
    BY <1>5, FS_Subset
  <2>2. Cardinality(C) \in Nat /\ Cardinality(ToSet(s)) \in Nat
    BY <1>5, <2>1, FS_CardinalityType
  <2> QED BY <1>1, <1>5, <2>1, <2>2
<1> QED BY <1>2, <1>6

\* a query
IsQuery(ask) == ask.words \in Seq(Seq(Segment))

\* A lowered path is as long as the path.
LEMMA LoweredIs ==
  ASSUME NEW s \in Seq(Segment)
  PROVE  Lowered(s) \in Seq(Segment) /\ Len(Lowered(s)) = Len(s)
<1>1. \A i \in DOMAIN s : s[i] \in Segment
  OBVIOUS
<1>2. \A x \in Segment : Lower[x] \in Segment
  BY SegmentAssumption DEF Segment
<1>3. \A i \in DOMAIN s : Lower[s[i]] \in Segment
  BY <1>1, <1>2
<1> HIDE DEF Segment
<1> QED BY <1>3 DEF Lowered

\* The tokens of a query are a sequence of words.
LEMMA TokensIs ==
  ASSUME NEW ask, IsQuery(ask)
  PROVE  Tokens(ask) \in Seq(Segment)
<1>1. FlattenSeq(ask.words) \in Seq(Segment)
  BY FlattenLaw DEF IsQuery
<1> QED BY <1>1, LoweredIs DEF Tokens

\* The fields the terms of a query are found in are a sequence, a field for each.
LEMMA FieldsAre ==
  ASSUME NEW terms \in Seq(Segment), NEW d
  PROVE  \E V : FieldsOf(terms, d) \in Seq(V)
<1> DEFINE of(i) == FieldOf(terms[i], d)
           V == {of(i) : i \in DOMAIN terms}
           w == [i \in DOMAIN terms |-> of(i)]
<1>1. Each(terms, LAMBDA t : FieldOf(t, d)) = w
  BY DEF Each
<1>2. \A i \in DOMAIN terms : of(i) \in V
  OBVIOUS
<1> HIDE DEF of, V
<1>3. w \in Seq(V)
  BY <1>2
<1> HIDE DEF w
<1>4. Once(w) \in Seq(V)
  BY <1>3, OnceIs
<1> QED BY <1>1, <1>4 DEF FieldsOf

\* The points for such fields are a number.
LEMMA FieldPointsIs ==
  ASSUME NEW V, NEW fields \in Seq(V), NEW points,
         points[1] \in Int, points[2] \in Int, points[3] \in Int, points[4] \in Int, points[5] \in Int
  PROVE  FieldPoints(fields, points) \in Int
<1> DEFINE n(field) == Cardinality({i \in DOMAIN fields : fields[i] = field})
<1>1. \A field : n(field) \in Int
  BY CountIs
<1>2. FieldPoints(fields, points)
        = n(1) * points[1] + n(2) * points[2] + n(3) * points[3] + n(4) * points[4] + n(5) * points[5]
  BY DEF FieldPoints
<1> DEFINE v(k) == n(k) * points[k]
<1>3. v(1) \in Int /\ v(2) \in Int /\ v(3) \in Int /\ v(4) \in Int /\ v(5) \in Int
  <2>1. \A a, b \in Int : a * b \in Int
    OBVIOUS
  <2> HIDE DEF n
  <2> QED BY <1>1, <2>1
<1>4. FieldPoints(fields, points) = v(1) + v(2) + v(3) + v(4) + v(5)
  BY <1>2
<1> HIDE DEF n, v
<1> QED BY <1>3, <1>4

\* What the terms of a query score in a document's fields is a number.
LEMMA TermsPointsIs ==
  ASSUME NEW terms \in Seq(Segment), NEW d, NEW points,
         points[1] \in Int, points[2] \in Int, points[3] \in Int, points[4] \in Int, points[5] \in Int
  PROVE  TermsPoints(terms, d, points) \in Int
<1>1. PICK V : FieldsOf(terms, d) \in Seq(V)
  BY FieldsAre
<1> QED BY <1>1, FieldPointsIs DEF TermsPoints

\* So it is with the bonus for all of the terms.
LEMMA TermsBonusIs ==
  ASSUME NEW terms \in Seq(Segment), NEW d, NEW points, NEW all \in Int,
         points[1] \in Int, points[2] \in Int, points[3] \in Int, points[4] \in Int, points[5] \in Int
  PROVE  TermsBonus(terms, d, points, all) \in Int
<1> DEFINE fields == FieldsOf(terms, d)
           bonus == IF fields = <<>> THEN 0 ELSE IF Missed \notin ToSet(fields) THEN all
                    ELSE IF ToSet(fields) = {Missed} THEN -1800 ELSE 0
<1>1. PICK V : fields \in Seq(V)
  BY FieldsAre
<1>2. bonus \in Int
  <2> DEFINE found == Missed \notin ToSet(fields)
             none == ToSet(fields) = {Missed}
  <2>1. bonus = IF fields = <<>> THEN 0 ELSE IF found THEN all ELSE IF none THEN -1800 ELSE 0
    OBVIOUS
  <2> HIDE DEF fields, found, none, bonus
  <2> QED BY <2>1
<1>3. TermsBonus(terms, d, points, all) = FieldPoints(fields, points) + bonus
  BY DEF TermsBonus, FieldBonus
<1> HIDE DEF fields, bonus
<1>4. FieldPoints(fields, points) \in Int
  BY <1>1, FieldPointsIs
<1> QED BY <1>2, <1>3, <1>4

\* The bonus for a name that is the query's is a number.
LEMMA NameBonusIs ==
  ASSUME NEW ask, NEW d
  PROVE  NameBonus(ask, d) \in Int
<1> DEFINE a == If(Asked(ask) = Lowered(d.qname), 18000)
           b == If(Asked(ask) = Lowered(<<d.name>>), 15000)
           c == If(IsStrictSuffix(Asked(ask), Lowered(d.qname)), 11000)
<1>1. a \in Int /\ b \in Int /\ c \in Int
  BY IfIs
<1>2. NameBonus(ask, d) = IF ~IsName(ask) THEN 0 ELSE a + b + c
  BY DEF NameBonus
<1> HIDE DEF a, b, c
<1> QED BY <1>1, <1>2

\* The bonus of a kind is a number.
LEMMA KindBonusIs ==
  ASSUME NEW d, d.kind \in Kinds
  PROVE  KindBonus(d) \in Int
<1>1. RankKind[d.kind] \in Int
  BY DEF Kinds, RankKind
<1>2. RankSymbolKind(d.symbolKind) \in Int
  BY DEF RankSymbolKind
<1> QED BY <1>1, <1>2 DEF KindBonus

\* The share of the activity of a symbol in its score is a number.
LEMMA ActivityBonusIs ==
  ASSUME NEW d, d.activity \in Nat, NEW nominal \in Nat, NEW impl \in Nat, NEW callable \in Nat
  PROVE  ActivityBonus(d, nominal, impl, callable) \in Int
<1> DEFINE share == CASE d.symbolKind \in Nominal -> nominal [] d.symbolKind = "impl" -> impl
                      [] d.symbolKind \in Callable -> callable [] OTHER -> 0
<1>1. share \in Nat
  OBVIOUS
<1>2. ActivityBonus(d, nominal, impl, callable) = IF d.kind # "symbol" THEN 0 ELSE (d.activity * share) \div 100
  BY DEF ActivityBonus
<1> HIDE DEF share
<1>3. d.activity * share \in Nat
  BY <1>1
<1>4. (d.activity * share) \div 100 \in Int
  BY <1>3
<1> QED BY <1>2, <1>4

\* The score of a document a search found is a number.
LEMMA SearchScoreIs ==
  ASSUME NEW ask, IsQuery(ask), NEW d \in Cand, NEW native \in Int, NEW hits \in Int
  PROVE  SearchScore(ask, d, native, hits) \in Int
<1> DEFINE t == Tokens(ask)
           a == NameBonus(ask, d)
           b == TermsBonus(t, d, <<1600, 1400, 1000, 800, 700>>, 2400)
           c == KindBonus(d)
           e == If(d.pub, 800)
           f == ActivityBonus(d, 8, 10, 14)
           g == 400 * (IF hits > 4 THEN 3 ELSE hits - 1)
           h == If(d.symbolKind \in Local /\ ~AsksStatement(ask), 3000)
           i == If(PartOf(ask, d.qname) \/ InText(ask, Title(d)), 1800)
           j == If(\E w \in d.text : InText(ask, <<w>>), 1200)
           k == If(InText(ask, d.path), 1600)
<1>1. d.kind \in Kinds /\ d.activity \in Nat
  BY DEF Cand, Record
<1>2. a \in Int /\ c \in Int /\ f \in Int
  BY <1>1, NameBonusIs, KindBonusIs, ActivityBonusIs
<1>3. b \in Int
  <2> DEFINE points == <<1600, 1400, 1000, 800, 700>>
  <2>1. points[1] \in Int /\ points[2] \in Int /\ points[3] \in Int /\ points[4] \in Int /\ points[5] \in Int
    OBVIOUS
  <2> HIDE DEF points
  <2>2. t \in Seq(Segment)
    BY TokensIs
  <2> HIDE DEF t
  <2>3. TermsBonus(t, d, points, 2400) \in Int
    BY <2>1, <2>2, TermsBonusIs
  <2> QED BY <2>3 DEF points
<1>4. e \in Int /\ h \in Int /\ i \in Int /\ j \in Int /\ k \in Int
  BY DEF If
<1>5. g \in Int
  OBVIOUS
<1>6. SearchScore(ask, d, native, hits) = native + a + b + c + e + f + g - h + i + j + k
  BY DEF SearchScore
<1> HIDE DEF a, b, c, e, f, g, h, i, j, k
<1> QED BY <1>2, <1>3, <1>4, <1>5, <1>6

\* The heuristic score of a candidate (rerank_candidates) is a number.
LEMMA HeuristicIs ==
  ASSUME NEW ask, IsQuery(ask), NEW x \in Cand, NEW profile
  PROVE  Heuristic(ask, x, profile) \in Int
<1> DEFINE t == Tokens(ask)
           named == IF x.qname # <<>> THEN <<x.name, Last(x.qname)>> ELSE <<x.name>>
           a == IF Len(t) = 1 THEN NameBonus(ask, x) ELSE 0
           b == TermsBonus(t, x, <<1600, 1400, 900, 700, 600>>, 2600)
           c == 500 * Cardinality({i \in DOMAIN t : Has(t[i], named)})
           d == KindBonus(x)
           e == 50 * KindPriority(x.kind)
           f == IF x.distance > 0 THEN Most(2000 - (x.distance - 1) * 600, 200) ELSE 0
           g == IF x.depth >= 0 THEN Most(1800 - x.depth * 400, 400) ELSE 0
           h == CASE x.pub -> 800 [] ~x.pub /\ x.kind = "symbol" -> -200 [] OTHER -> 0
           i == IF profile.intent = "exploration" THEN ActivityBonus(x, 12, 16, 34) ELSE ActivityBonus(x, 8, 10, 14)
           j == 28 * x.relevance
           k == If(x.kind = "statement" /\ ~profile.statement, 6000)
           l == If(x.symbolKind \in Local /\ ~profile.statement, 2800)
           m == If(x.kind \in {"function_body", "type_body"} /\ x.symbolKind \notin Nominal \cup {"", "impl"}, 600)
<1>1. /\ x.kind \in Kinds /\ x.activity \in Nat /\ x.distance \in Nat /\ x.depth \in Int /\ x.pub \in BOOLEAN
      /\ x.relevance \in Nat /\ x.score \in Int
  BY DEF Cand, Record
<1>2. t \in Seq(Segment)
  BY TokensIs
<1>3. a \in Int /\ d \in Int /\ i \in Int
  <2>1. NameBonus(ask, x) \in Int /\ d \in Int /\ ActivityBonus(x, 12, 16, 34) \in Int /\ ActivityBonus(x, 8, 10, 14) \in Int
    BY <1>1, NameBonusIs, KindBonusIs, ActivityBonusIs
  <2> HIDE DEF t
  <2> QED BY <2>1
<1>4. b \in Int
  <2> DEFINE points == <<1600, 1400, 900, 700, 600>>
  <2>1. points[1] \in Int /\ points[2] \in Int /\ points[3] \in Int /\ points[4] \in Int /\ points[5] \in Int
    OBVIOUS
  <2> HIDE DEF points, t
  <2>2. TermsBonus(t, x, points, 2600) \in Int
    BY <1>2, <2>1, TermsBonusIs
  <2> QED BY <2>2 DEF points
<1>5. c \in Int
  <2> HIDE DEF t, named
  <2>1. Cardinality({r \in DOMAIN t : Has(t[r], named)}) \in 0..Len(t)
    BY <1>2, CountIs
  <2> QED BY <1>2, <2>1
<1>6. e \in Int
  BY DEF KindPriority
<1>7. f \in Int /\ g \in Int
  <2>1. 2000 - (x.distance - 1) * 600 \in Int /\ 1800 - x.depth * 400 \in Int
    BY <1>1
  <2>2. Most(2000 - (x.distance - 1) * 600, 200) \in Int /\ Most(1800 - x.depth * 400, 400) \in Int
    <3> DEFINE y == 2000 - (x.distance - 1) * 600
               z == 1800 - x.depth * 400
    <3>1. y \in Int /\ z \in Int
      BY <2>1
    <3> HIDE DEF y, z
    <3>2. Most(y, 200) \in Int /\ Most(z, 400) \in Int
      BY <3>1 DEF Most
    <3> QED BY <3>2 DEF y, z
  <2> QED BY <2>2
<1>8. h \in Int /\ j \in Int
  BY <1>1
<1>9. k \in Int /\ l \in Int /\ m \in Int
  BY DEF If
<1>10. Heuristic(ask, x, profile) = x.score + a + b + c + d + e + f + g + h + i + j - k - l - m
  BY DEF Heuristic
<1> HIDE DEF a, b, c, d, e, f, g, h, i, j, k, l, m
<1> QED BY <1>1, <1>3, <1>4, <1>5, <1>6, <1>7, <1>8, <1>9, <1>10

\* candidates, whatever their score
Closed(S) == S \subseteq Cand /\ \A c \in S : \A n \in Int : [c EXCEPT !.score = n] \in S
\* documents, whatever their score, of the kinds the index has
Indexed(S) == Closed(S) /\ \A c \in S : c.kind \in DocumentKinds

\* Some of a sequence, in another order, cut, and sequences put together.
LEMMA FirstIs ==
  ASSUME NEW S, NEW s \in Seq(S), NEW n \in Int
  PROVE  First(s, n) \in Seq(S)
BY FirstLaw

\* A selection of candidates is candidates.
LEMMA AmongIs ==
  ASSUME NEW S, NEW s \in Seq(S), NEW I
  PROVE  Among(s, I) \in Seq(S)
BY AmongHas

\* Candidates sorted are candidates.
LEMMA InOrderIs ==
  ASSUME NEW S, NEW s \in Seq(S), NEW R
  PROVE  InOrder(s, R) \in Seq(S)
BY InOrderLaw

\* The filters of a search leave documents of the kinds and the prefix asked for.
LEMMA FilteredIs ==
  ASSUME NEW S, NEW s \in Seq(S), NEW n \in Int, NEW kinds, NEW prefix
  PROVE  Filtered(s, n, kinds, prefix) \in Seq({c \in S : kinds = {} \/ c.kind \in kinds})
<1> DEFINE I == {i \in DOMAIN s : Passes(s[i], kinds, prefix)}
           T == {c \in S : kinds = {} \/ c.kind \in kinds}
           a == Among(s, I)
<1>1. Filtered(s, n, kinds, prefix) = First(a, n)
  BY OnceIs DEF Filtered, Where
<1>2. \A i \in I : s[i] \in T
  BY DEF Passes
<1> HIDE DEF I, T
<1>3. a \in Seq(S) /\ \A k \in 1..Len(a) : a[k] \in T
  BY <1>2, AmongHas
<1> HIDE DEF a
<1>4. a \in Seq(T)
  BY <1>3
<1>5. First(a, n) \in Seq(T)
  BY <1>4, FirstIs
<1> QED BY <1>1, <1>5 DEF T

\* Sorted by score and rank of their kind, candidates are candidates.
LEMMA BetterSort ==
  ASSUME NEW S, NEW s \in Seq(S)
  PROVE  Sort(s, Better) \in Seq(S)
<1> DEFINE R == {x \in (DOMAIN s) \X (DOMAIN s) : Better(s[x[1]], s[x[2]])}
<1>1. Sort(s, Better) = InOrder(s, R)
  BY OnceIs DEF Sort, Each, InOrder
<1> HIDE DEF R
<1> QED BY <1>1, InOrderIs

\* Sorted by score, candidates are candidates.
LEMMA ByScoreSort ==
  ASSUME NEW S, NEW s \in Seq(S)
  PROVE  Sort(s, ByScore) \in Seq(S)
<1> DEFINE R == {x \in (DOMAIN s) \X (DOMAIN s) : ByScore(s[x[1]], s[x[2]])}
<1>1. Sort(s, ByScore) = InOrder(s, R)
  BY OnceIs DEF Sort, Each, InOrder
<1> HIDE DEF R
<1> QED BY <1>1, InOrderIs

-----------------------------------------------------------------------------
(* The native query.                                                       *)

\* One kind of document has the greatest weight.
LEMMA HeaviestWeight == \E w \in Nat : \A k \in DocumentKinds : Weight[k] \in Nat /\ Weight[k] <= w
<1> DEFINE w == Weight["symbol"] + Weight["type_body"] + Weight["function_body"] + Weight["file"] + Weight["doc"]
                  + Weight["directory"] + Weight["repo"]
<1>1. \A k \in DocumentKinds : Weight[k] \in Nat
  BY WeightAssumption
<1>2. \A k \in DocumentKinds : Weight[k] <= w
  BY <1>1 DEF DocumentKinds
<1>3. w \in Nat
  BY <1>1 DEF DocumentKinds
<1> QED BY <1>1, <1>2, <1>3

\* The native score of a document is bounded by weight and number of the terms.
LEMMA Bm25Is ==
  ASSUME NEW v \in Seq(Segment), NEW w \in Nat, \A k \in DocumentKinds : Weight[k] \in Nat /\ Weight[k] <= w,
         NEW n \in Nat, Len(v) <= n, NEW d, d.kind \in DocumentKinds
  PROVE  Bm25(d, ToSet(v)) \in 0..(w * n)
<1> DEFINE m == Cardinality({t \in ToSet(v) : \E x \in d.text : Has(t, <<x>>)})
<1>1. m \in 0..n
  <2>1. m \in 0..Len(v)
    BY ToSetIs
  <2> HIDE DEF m
  <2> QED BY <2>1
<1>2. Bm25(d, ToSet(v)) = Weight[d.kind] * m
  BY DEF Bm25
<1> DEFINE x == Weight[d.kind]
<1>3. x \in 0..w
  OBVIOUS
<1> HIDE DEF m, x
<1>4. x * m \in Nat /\ x * m <= w * m /\ w * m <= w * n
  BY <1>1, <1>3
<1>5. x * m \in 0..(w * n)
  BY <1>1, <1>3, <1>4
<1> QED BY <1>2, <1>5 DEF x

\* The native query answers with documents of the index, their score in bounds.
LEMMA QueryTermsIs ==
  ASSUME NEW S, Indexed(S), NEW index \in Seq(S), NEW v \in Seq(Segment),
         NEW b \in Nat, \A d \in S : Bm25(d, ToSet(v)) \in 0..b,
         NEW quota \in Nat, NEW kinds, NEW prefix
  PROVE  QueryTerms(index, ToSet(v), quota, kinds, prefix) \in Seq({c \in S : c.score \in 0..b})
<1> DEFINE T == {c \in S : c.score \in 0..b}
           rated == [i \in DOMAIN index |-> [index[i] EXCEPT !.score = Bm25(index[i], ToSet(v))]]
           I == {i \in DOMAIN rated : rated[i].score > 0}
           hits == Sort(Among(rated, I), Better)
           top == First(hits, Grow(quota, Collect))
<1>1. rated \in Seq(T)
  <2>1. ASSUME NEW i \in DOMAIN index PROVE [index[i] EXCEPT !.score = Bm25(index[i], ToSet(v))] \in T
    <3> DEFINE d == index[i]
               n == Bm25(d, ToSet(v))
    <3>1. d \in S
      OBVIOUS
    <3>2. n \in 0..b /\ n \in Int
      <4> HIDE DEF d
      <4>1. n \in 0..b
        BY <3>1
      <4> QED BY <4>1
    <3> HIDE DEF n, d
    <3>3. [d EXCEPT !.score = n] \in S
      BY <3>1, <3>2 DEF Indexed, Closed
    <3>4. [d EXCEPT !.score = n].score = n
      <4>1. d \in Record
        BY <3>1 DEF Indexed, Closed, Cand
      <4> QED BY <4>1 DEF Record
    <3> QED BY <3>2, <3>3, <3>4 DEF d, n
  <2> HIDE DEF T
  <2> QED BY <2>1, SMTT(60)
<1>2. QueryTerms(index, ToSet(v), quota, kinds, prefix) = Filtered(top, quota, kinds, prefix)
  <2>1. Each(index, LAMBDA d : [d EXCEPT !.score = Bm25(d, ToSet(v))]) = rated
    BY DEF Each
  <2>2. Where(rated, LAMBDA d : d.score > 0) = Among(rated, I)
    BY <1>1, OnceIs DEF Where
  <2> HIDE DEF rated, I
  <2> QED BY <2>1, <2>2 DEF QueryTerms
<1> HIDE DEF rated
<1>3. Among(rated, I) \in Seq(T)
  <2> HIDE DEF I, T
  <2> QED BY <1>1, AmongIs
<1> HIDE DEF I, T
<1>4. hits \in Seq(T)
  BY <1>3, BetterSort
<1>5. Grow(quota, Collect) \in Int
  BY GrowIs, FanAssumption
<1> HIDE DEF hits
<1>6. top \in Seq(T)
  BY <1>4, <1>5, FirstIs
<1> HIDE DEF top
<1>7. Filtered(top, quota, kinds, prefix) \in Seq(T)
  <2>1. Filtered(top, quota, kinds, prefix) \in Seq({c \in T : kinds = {} \/ c.kind \in kinds})
    BY <1>6, FilteredIs
  <2>2. {c \in T : kinds = {} \/ c.kind \in kinds} \subseteq T
    OBVIOUS
  <2> QED BY <2>1, <2>2, SeqMonotonic
<1> QED BY <1>2, <1>7 DEF T

\* The variants of a query are finitely many, none longer than its tokens.
LEMMA VariantsIs ==
  ASSUME NEW ask, IsQuery(ask)
  PROVE  /\ IsFiniteSet(Variants(ask))
         /\ \A v \in Variants(ask) : v \in Seq(Segment) /\ Len(v) <= Len(Tokens(ask))
<1> DEFINE t == Tokens(ask)
           P == (1..Len(t)) \X (1..Len(t))
           W == {x \in P : Len(t) >= 3 /\ x[2] - x[1] \in {1, 2}}
           f == [x \in W |-> SubSeq(t, x[1], x[2])]
           I == {SubSeq(t, x[1], x[2]) : x \in W}
<1>0. t \in Seq(Segment) /\ Len(t) \in Nat
  BY TokensIs
<1>1. Variants(ask) = {t} \cup I
  BY DEF Variants
<1> HIDE DEF t
<1>2. IsFiniteSet(1..Len(t))
  BY <1>0, Numbers
<1>3. IsFiniteSet(P)
  BY <1>2, FS_Product
<1>4. IsFiniteSet(W)
  BY <1>3, FS_Subset
<1>5. f \in Surjection(W, I)
  <2> HIDE DEF W
  <2> QED BY DEF Surjection
<1>6. IsFiniteSet(I)
  <2> HIDE DEF f, I, W
  <2> QED BY <1>4, <1>5, FS_Surjection
<1>7. IsFiniteSet({t} \cup I)
  <2> HIDE DEF I
  <2>1. IsFiniteSet(I \cup {t})
    BY <1>6, FS_AddElement
  <2>2. I \cup {t} = {t} \cup I
    OBVIOUS
  <2> QED BY <2>1, <2>2
<1>8. ASSUME NEW x \in W PROVE SubSeq(t, x[1], x[2]) \in Seq(Segment) /\ Len(SubSeq(t, x[1], x[2])) <= Len(t)
  <2>1. x[1] \in 1..Len(t) /\ x[2] \in 1..Len(t)
    OBVIOUS
  <2> DEFINE a == x[1]
             b == x[2]
  <2>2. a \in 1..Len(t) /\ b \in 1..Len(t)
    BY <2>1
  <2> HIDE DEF a, b, W
  <2>3. SubSeq(t, a, b) \in Seq(Segment) /\ Len(SubSeq(t, a, b)) = IF a <= b THEN b - a + 1 ELSE 0
    BY <1>0, <2>2
  <2>4. Len(SubSeq(t, a, b)) <= Len(t)
    BY <1>0, <2>2, <2>3
  <2> QED BY <2>3, <2>4 DEF a, b
<1>9. \A v \in {t} \cup I : v \in Seq(Segment) /\ Len(v) <= Len(t)
  <2>1. ASSUME NEW v \in I PROVE v \in Seq(Segment) /\ Len(v) <= Len(t)
    <3> HIDE DEF W
    <3>1. PICK x \in W : v = SubSeq(t, x[1], x[2])
      OBVIOUS
    <3> QED BY <1>8, <3>1
  <2> HIDE DEF I
  <2> QED BY <1>0, <2>1
<1> HIDE DEF I
<1> QED BY <1>1, <1>7, <1>9 DEF t

\* the pairs <<variant, document>> a search asks the worker for
LEMMA RescoredIs ==
  ASSUME NEW S, Indexed(S), NEW index \in Seq(S), NEW ask, IsQuery(ask), NEW quota \in Nat, NEW b \in Int,
         NEW found, \A h \in found : h[1] \in Variants(ask) /\ h[2].score \in Int /\ h[2].score <= b
  PROVE  Rescored(found, index, ask, quota) \in Seq(S)
<1> DEFINE variants(d) == {h[1] : h \in HitsOf(found, d)}
           worth(d) == SearchScore(ask, d, NativeScore(found, d), Cardinality(variants(d)))
           rated(d) == [d EXCEPT !.score = worth(d)]
           before(x, y) == \/ x.score > y.score
                           \/ x.score = y.score /\ KindPlace(x.kind) < KindPlace(y.kind)
                           \/ x.score = y.score /\ x.kind = y.kind /\ x.pos < y.pos
           I == {i \in DOMAIN index : HitsOf(found, index[i]) # {}}
           hit == Among(index, I)
           s == [i \in DOMAIN hit |-> rated(hit[i])]
           R == {x \in (DOMAIN s) \X (DOMAIN s) : before(s[x[1]], s[x[2]])}
<1>1. Rescored(found, index, ask, quota) = First(InOrder(s, R), quota)
  <2>1. Where(index, LAMBDA d : HitsOf(found, d) # {}) = hit
    BY OnceIs DEF Where
  <2>2. Each(hit, rated) = s
    BY DEF Each
  <2>3. Each(Where(index, LAMBDA d : HitsOf(found, d) # {}), rated) = s
    BY <2>1, <2>2
  <2>4. Rescored(found, index, ask, quota)
          = First(Sort(Each(Where(index, LAMBDA d : HitsOf(found, d) # {}), rated), before), quota)
    BY DEF Rescored
  <2>5. s = Once(s)
    <3>1. hit \in Seq(S)
      <4> HIDE DEF I
      <4> QED BY AmongIs
    <3>2. s \in Seq({rated(c) : c \in S})
      <4> DEFINE T == {rated(c) : c \in S}
      <4>1. \A i \in DOMAIN hit : rated(hit[i]) \in T
        <5> HIDE DEF hit, rated
        <5> QED BY <3>1
      <4> HIDE DEF hit, rated, T
      <4>2. s \in Seq(T)
        BY <3>1, <4>1, SMTT(60)
      <4> QED BY <4>2 DEF T
    <3> HIDE DEF s
    <3> QED BY <3>2, OnceIs
  <2> HIDE DEF s, hit, I, worth
  <2>6. Sort(s, before) = InOrder(s, R)
    BY <2>5 DEF Sort, Each, InOrder
  <2> QED BY <2>3, <2>4, <2>6
<1>2. ASSUME NEW d \in S, HitsOf(found, d) # {} PROVE rated(d) \in S
  <2>1. NativeScore(found, d) \in Int
    <3> DEFINE scores == {h[2].score : h \in HitsOf(found, d)}
    <3>1. scores \in SUBSET Int /\ scores # {} /\ \A n \in scores : n <= b
      BY <1>2 DEF HitsOf
    <3>2. NativeScore(found, d) = CHOOSE n \in scores : \A m \in scores : m <= n
      BY DEF NativeScore
    <3> HIDE DEF scores
    <3>3. \E n \in scores : \A m \in scores : m <= n
      BY <3>1, Greatest
    <3> QED BY <3>1, <3>2, <3>3
  <2>2. Cardinality(variants(d)) \in Int
    <3>1. variants(d) \in SUBSET Variants(ask)
      BY DEF HitsOf
    <3> HIDE DEF variants
    <3>2. IsFiniteSet(variants(d))
      BY <3>1, VariantsIs, FS_Subset
    <3> QED BY <3>2, FS_CardinalityType
  <2>3. d \in Cand
    BY DEF Indexed, Closed
  <2> HIDE DEF variants
  <2>4. worth(d) \in Int
    BY <2>1, <2>2, <2>3, SearchScoreIs
  <2> HIDE DEF worth
  <2> QED BY <2>4 DEF Indexed, Closed
<1> HIDE DEF rated, before
<1>3. s \in Seq(S)
  <2>1. hit \in Seq(S) /\ \A k \in 1..Len(hit) : HitsOf(found, hit[k]) # {}
    <3>1. \A i \in I : HitsOf(found, index[i]) # {}
      OBVIOUS
    <3> HIDE DEF I
    <3> QED BY <3>1, AmongHas
  <2> HIDE DEF hit
  <2>2. DOMAIN hit = 1..Len(hit) /\ \A k \in 1..Len(hit) : hit[k] \in S
    BY <2>1, ElementOfSeq
  <2>3. \A k \in 1..Len(hit) : rated(hit[k]) \in S
    BY <1>2, <2>1, <2>2
  <2> QED BY <2>1, <2>2, <2>3
<1> HIDE DEF s, R
<1>4. First(InOrder(s, R), quota) \in Seq(S)
  <2>1. InOrder(s, R) \in Seq(S)
    BY <1>3, InOrderIs
  <2> QED BY <2>1, FirstIs
<1> QED BY <1>1, <1>4

\* Every search answers with documents of the index it is asked.
LEMMA SearchIs ==
  ASSUME NEW S, Indexed(S), NEW index \in Seq(S), NEW ask, IsQuery(ask), NEW quota \in Nat, NEW kinds, NEW prefix
  PROVE  Search(index, ask, quota, kinds, prefix) \in Seq(S)
<1> DEFINE many == Grow(quota, Fan)
           answer(v) == QueryTerms(index, ToSet(v), many, kinds, prefix)
           found == UNION {{<<v, d>> : d \in ToSet(answer(v))} : v \in Variants(ask)}
           n == Len(Tokens(ask))
<1>1. PICK w \in Nat : \A k \in DocumentKinds : Weight[k] \in Nat /\ Weight[k] <= w
  BY HeaviestWeight
<1>2. many \in Nat /\ n \in Nat
  <2>1. many \in Nat
    BY GrowIs, FanAssumption
  <2>2. Tokens(ask) \in Seq(Segment)
    BY TokensIs
  <2> QED BY <2>1, <2>2
<1> DEFINE b == w * n
<1>3. b \in Nat
  <2> HIDE DEF n
  <2> QED BY <1>2
<1>4. \A v \in Variants(ask) : \A d \in S : Bm25(d, ToSet(v)) \in 0..b
  <2> SUFFICES ASSUME NEW v \in Variants(ask), NEW d \in S PROVE Bm25(d, ToSet(v)) \in 0..b
    OBVIOUS
  <2>1. v \in Seq(Segment) /\ Len(v) <= n /\ d.kind \in DocumentKinds
    BY VariantsIs DEF Indexed
  <2> HIDE DEF n
  <2> QED BY <1>1, <1>2, <2>1, Bm25Is
<1> HIDE DEF many, b
<1>5. ASSUME NEW v \in Variants(ask), NEW d \in ToSet(answer(v)) PROVE d.score \in Int /\ d.score <= b
  <2> DEFINE T == {c \in S : c.score \in 0..b}
  <2>1. v \in Seq(Segment)
    BY VariantsIs
  <2>2. QueryTerms(index, ToSet(v), many, kinds, prefix) \in Seq(T)
    BY <1>2, <1>3, <1>4, <2>1, QueryTermsIs
  <2>3. d \in T
    <3> HIDE DEF T
    <3> QED BY <1>5, <2>2, ToSetIs
  <2> QED BY <1>3, <2>3
<1>6. Search(index, ask, quota, kinds, prefix) = Rescored(found, index, ask, quota)
  BY DEF Search, many
<1>7. \A h \in found : h[1] \in Variants(ask) /\ h[2].score \in Int /\ h[2].score <= b
  <2> HIDE DEF answer
  <2> QED BY <1>5
<1>8. b \in Int
  BY <1>3
<1> HIDE DEF found
<1> QED BY <1>6, <1>7, <1>8, RescoredIs

\* A listing of documents without a query answers with documents of the index.
LEMMA ListIs ==
  ASSUME NEW S, Closed(S), NEW index \in Seq(S), NEW quota \in Int, NEW kinds, NEW prefix
  PROVE  ListDocuments(index, quota, kinds, prefix) \in Seq(S)
<1> DEFINE all == [i \in DOMAIN index |-> [index[i] EXCEPT !.score = 100]]
           top == First(all, Most(quota, 1))
           kept == Filtered(top, quota, kinds, prefix)
<1>1. ListDocuments(index, quota, kinds, prefix) = First(kept, quota)
  BY DEF ListDocuments, QueryAll, Each
<1>2. all \in Seq(S)
  <2>1. \A i \in DOMAIN index : [index[i] EXCEPT !.score = 100] \in S
    BY DEF Closed
  <2> QED BY <2>1
<1> HIDE DEF all
<1>3. top \in Seq(S)
  BY <1>2, MostIs, FirstIs
<1> HIDE DEF top
<1>4. kept \in Seq(S)
  <2>1. kept \in Seq({c \in S : kinds = {} \/ c.kind \in kinds})
    BY <1>3, FilteredIs
  <2>2. {c \in S : kinds = {} \/ c.kind \in kinds} \subseteq S
    OBVIOUS
  <2> HIDE DEF kept
  <2> QED BY <2>1, <2>2, SeqMonotonic
<1> HIDE DEF kept
<1> QED BY <1>1, <1>4, FirstIs

\* The documents of a symbol and of the kinds.
DocsOf(S, symbol, kinds) == {c \in S : c.symbol = symbol /\ (kinds = {} \/ c.kind \in kinds)}
\* A lookup by symbol answers with documents of that symbol and of the kinds asked for.
LEMMA QuerySymbolIs ==
  ASSUME NEW S, NEW index \in Seq(S), NEW symbol, NEW quota \in Nat, NEW kinds
  PROVE  QuerySymbol(index, symbol, quota, kinds) \in Seq(DocsOf(S, symbol, kinds))
<1> DEFINE I == {i \in DOMAIN index : index[i].symbol = symbol}
           T == {c \in S : c.symbol = symbol}
           a == Among(index, I)
           top == First(a, Grow(quota, Collect))
<1>1. QuerySymbol(index, symbol, quota, kinds) = Filtered(top, quota, kinds, <<>>)
  BY OnceIs DEF QuerySymbol, Where
<1>2. a \in Seq(T)
  <2>1. \A i \in I : index[i].symbol = symbol
    OBVIOUS
  <2> HIDE DEF I
  <2>2. a \in Seq(S) /\ \A k \in 1..Len(a) : a[k].symbol = symbol
    BY <2>1, AmongHas
  <2> HIDE DEF a
  <2> QED BY <2>2
<1> HIDE DEF a, T
<1>3. top \in Seq(T)
  <2>1. Grow(quota, Collect) \in Int
    BY GrowIs, FanAssumption
  <2> QED BY <1>2, <2>1, FirstIs
<1> HIDE DEF top
<1>4. Filtered(top, quota, kinds, <<>>) \in Seq({c \in T : kinds = {} \/ c.kind \in kinds})
  BY <1>3, FilteredIs
<1>5. {c \in T : kinds = {} \/ c.kind \in kinds} = DocsOf(S, symbol, kinds)
  BY DEF T, DocsOf
<1> QED BY <1>1, <1>4, <1>5

-----------------------------------------------------------------------------
(* The best unit of a source and its three best hits.                      *)

\* b is the best of u and the first k of us
BestOf(b, u, us, k) ==
  /\ b = u \/ \E i \in 1..k : b = us[i]
  /\ u.score <= b.score
  /\ \A i \in 1..k : us[i].score <= b.score

\* The loop over the units of a source ends with one of the best of them.
LEMMA BestUnitLaw ==
  ASSUME NEW S \in SUBSET Cand, NEW us \in Seq(S), NEW u \in S
  PROVE  /\ Loop(BestUnit, u, us) \in S
         /\ BestOf(Loop(BestUnit, u, us), u, us, Len(us))
<1> DEFINE n == Len(us)
           V == [k \in 0..n |-> {b \in S : BestOf(b, u, us, k)}]
           G == [x \in S \X (1..n) |-> BestUnit(x[1], us[x[2]])]
           Solves(f) == f = [k \in 0..n |-> IF k = 0 THEN u ELSE BestUnit(f[k - 1], us[k])]
<1>0. n \in Nat /\ (\A k \in 1..n : us[k] \in S) /\ \A c \in S : c.score \in Int
  <2>1. \A c \in S : c.score \in Int
    BY DEF Cand, Record
  <2> QED BY <2>1
<1>1. \A k \in 0..n : \A b : b \in V[k] <=> b \in S /\ BestOf(b, u, us, k)
  OBVIOUS
<1> HIDE DEF V
<1>2. \A k \in 1..n : \A b \in V[k - 1] : G[<<b, k>>] = BestUnit(b, us[k]) /\ BestUnit(b, us[k]) \in V[k]
  <2> SUFFICES ASSUME NEW k \in 1..n, NEW b \in V[k - 1]
               PROVE  G[<<b, k>>] = BestUnit(b, us[k]) /\ BestUnit(b, us[k]) \in V[k]
    OBVIOUS
  <2>1. k - 1 \in 0..n /\ k \in 0..n /\ us[k] \in S
    BY <1>0
  <2>2. b \in S /\ BestOf(b, u, us, k - 1)
    BY <1>1, <2>1
  <2>3. G[<<b, k>>] = BestUnit(b, us[k])
    BY <2>2
  <2> HIDE DEF G
  <2> DEFINE c == us[k]
  <2>4. b.score \in Int /\ c.score \in Int /\ u.score \in Int /\ c \in S
    BY <1>0, <2>1, <2>2
  <2>5. \A i \in 1..k : i = k \/ i \in 1..(k - 1)
    OBVIOUS
  <2>6. CASE b.score >= c.score
    <3>1. BestUnit(b, c) = b
      BY <2>6 DEF BestUnit
    <3>2. \A i \in 1..k : us[i].score <= b.score
      BY <2>2, <2>4, <2>5, <2>6 DEF BestOf
    <3>3. b = u \/ \E i \in 1..k : b = us[i]
      BY <2>2 DEF BestOf
    <3>4. BestOf(b, u, us, k)
      BY <2>2, <3>2, <3>3 DEF BestOf
    <3> QED BY <1>1, <2>1, <2>2, <2>3, <3>1, <3>4
  <2>7. CASE ~(b.score >= c.score)
    <3>1. BestUnit(b, c) = c
      BY <2>7 DEF BestUnit
    <3>2. \A i \in 1..k : us[i].score <= c.score
      <4> SUFFICES ASSUME NEW i \in 1..k PROVE us[i].score <= c.score
        OBVIOUS
      <4>1. CASE i = k
        BY <2>4, <4>1
      <4>2. CASE i # k
        <5>1. i \in 1..(k - 1) /\ us[i].score \in Int /\ us[i].score <= b.score
          BY <1>0, <2>2, <4>2 DEF BestOf
        <5> HIDE DEF c
        <5> QED BY <2>4, <2>7, <5>1
      <4> QED BY <4>1, <4>2
    <3>3. u.score <= c.score
      <4>1. u.score <= b.score
        BY <2>2 DEF BestOf
      <4> HIDE DEF c
      <4> QED BY <2>4, <2>7, <4>1
    <3>4. \E i \in 1..k : c = us[i]
      OBVIOUS
    <3>5. BestOf(c, u, us, k)
      BY <3>2, <3>3, <3>4 DEF BestOf
    <3> QED BY <1>1, <2>1, <2>3, <2>4, <3>1, <3>5
  <2> QED BY <2>6, <2>7
<1> HIDE DEF G
<1>3. u \in V[0]
  <2>1. BestOf(u, u, us, 0)
    BY <1>0 DEF BestOf
  <2> QED BY <1>0, <1>1, <2>1
<1>30. n \in Nat
  BY <1>0
<1>4. PICK f : Runs(f, n, V, G, u)
  <2> HIDE DEF n
  <2> QED BY <1>2, <1>3, <1>30, Recursion
<1> DEFINE h == [k \in 0..n |-> f[k]]
<1>5. Solves(h)
  <2>1. \A k \in 0..n : f[k] \in V[k]
    <3> HIDE DEF n
    <3> QED BY <1>2, <1>3, <1>30, <1>4, Recursion
  <2> DEFINE of(k) == IF k = 0 THEN u ELSE BestUnit(h[k - 1], us[k])
  <2>2. \A k \in 0..n : f[k] = of(k)
    <3> SUFFICES ASSUME NEW k \in 0..n PROVE f[k] = of(k)
      OBVIOUS
    <3>1. CASE k = 0
      BY <1>4, <3>1 DEF Runs
    <3>2. CASE k # 0
      <4>1. k \in 1..n /\ k - 1 \in 0..n
        BY <3>2
      <4>2. f[k] = BestUnit(f[k - 1], us[k]) /\ h[k - 1] = f[k - 1]
        BY <1>2, <1>4, <2>1, <4>1 DEF Runs
      <4> QED BY <3>2, <4>2
    <3> QED BY <3>1, <3>2
  <2>3. h = [k \in 0..n |-> of(k)]
    <3> HIDE DEF of
    <3> QED BY <2>2
  <2> QED BY <2>3
<1> HIDE DEF h
<1> DEFINE g == CHOOSE x : Solves(x)
<1>6. Solves(g)
  <2> HIDE DEF Solves
  <2> QED BY <1>5
<1>7. Loop(BestUnit, u, us) = g[n]
  BY DEF Loop
<1> HIDE DEF g
<1>8. Runs(g, n, V, G, u)
  <2> DEFINE of(k) == IF k = 0 THEN u ELSE BestUnit(g[k - 1], us[k])
  <2>1. \A k \in 0..n : g[k] = of(k)
    <3>1. g = [k \in 0..n |-> of(k)]
      BY <1>6
    <3> HIDE DEF of
    <3> QED BY <3>1
  <2>2. \A k \in 1..n : g[k - 1] \in V[k - 1] => g[k] = G[<<g[k - 1], k>>]
    <3> SUFFICES ASSUME NEW k \in 1..n, g[k - 1] \in V[k - 1] PROVE g[k] = G[<<g[k - 1], k>>]
      OBVIOUS
    <3>1. k \in 0..n /\ k # 0
      OBVIOUS
    <3> QED BY <1>2, <2>1, <3>1
  <2> QED BY <2>1, <2>2 DEF Runs
<1>9. \A k \in 0..n : g[k] \in V[k]
  <2> HIDE DEF n
  <2> QED BY <1>2, <1>3, <1>30, <1>8, Recursion
<1>10. g[n] \in V[n] /\ n \in 0..n
  BY <1>0, <1>9
<1> QED BY <1>1, <1>7, <1>10

\* p names the units among the first k that the hits h are made of; every other
\* one scores no more than any of three
Names(p, h, us, k) ==
  /\ p \in [1..Len(h) -> 1..k]
  /\ \A a, b \in 1..Len(h) : p[a] = p[b] => a = b
  /\ \A a \in 1..Len(h) : h[a] = HitOf(us[p[a]])
  /\ \A i \in 1..k : \/ \E a \in 1..Len(h) : p[a] = i
                     \/ Len(h) = 3 /\ \A a \in 1..Len(h) : us[i].score <= h[a].score
\* what the hits gathered from the first k units are: three of the best of them
HitsOfBest(h, us, k) ==
  /\ h \in Seq(Hit) /\ Len(h) = IF k < 3 THEN k ELSE 3
  /\ \A a, b \in 1..Len(h) : a < b => h[a].score >= h[b].score
  /\ \E p : Names(p, h, us, k)

\* Where the elements are after x is appended.
LEMMA AppendLaw ==
  ASSUME NEW S, NEW s \in Seq(S), NEW x \in S
  PROVE  /\ Append(s, x) \in Seq(S) /\ Len(Append(s, x)) = Len(s) + 1 /\ Append(s, x)[Len(s) + 1] = x
         /\ \A j \in 1..Len(s) : Append(s, x)[j] = s[j]
OBVIOUS

\* To be higher is a strict weak order.
LEMMA HigherFirst ==
  ASSUME NEW n \in Nat, NEW f, \A i \in 1..n : f[i] \in Int,
         NEW R, \A i, j \in 1..n : <<i, j>> \in R <=> f[i] > f[j]
  PROVE  WeakOrder(R, n)
<1>1. \A i, j \in 1..n : <<i, j>> \in R => <<j, i>> \notin R
  <2> SUFFICES ASSUME NEW i \in 1..n, NEW j \in 1..n, f[i] > f[j], f[j] > f[i] PROVE FALSE
    OBVIOUS
  <2> QED OBVIOUS
<1>2. \A i, j, k \in 1..n : <<i, k>> \in R => <<i, j>> \in R \/ <<j, k>> \in R
  <2> SUFFICES ASSUME NEW i \in 1..n, NEW j \in 1..n, NEW k \in 1..n, f[i] > f[k], ~(f[i] > f[j]), ~(f[j] > f[k])
               PROVE  FALSE
    OBVIOUS
  <2> QED OBVIOUS
<1> QED BY <1>1, <1>2 DEF WeakOrder

\* A unit more: the hits are three of the best of those seen.
LEMMA AddHitLaw ==
  ASSUME NEW S \in SUBSET Cand, NEW us \in Seq(S), NEW k \in 1..Len(us), NEW h, HitsOfBest(h, us, k - 1)
  PROVE  HitsOfBest(AddHit(h, us[k]), us, k)
<1> DEFINE u == us[k]
           x == HitOf(u)
           g == Append(h, x)
           m == Len(g)
           R == {y \in (DOMAIN g) \X (DOMAIN g) : Higher(g[y[1]], g[y[2]])}
           a == Arranged(m, R)
           t == InOrder(g, R)
           w == First(t, 3)
<1>1. k \in Nat \ {0} /\ k - 1 \in Nat /\ \A i \in 1..Len(us) : us[i] \in S
  OBVIOUS
<1>2. \A c \in S : HitOf(c) \in Hit /\ HitOf(c).score = c.score /\ c.score \in Int
  BY DEF Cand, Record, Hit, HitOf
<1>3. x \in Hit /\ x.score = u.score /\ u \in S
  BY <1>1, <1>2
<1>4. h \in Seq(Hit) /\ Len(h) \in 0..3 /\ Len(h) = IF k - 1 < 3 THEN k - 1 ELSE 3
  <2>1. h \in Seq(Hit) /\ Len(h) = IF k - 1 < 3 THEN k - 1 ELSE 3
    BY DEF HitsOfBest
  <2> QED BY <1>1, <2>1
<1> HIDE DEF x
<1>5. g \in Seq(Hit) /\ m = Len(h) + 1 /\ m \in 1..4 /\ g[m] = x /\ \A j \in 1..Len(h) : g[j] = h[j]
  <2>1. h \in Seq(Hit) /\ x \in Hit /\ Len(h) \in Nat
    BY <1>3, <1>4
  <2>2. /\ g \in Seq(Hit) /\ m = Len(h) + 1 /\ g[Len(h) + 1] = x
        /\ \A j \in 1..Len(h) : g[j] = h[j]
    BY <2>1, AppendLaw
  <2> HIDE DEF g
  <2>3. Len(h) \in 0..3
    BY <1>4
  <2> HIDE DEF m
  <2>4. m \in 1..4 /\ g[m] = x
    BY <2>2, <2>3, SMTT(60)
  <2> QED BY <2>2, <2>4
<1>6. AddHit(h, us[k]) = w
  <2>1. Sort(g, Higher) = t
    <3>1. Once(g) = g
      BY <1>5, OnceIs
    <3> HIDE DEF g
    <3> QED BY <3>1 DEF Sort, Each, InOrder
  <2> HIDE DEF g, t
  <2> QED BY <2>1 DEF AddHit, g, x
<1>7. /\ Arranges(a, R, m, m) /\ t \in Seq(Hit) /\ Len(t) = m
      /\ \A j \in 1..m : a[j] \in 1..m /\ t[j] = g[a[j]]
  <2> HIDE DEF g, R
  <2> QED BY <1>5, InOrderLaw
<1>8. \A j \in 1..m : g[j].score \in Int
  <2>1. \A y \in Hit : y.score \in Int
    BY DEF Hit
  <2> HIDE DEF g
  <2> QED BY <1>5, <2>1, ElementOfSeq
<1>9. \A j, l \in 1..m : <<j, l>> \in R <=> g[j].score > g[l].score
  <2>1. DOMAIN g = 1..m
    BY <1>5
  <2> HIDE DEF g
  <2> QED BY <2>1 DEF Higher
<1>90. \A j \in 1..Len(h) : h[j].score \in Int
  <2>1. \A y \in Hit : y.score \in Int
    BY DEF Hit
  <2> QED BY <1>4, <2>1, ElementOfSeq
<1> HIDE DEF g, m, R, a, t
<1>10. \A j, l \in 1..m : j < l => t[j].score >= t[l].score
  <2>1. WeakOrder(R, m)
    <3> DEFINE f == [j \in 1..m |-> g[j].score]
    <3>1. (\A j \in 1..m : f[j] \in Int) /\ \A i, j \in 1..m : <<i, j>> \in R <=> f[i] > f[j]
      BY <1>8, <1>9
    <3>2. m \in Nat
      BY <1>5
    <3> HIDE DEF f
    <3> QED BY <3>1, <3>2, HigherFirst
  <2>2. \A j, l \in 1..m : j < l => <<a[l], a[j]>> \notin R
    BY <1>7, <2>1 DEF Arranges
  <2> SUFFICES ASSUME NEW j \in 1..m, NEW l \in 1..m, j < l PROVE t[j].score >= t[l].score
    OBVIOUS
  <2>3. ~(g[a[l]].score > g[a[j]].score) /\ g[a[l]].score \in Int /\ g[a[j]].score \in Int
    BY <1>7, <1>8, <1>9, <2>2
  <2> QED BY <1>7, <2>3, SMTT(60)
<1>11. /\ w \in Seq(Hit) /\ Len(w) = IF 3 < m THEN 3 ELSE m
       /\ \A j \in 1..Len(w) : j \in 1..m /\ w[j] = t[j]
  <2>1. 3 \in Int
    OBVIOUS
  <2>2. /\ w \in Seq(Hit)
        /\ Len(w) = IF 3 < 0 THEN 0 ELSE IF 3 < Len(t) THEN 3 ELSE Len(t)
        /\ \A j \in 1..Len(w) : j \in 1..Len(t) /\ w[j] = t[j]
    BY <1>7, <2>1, FirstLaw
  <2> HIDE DEF w
  <2>3. ~(3 < 0) /\ Len(t) = m
    BY <1>7
  <2> QED BY <2>2, <2>3
<1> HIDE DEF w
<1>12. PICK p : Names(p, h, us, k - 1)
  BY DEF HitsOfBest
<1> DEFINE pg == [j \in 1..m |-> IF j = m THEN k ELSE p[j]]
           pw == [j \in 1..Len(w) |-> pg[a[j]]]
<1>13. \A j \in 1..m : j # m => j \in 1..Len(h)
  BY <1>4, <1>5
<1>14. p \in [1..Len(h) -> 1..(k - 1)] /\ \A j, l \in 1..Len(h) : p[j] = p[l] => j = l
  BY <1>12 DEF Names
<1>15. pg \in [1..m -> 1..k] /\ \A j, l \in 1..m : pg[j] = pg[l] => j = l
  <2>1. \A j \in 1..m : j # m => p[j] \in 1..(k - 1) /\ p[j] \in 1..k /\ p[j] # k
    BY <1>1, <1>13, <1>14
  <2>2. k \in 1..k
    BY <1>1
  <2> QED BY <1>13, <1>14, <2>1, <2>2
<1>16. \A j \in 1..m : g[j] = HitOf(us[pg[j]])
  <2>1. \A j \in 1..Len(h) : h[j] = HitOf(us[p[j]])
    BY <1>12 DEF Names
  <2> QED BY <1>5, <1>13, <2>1 DEF x
<1>17. \A j \in 1..m : \A l \in 1..m : a[j] = a[l] => j = l
  BY <1>7 DEF Arranges
<1>18. \A i \in 1..m : \E j \in 1..m : a[j] = i
  BY <1>7 DEF Arranges
<1> HIDE DEF pg
<1>19. /\ pw \in [1..Len(w) -> 1..k] /\ (\A j, l \in 1..Len(w) : pw[j] = pw[l] => j = l)
       /\ \A j \in 1..Len(w) : w[j] = HitOf(us[pw[j]])
  BY <1>7, <1>11, <1>15, <1>16, <1>17
<1>20. ASSUME NEW i \in 1..k, ~\E j \in 1..Len(w) : pw[j] = i
       PROVE  Len(w) = 3 /\ \A l \in 1..Len(w) : us[i].score <= w[l].score
  <2>1. CASE \E j \in 1..m : pg[j] = i
    <3>1. PICK j \in 1..m : pg[a[j]] = i
      BY <1>18, <2>1
    <3>2. ~(j \in 1..Len(w))
      BY <1>20, <3>1
    <3>3. Len(w) = 3 /\ m = 4 /\ j = 4
      BY <1>5, <1>11, <3>2
    <3>4. t[j].score = us[i].score
      <4>1. t[j] = HitOf(us[i])
        BY <1>7, <1>16, <3>1
      <4>2. us[i] \in S
        BY <1>1
      <4> QED BY <1>2, <4>1, <4>2
    <3>5. \A l \in 1..Len(w) : t[l].score >= t[j].score /\ w[l] = t[l] /\ t[l].score \in Int /\ t[j].score \in Int
      <4> SUFFICES ASSUME NEW l \in 1..Len(w)
                   PROVE  t[l].score >= t[j].score /\ w[l] = t[l] /\ t[l].score \in Int /\ t[j].score \in Int
        OBVIOUS
      <4>1. l \in 1..m /\ l < j /\ w[l] = t[l]
        BY <1>11, <3>3
      <4>2. t[l] = g[a[l]] /\ t[j] = g[a[j]] /\ a[l] \in 1..m /\ a[j] \in 1..m
        BY <1>7, <4>1
      <4> QED BY <1>8, <1>10, <4>1, <4>2
    <3> HIDE DEF pw
    <3> QED BY <3>3, <3>4, <3>5
  <2>2. CASE ~\E j \in 1..m : pg[j] = i
    <3>1. i # k /\ ~\E j \in 1..Len(h) : p[j] = i
      <4>1. m \in 1..m /\ pg[m] = k /\ \A j \in 1..Len(h) : j \in 1..m /\ j # m /\ pg[j] = p[j]
        BY <1>4, <1>5 DEF pg
      <4> QED BY <2>2, <4>1
    <3>2. i \in 1..(k - 1)
      BY <1>1, <3>1
    <3>3. Len(h) = 3 /\ \A j \in 1..Len(h) : us[i].score <= h[j].score
      BY <1>12, <3>1, <3>2 DEF Names
    <3>4. m = 4 /\ Len(w) = 3 /\ us[i].score \in Int
      <4>1. us[i] \in S
        BY <1>1
      <4> QED BY <1>2, <1>5, <1>11, <3>3, <4>1
    <3>5. ASSUME NEW l \in 1..3 PROVE us[i].score <= w[l].score
      <4>1. l \in 1..m /\ w[l] = t[l] /\ a[l] \in 1..m /\ t[l] = g[a[l]]
        BY <1>7, <1>11, <3>4
      <4>2. CASE a[l] # m
        <5>1. a[l] \in 1..Len(h) /\ g[a[l]] = h[a[l]]
          BY <1>5, <1>13, <4>1, <4>2
        <5> QED BY <3>3, <4>1, <5>1
      <4>3. CASE a[l] = m
        <5>1. 4 \in 1..m /\ a[4] \in 1..m /\ a[4] # m
          BY <1>7, <1>17, <3>4, <4>1, <4>3
        <5>2. a[4] \in 1..Len(h) /\ t[4] = h[a[4]]
          BY <1>5, <1>7, <1>13, <5>1
        <5>3. t[l].score >= t[4].score
          BY <1>10, <4>1, <5>1
        <5>4. us[i].score <= h[a[4]].score /\ h[a[4]].score \in Int /\ t[l].score \in Int
          BY <1>8, <1>90, <3>3, <4>1, <5>2
        <5> DEFINE s1 == us[i].score
                   s2 == h[a[4]].score
                   s3 == t[l].score
        <5>5. s1 <= s2 /\ s2 <= s3 /\ s1 \in Int /\ s2 \in Int /\ s3 \in Int
          BY <3>4, <5>2, <5>3, <5>4
        <5> HIDE DEF s1, s2, s3
        <5>6. s1 <= s3
          BY <5>5
        <5> QED BY <4>1, <5>6 DEF s1, s3
      <4> QED BY <4>2, <4>3
    <3> QED BY <3>4, <3>5
  <2> QED BY <2>1, <2>2
<1>21. Names(pw, w, us, k)
  <2> HIDE DEF pw
  <2> QED BY <1>19, <1>20 DEF Names
<1>22. \A j, l \in 1..Len(w) : j < l => w[j].score >= w[l].score
  BY <1>10, <1>11
<1>23. Len(w) = IF k < 3 THEN k ELSE 3
  BY <1>1, <1>4, <1>5, <1>11
<1> HIDE DEF pw
<1>24. HitsOfBest(w, us, k)
  BY <1>11, <1>21, <1>22, <1>23 DEF HitsOfBest
<1> QED BY <1>6, <1>24

\* The loop over the units of a source ends with three of the best as its hits.
LEMMA HitsLaw ==
  ASSUME NEW S \in SUBSET Cand, NEW us \in Seq(S)
  PROVE  HitsOfBest(Loop(AddHit, <<>>, us), us, Len(us))
<1> DEFINE n == Len(us)
           V == [k \in 0..n |-> {h \in Seq(Hit) : HitsOfBest(h, us, k)}]
           G == [x \in Seq(Hit) \X (1..n) |-> AddHit(x[1], us[x[2]])]
           Solves(f) == f = [k \in 0..n |-> IF k = 0 THEN <<>> ELSE AddHit(f[k - 1], us[k])]
<1>1. \A k \in 0..n : \A h : h \in V[k] <=> HitsOfBest(h, us, k)
  BY DEF HitsOfBest
<1>10. \A k \in 0..n : \A h \in V[k] : h \in Seq(Hit)
  OBVIOUS
<1> HIDE DEF V
<1>2. \A k \in 1..n : \A h \in V[k - 1] : G[<<h, k>>] = AddHit(h, us[k]) /\ AddHit(h, us[k]) \in V[k]
  <2> SUFFICES ASSUME NEW k \in 1..n, NEW h \in V[k - 1]
               PROVE  G[<<h, k>>] = AddHit(h, us[k]) /\ AddHit(h, us[k]) \in V[k]
    OBVIOUS
  <2>1. k - 1 \in 0..n /\ k \in 0..n
    OBVIOUS
  <2>2. h \in Seq(Hit) /\ HitsOfBest(h, us, k - 1)
    BY <1>1, <1>10, <2>1
  <2>3. G[<<h, k>>] = AddHit(h, us[k])
    BY <2>2
  <2>4. HitsOfBest(AddHit(h, us[k]), us, k)
    BY <2>2, AddHitLaw
  <2> QED BY <1>1, <2>1, <2>3, <2>4
<1> HIDE DEF G
<1>3. <<>> \in V[0]
  <2> DEFINE h == <<>>
  <2>1. h \in Seq(Hit) /\ Len(h) = 0
    OBVIOUS
  <2> HIDE DEF h
  <2>2. 1..Len(h) = {} /\ 1..0 = {}
    BY <2>1
  <2> DEFINE p == [i \in {} |-> 0]
  <2>3. p \in [1..Len(h) -> 1..0]
    BY <2>2
  <2> HIDE DEF p
  <2>4. Names(p, h, us, 0)
    BY <2>2, <2>3 DEF Names
  <2>5. HitsOfBest(h, us, 0)
    BY <2>1, <2>2, <2>4 DEF HitsOfBest
  <2> QED BY <1>1, <2>5 DEF h
<1>30. n \in Nat
  OBVIOUS
<1>4. PICK f : Runs(f, n, V, G, <<>>)
  <2> HIDE DEF n
  <2> QED BY <1>2, <1>3, <1>30, Recursion
<1> DEFINE h == [k \in 0..n |-> f[k]]
<1>5. Solves(h)
  <2>1. \A k \in 0..n : f[k] \in V[k]
    <3> HIDE DEF n
    <3> QED BY <1>2, <1>3, <1>30, <1>4, Recursion
  <2> DEFINE of(k) == IF k = 0 THEN <<>> ELSE AddHit(h[k - 1], us[k])
  <2>2. \A k \in 0..n : f[k] = of(k)
    <3> SUFFICES ASSUME NEW k \in 0..n PROVE f[k] = of(k)
      OBVIOUS
    <3>1. CASE k = 0
      BY <1>4, <3>1 DEF Runs
    <3>2. CASE k # 0
      <4>1. k \in 1..n /\ k - 1 \in 0..n
        BY <3>2
      <4>2. f[k] = AddHit(f[k - 1], us[k]) /\ h[k - 1] = f[k - 1]
        BY <1>2, <1>4, <2>1, <4>1 DEF Runs
      <4> QED BY <3>2, <4>2
    <3> QED BY <3>1, <3>2
  <2>3. h = [k \in 0..n |-> of(k)]
    <3> HIDE DEF of
    <3> QED BY <2>2
  <2> QED BY <2>3
<1> HIDE DEF h
<1> DEFINE g == CHOOSE x : Solves(x)
<1>6. Solves(g)
  <2> HIDE DEF Solves
  <2> QED BY <1>5
<1>7. Loop(AddHit, <<>>, us) = g[n]
  BY DEF Loop
<1> HIDE DEF g
<1>8. Runs(g, n, V, G, <<>>)
  <2> DEFINE of(k) == IF k = 0 THEN <<>> ELSE AddHit(g[k - 1], us[k])
  <2>1. \A k \in 0..n : g[k] = of(k)
    <3>1. g = [k \in 0..n |-> of(k)]
      BY <1>6
    <3> HIDE DEF of
    <3> QED BY <3>1
  <2>2. \A k \in 1..n : g[k - 1] \in V[k - 1] => g[k] = G[<<g[k - 1], k>>]
    <3> SUFFICES ASSUME NEW k \in 1..n, g[k - 1] \in V[k - 1] PROVE g[k] = G[<<g[k - 1], k>>]
      OBVIOUS
    <3>1. k \in 0..n /\ k # 0
      OBVIOUS
    <3> QED BY <1>2, <2>1, <3>1
  <2> QED BY <2>1, <2>2 DEF Runs
<1>9. \A k \in 0..n : g[k] \in V[k]
  <2> HIDE DEF n
  <2> QED BY <1>2, <1>3, <1>30, <1>8, Recursion
<1>11. g[n] \in V[n] /\ n \in 0..n
  BY <1>9
<1> QED BY <1>1, <1>7, <1>11

\* No more than two units score more than a hit.
LEMMA HitsAreBest ==
  ASSUME NEW S \in SUBSET Cand, NEW us \in Seq(S), NEW h, HitsOfBest(h, us, Len(us)), NEW x \in ToSet(h)
  PROVE  /\ x.score \in Int
         /\ IsFiniteSet({i \in 1..Len(us) : us[i].score > x.score})
         /\ Cardinality({i \in 1..Len(us) : us[i].score > x.score}) < 3
<1> DEFINE I == {i \in 1..Len(us) : us[i].score > x.score}
<1>1. h \in Seq(Hit) /\ Len(h) \in 0..3
  <2> DEFINE n == Len(us)
  <2>1. n \in Nat
    OBVIOUS
  <2>2. h \in Seq(Hit) /\ Len(h) = IF n < 3 THEN n ELSE 3
    BY DEF HitsOfBest
  <2> HIDE DEF n
  <2> QED BY <2>1, <2>2
<1>2. PICK p : Names(p, h, us, Len(us))
  BY DEF HitsOfBest
<1>3. PICK j \in 1..Len(h) : x = h[j]
  BY <1>1, ToSetIs
<1>4. \A c \in Hit : c.score \in Int
  BY DEF Hit
<1>5. \A l \in 1..Len(h) : h[l].score \in Int
  BY <1>1, <1>4, ElementOfSeq
<1>6. \A i \in 1..Len(us) : us[i].score \in Int
  <2>1. \A c \in S : c.score \in Int
    BY DEF Cand, Record
  <2> QED BY <2>1
<1>7. ASSUME NEW i \in I PROVE \E l \in 1..(j - 1) : i = p[l]
  <2>1. i \in 1..Len(us) /\ us[i].score > h[j].score /\ us[i].score \in Int
    BY <1>3, <1>6
  <2>2. ~(us[i].score <= h[j].score)
    BY <1>5, <2>1
  <2>3. PICK l \in 1..Len(h) : p[l] = i
    BY <1>2, <2>1, <2>2 DEF Names
  <2>4. us[i].score = h[l].score
    <3>1. h[l] = HitOf(us[i])
      BY <1>2, <2>3 DEF Names
    <3> QED BY <3>1 DEF HitOf
  <2>5. l < j
    <3> SUFFICES ASSUME ~(l < j) PROVE FALSE
      OBVIOUS
    <3>1. l = j \/ j < l
      OBVIOUS
    <3>2. h[j].score >= h[l].score
      <4>1. \A a, b \in 1..Len(h) : a < b => h[a].score >= h[b].score
        BY DEF HitsOfBest
      <4> QED BY <1>5, <3>1, <4>1
    <3> QED BY <1>5, <2>1, <2>4, <3>2
  <2>6. l \in 1..(j - 1)
    BY <2>5
  <2> QED BY <2>3, <2>6
<1> DEFINE J == {p[l] : l \in 1..(j - 1)}
           f == [l \in 1..(j - 1) |-> p[l]]
<1>8. IsFiniteSet(1..(j - 1)) /\ Cardinality(1..(j - 1)) <= 2
  <2> DEFINE n == Len(h)
  <2>0. n \in 0..3 /\ j \in 1..n
    BY <1>1
  <2> HIDE DEF n
  <2>1. j - 1 \in Nat /\ j - 1 <= 2
    BY <2>0
  <2> QED BY <2>1, Numbers
<1>9. f \in Surjection(1..(j - 1), J)
  BY DEF Surjection
<1>10. IsFiniteSet(J) /\ Cardinality(J) <= Cardinality(1..(j - 1))
  <2> HIDE DEF f, J
  <2> QED BY <1>8, <1>9, FS_Surjection
<1>11. I \in SUBSET J
  <2> HIDE DEF I
  <2> QED BY <1>7
<1> HIDE DEF I, J
<1>12. IsFiniteSet(I) /\ Cardinality(I) <= Cardinality(J)
  BY <1>10, <1>11, FS_Subset
<1>13. Cardinality(I) \in Nat /\ Cardinality(J) \in Nat /\ Cardinality(1..(j - 1)) \in Nat
  BY <1>8, <1>10, <1>12, FS_CardinalityType
<1>14. Cardinality(I) < 3
  BY <1>8, <1>10, <1>12, <1>13
<1> QED BY <1>3, <1>5, <1>12, <1>14 DEF I

\* candidates, whatever their score and their hits
Rankable(S) == Closed(S) /\ \A c \in S : \A h \in Seq(Hit) : [c EXCEPT !.hits = h] \in S

\* The first of each key.
Firsts(D, K, n) == D \in SUBSET (1..n) /\ \A i \in 1..n : i \in D <=> \A j \in 1..(i - 1) : K[j] # K[i]
\* The first of each key are one of each.
LEMMA FirstsLaw ==
  ASSUME NEW n \in Nat, NEW K, NEW D, Firsts(D, K, n)
  PROVE  /\ \A i \in 1..n : \E d \in D : K[d] = K[i]
         /\ \A d, e \in D : K[d] = K[e] => d = e
<1>0. D \in SUBSET (1..n) /\ \A i \in 1..n : i \in D <=> \A j \in 1..(i - 1) : K[j] # K[i]
  BY DEF Firsts
<1>1. ASSUME NEW i \in 1..n PROVE \E d \in D : K[d] = K[i]
  <2> DEFINE C == {j \in 1..n : K[j] = K[i]}
  <2>1. C \subseteq Nat /\ C # {}
    OBVIOUS
  <2>2. PICK d \in C : \A j \in C : d <= j
    <3> HIDE DEF C
    <3> QED BY <2>1, Least
  <2>3. ASSUME NEW j \in 1..(d - 1), K[j] = K[d] PROVE FALSE
    <3>1. j \in C /\ j < d /\ j \in Nat /\ d \in Nat
      BY <2>3
    <3> HIDE DEF C
    <3> QED BY <2>2, <3>1
  <2> QED BY <1>0, <2>2, <2>3
<1>2. ASSUME NEW d \in D, NEW e \in D, K[d] = K[e], d # e PROVE FALSE
  <2>1. d \in 1..n /\ e \in 1..n
    BY <1>0
  <2>2. CASE d < e
    <3>1. d \in 1..(e - 1)
      BY <2>1, <2>2
    <3> QED BY <1>0, <1>2, <2>1, <3>1
  <2>3. CASE e < d
    <3>1. e \in 1..(d - 1)
      BY <2>1, <2>3
    <3> QED BY <1>0, <1>2, <2>1, <3>1
  <2> QED BY <1>2, <2>1, <2>2, <2>3
<1> QED BY <1>1, <1>2

\* The elements at numbers of their own, in their order.
LEMMA AmongOwn ==
  ASSUME NEW S, NEW s \in Seq(S), NEW I, NEW K, \A i, j \in I \cap (1..Len(s)) : K[s[i]] = K[s[j]] => i = j
  PROVE  \A k, l \in 1..Len(Among(s, I)) : K[Among(s, I)[k]] = K[Among(s, I)[l]] => k = l
<1> DEFINE a == Ascending(I, Len(s))
<1>1. /\ Ascends(a, I, Len(s)) /\ Len(Among(s, I)) = Len(a)
      /\ \A k \in 1..Len(a) : a[k] \in I \cap (1..Len(s)) /\ Among(s, I)[k] = s[a[k]]
  BY AmongLaw
<1> HIDE DEF a
<1> SUFFICES ASSUME NEW k \in 1..Len(a), NEW l \in 1..Len(a), K[Among(s, I)[k]] = K[Among(s, I)[l]], k # l PROVE FALSE
  BY <1>1
<1>2. a[k] = a[l]
  BY <1>1
<1>3. Len(a) \in Nat /\ \A x, y \in 1..Len(a) : x < y => a[x] < a[y]
  <2>1. a \in Seq(I \cap (1..Len(s)))
    BY <1>1 DEF Ascends
  <2>2. Len(a) \in Nat
    BY <2>1
  <2> QED BY <1>1, <2>2 DEF Ascends
<1>4. a[k] \in Nat
  BY <1>1
<1>5. k < l \/ l < k
  OBVIOUS
<1> QED BY <1>2, <1>3, <1>4, <1>5

\* p is a rearrangement: t is s in that order
Rearranges(p, t, s) ==
  /\ \A k \in 1..Len(t) : p[k] \in 1..Len(s) /\ t[k] = s[p[k]]
  /\ \A k, l \in 1..Len(t) : p[k] = p[l] => k = l
  /\ \A i \in 1..Len(s) : \E k \in 1..Len(t) : p[k] = i

\* An order by score, then by place.
LEMMA ByScoreLaw ==
  ASSUME NEW S \in SUBSET Cand, NEW s \in Seq(S), NEW t, t = Sort(s, ByScore)
  PROVE  /\ t \in Seq(S) /\ Len(t) = Len(s)
         /\ \A k, l \in 1..Len(t) : k < l => t[k].score >= t[l].score
         /\ \E p : Rearranges(p, t, s)
<1> DEFINE n == Len(s)
           R == {x \in (DOMAIN s) \X (DOMAIN s) : ByScore(s[x[1]], s[x[2]])}
           a == Arranged(n, R)
<1>1. t = InOrder(s, R)
  BY OnceIs DEF Sort, Each, InOrder
<1>2. /\ Arranges(a, R, n, n) /\ t \in Seq(S) /\ Len(t) = n
      /\ \A k \in 1..n : a[k] \in 1..n /\ t[k] = s[a[k]]
  <2> HIDE DEF R
  <2> QED BY <1>1, InOrderLaw
<1>3. n \in Nat /\ DOMAIN s = 1..n /\ \A i \in 1..n : s[i] \in S
  BY ElementOfSeq
<1>4. \A c \in S : c.score \in Int /\ c.pos \in Nat /\ c.unit \in Nat
  BY DEF Cand, Record
<1> DEFINE f == [i \in 1..n |-> s[i].score]
           g == [i \in 1..n |-> s[i].pos]
           h == [i \in 1..n |-> s[i].unit]
<1>5. \A i \in 1..n : f[i] \in Int /\ g[i] \in Int /\ h[i] \in Int
  BY <1>3, <1>4
<1>6. \A i, j \in 1..n : <<i, j>> \in R
         <=> f[i] > f[j] \/ (f[i] = f[j] /\ (g[i] < g[j] \/ (g[i] = g[j] /\ h[i] < h[j])))
  <2> HIDE DEF n
  <2> QED BY <1>3 DEF ByScore
<1>60. \A i \in 1..n : s[i].score = f[i]
  OBVIOUS
<1> HIDE DEF f, g, h, R, a, n
<1>7. WeakOrder(R, n)
  <2> DEFINE L(i, j) == f[i] > f[j] \/ (f[i] = f[j] /\ (g[i] < g[j] \/ (g[i] = g[j] /\ h[i] < h[j])))
  <2>1. \A i, j \in 1..n : <<i, j>> \in R <=> L(i, j)
    BY <1>6
  <2>2. ASSUME NEW i \in 1..n, NEW j \in 1..n, L(i, j), L(j, i) PROVE FALSE
    BY <1>5, <2>2
  <2>3. ASSUME NEW i \in 1..n, NEW j \in 1..n, NEW k \in 1..n, L(i, k), ~L(i, j), ~L(j, k) PROVE FALSE
    BY <1>5, <2>3, SMTT(60)
  <2> HIDE DEF L
  <2> QED BY <2>1, <2>2, <2>3 DEF WeakOrder
<1>8. \A k, l \in 1..n : k < l => <<a[l], a[k]>> \notin R
  BY <1>2, <1>7 DEF Arranges
<1>9. \A k, l \in 1..n : k < l => t[k].score >= t[l].score
  <2> SUFFICES ASSUME NEW k \in 1..n, NEW l \in 1..n, k < l PROVE t[k].score >= t[l].score
    OBVIOUS
  <2>1. a[k] \in 1..n /\ a[l] \in 1..n /\ <<a[l], a[k]>> \notin R
    BY <1>2, <1>8
  <2>2. ~(f[a[l]] > f[a[k]]) /\ f[a[l]] \in Int /\ f[a[k]] \in Int
    BY <1>5, <1>6, <2>1
  <2>3. t[k].score = f[a[k]] /\ t[l].score = f[a[l]]
    BY <1>2, <1>60, <2>1
  <2> QED BY <2>2, <2>3
<1>10. /\ \A k, l \in 1..n : a[k] = a[l] => k = l
       /\ \A i \in 1..n : \E k \in 1..n : a[k] = i
  BY <1>2 DEF Arranges
<1>11. n = Len(s) /\ Len(t) = n
  BY <1>2 DEF n
<1>12. Rearranges(a, t, s)
  BY <1>2, <1>10, <1>11 DEF Rearranges
<1>13. t \in Seq(S) /\ Len(t) = Len(s) /\ \A k, l \in 1..Len(t) : k < l => t[k].score >= t[l].score
  BY <1>2, <1>9, <1>11
<1> QED BY <1>12, <1>13

\* the units of a source
Of(units, source) == Among(units, {i \in DOMAIN units : Source(units[i]) = source})
\* c has the score of the best unit of its source and its three best as hits
BestOfSource(c, units) ==
  /\ \E i \in 1..Len(units) : Source(units[i]) = Source(c) /\ units[i].score = c.score
  /\ \A i \in 1..Len(units) : Source(units[i]) = Source(c) => units[i].score <= c.score
  /\ HitsOfBest(c.hits, Of(units, Source(c)), Len(Of(units, Source(c))))

\* A source is answered by its best unit, with the three best as its hits.
LEMMA BestIs ==
  ASSUME NEW S, Rankable(S), NEW units \in Seq(S), NEW u \in S, \E i \in 1..Len(units) : units[i] = u
  PROVE  LET of == Of(units, Source(u))
             c  == [Loop(BestUnit, u, of) EXCEPT !.hits = Loop(AddHit, <<>>, of)]
         IN  c \in S /\ Source(c) = Source(u) /\ BestOfSource(c, units)
<1> DEFINE I == {i \in DOMAIN units : Source(units[i]) = Source(u)}
           of == Of(units, Source(u))
           b == Loop(BestUnit, u, of)
           h == Loop(AddHit, <<>>, of)
           c == [b EXCEPT !.hits = h]
<1>0. S \in SUBSET Cand
  BY DEF Rankable, Closed
<1>1. /\ of \in Seq(S)
      /\ \A k \in 1..Len(of) : \E i \in I : of[k] = units[i]
      /\ \A i \in I : \E k \in 1..Len(of) : of[k] = units[i]
  <2>1. of = Among(units, I)
    BY DEF Of
  <2>2. I \cap (1..Len(units)) = I
    OBVIOUS
  <2> HIDE DEF I, of
  <2>3. /\ Among(units, I) \in Seq(S)
        /\ \A k \in 1..Len(Among(units, I)) : \E i \in I \cap (1..Len(units)) : Among(units, I)[k] = units[i]
        /\ \A i \in I \cap (1..Len(units)) : \E k \in 1..Len(Among(units, I)) : Among(units, I)[k] = units[i]
    BY AmongHas
  <2> QED BY <2>1, <2>2, <2>3
<1>2. \A i \in I : i \in 1..Len(units) /\ Source(units[i]) = Source(u)
  OBVIOUS
<1>20. \A i \in 1..Len(units) : Source(units[i]) = Source(u) => i \in I
  OBVIOUS
<1> HIDE DEF I, of
<1>3. b \in S /\ BestOf(b, u, of, Len(of))
  BY <1>0, <1>1, BestUnitLaw
<1>4. HitsOfBest(h, of, Len(of))
  BY <1>0, <1>1, HitsLaw
<1> HIDE DEF b, h
<1>5. h \in Seq(Hit)
  BY <1>4 DEF HitsOfBest
<1>6. c \in S
  BY <1>3, <1>5 DEF Rankable
<1>7. c.symbol = b.symbol /\ c.path = b.path /\ c.score = b.score /\ c.hits = h
  <2>1. b \in Record
    BY <1>0, <1>3 DEF Cand
  <2> QED BY <2>1 DEF Record
<1>8. Source(c) = Source(b)
  <2> HIDE DEF c
  <2> QED BY <1>7 DEF Source
<1>9. Source(b) = Source(u)
  BY <1>1, <1>2, <1>3 DEF BestOf
<1>10. \E i \in 1..Len(units) : Source(units[i]) = Source(u) /\ units[i].score = b.score
  <2>1. CASE b = u
    BY <2>1
  <2>2. CASE b # u
    <3>1. PICK k \in 1..Len(of) : b = of[k]
      BY <1>3, <2>2 DEF BestOf
    <3>2. PICK i \in I : of[k] = units[i]
      BY <1>1
    <3> QED BY <1>2, <3>1, <3>2
  <2> QED BY <2>1, <2>2
<1>11. \A i \in 1..Len(units) : Source(units[i]) = Source(u) => units[i].score <= b.score
  <2> SUFFICES ASSUME NEW i \in 1..Len(units), Source(units[i]) = Source(u) PROVE units[i].score <= b.score
    OBVIOUS
  <2>1. PICK k \in 1..Len(of) : of[k] = units[i]
    BY <1>1, <1>20
  <2>2. of[k].score <= b.score
    BY <1>3 DEF BestOf
  <2> QED BY <2>1, <2>2
<1> HIDE DEF c
<1>12. BestOfSource(c, units)
  <2>1. Of(units, Source(c)) = of
    BY <1>8, <1>9 DEF of
  <2>2. HitsOfBest(c.hits, Of(units, Source(c)), Len(Of(units, Source(c))))
    BY <1>4, <1>7, <2>1
  <2>3. Source(c) = Source(u) /\ c.score = b.score
    BY <1>7, <1>8, <1>9
  <2> QED BY <1>10, <1>11, <2>2, <2>3 DEF BestOfSource
<1> QED BY <1>6, <1>8, <1>9, <1>12 DEF b, c, h, of

\* aggregate_units_maxp answers with each source once, by its best unit, best sources first.
LEMMA MaxPLaw ==
  ASSUME NEW S, Rankable(S), NEW units \in Seq(S), NEW m, m = MaxP(units)
  PROVE  /\ m \in Seq(S)
         /\ \A k, l \in 1..Len(m) : k < l => m[k].score >= m[l].score
         /\ \A k, l \in 1..Len(m) : Source(m[k]) = Source(m[l]) => k = l
         /\ \A i \in 1..Len(units) : \E k \in 1..Len(m) : Source(m[k]) = Source(units[i])
         /\ \A k \in 1..Len(m) : BestOfSource(m[k], units)
<1> DEFINE n == Len(units)
           D == {i \in DOMAIN units : \A j \in 1..(i - 1) : Source(units[j]) # Source(units[i])}
           d == Among(units, D)
           best(u) == [Loop(BestUnit, u, Of(units, Source(u))) EXCEPT !.hits = Loop(AddHit, <<>>, Of(units, Source(u)))]
           s == [i \in DOMAIN d |-> best(d[i])]
<1>0. S \in SUBSET Cand /\ n \in Nat /\ DOMAIN units = 1..n
  BY DEF Rankable, Closed
<1>1. m = Sort(s, ByScore)
  <2> DEFINE of(u) == Where(units, LAMBDA v : Source(v) = Source(u))
             best2(u) == [Loop(BestUnit, u, of(u)) EXCEPT !.hits = Loop(AddHit, <<>>, of(u))]
  <2>1. Distinct(units, Source) = d
    BY OnceIs DEF Distinct
  <2>2. \A u : of(u) = Of(units, Source(u))
    BY OnceIs DEF Where, Of
  <2> HIDE DEF d, of
  <2>3. \A u : best2(u) = best(u)
    BY <2>2
  <2>4. m = Sort(Each(Distinct(units, Source), best2), ByScore)
    BY DEF MaxP, of
  <2> HIDE DEF best2, best
  <2>5. Each(d, best2) = s
    BY <2>3 DEF Each
  <2> QED BY <2>1, <2>4, <2>5
<1>2. /\ d \in Seq(S)
      /\ \A k \in 1..Len(d) : \E i \in 1..n : d[k] = units[i]
      /\ \A i \in D : \E k \in 1..Len(d) : d[k] = units[i]
  <2>1. D \cap (1..n) = D
    OBVIOUS
  <2> HIDE DEF D
  <2> QED BY <2>1, AmongHas
<1> DEFINE K == [i \in 1..n |-> Source(units[i])]
<1>3. /\ \A i \in 1..n : \E e \in D : Source(units[e]) = Source(units[i])
      /\ \A e, f \in D : Source(units[e]) = Source(units[f]) => e = f
  <2>1. D \in SUBSET (1..n) /\ \A i \in 1..n : i \in D <=> \A j \in 1..(i - 1) : K[j] # K[i]
    <3>1. \A i \in 1..n : \A j \in 1..(i - 1) : K[j] = Source(units[j]) /\ K[i] = Source(units[i])
      OBVIOUS
    <3>2. \A i : i \in D <=> i \in 1..n /\ \A j \in 1..(i - 1) : Source(units[j]) # Source(units[i])
      BY <1>0
    <3> HIDE DEF K, n, D
    <3> QED BY <3>1, <3>2
  <2>10. Firsts(D, K, n)
    <3> HIDE DEF D, K, n
    <3> QED BY <2>1 DEF Firsts
  <2>2. \A i \in 1..n : K[i] = Source(units[i])
    OBVIOUS
  <2>3. \A e \in D : e \in 1..n
    OBVIOUS
  <2> HIDE DEF D, K, n
  <2>4. (\A i \in 1..n : \E e \in D : K[e] = K[i]) /\ \A e, f \in D : K[e] = K[f] => e = f
    <3>1. n \in Nat
      BY <1>0
    <3> QED BY <2>10, <3>1, FirstsLaw
  <2> QED BY <2>2, <2>3, <2>4
<1> HIDE DEF K
<1>4. \A k, l \in 1..Len(d) : Source(d[k]) = Source(d[l]) => k = l
  <2> DEFINE F == [c \in S |-> Source(c)]
  <2>1. \A i \in 1..n : units[i] \in S
    BY <1>0, ElementOfSeq
  <2>2. \A i, j \in D \cap (1..n) : F[units[i]] = F[units[j]] => i = j
    <3>1. \A i \in 1..n : F[units[i]] = Source(units[i])
      BY <2>1
    <3> HIDE DEF F, D
    <3> QED BY <1>3, <3>1
  <2>3. \A k \in 1..Len(d) : F[d[k]] = Source(d[k])
    BY <1>2, ElementOfSeq
  <2> HIDE DEF F, D
  <2>4. \A k, l \in 1..Len(d) : F[d[k]] = F[d[l]] => k = l
    BY <2>2, AmongOwn
  <2> HIDE DEF d
  <2> QED BY <2>3, <2>4
<1> HIDE DEF d, D
<1>5. \A k \in 1..Len(d) : best(d[k]) \in S /\ Source(best(d[k])) = Source(d[k]) /\ BestOfSource(best(d[k]), units)
  <2> SUFFICES ASSUME NEW k \in 1..Len(d)
               PROVE  best(d[k]) \in S /\ Source(best(d[k])) = Source(d[k]) /\ BestOfSource(best(d[k]), units)
    OBVIOUS
  <2> DEFINE u == d[k]
  <2>1. u \in S /\ \E i \in 1..Len(units) : units[i] = u
    BY <1>2, ElementOfSeq
  <2> HIDE DEF u
  <2>2. best(u) \in S /\ Source(best(u)) = Source(u) /\ BestOfSource(best(u), units)
    BY <2>1, BestIs
  <2> QED BY <2>2 DEF u
<1> HIDE DEF best
<1>61. DOMAIN d = 1..Len(d) /\ Len(d) \in Nat
  BY <1>2
<1>62. \A k \in 1..Len(d) : s[k] = best(d[k])
  BY <1>61
<1>63. s \in Seq(S) /\ Len(s) = Len(d)
  <2> DEFINE w == [k \in 1..Len(d) |-> best(d[k])]
  <2>1. \A k \in 1..Len(d) : best(d[k]) \in S
    BY <1>5
  <2>2. s = w
    BY <1>61
  <2> HIDE DEF s
  <2>3. w \in Seq(S) /\ Len(w) = Len(d)
    BY <1>61, <2>1
  <2> QED BY <2>2, <2>3
<1>6. /\ s \in Seq(S) /\ Len(s) = Len(d)
      /\ \A k \in 1..Len(d) : s[k] = best(d[k])
  BY <1>62, <1>63
<1> HIDE DEF s
<1>7. /\ m \in Seq(S) /\ Len(m) = Len(s)
      /\ \A k, l \in 1..Len(m) : k < l => m[k].score >= m[l].score
  BY <1>0, <1>1, <1>6, ByScoreLaw
<1>80. PICK p : Rearranges(p, m, s)
  BY <1>0, <1>1, <1>6, ByScoreLaw
<1>8. /\ \A k \in 1..Len(m) : p[k] \in 1..Len(s) /\ m[k] = s[p[k]]
      /\ \A k, l \in 1..Len(m) : p[k] = p[l] => k = l
      /\ \A i \in 1..Len(s) : \E k \in 1..Len(m) : p[k] = i
  BY <1>80 DEF Rearranges
<1>9. \A k \in 1..Len(m) : p[k] \in 1..Len(d) /\ Source(m[k]) = Source(d[p[k]]) /\ BestOfSource(m[k], units)
  BY <1>5, <1>6, <1>8
<1>10. \A k, l \in 1..Len(m) : Source(m[k]) = Source(m[l]) => k = l
  <2> SUFFICES ASSUME NEW k \in 1..Len(m), NEW l \in 1..Len(m), Source(m[k]) = Source(m[l]) PROVE k = l
    OBVIOUS
  <2>1. p[k] \in 1..Len(d) /\ p[l] \in 1..Len(d) /\ Source(d[p[k]]) = Source(d[p[l]])
    BY <1>9
  <2>2. p[k] = p[l]
    BY <1>4, <2>1
  <2> QED BY <1>8, <2>2
<1>11. \A i \in 1..n : \E k \in 1..Len(m) : Source(m[k]) = Source(units[i])
  <2> SUFFICES ASSUME NEW i \in 1..n PROVE \E k \in 1..Len(m) : Source(m[k]) = Source(units[i])
    OBVIOUS
  <2>1. PICK e \in D : Source(units[e]) = Source(units[i])
    BY <1>3
  <2>2. PICK l \in 1..Len(d) : d[l] = units[e]
    BY <1>2
  <2>3. PICK k \in 1..Len(m) : p[k] = l
    BY <1>6, <1>8, <2>2
  <2> QED BY <1>9, <2>1, <2>2, <2>3
<1> QED BY <1>7, <1>9, <1>10, <1>11

-----------------------------------------------------------------------------
(* The documents of a repository.                                          *)

\* Fields of the right kinds make a candidate's record.
LEMMA RecordIs ==
  ASSUME NEW k \in KindLabels, NEW p \in Seq(Segment), NEW n \in Segment, NEW qn \in Seq(Segment), NEW y \in Nat,
         NEW t \in SUBSET Segment, NEW sk \in SymbolLabels, NEW pub \in BOOLEAN, NEW a \in Nat, NEW pos \in Nat,
         NEW d \in Int, NEW h \in Seq(Hit), NEW r \in SUBSET Reasons
  PROVE  [kind |-> k, path |-> p, name |-> n, qname |-> qn, symbol |-> y, text |-> t,
          symbolKind |-> sk, pub |-> pub, activity |-> a, pos |-> pos, score |-> 0,
          reasons |-> r, distance |-> 0, depth |-> d, relevance |-> 0,
          unit |-> 0, hits |-> h] \in Record
BY DEF Record

\* The candidate without content rests on no reason.
LEMMA BlankIs ==
  /\ Blank \in Record
  /\ Blank.reasons = {} /\ Blank.depth = -1 /\ Blank.symbol = 0 /\ Blank.path = <<>>
<1>1. "" \in Segment
  BY SegmentAssumption DEF Segment
<1>2. <<>> \in Seq(Segment) /\ -1 \in Int /\ <<>> \in Seq(Hit) /\ 0 \in Nat
  OBVIOUS
<1>3. "" \in SymbolLabels /\ "" \in KindLabels /\ {} \in SUBSET Segment /\ {} \in SUBSET Reasons /\ FALSE \in BOOLEAN
  BY DEF SymbolLabels, KindLabels
<1>4. Blank \in Record
  BY <1>1, <1>2, <1>3, RecordIs DEF Blank
<1> QED BY <1>4 DEF Blank

\* What a row of a generation has.
LEMMA RowIs ==
  ASSUME NEW s \in KnownRows
  PROVE  /\ s.path \in Seq(Segment) /\ s.path # <<>> /\ s.name \in Segment /\ s.qname \in Seq(Segment)
         /\ s.id \in Nat /\ s.id # 0 /\ s.kind \in SymbolLabels /\ s.pub \in BOOLEAN
         /\ s.body \in SUBSET Segment /\ s.note \in SUBSET Segment /\ s.owner \in Nat
         /\ IsFiniteSet(s.calls) /\ IsFiniteSet(s.reads) /\ s.more \in Nat
<1>1. PICK w \in ToSet(Worlds) : s \in ToSet(w.symbols)
  BY DEF KnownRows
<1>2. Worlds \in Seq(Corpus)
  BY WorldsAssumption DEF Corpus, Segment
<1>3. w \in Corpus
  BY <1>1, <1>2, ToSetIs
<1>4. w.symbols \in Seq(SymbolRow)
  BY <1>3 DEF Corpus
<1>5. s \in SymbolRow
  BY <1>1, <1>4, ToSetIs
<1>6. IsFiniteSet(s.calls) /\ IsFiniteSet(s.reads)
  BY <1>1, WorldsAssumption
<1>7. s.kind \in SymbolLabels
  BY DEF SymbolLabels
<1> QED BY <1>5, <1>6, <1>7 DEF SymbolRow, Path, Segment

\* Symbols of the same id, in any two generations, have the same path.
LEMMA SameIdSamePath ==
  ASSUME NEW s \in KnownRows, NEW t \in KnownRows, s.id = t.id
  PROVE  s.path = t.path
<1>1. PICK w \in ToSet(Worlds) : s \in ToSet(w.symbols)
  BY DEF KnownRows
<1>2. PICK x \in ToSet(Worlds) : t \in ToSet(x.symbols)
  BY DEF KnownRows
<1> QED BY <1>1, <1>2, WorldsAssumption

\* c is b with the fields of a symbol; with a text of another kind
SymbolFields(c, b, k, p, n, qn, y, sk, pub, a, pos, t) ==
  c = [b EXCEPT !.kind = k, !.path = p, !.name = n, !.qname = qn, !.symbol = y,
                !.symbolKind = sk, !.pub = pub, !.activity = a, !.pos = pos, !.text = t]
TextFields(c, b, k, t, n) == c = [b EXCEPT !.kind = k, !.text = t, !.activity = 0, !.pos = @ + n]

\* With the fields of a symbol a record stays one.
LEMMA SymbolRecord ==
  ASSUME NEW b \in Record, NEW k \in KindLabels, NEW p \in Seq(Segment), NEW n \in Segment, NEW qn \in Seq(Segment),
         NEW y \in Nat, NEW sk \in SymbolLabels, NEW pub \in BOOLEAN, NEW a \in Nat, NEW pos \in Nat, NEW t \in SUBSET Segment,
         NEW c, SymbolFields(c, b, k, p, n, qn, y, sk, pub, a, pos, t)
  PROVE  c \in Record
<1>1. [b EXCEPT !.kind = k, !.path = p, !.name = n, !.qname = qn, !.symbol = y,
                !.symbolKind = sk, !.pub = pub, !.activity = a, !.pos = pos, !.text = t] \in Record
  BY DEF Record
<1> QED BY <1>1 DEF SymbolFields

\* With a text of another kind a record stays one, and keeps its symbol and path.
LEMMA TextRecord ==
  ASSUME NEW b \in Record, NEW k \in KindLabels, NEW t \in SUBSET Segment, NEW n \in Nat,
         NEW c, TextFields(c, b, k, t, n)
  PROVE  /\ c \in Record /\ c.kind = k /\ c.path = b.path /\ c.symbol = b.symbol
         /\ c.reasons = b.reasons /\ c.depth = b.depth
<1> DEFINE m == b.pos + n
<1>1. m \in Nat /\ 0 \in Nat
  BY DEF Record
<1>2. c = [b EXCEPT !.kind = k, !.text = t, !.activity = 0, !.pos = m]
  BY DEF TextFields
<1> HIDE DEF m
<1>3. c \in Record
  BY <1>1, <1>2 DEF Record
<1>4. c.kind = k /\ c.path = b.path /\ c.symbol = b.symbol /\ c.reasons = b.reasons /\ c.depth = b.depth
  BY <1>2 DEF Record
<1> QED BY <1>3, <1>4

\* The document of a symbol has its id and its path.
LEMMA SymbolDocIs ==
  ASSUME NEW s \in KnownRows
  PROVE  /\ SymbolDoc(s) \in Record
         /\ SymbolDoc(s).kind = "symbol" /\ SymbolDoc(s).path = s.path /\ SymbolDoc(s).symbol = s.id
         /\ SymbolDoc(s).reasons = {} /\ SymbolDoc(s).depth = -1
<1> DEFINE p == s.path
           n == s.name
           qn == s.qname
           y == s.id
           sk == s.kind
           pub == s.pub
           a == Activity(s)
           pos == 1000 + 10 * s.id
           t == ToSet(Lowered(s.qname \o s.path))
           b == Blank
<1>1. p \in Seq(Segment) /\ n \in Segment /\ qn \in Seq(Segment) /\ y \in Nat /\ sk \in SymbolLabels /\ pub \in BOOLEAN
  BY RowIs
<1>2. a \in Nat
  <2>1. Cardinality(s.calls) \in Nat /\ Cardinality(s.reads) \in Nat /\ s.more \in Nat
    BY RowIs, FS_CardinalityType
  <2> DEFINE weighted == 400 * Cardinality(s.calls) + 125 * Cardinality(s.reads) + s.more
             least == IF weighted <= 24000 THEN weighted ELSE 24000
  <2>2. Activity(s) = (7 * least) \div 10
    BY DEF Activity
  <2>3. least \in Nat
    BY <2>1
  <2> HIDE DEF least
  <2> QED BY <2>2, <2>3
<1>3. pos \in Nat
  BY RowIs
<1>4. t \in SUBSET Segment
  <2>1. s.qname \o s.path \in Seq(Segment)
    BY RowIs
  <2>2. Lowered(s.qname \o s.path) \in Seq(Segment)
    BY <2>1, LoweredIs
  <2> QED BY <2>2, ToSetIs
<1>5. b \in Record /\ b.reasons = {} /\ b.depth = -1
  BY BlankIs
<1>6. SymbolDoc(s) = [b EXCEPT !.kind = "symbol", !.path = p, !.name = n, !.qname = qn, !.symbol = y,
                               !.symbolKind = sk, !.pub = pub, !.activity = a, !.pos = pos, !.text = t]
  BY DEF SymbolDoc
<1>61. SymbolFields(SymbolDoc(s), b, "symbol", p, n, qn, y, sk, pub, a, pos, t)
  BY <1>6 DEF SymbolFields
<1> HIDE DEF p, n, qn, y, sk, pub, a, pos, t, b
<1>60. "symbol" \in KindLabels
  BY DEF KindLabels, Kinds, RankKind
<1>7. SymbolDoc(s) \in Record
  BY <1>60, <1>1, <1>2, <1>3, <1>4, <1>5, <1>61, SymbolRecord
<1>8. /\ SymbolDoc(s).kind = "symbol" /\ SymbolDoc(s).path = p /\ SymbolDoc(s).symbol = y
      /\ SymbolDoc(s).reasons = {} /\ SymbolDoc(s).depth = -1
  BY <1>5, <1>6 DEF Record
<1> QED BY <1>7, <1>8 DEF p, y

\* A record of the kind of a document, for a row.
LEMMA DocOfRow ==
  ASSUME NEW s \in KnownRows, NEW d \in Record, d.kind \in DocumentKinds, d.path = s.path, d.symbol = s.id,
         d.reasons = {}, d.depth = -1
  PROVE  d \in Doc
<1>1. d.kind \in Kinds
  BY DEF DocumentKinds, KindLabels, Kinds, RankKind
<1>2. s.path # <<>> /\ s.id # 0
  BY RowIs
<1> QED BY <1>1, <1>2 DEF Doc, Cand

\* A symbol's documents, its own, its body's and its note's, are its own.
LEMMA RowDocs ==
  ASSUME NEW s \in KnownRows
  PROVE  /\ SymbolDoc(s) \in Doc
         /\ BodyDoc(s) \in Doc /\ BodyDoc(s).symbol = s.id /\ BodyDoc(s).path = s.path
         /\ BodyDoc(s).kind \in {"type_body", "function_body"}
         /\ NoteDoc(s) \in Doc /\ NoteDoc(s).symbol = s.id
<1> DEFINE d == SymbolDoc(s)
           k == BodyKind(s)
           b == d.text \cup s.body
           n == d.text \cup s.note
<1>1. d \in Record /\ d.kind = "symbol" /\ d.path = s.path /\ d.symbol = s.id /\ d.reasons = {} /\ d.depth = -1
  BY SymbolDocIs
<1> HIDE DEF d
<1>2. b \in SUBSET Segment /\ n \in SUBSET Segment
  <2>1. d.text \in SUBSET Segment
    BY <1>1 DEF Record
  <2>2. s.body \in SUBSET Segment /\ s.note \in SUBSET Segment
    BY RowIs
  <2> QED BY <2>1, <2>2
<1>3. k \in {"type_body", "function_body"} /\ k \in KindLabels
  BY DEF BodyKind, KindLabels, Kinds, RankKind
<1>4. BodyDoc(s) = [d EXCEPT !.kind = k, !.text = b, !.activity = 0, !.pos = @ + 1]
  BY DEF BodyDoc, d
<1>5. NoteDoc(s) = [d EXCEPT !.kind = "doc", !.text = n, !.activity = 0, !.pos = @ + 2]
  BY DEF NoteDoc, d
<1>50. TextFields(BodyDoc(s), d, k, b, 1) /\ TextFields(NoteDoc(s), d, "doc", n, 2)
  BY <1>4, <1>5 DEF TextFields
<1> HIDE DEF k, b, n
<1>6. /\ BodyDoc(s) \in Record /\ BodyDoc(s).kind = k /\ BodyDoc(s).path = d.path /\ BodyDoc(s).symbol = d.symbol
      /\ BodyDoc(s).reasons = d.reasons /\ BodyDoc(s).depth = d.depth
  BY <1>1, <1>2, <1>3, <1>50, TextRecord
<1>60. "doc" \in KindLabels
  BY DEF KindLabels, Kinds, RankKind
<1>7. /\ NoteDoc(s) \in Record /\ NoteDoc(s).kind = "doc" /\ NoteDoc(s).path = d.path /\ NoteDoc(s).symbol = d.symbol
      /\ NoteDoc(s).reasons = d.reasons /\ NoteDoc(s).depth = d.depth
  BY <1>1, <1>2, <1>50, <1>60, TextRecord
<1>8. k \in DocumentKinds /\ "doc" \in DocumentKinds /\ "symbol" \in DocumentKinds
  BY <1>3 DEF DocumentKinds
<1>9. SymbolDoc(s) \in Doc
  BY <1>1, <1>8, DocOfRow DEF d
<1>10. BodyDoc(s) \in Doc
  BY <1>1, <1>6, <1>8, DocOfRow
<1>11. NoteDoc(s) \in Doc
  BY <1>1, <1>7, <1>8, DocOfRow
<1> QED BY <1>1, <1>3, <1>6, <1>7, <1>9, <1>10, <1>11

\* The document of a file or a directory is one.
LEMMA PathDocIs ==
  ASSUME NEW kind \in {"file", "directory"}, NEW path \in Seq(Segment), path # <<>>, NEW text \in SUBSET Segment, NEW pos \in Nat
  PROVE  PathDoc(kind, path, text, pos) \in Doc
<1> DEFINE n == Last(path)
           t == ToSet(Lowered(path)) \cup text
           b == Blank
           d == [b EXCEPT !.kind = kind, !.path = path, !.name = n, !.pos = pos, !.text = t]
<1>1. PathDoc(kind, path, text, pos) = d
  BY DEF PathDoc
<1>2. n \in Segment
  BY DEF Last
<1>3. t \in SUBSET Segment
  BY LoweredIs, ToSetIs
<1>4. b \in Record /\ b.reasons = {} /\ b.depth = -1 /\ b.symbol = 0
  BY BlankIs
<1>5. kind \in KindLabels /\ kind \in DocumentKinds /\ kind \in Kinds
  BY DEF DocumentKinds, KindLabels, Kinds, RankKind
<1> HIDE DEF n, t, b
<1>6. d \in Record /\ d.kind = kind /\ d.path = path /\ d.reasons = {} /\ d.depth = -1 /\ d.symbol = 0
  BY <1>2, <1>3, <1>4, <1>5 DEF Record
<1> HIDE DEF d
<1> QED BY <1>1, <1>5, <1>6 DEF Doc, Cand

\* So is the document of the repository.
LEMMA RepoDocIs == RepoDoc \in Doc
<1> DEFINE b == Blank
           n == "repo"
           t == {"repo"}
           d == [b EXCEPT !.kind = "repo", !.name = n, !.text = t]
<1>1. n \in Segment /\ t \in SUBSET Segment
  BY SegmentAssumption DEF Segment
<1>2. b \in Record /\ b.reasons = {} /\ b.depth = -1 /\ b.symbol = 0 /\ b.path = <<>>
  BY BlankIs
<1>3. RepoDoc = d
  BY DEF RepoDoc
<1> HIDE DEF b, n, t
<1>30. "repo" \in KindLabels
  BY DEF KindLabels, Kinds, RankKind
<1>4. d \in Record /\ d.kind = "repo" /\ d.path = <<>> /\ d.symbol = 0 /\ d.reasons = {} /\ d.depth = -1
  BY <1>1, <1>2, <1>30 DEF Record
<1> HIDE DEF d
<1>5. "repo" \in Kinds /\ "repo" \in DocumentKinds
  BY DEF Kinds, RankKind, DocumentKinds
<1> QED BY <1>3, <1>4, <1>5 DEF Doc, Cand

\* A generation of the artifacts is a corpus of known symbols.
LEMMA WorldIs ==
  ASSUME NEW g \in 1..Len(Worlds)
  PROVE  /\ Worlds[g] \in Corpus
         /\ \A i \in 1..Len(Worlds[g].symbols) : Worlds[g].symbols[i] \in KnownRows
         /\ Worlds[g].symbols \in Seq(KnownRows)
<1>1. Worlds \in Seq(Corpus)
  BY WorldsAssumption DEF Corpus, Segment
<1>2. Worlds[g] \in Corpus /\ Worlds[g] \in ToSet(Worlds)
  BY <1>1, ElementOfSeq, ToSetIs
<1>3. Worlds[g].symbols \in Seq(SymbolRow)
  BY <1>2 DEF Corpus
<1> DEFINE y == Worlds[g].symbols
<1>4. \A i \in 1..Len(y) : y[i] \in ToSet(y)
  BY <1>3, ToSetIs
<1>5. \A i \in 1..Len(y) : y[i] \in KnownRows
  BY <1>2, <1>4 DEF KnownRows
<1>6. y \in Seq(KnownRows)
  <2> HIDE DEF y
  <2>1. y \in Seq(SymbolRow)
    BY <1>3 DEF y
  <2> QED BY <1>5, <2>1
<1> QED BY <1>2, <1>5, <1>6

\* The index of a generation holds documents.
LEMMA DocumentsIs ==
  ASSUME NEW g \in 1..Len(Worlds)
  PROVE  Documents(Worlds[g]) \in Seq(Doc)
<1> DEFINE w == Worlds[g]
           of(s) == <<SymbolDoc(s)>> \o (IF Bodied(s) /\ s.body # {} THEN <<BodyDoc(s)>> ELSE <<>>)
                                     \o (IF s.note # {} THEN <<NoteDoc(s)>> ELSE <<>>)
           a == <<RepoDoc>>
           b == [i \in DOMAIN w.directories |-> DirectoryDoc(w, i)]
           c == [i \in DOMAIN w.files |-> FileDoc(w, i)]
           d == [i \in DOMAIN w.symbols |-> of(w.symbols[i])]
<1>1. w \in Corpus /\ w.symbols \in Seq(KnownRows)
  BY WorldIs
<1>2. Documents(w) = a \o b \o c \o FlattenSeq(d)
  BY DEF Documents, Each
<1> HIDE DEF w
<1>3. a \in Seq(Doc)
  BY RepoDocIs
<1>4. b \in Seq(Doc)
  <2>1. w.directories \in Seq(Path)
    BY <1>1 DEF Corpus
  <2>2. ASSUME NEW i \in DOMAIN w.directories PROVE DirectoryDoc(w, i) \in Doc
    <3>1. w.directories[i] \in Path /\ i \in Nat
      BY <2>1
    <3>2. w.directories[i] \in Seq(Segment) /\ w.directories[i] # <<>>
      BY <3>1 DEF Path, Segment
    <3>3. {} \in SUBSET Segment
      OBVIOUS
    <3> QED BY <3>1, <3>2, <3>3, PathDocIs DEF DirectoryDoc
  <2> QED BY <2>1, <2>2
<1>5. c \in Seq(Doc)
  <2> DEFINE F == [path : Path, text : SUBSET Segment]
  <2>1. w.files \in Seq(F)
    BY <1>1 DEF Corpus
  <2>2. ASSUME NEW i \in DOMAIN w.files PROVE FileDoc(w, i) \in Doc
    <3>1. w.files[i] \in F /\ i \in Nat
      <4> HIDE DEF F
      <4> QED BY <2>1
    <3>2. w.files[i].path \in Seq(Segment) /\ w.files[i].path # <<>> /\ w.files[i].text \in SUBSET Segment
      BY <3>1 DEF Path, Segment
    <3>3. 100 + i \in Nat
      BY <3>1
    <3> QED BY <3>1, <3>2, <3>3, PathDocIs DEF FileDoc
  <2> HIDE DEF F
  <2> QED BY <2>1, <2>2
<1>6. FlattenSeq(d) \in Seq(Doc)
  <2>1. ASSUME NEW i \in DOMAIN w.symbols PROVE of(w.symbols[i]) \in Seq(Doc)
    <3> DEFINE s == w.symbols[i]
    <3>1. s \in KnownRows
      BY <1>1
    <3> HIDE DEF s
    <3> DEFINE x == SymbolDoc(s)
               y == BodyDoc(s)
               z == NoteDoc(s)
               p == IF Bodied(s) /\ s.body # {} THEN <<y>> ELSE <<>>
               r == IF s.note # {} THEN <<z>> ELSE <<>>
    <3>2. x \in Doc /\ y \in Doc /\ z \in Doc
      BY <3>1, RowDocs
    <3> HIDE DEF x, y, z
    <3>3. p \in Seq(Doc) /\ r \in Seq(Doc) /\ <<x>> \in Seq(Doc)
      BY <3>2
    <3> HIDE DEF p, r
    <3>4. <<x>> \o p \o r \in Seq(Doc)
      BY <3>3
    <3> QED BY <3>4 DEF s, x, y, z, p, r
  <2> HIDE DEF of
  <2>2. d \in Seq(Seq(Doc))
    BY <1>1, <2>1
  <2> HIDE DEF d
  <2> QED BY <2>2, FlattenLaw
<1> HIDE DEF a, b, c, d
<1>7. a \o b \o c \o FlattenSeq(d) \in Seq(Doc)
  BY <1>3, <1>4, <1>5, <1>6
<1> QED BY <1>2, <1>7 DEF w

-----------------------------------------------------------------------------
(* The candidates of a sequence, in any order.                             *)

\* a candidate or a unit, whatever its score
KeyOf(c) == <<c.kind, c.pos, c.unit>>
\* p pairs every element of t with one of s of the same key
Pairs(p, t, s) ==
  /\ p \in [1..Len(t) -> 1..Len(s)]
  /\ \A k, l \in 1..Len(t) : p[k] = p[l] => k = l
  /\ \A i \in 1..Len(s) : \E k \in 1..Len(t) : p[k] = i
  /\ \A k \in 1..Len(t) : KeyOf(t[k]) = KeyOf(s[p[k]])
\* t has what s has, in some order
Matches(t, s) == \E p : Pairs(p, t, s)

\* A sequence matches itself,
LEMMA MatchesSelf ==
  ASSUME NEW s, Len(s) \in Nat
  PROVE  Matches(s, s)
<1> DEFINE n == Len(s)
           p == [k \in 1..n |-> k]
<1>1. Pairs(p, s, s)
  BY DEF Pairs
<1> QED BY <1>1 DEF Matches

\* what matches a match matches,
LEMMA MatchesStep ==
  ASSUME NEW s, NEW t, NEW u, Matches(u, t), Matches(t, s)
  PROVE  Matches(u, s)
<1>1. PICK p : Pairs(p, u, t)
  BY DEF Matches
<1>2. PICK r : Pairs(r, t, s)
  BY DEF Matches
<1> DEFINE v == [k \in 1..Len(u) |-> r[p[k]]]
<1>3. /\ p \in [1..Len(u) -> 1..Len(t)]
      /\ \A k, l \in 1..Len(u) : p[k] = p[l] => k = l
      /\ \A i \in 1..Len(t) : \E k \in 1..Len(u) : p[k] = i
      /\ \A k \in 1..Len(u) : KeyOf(u[k]) = KeyOf(t[p[k]])
  BY <1>1 DEF Pairs
<1>4. /\ r \in [1..Len(t) -> 1..Len(s)]
      /\ \A k, l \in 1..Len(t) : r[k] = r[l] => k = l
      /\ \A i \in 1..Len(s) : \E k \in 1..Len(t) : r[k] = i
      /\ \A k \in 1..Len(t) : KeyOf(t[k]) = KeyOf(s[r[k]])
  BY <1>2 DEF Pairs
<1>5. \A k \in 1..Len(u) : p[k] \in 1..Len(t) /\ v[k] = r[p[k]]
  BY <1>3
<1>6. v \in [1..Len(u) -> 1..Len(s)]
  BY <1>3, <1>4
<1> HIDE DEF v
<1>7. \A k, l \in 1..Len(u) : v[k] = v[l] => k = l
  BY <1>3, <1>4, <1>5
<1>8. \A i \in 1..Len(s) : \E k \in 1..Len(u) : v[k] = i
  <2> SUFFICES ASSUME NEW i \in 1..Len(s) PROVE \E k \in 1..Len(u) : v[k] = i
    OBVIOUS
  <2>1. PICK j \in 1..Len(t) : r[j] = i
    BY <1>4
  <2>2. PICK k \in 1..Len(u) : p[k] = j
    BY <1>3
  <2> QED BY <1>5, <2>1, <2>2
<1>9. \A k \in 1..Len(u) : KeyOf(u[k]) = KeyOf(s[v[k]])
  BY <1>3, <1>4, <1>5
<1>10. Pairs(v, u, s)
  BY <1>6, <1>7, <1>8, <1>9 DEF Pairs
<1> QED BY <1>10 DEF Matches

\* and parts that match make wholes that do.
LEMMA MatchesParts ==
  ASSUME NEW S, NEW a \in Seq(S), NEW b \in Seq(S), NEW c \in Seq(S), NEW d \in Seq(S), Matches(a, b), Matches(c, d)
  PROVE  Matches(a \o c, b \o d)
<1>1. PICK p : Pairs(p, a, b)
  BY DEF Matches
<1>2. PICK r : Pairs(r, c, d)
  BY DEF Matches
<1> DEFINE m == Len(a)
           n == Len(b)
           e == Len(c)
           f == Len(d)
           t == a \o c
           s == b \o d
           v == [k \in 1..(m + e) |-> IF k <= m THEN p[k] ELSE n + r[k - m]]
<1>3. m \in Nat /\ n \in Nat /\ e \in Nat /\ f \in Nat
  OBVIOUS
<1>4. /\ Len(t) = m + e /\ (\A k \in 1..m : t[k] = a[k]) /\ \A k \in 1..e : t[m + k] = c[k]
      /\ Len(s) = n + f /\ (\A k \in 1..n : s[k] = b[k]) /\ \A k \in 1..f : s[n + k] = d[k]
  OBVIOUS
<1>5. /\ p \in [1..m -> 1..n]
      /\ \A k, l \in 1..m : p[k] = p[l] => k = l
      /\ \A i \in 1..n : \E k \in 1..m : p[k] = i
      /\ \A k \in 1..m : KeyOf(a[k]) = KeyOf(b[p[k]])
  BY <1>1 DEF Pairs
<1>6. /\ r \in [1..e -> 1..f]
      /\ \A k, l \in 1..e : r[k] = r[l] => k = l
      /\ \A i \in 1..f : \E k \in 1..e : r[k] = i
      /\ \A k \in 1..e : KeyOf(c[k]) = KeyOf(d[r[k]])
  BY <1>2 DEF Pairs
<1> HIDE DEF m, n, e, f, t, s
<1>7. \A k \in 1..m : k \in 1..(m + e) /\ v[k] = p[k] /\ p[k] \in 1..n
  BY <1>3, <1>5
<1>8. \A k \in 1..e : m + k \in 1..(m + e) /\ v[m + k] = n + r[k] /\ r[k] \in 1..f
  <2> SUFFICES ASSUME NEW k \in 1..e PROVE m + k \in 1..(m + e) /\ v[m + k] = n + r[k] /\ r[k] \in 1..f
    OBVIOUS
  <2>1. m + k \in 1..(m + e) /\ ~(m + k <= m) /\ (m + k) - m = k
    BY <1>3
  <2> QED BY <1>6, <2>1
<1>9. \A k \in 1..(m + e) : k \in 1..m \/ \E l \in 1..e : k = m + l
  <2> SUFFICES ASSUME NEW k \in 1..(m + e), ~(k \in 1..m) PROVE \E l \in 1..e : k = m + l
    OBVIOUS
  <2>1. k - m \in 1..e /\ k = m + (k - m)
    BY <1>3
  <2> QED BY <2>1
<1>90. \A i \in 1..(n + f) : i \in 1..n \/ \E l \in 1..f : i = n + l
  <2> SUFFICES ASSUME NEW k \in 1..(n + f), ~(k \in 1..n) PROVE \E l \in 1..f : k = n + l
    OBVIOUS
  <2>1. k - n \in 1..f /\ k = n + (k - n)
    BY <1>3
  <2> QED BY <2>1
<1>10. v \in [1..(m + e) -> 1..(n + f)]
  <2>1. \A k \in 1..(m + e) : v[k] \in 1..(n + f)
    <3> SUFFICES ASSUME NEW k \in 1..(m + e) PROVE v[k] \in 1..(n + f)
      OBVIOUS
    <3>1. CASE k \in 1..m
      <4>1. v[k] \in 1..n
        BY <1>7, <3>1
      <4> QED BY <1>3, <4>1
    <3>2. CASE \E l \in 1..e : k = m + l
      <4>1. PICK l \in 1..e : k = m + l
        BY <3>2
      <4>2. v[k] = n + r[l] /\ r[l] \in 1..f
        BY <1>8, <4>1
      <4> QED BY <1>3, <4>2
    <3> QED BY <1>9, <3>1, <3>2
  <2> QED BY <2>1
<1> HIDE DEF v
<1>11. ASSUME NEW k \in 1..(m + e), NEW l \in 1..(m + e), v[k] = v[l] PROVE k = l
  <2>1. CASE k \in 1..m /\ l \in 1..m
    BY <1>5, <1>7, <1>11, <2>1
  <2>2. ASSUME NEW x \in 1..e, NEW y \in 1..e, k = m + x, l = m + y PROVE k = l
    <3>1. n + r[x] = n + r[y] /\ r[x] \in 1..f /\ r[y] \in 1..f
      BY <1>8, <1>11, <2>2
    <3>2. r[x] = r[y]
      BY <1>3, <3>1
    <3> QED BY <1>6, <2>2, <3>2
  <2>3. ASSUME NEW i \in 1..m, NEW y \in 1..e, v[i] = v[m + y] PROVE FALSE
    <3>1. p[i] = n + r[y] /\ p[i] \in 1..n /\ r[y] \in 1..f
      BY <1>7, <1>8, <2>3
    <3> QED BY <1>3, <3>1
  <2> QED BY <1>9, <1>11, <2>1, <2>2, <2>3
<1>12. ASSUME NEW i \in 1..(n + f) PROVE \E k \in 1..(m + e) : v[k] = i
  <2>1. CASE i \in 1..n
    <3>1. PICK k \in 1..m : p[k] = i
      BY <1>5, <2>1
    <3> QED BY <1>7, <3>1
  <2>2. ASSUME NEW l \in 1..f, i = n + l PROVE \E k \in 1..(m + e) : v[k] = i
    <3>1. PICK k \in 1..e : r[k] = l
      BY <1>6
    <3>2. m + k \in 1..(m + e) /\ v[m + k] = i
      BY <1>8, <2>2, <3>1
    <3> QED BY <3>2
  <2> QED BY <1>90, <2>1, <2>2
<1>13. ASSUME NEW k \in 1..(m + e) PROVE KeyOf(t[k]) = KeyOf(s[v[k]])
  <2>1. CASE k \in 1..m
    BY <1>4, <1>5, <1>7, <2>1
  <2>2. ASSUME NEW l \in 1..e, k = m + l PROVE KeyOf(t[k]) = KeyOf(s[v[k]])
    BY <1>4, <1>6, <1>8, <2>2
  <2> QED BY <1>9, <2>1, <2>2
<1>14. Pairs(v, t, s)
  BY <1>4, <1>10, <1>11, <1>12, <1>13 DEF Pairs
<1> QED BY <1>14 DEF Matches, t, s

\* Sequences that match have the same candidates, equally often.
LEMMA MatchesCensus ==
  ASSUME NEW S, NEW t \in Seq(S), NEW s \in Seq(S), Matches(t, s)
  PROVE  Census(t) = Census(s)
<1>1. PICK p : Pairs(p, t, s)
  BY DEF Matches
<1>2. /\ p \in [1..Len(t) -> 1..Len(s)]
      /\ \A k, l \in 1..Len(t) : p[k] = p[l] => k = l
      /\ \A i \in 1..Len(s) : \E k \in 1..Len(t) : p[k] = i
      /\ \A k \in 1..Len(t) : KeyOf(t[k]) = KeyOf(s[p[k]])
  BY <1>1 DEF Pairs
<1> DEFINE Keys(x) == {KeyOf(c) : c \in ToSet(x)}
           At2(x, k) == {i \in DOMAIN x : KeyOf(x[i]) = k}
<1>3. DOMAIN t = 1..Len(t) /\ DOMAIN s = 1..Len(s)
  OBVIOUS
<1>4. (\A c : c \in ToSet(t) <=> \E i \in 1..Len(t) : c = t[i]) /\ \A c : c \in ToSet(s) <=> \E i \in 1..Len(s) : c = s[i]
  BY ToSetIs
<1>5. Keys(t) = Keys(s)
  <2>1. ASSUME NEW c \in ToSet(t) PROVE KeyOf(c) \in Keys(s)
    <3>1. PICK k \in 1..Len(t) : c = t[k]
      BY <1>4
    <3>2. p[k] \in 1..Len(s) /\ KeyOf(c) = KeyOf(s[p[k]])
      BY <1>2, <3>1
    <3>3. s[p[k]] \in ToSet(s)
      BY <1>4, <3>2
    <3> QED BY <3>2, <3>3
  <2>2. ASSUME NEW c \in ToSet(s) PROVE KeyOf(c) \in Keys(t)
    <3>1. PICK i \in 1..Len(s) : c = s[i]
      BY <1>4
    <3>2. PICK k \in 1..Len(t) : p[k] = i
      BY <1>2
    <3>3. KeyOf(t[k]) = KeyOf(c) /\ t[k] \in ToSet(t)
      BY <1>2, <1>4, <3>1, <3>2
    <3> QED BY <3>3
  <2> QED BY <2>1, <2>2
<1>6. ASSUME NEW k PROVE Cardinality(At2(t, k)) = Cardinality(At2(s, k))
  <2> DEFINE f == [i \in At2(t, k) |-> p[i]]
  <2>1. \A i \in At2(t, k) : i \in 1..Len(t) /\ f[i] = p[i] /\ f[i] \in At2(s, k)
    BY <1>2, <1>3
  <2>2. f \in Bijection(At2(t, k), At2(s, k))
    <3>1. f \in [At2(t, k) -> At2(s, k)]
      <4>1. \A i \in At2(t, k) : p[i] \in At2(s, k)
        BY <2>1
      <4> HIDE DEF At2
      <4> QED BY <4>1
    <3>2. \A i, j \in At2(t, k) : f[i] = f[j] => i = j
      <4> HIDE DEF At2, f
      <4> QED BY <1>2, <2>1
    <3>3. \A j \in At2(s, k) : \E i \in At2(t, k) : f[i] = j
      <4> SUFFICES ASSUME NEW j \in At2(s, k) PROVE \E i \in At2(t, k) : f[i] = j
        OBVIOUS
      <4>1. PICK i \in 1..Len(t) : p[i] = j
        BY <1>2, <1>3
      <4>2. i \in At2(t, k)
        BY <1>2, <1>3, <4>1
      <4> HIDE DEF At2, f
      <4> QED BY <2>1, <4>1, <4>2
    <3> HIDE DEF At2, f
    <3> QED BY <3>1, <3>2, <3>3 DEF Bijection, Injection, Surjection, IsInjective
  <2>3. IsFiniteSet(At2(t, k))
    <3>1. At2(t, k) \in SUBSET (DOMAIN t)
      OBVIOUS
    <3> HIDE DEF At2
    <3> QED BY <3>1, CountIs
  <2> DEFINE A == At2(t, k)
             B == At2(s, k)
  <2>4. ExistsBijection(A, B)
    <3> HIDE DEF At2, f
    <3> QED BY <2>2 DEF ExistsBijection
  <2>5. IsFiniteSet(A)
    BY <2>3
  <2> HIDE DEF A, B
  <2>6. Cardinality(A) = Cardinality(B)
    BY <2>4, <2>5, FS_Bijection
  <2> QED BY <2>6 DEF A, B
<1>7. Census(t) = [k \in Keys(t) |-> Cardinality(At2(t, k))]
  BY DEF Census, KeyOf
<1>8. Census(s) = [k \in Keys(s) |-> Cardinality(At2(s, k))]
  BY DEF Census, KeyOf
<1> HIDE DEF Keys, At2
<1> QED BY <1>5, <1>6, <1>7, <1>8

\* A score says nothing of what a candidate is.
LEMMA KeyKept ==
  ASSUME NEW c \in Cand, NEW n \in Int
  PROVE  KeyOf([c EXCEPT !.score = n]) = KeyOf(c)
BY DEF Cand, Record, KeyOf

\* s is r with other scores
Rescores(s, r) == Len(s) = Len(r) /\ \A i \in 1..Len(r) : \E n \in Int : s[i] = [r[i] EXCEPT !.score = n]

\* Candidates with other scores match,
LEMMA RescoresMatches ==
  ASSUME NEW r \in Seq(Cand), NEW s, Rescores(s, r)
  PROVE  Matches(s, r)
<1> DEFINE n == Len(r)
           p == [k \in 1..n |-> k]
<1>1. Len(s) = n /\ \A i \in 1..n : \E x \in Int : s[i] = [r[i] EXCEPT !.score = x]
  BY DEF Rescores
<1>2. \A i \in 1..n : KeyOf(s[i]) = KeyOf(r[i])
  <2> SUFFICES ASSUME NEW i \in 1..n PROVE KeyOf(s[i]) = KeyOf(r[i])
    OBVIOUS
  <2>1. PICK x \in Int : s[i] = [r[i] EXCEPT !.score = x]
    BY <1>1
  <2>2. r[i] \in Cand
    OBVIOUS
  <2> QED BY <2>1, <2>2, KeyKept
<1> HIDE DEF n
<1>3. Pairs(p, s, r)
  BY <1>1, <1>2 DEF Pairs, n
<1> QED BY <1>3 DEF Matches

\* candidates in another order match,
LEMMA InOrderMatches ==
  ASSUME NEW S, NEW s \in Seq(S), NEW R
  PROVE  InOrder(s, R) \in Seq(S) /\ Matches(InOrder(s, R), s)
<1> DEFINE n == Len(s)
           a == Arranged(n, R)
           t == InOrder(s, R)
           p == [k \in 1..n |-> a[k]]
<1>1. /\ Arranges(a, R, n, n) /\ t \in Seq(S) /\ Len(t) = n
      /\ \A k \in 1..n : a[k] \in 1..n /\ t[k] = s[a[k]]
  BY InOrderLaw
<1>2. (\A k, l \in 1..n : a[k] = a[l] => k = l) /\ \A i \in 1..n : \E k \in 1..n : a[k] = i
  BY <1>1 DEF Arranges
<1> HIDE DEF a, t, n
<1>3. Pairs(p, t, s)
  BY <1>1, <1>2 DEF Pairs, n
<1> HIDE DEF p
<1>4. Matches(t, s)
  BY <1>3 DEF Matches
<1> QED BY <1>1, <1>4 DEF t

\* sorted by score and rank
LEMMA BetterMatches ==
  ASSUME NEW S, NEW s \in Seq(S)
  PROVE  Sort(s, Better) \in Seq(S) /\ Matches(Sort(s, Better), s)
<1> DEFINE R == {x \in (DOMAIN s) \X (DOMAIN s) : Better(s[x[1]], s[x[2]])}
<1>1. Sort(s, Better) = InOrder(s, R)
  BY OnceIs DEF Sort, Each, InOrder
<1> HIDE DEF R
<1> QED BY <1>1, InOrderMatches

\* or by score alone.
LEMMA ByScoreMatches ==
  ASSUME NEW S, NEW s \in Seq(S)
  PROVE  Sort(s, ByScore) \in Seq(S) /\ Matches(Sort(s, ByScore), s)
<1> DEFINE R == {x \in (DOMAIN s) \X (DOMAIN s) : ByScore(s[x[1]], s[x[2]])}
<1>1. Sort(s, ByScore) = InOrder(s, R)
  BY OnceIs DEF Sort, Each, InOrder
<1> HIDE DEF R
<1> QED BY <1>1, InOrderMatches

\* The heuristics score and order the candidates they are given.
LEMMA HeuristicRankLaw ==
  ASSUME NEW S, Closed(S), NEW cs \in Seq(S), NEW ask, IsQuery(ask), NEW profile
  PROVE  HeuristicRank(ask, cs, profile) \in Seq(S) /\ Matches(HeuristicRank(ask, cs, profile), cs)
<1> DEFINE worth(c) == Heuristic(ask, c, profile)
           s == [i \in DOMAIN cs |-> [cs[i] EXCEPT !.score = worth(cs[i])]]
           before(a, b) == \/ a.score > b.score
                           \/ a.score = b.score /\ KindPriority(a.kind) > KindPriority(b.kind)
                           \/ a.score = b.score /\ KindPriority(a.kind) = KindPriority(b.kind) /\ a.pos < b.pos
           R == {x \in (DOMAIN s) \X (DOMAIN s) : before(s[x[1]], s[x[2]])}
<1>1. DOMAIN cs = 1..Len(cs) /\ (\A i \in 1..Len(cs) : cs[i] \in S) /\ S \subseteq Cand
  BY ElementOfSeq DEF Closed
<1>2. \A i \in 1..Len(cs) : worth(cs[i]) \in Int
  <2> SUFFICES ASSUME NEW i \in 1..Len(cs) PROVE worth(cs[i]) \in Int
    OBVIOUS
  <2> DEFINE c == cs[i]
  <2>1. c \in Cand
    BY <1>1
  <2> HIDE DEF c
  <2>2. Heuristic(ask, c, profile) \in Int
    BY <2>1, HeuristicIs
  <2> QED BY <2>2 DEF c
<1> HIDE DEF worth
<1>3. \A i \in 1..Len(cs) : [cs[i] EXCEPT !.score = worth(cs[i])] \in S
  BY <1>1, <1>2 DEF Closed
<1>4. s \in Seq(S) /\ Len(s) = Len(cs)
  BY <1>1, <1>3
<1>5. Rescores(s, cs)
  <2>1. \A i \in 1..Len(cs) : s[i] = [cs[i] EXCEPT !.score = worth(cs[i])]
    BY <1>1
  <2> HIDE DEF s
  <2> QED BY <1>2, <1>4, <2>1 DEF Rescores
<1>6. HeuristicRank(ask, cs, profile) = InOrder(s, R)
  <2>1. Each(cs, LAMBDA c : [c EXCEPT !.score = Heuristic(ask, c, profile)]) = s
    BY DEF Each, worth
  <2>2. HeuristicRank(ask, cs, profile)
          = Sort(Each(cs, LAMBDA c : [c EXCEPT !.score = Heuristic(ask, c, profile)]), before)
    BY DEF HeuristicRank
  <2>3. Once(s) = s
    BY <1>4, OnceIs
  <2> HIDE DEF s
  <2>4. Sort(s, before) = InOrder(s, R)
    BY <2>3 DEF Sort, Each, InOrder
  <2> QED BY <2>1, <2>2, <2>4
<1> HIDE DEF s, R
<1>7. InOrder(s, R) \in Seq(S) /\ Matches(InOrder(s, R), s)
  BY <1>4, InOrderMatches
<1>8. Matches(s, cs)
  <2>1. cs \in Seq(Cand)
    BY <1>1
  <2> QED BY <1>5, <2>1, RescoresMatches
<1>9. Matches(InOrder(s, R), cs)
  BY <1>7, <1>8, MatchesStep
<1> QED BY <1>6, <1>7, <1>9

\* What the service may answer has indexes and scores that are numbers.
LEMMA AnswerIs ==
  ASSUME NEW n \in Nat, NEW answer \in Answers(n)
  PROVE  /\ answer \in Seq([index : -1..n, score : Scores])
         /\ \A i \in 1..Len(answer) : answer[i].index \in Int /\ answer[i].score \in Int
<1> DEFINE result == [index : -1..n, score : Scores]
<1>1. PICK k \in 0..n : answer \in [1..k -> result]
  BY DEF Answers
<1>2. \A r \in result : r.index \in Int /\ r.score \in Int
  <2> SUFFICES ASSUME NEW r \in result PROVE r.index \in Int /\ r.score \in Int
    OBVIOUS
  <2>1. r.index \in -1..n /\ r.score \in Scores
    OBVIOUS
  <2>2. \A i \in -1..n : i \in Int
    OBVIOUS
  <2> HIDE DEF result
  <2> QED BY <2>1, <2>2, ScoresAssumption
<1> HIDE DEF result
<1>3. answer \in Seq(result)
  BY <1>1
<1>4. \A i \in 1..Len(answer) : answer[i] \in result
  BY <1>3, ElementOfSeq
<1>5. \A i \in 1..Len(answer) : answer[i].index \in Int /\ answer[i].score \in Int
  BY <1>2, <1>4
<1> QED BY <1>3, <1>5 DEF result

\* What the service names, each once, then what it leaves out: all of the
\* candidates it was sent, and none twice.
LEMMA ReorderedLaw ==
  ASSUME NEW S, Closed(S), NEW top \in Seq(S), NEW answer \in Answers(Len(top)), NEW share \in Nat \ {0}
  PROVE  Reordered(top, answer, share) \in Seq(S) /\ Matches(Reordered(top, answer, share), top)
<1> DEFINE n == Len(top)
           e == Len(answer)
           U == {i \in DOMAIN answer : /\ answer[i].index \in 0..(n - 1)
                                       /\ \A j \in 1..(i - 1) : answer[j].index # answer[i].index}
           used == Usable(answer, n)
           m == Len(used)
           slot(u) == IF answer[u].index \in 0..(n - 1) THEN answer[u].index + 1 ELSE 1
           worth(u) == answer[u].score + top[slot(u)].score \div share
           left == {i \in DOMAIN top : \A u \in ToSet(used) : answer[u].index # i - 1}
           f == [j \in DOMAIN used |-> [top[slot(used[j])] EXCEPT !.score = worth(used[j])]]
           b == Ascending(left, n)
           g == Among(top, left)
<1>1. n \in Nat /\ DOMAIN top = 1..n /\ (\A i \in 1..n : top[i] \in S) /\ S \subseteq Cand
  BY ElementOfSeq DEF Closed
<1>2. /\ e \in Nat /\ DOMAIN answer = 1..e
      /\ \A i \in 1..e : answer[i].index \in Int /\ answer[i].score \in Int
  <2>1. answer \in Seq([index : -1..n, score : Scores]) /\ \A i \in 1..e : answer[i].index \in Int /\ answer[i].score \in Int
    BY <1>1, AnswerIs
  <2> QED BY <2>1
<1>3. Reordered(top, answer, share) = f \o g
  BY DEF Reordered, Each
<1>4. Ascends(used, U, e)
  <2>1. used = Ascending(U, e)
    BY DEF Usable
  <2> HIDE DEF used, U, e
  <2> QED BY <1>2, <2>1, AscendingLaw
<1>5. \A i \in U : i \in 1..e /\ answer[i].index \in 0..(n - 1) /\ \A j \in 1..(i - 1) : answer[j].index # answer[i].index
  BY <1>2
<1>6. \A i \in 1..e : answer[i].index \in 0..(n - 1) /\ (\A j \in 1..(i - 1) : answer[j].index # answer[i].index) => i \in U
  BY <1>2
<1>7. \A i : i \in left <=> i \in 1..n /\ \A u \in ToSet(used) : answer[u].index # i - 1
  BY <1>1
<1>8. /\ Ascends(b, left, n) /\ g \in Seq(S) /\ Len(g) = Len(b)
      /\ \A k \in 1..Len(b) : b[k] \in left \cap (1..n) /\ g[k] = top[b[k]]
  <2> HIDE DEF left, n
  <2> QED BY AmongLaw DEF n
<1> HIDE DEF U, used, left, b, g, n, e
<1>9. /\ used \in Seq(U \cap (1..e)) /\ m \in Nat /\ DOMAIN used = 1..m
      /\ \A j \in 1..m : used[j] \in U
      /\ \A j, k \in 1..m : j < k => used[j] < used[k]
      /\ \A i \in U : \E j \in 1..m : used[j] = i
  <2>1. /\ used \in Seq(U \cap (1..e))
        /\ \A j, k \in 1..m : j < k => used[j] < used[k]
        /\ \A i \in U \cap (1..e) : \E j \in 1..m : used[j] = i
    BY <1>4 DEF Ascends
  <2>2. DOMAIN used = 1..m /\ \A j \in 1..m : used[j] \in U \cap (1..e)
    BY <2>1, ElementOfSeq
  <2>3. m \in Nat
    BY <2>1
  <2> QED BY <1>5, <2>1, <2>2, <2>3
<1>10. /\ b \in Seq(left \cap (1..n)) /\ Len(b) \in Nat
       /\ \A j, k \in 1..Len(b) : j < k => b[j] < b[k]
       /\ \A i \in left : \E k \in 1..Len(b) : b[k] = i
  <2>1. \A i \in left : i \in 1..n
    BY <1>7
  <2> QED BY <1>8, <2>1 DEF Ascends
<1> HIDE DEF m
<1> DEFINE place(j) == answer[used[j]].index + 1
<1>11. \A j \in 1..m : /\ used[j] \in 1..e /\ answer[used[j]].index \in 0..(n - 1)
                       /\ place(j) \in 1..n /\ slot(used[j]) = place(j) /\ worth(used[j]) \in Int
  <2> SUFFICES ASSUME NEW j \in 1..m
               PROVE  /\ used[j] \in 1..e /\ answer[used[j]].index \in 0..(n - 1)
                      /\ place(j) \in 1..n /\ slot(used[j]) = place(j) /\ worth(used[j]) \in Int
    OBVIOUS
  <2>1. used[j] \in 1..e /\ answer[used[j]].index \in 0..(n - 1)
    BY <1>5, <1>9
  <2>2. place(j) \in 1..n /\ slot(used[j]) = place(j)
    BY <1>1, <2>1
  <2> DEFINE x == top[slot(used[j])].score
  <2>3. x \in Int
    <3>1. top[place(j)] \in Cand
      BY <1>1, <2>2
    <3>2. \A c \in Cand : c.score \in Int
      BY DEF Cand, Record
    <3> QED BY <2>2, <3>1, <3>2
  <2> HIDE DEF x
  <2>4. x \div share \in Int
    BY <2>3
  <2>5. answer[used[j]].score \in Int
    BY <1>2, <2>1
  <2>6. worth(used[j]) \in Int
    BY <2>4, <2>5 DEF x
  <2> QED BY <2>1, <2>2, <2>6
<1> HIDE DEF worth
<1>12. f \in Seq(S) /\ Len(f) = m /\ \A j \in 1..m : KeyOf(f[j]) = KeyOf(top[place(j)])
  <2>1. ASSUME NEW j \in 1..m
        PROVE  [top[slot(used[j])] EXCEPT !.score = worth(used[j])] \in S
               /\ KeyOf([top[slot(used[j])] EXCEPT !.score = worth(used[j])]) = KeyOf(top[place(j)])
    <3> DEFINE c == top[slot(used[j])]
               x == worth(used[j])
    <3>1. c \in S /\ c \in Cand /\ x \in Int /\ c = top[place(j)]
      BY <1>1, <1>11
    <3> HIDE DEF c, x
    <3>2. [c EXCEPT !.score = x] \in S
      BY <3>1 DEF Closed
    <3>3. KeyOf([c EXCEPT !.score = x]) = KeyOf(c)
      BY <3>1, KeyKept, SMTT(60)
    <3> QED BY <3>1, <3>2, <3>3 DEF c, x
  <2> DEFINE v(j) == [top[slot(used[j])] EXCEPT !.score = worth(used[j])]
  <2>2. \A j \in 1..m : v(j) \in S /\ KeyOf(v(j)) = KeyOf(top[place(j)])
    BY <2>1
  <2>3. f = [j \in 1..m |-> v(j)]
    BY <1>9
  <2> HIDE DEF v, f, place
  <2>4. f \in Seq(S) /\ Len(f) = m
    BY <1>9, <2>2, <2>3
  <2> QED BY <2>2, <2>3, <2>4
<1>13. \A j, k \in 1..m : place(j) = place(k) => j = k
  <2>1. ASSUME NEW j \in 1..m, NEW k \in 1..m, place(j) = place(k), j < k PROVE FALSE
    <3> DEFINE x == used[j]
               y == used[k]
    <3>1. x < y /\ x \in 1..e /\ y \in 1..e /\ y \in U
      BY <1>9, <1>11, <2>1
    <3>2. answer[x].index = answer[y].index
      <4>1. answer[x].index \in Int /\ answer[y].index \in Int
        BY <1>2, <3>1
      <4> HIDE DEF x, y
      <4>2. answer[x].index + 1 = answer[y].index + 1
        BY <2>1 DEF x, y
      <4> QED BY <4>1, <4>2
    <3> HIDE DEF x, y
    <3>3. x \in 1..(y - 1)
      BY <1>2, <3>1
    <3> QED BY <1>5, <3>1, <3>2, <3>3
  <2> SUFFICES ASSUME NEW j \in 1..m, NEW k \in 1..m, place(j) = place(k), j # k PROVE FALSE
    OBVIOUS
  <2>2. j < k \/ k < j
    BY <1>9
  <2> HIDE DEF place
  <2> QED BY <2>1, <2>2
<1>14. \A i \in 1..n : i \in left \/ \E j \in 1..m : place(j) = i
  <2> SUFFICES ASSUME NEW i \in 1..n, i \notin left PROVE \E j \in 1..m : place(j) = i
    OBVIOUS
  <2>1. PICK u \in ToSet(used) : answer[u].index = i - 1
    BY <1>7
  <2>2. PICK j \in 1..m : u = used[j]
    BY <1>9, ToSetIs DEF m
  <2>3. place(j) = i
    BY <1>1, <1>11, <2>1, <2>2
  <2> QED BY <2>3
<1>15. \A j \in 1..m : place(j) \notin left
  <2> SUFFICES ASSUME NEW j \in 1..m, place(j) \in left PROVE FALSE
    OBVIOUS
  <2>1. used[j] \in ToSet(used)
    BY <1>9, ToSetIs DEF m
  <2>2. answer[used[j]].index # place(j) - 1
    BY <1>7, <2>1
  <2>3. answer[used[j]].index \in Int
    BY <1>2, <1>11
  <2> QED BY <2>2, <2>3
<1> DEFINE l == Len(b)
           t == f \o g
           p == [k \in 1..(m + l) |-> IF k <= m THEN place(k) ELSE b[k - m]]
<1>16. l \in Nat /\ Len(g) = l /\ \A k \in 1..l : b[k] \in left /\ b[k] \in 1..n /\ g[k] = top[b[k]]
  BY <1>8, <1>10
<1>17. t \in Seq(S) /\ Len(t) = m + l /\ (\A k \in 1..m : t[k] = f[k]) /\ \A k \in 1..l : t[m + k] = g[k]
  <2> HIDE DEF f, l
  <2>1. f \in Seq(S) /\ g \in Seq(S) /\ Len(f) = m /\ Len(g) = l
    BY <1>8, <1>12, <1>16
  <2>2. /\ t \in Seq(S) /\ Len(t) = Len(f) + Len(g)
        /\ \A k \in 1..Len(f) : t[k] = f[k]
        /\ \A k \in 1..Len(g) : t[Len(f) + k] = g[k]
    BY <2>1
  <2> HIDE DEF t
  <2> QED BY <2>1, <2>2
<1>170. \A j \in 1..m : place(j) \in 1..n
  BY <1>11
<1> HIDE DEF t, l, f, place
<1>18. \A k \in 1..m : k \in 1..(m + l) /\ p[k] = place(k) /\ p[k] \in 1..n
  BY <1>9, <1>16, <1>170
<1>19. \A k \in 1..l : m + k \in 1..(m + l) /\ p[m + k] = b[k] /\ p[m + k] \in 1..n
  <2> SUFFICES ASSUME NEW k \in 1..l PROVE m + k \in 1..(m + l) /\ p[m + k] = b[k] /\ p[m + k] \in 1..n
    OBVIOUS
  <2>1. m + k \in 1..(m + l) /\ ~(m + k <= m) /\ (m + k) - m = k
    BY <1>9, <1>16
  <2> QED BY <1>16, <2>1
<1>20. \A k \in 1..(m + l) : k \in 1..m \/ \E x \in 1..l : k = m + x
  <2> SUFFICES ASSUME NEW k \in 1..(m + l), ~(k \in 1..m) PROVE \E x \in 1..l : k = m + x
    OBVIOUS
  <2>1. k - m \in 1..l /\ k = m + (k - m)
    BY <1>9, <1>16
  <2> QED BY <2>1
<1>21. p \in [1..(m + l) -> 1..n]
  <2>1. \A k \in 1..(m + l) : p[k] \in 1..n
    BY <1>18, <1>19, <1>20
  <2> QED BY <2>1
<1> HIDE DEF p
<1>22. ASSUME NEW k \in 1..(m + l), NEW h \in 1..(m + l), p[k] = p[h] PROVE k = h
  <2>1. CASE k \in 1..m /\ h \in 1..m
    BY <1>13, <1>18, <1>22, <2>1
  <2>2. ASSUME NEW x \in 1..l, NEW y \in 1..l, b[x] = b[y] PROVE x = y
    <3>1. x < y \/ y < x \/ x = y
      BY <1>16
    <3>2. \A z \in 1..l : b[z] \in Int
      BY <1>16
    <3>3. \A w, z \in 1..l : w < z => b[w] < b[z]
      BY <1>10 DEF l
    <3> QED BY <2>2, <3>1, <3>2, <3>3
  <2>3. ASSUME NEW i \in 1..m, NEW y \in 1..l, place(i) = b[y] PROVE FALSE
    BY <1>15, <1>16, <2>3
  <2> QED BY <1>18, <1>19, <1>20, <1>22, <2>1, <2>2, <2>3
<1>23. ASSUME NEW i \in 1..n PROVE \E k \in 1..(m + l) : p[k] = i
  <2>1. CASE i \in left
    <3>1. PICK k \in 1..l : b[k] = i
      BY <1>10, <2>1 DEF l
    <3> QED BY <1>19, <3>1
  <2>2. CASE i \notin left
    BY <1>14, <1>18, <2>2
  <2> QED BY <2>1, <2>2
<1>24. ASSUME NEW k \in 1..(m + l) PROVE KeyOf(t[k]) = KeyOf(top[p[k]])
  <2>1. CASE k \in 1..m
    BY <1>12, <1>17, <1>18, <2>1
  <2>2. ASSUME NEW x \in 1..l, k = m + x PROVE KeyOf(t[k]) = KeyOf(top[p[k]])
    BY <1>16, <1>17, <1>19, <2>2
  <2> QED BY <1>20, <2>1, <2>2
<1>25. Pairs(p, t, top)
  BY <1>17, <1>21, <1>22, <1>23, <1>24 DEF Pairs, n
<1>26. Matches(t, top)
  BY <1>25 DEF Matches
<1> QED BY <1>3, <1>17, <1>26 DEF t

\* A sequence is its first n elements and the rest.
LEMMA Split ==
  ASSUME NEW S, NEW s \in Seq(S), NEW n \in Nat
  PROVE  /\ First(s, n) \in Seq(S) /\ Len(First(s, n)) \in 0..Len(s)
         /\ SubSeq(s, Len(First(s, n)) + 1, Len(s)) \in Seq(S)
         /\ s = First(s, n) \o SubSeq(s, Len(First(s, n)) + 1, Len(s))
<1> DEFINE a == First(s, n)
           m == Len(a)
           b == SubSeq(s, m + 1, Len(s))
<1>1. a \in Seq(S) /\ m \in 0..Len(s) /\ \A k \in 1..m : a[k] = s[k]
  <2>1. /\ a \in Seq(S) /\ Len(a) = IF n < 0 THEN 0 ELSE IF n < Len(s) THEN n ELSE Len(s)
        /\ \A k \in 1..Len(a) : k \in 1..Len(s) /\ a[k] = s[k]
    BY FirstLaw
  <2> HIDE DEF a
  <2> DEFINE l == Len(s)
  <2>2. l \in Nat
    OBVIOUS
  <2> HIDE DEF l
  <2>3. m \in 0..l
    BY <2>1, <2>2 DEF l
  <2> QED BY <2>1, <2>3 DEF l
<1> HIDE DEF a, m
<1>2. b \in Seq(S) /\ Len(b) = Len(s) - m /\ \A k \in 1..(Len(s) - m) : b[k] = s[m + k]
  BY <1>1
<1> HIDE DEF b
<1>3. /\ a \o b \in Seq(S) /\ Len(a \o b) = Len(s)
      /\ \A k \in 1..Len(s) : (a \o b)[k] = IF k <= m THEN a[k] ELSE b[k - m]
  BY <1>1, <1>2 DEF m
<1> DEFINE t == a \o b
<1>4. \A k \in 1..Len(s) : t[k] = s[k]
  <2> SUFFICES ASSUME NEW k \in 1..Len(s) PROVE t[k] = s[k]
    OBVIOUS
  <2>1. CASE k <= m
    <3>1. k \in 1..m
      BY <1>1, <2>1
    <3> QED BY <1>1, <1>3, <2>1, <3>1
  <2>2. CASE ~(k <= m)
    <3>1. k - m \in 1..(Len(s) - m) /\ m + (k - m) = k
      BY <1>1, <2>2
    <3> QED BY <1>2, <1>3, <2>2, <3>1
  <2> QED BY <2>1, <2>2
<1>5. t \in Seq(S) /\ Len(t) = Len(s)
  BY <1>3
<1> HIDE DEF t
<1>6. s = t
  BY <1>4, <1>5, SeqEqual
<1> QED BY <1>1, <1>2, <1>6 DEF t, b, m, a

\* The first candidates are reordered, the others stay.
LEMMA QwenRankLaw ==
  ASSUME NEW S, Closed(S), NEW ranked \in Seq(S), NEW answer \in Answers(Len(First(ranked, RerankTop)))
  PROVE  QwenRank(ranked, answer) \in Seq(S) /\ Matches(QwenRank(ranked, answer), ranked)
<1> DEFINE a == First(ranked, RerankTop)
           b == SubSeq(ranked, Len(a) + 1, Len(ranked))
           r == Reordered(a, answer, 1)
<1>1. a \in Seq(S) /\ b \in Seq(S) /\ ranked = a \o b
  BY RerankAssumption, Split
<1>2. answer \in Answers(Len(a))
  OBVIOUS
<1>3. QwenRank(ranked, answer) = r \o b
  BY DEF QwenRank
<1> HIDE DEF a, b
<1>4. r \in Seq(S) /\ Matches(r, a)
  BY <1>1, <1>2, ReorderedLaw
<1> HIDE DEF r
<1>5. Matches(b, b)
  BY <1>1, MatchesSelf
<1>6. Matches(r \o b, a \o b)
  BY <1>1, <1>4, <1>5, MatchesParts
<1>7. r \o b \in Seq(S)
  BY <1>1, <1>4
<1> QED BY <1>1, <1>3, <1>6, <1>7

\* A batch is reordered behind those before it, and the others wait.
LEMMA BatchLaw ==
  ASSUME NEW S, Closed(S), NEW ranked \in Seq(S), NEW pool \in Seq(S),
         NEW answer \in Answers(Len(First(pool, RerankTop)))
  PROVE  LET next == ranked \o RerankBatch(First(pool, RerankTop), answer)
             rest == SubSeq(pool, Len(First(pool, RerankTop)) + 1, Len(pool))
         IN  next \in Seq(S) /\ rest \in Seq(S) /\ Matches(next \o rest, ranked \o pool)
<1> DEFINE a == First(pool, RerankTop)
           b == SubSeq(pool, Len(a) + 1, Len(pool))
           r == Reordered(a, answer, 100)
<1>1. a \in Seq(S) /\ b \in Seq(S) /\ pool = a \o b
  BY RerankAssumption, Split
<1>2. answer \in Answers(Len(a))
  OBVIOUS
<1>3. RerankBatch(a, answer) = r
  BY DEF RerankBatch
<1> HIDE DEF a, b
<1>4. r \in Seq(S) /\ Matches(r, a)
  BY <1>1, <1>2, ReorderedLaw
<1> HIDE DEF r
<1>5. Matches(b, b) /\ Matches(ranked, ranked)
  BY <1>1, MatchesSelf
<1>6. Matches(ranked \o r, ranked \o a) /\ ranked \o r \in Seq(S) /\ ranked \o a \in Seq(S)
  BY <1>1, <1>4, <1>5, MatchesParts
<1>7. Matches((ranked \o r) \o b, (ranked \o a) \o b)
  BY <1>1, <1>5, <1>6, MatchesParts
<1>8. (ranked \o a) \o b = ranked \o pool
  <2>1. (ranked \o a) \o b = ranked \o (a \o b)
    BY <1>1, ConcatAssociative, SMTT(60)
  <2> QED BY <1>1, <2>1
<1> QED BY <1>1, <1>3, <1>6, <1>7, <1>8 DEF a, b

\* candidates, whatever their score, their hits and their unit
Spread(S) == Rankable(S) /\ \A c \in S : \A k \in Nat : [c EXCEPT !.unit = k] \in S

\* Scores, hits and units may change, a candidate is one still.
LEMMA CandIsClosed == Closed(Cand) /\ Rankable(Cand) /\ Spread(Cand)
<1>1. ASSUME NEW c \in Cand, NEW n \in Int PROVE [c EXCEPT !.score = n] \in Cand
  BY DEF Cand, Record
<1>2. ASSUME NEW c \in Cand, NEW h \in Seq(Hit) PROVE [c EXCEPT !.hits = h] \in Cand
  BY DEF Cand, Record
<1>3. ASSUME NEW c \in Cand, NEW k \in Nat PROVE [c EXCEPT !.unit = k] \in Cand
  BY DEF Cand, Record
<1> QED BY <1>1, <1>2, <1>3 DEF Closed, Rankable, Spread

\* So it is with a document, of a kind the index has.
LEMMA DocIsIndexed == Indexed(Doc)
<1>1. ASSUME NEW c \in Doc, NEW n \in Int PROVE [c EXCEPT !.score = n] \in Doc
  <2>1. [c EXCEPT !.score = n] \in Cand
    BY CandIsClosed DEF Closed, Doc
  <2>2. c \in Record
    BY DEF Doc, Cand
  <2>3. /\ [c EXCEPT !.score = n].kind = c.kind /\ [c EXCEPT !.score = n].reasons = c.reasons
        /\ [c EXCEPT !.score = n].depth = c.depth
    BY <2>2 DEF Record
  <2> DEFINE d == [c EXCEPT !.score = n]
  <2> HIDE DEF d
  <2>4. d \in Doc
    BY <2>1, <2>3 DEF Doc, d
  <2> QED BY <2>4 DEF d
<1> QED BY <1>1 DEF Indexed, Closed, Doc

\* The units a document is split into are of its kind, path and symbol.
LEMMA UnitsIs ==
  ASSUME NEW S, Spread(S), NEW d \in S
  PROVE  UnitsOf(d) \in Seq(S)
<1> DEFINE n == IF d.kind = "file" THEN Chunks ELSE 1
           u(k) == [d EXCEPT !.unit = k]
<1>1. n \in Nat
  BY RerankAssumption
<1>2. \A k \in 1..n : u(k) \in S
  <2> HIDE DEF n
  <2> QED BY DEF Spread
<1>3. UnitsOf(d) = [k \in 1..n |-> u(k)]
  BY DEF UnitsOf
<1> HIDE DEF n, u
<1> QED BY <1>1, <1>2, <1>3

\* The similarity of a unit to the query is a number.
LEMMA SimilarityIs ==
  ASSUME NEW u \in Cand, NEW ask, IsQuery(ask)
  PROVE  Similarity(u, ask) \in Int
<1> DEFINE m == Cardinality({t \in ToSet(Tokens(ask)) : \E w \in u.text : Has(t, <<w>>)})
<1>1. m \in 0..Len(Tokens(ask)) /\ Len(Tokens(ask)) \in Nat
  <2>1. Tokens(ask) \in Seq(Segment)
    BY TokensIs
  <2>2. m \in 0..Len(Tokens(ask))
    BY <2>1, ToSetIs
  <2> HIDE DEF m
  <2> QED BY <2>1, <2>2
<1>2. u.unit \in Nat
  BY DEF Cand, Record
<1>3. Similarity(u, ask) = 10 * m + 1 - u.unit
  BY DEF Similarity
<1> HIDE DEF m
<1> QED BY <1>1, <1>2, <1>3

\* The embeddings answer with documents of the index they are asked.
LEMMA QueryEmbeddingsIs ==
  ASSUME NEW S, Spread(S), NEW index \in Seq(S), NEW ask, IsQuery(ask), NEW quota \in Int
  PROVE  QueryEmbeddings(index, ask, quota) \in Seq(S)
<1> DEFINE us == [i \in DOMAIN index |-> UnitsOf(index[i])]
           flat == FlattenSeq(us)
           rated == [i \in DOMAIN flat |-> [flat[i] EXCEPT !.score = Similarity(flat[i], ask)]]
           I == {i \in DOMAIN rated : rated[i].score > 0}
           kept == Among(rated, I)
<1>1. us \in Seq(Seq(S))
  <2>1. \A i \in DOMAIN index : UnitsOf(index[i]) \in Seq(S)
    BY UnitsIs
  <2> QED BY <2>1
<1>2. flat \in Seq(S)
  <2> HIDE DEF us
  <2> QED BY <1>1, FlattenLaw
<1>3. rated \in Seq(S)
  <2> HIDE DEF flat
  <2>1. ASSUME NEW i \in DOMAIN flat PROVE [flat[i] EXCEPT !.score = Similarity(flat[i], ask)] \in S
    <3> DEFINE c == flat[i]
               n == Similarity(c, ask)
    <3>1. c \in S
      BY <1>2
    <3>2. n \in Int
      <4>1. c \in Cand
        BY <3>1 DEF Spread, Rankable, Closed
      <4> HIDE DEF c
      <4> QED BY <4>1, SimilarityIs
    <3> HIDE DEF c, n
    <3>3. [c EXCEPT !.score = n] \in S
      BY <3>1, <3>2 DEF Spread, Rankable, Closed
    <3> QED BY <3>3 DEF c, n
  <2> QED BY <1>2, <2>1
<1>4. QueryEmbeddings(index, ask, quota) = First(MaxP(kept), quota)
  <2>1. Each(index, UnitsOf) = us
    BY DEF Each
  <2>2. Each(flat, LAMBDA u : [u EXCEPT !.score = Similarity(u, ask)]) = rated
    BY DEF Each
  <2>3. Where(rated, LAMBDA u : u.score > 0) = kept
    BY <1>3, OnceIs DEF Where
  <2> HIDE DEF rated, I, kept, us
  <2> QED BY <2>1, <2>2, <2>3 DEF QueryEmbeddings
<1> HIDE DEF rated, I
<1>5. kept \in Seq(S)
  BY <1>3, AmongIs
<1> HIDE DEF kept
<1>6. MaxP(kept) \in Seq(S)
  BY <1>5, MaxPLaw DEF Spread
<1> QED BY <1>4, <1>6, FirstIs

-----------------------------------------------------------------------------
(* The units of the paper pipeline.                                        *)

\* The embedding score of a source is a number.
LEMMA SourceEmbeddingIs ==
  ASSUME NEW found \in Seq(Cand), NEW source
  PROVE  SourceEmbedding(found, source) \in Int
<1> DEFINE I == {j \in DOMAIN found : source \in {Source(found[j]), <<"path", found[j].path>>}}
           known == {found[i].score : i \in I}
<1>1. \A i \in 1..Len(found) : found[i].score \in Int
  <2>1. \A c \in Cand : c.score \in Int
    BY DEF Cand, Record
  <2> QED BY <2>1, ElementOfSeq
<1>2. PICK b \in Int : \A i \in 1..Len(found) : found[i].score <= b
  <2> DEFINE f == [i \in 1..Len(found) |-> found[i].score]
             n == Len(found)
  <2>1. n \in Nat /\ \A i \in 1..n : f[i] \in Int
    BY <1>1
  <2>2. \A i \in 1..n : f[i] = found[i].score
    OBVIOUS
  <2> HIDE DEF f, n
  <2>3. \E b \in Int : \A i \in 1..n : f[i] <= b
    BY <2>1, Bounded
  <2> QED BY <2>2, <2>3 DEF n
<1>3. known \in SUBSET Int /\ \A x \in known : x <= b
  <2>1. \A i \in I : i \in 1..Len(found)
    OBVIOUS
  <2> HIDE DEF I
  <2> QED BY <1>1, <1>2, <2>1
<1>4. SourceEmbedding(found, source) = IF known = {} THEN 0 ELSE CHOOSE s \in known : \A r \in known : r <= s
  BY DEF SourceEmbedding
<1> HIDE DEF known
<1>5. CASE known = {}
  BY <1>4, <1>5
<1>6. CASE known # {}
  <2>1. \E s \in known : \A r \in known : r <= s
    BY <1>3, <1>6, Greatest
  <2> QED BY <1>3, <1>4, <1>6, <2>1
<1> QED BY <1>5, <1>6

\* The boost of a query that is a name or path (exact_query_boost) is a number.
LEMMA ExactBoostIs ==
  ASSUME NEW ask, NEW d
  PROVE  ExactBoost(ask, d) \in Int
<1> DEFINE points(f) == IF Tokens(ask) = Lowered(f) THEN 8000 ELSE IF Has(Tokens(ask)[1], f) THEN 1200 ELSE 0
<1>1. \A f : points(f) \in Int
  OBVIOUS
<1>2. ExactBoost(ask, d)
        = IF Len(Tokens(ask)) # 1 THEN 0 ELSE points(d.qname) + points(<<d.name>>) + points(d.path) + points(Title(d))
  BY DEF ExactBoost
<1> HIDE DEF points
<1> QED BY <1>1, <1>2

\* The score of a unit before the reranking is a number.
LEMMA UnitScoreIs ==
  ASSUME NEW ask, IsQuery(ask), NEW found \in Seq(Cand), NEW u \in Cand, NEW rank \in Int
  PROVE  UnitScore(ask, found, u, rank) \in Int
<1> DEFINE hit == \E i \in DOMAIN found : \E h \in ToSet(found[i].hits) : h.pos = u.pos /\ h.unit = u.unit
           a == SourceEmbedding(found, Source(u))
           b == TermsPoints(Tokens(ask), u, <<300, 300, 300, 300, 300>>)
           c == ExactBoost(ask, u)
           d == If(hit, 200)
<1>1. a \in Int
  BY SourceEmbeddingIs
<1>2. b \in Int
  <2> DEFINE points == <<300, 300, 300, 300, 300>>
  <2>1. points[1] \in Int /\ points[2] \in Int /\ points[3] \in Int /\ points[4] \in Int /\ points[5] \in Int
    OBVIOUS
  <2> HIDE DEF points
  <2>2. Tokens(ask) \in Seq(Segment)
    BY TokensIs
  <2>3. TermsPoints(Tokens(ask), u, points) \in Int
    BY <2>1, <2>2, TermsPointsIs
  <2> QED BY <2>3 DEF points
<1>3. c \in Int
  BY ExactBoostIs
<1>4. d \in Int
  BY DEF If
<1>5. u.score \in Int
  BY DEF Cand, Record
<1>6. UnitScore(ask, found, u, rank) = u.score + 40 * a + b + c + d - rank
  BY DEF UnitScore
<1> HIDE DEF a, b, c, d
<1> QED BY <1>1, <1>2, <1>3, <1>4, <1>5, <1>6

\* The cap of units by path (select_diverse_units) leaves some of the units.
LEMMA CappedIs ==
  ASSUME NEW S, NEW units \in Seq(S), NEW byPath
  PROVE  Capped(units, byPath) \in Seq(S)
BY AmongIs DEF Capped

\* The units of the paper pipeline (build_unit_candidates) are those of documents that were found.
LEMMA UnitCandidatesIs ==
  ASSUME NEW ask, IsQuery(ask), NEW lexical \in Seq(Cand), NEW found \in Seq(Cand)
  PROVE  UnitCandidates(ask, lexical, found) \in Seq(Cand)
<1> DEFINE rated(i) == LET us == UnitsOf(lexical[i]) IN
                        [k \in DOMAIN us |-> [us[k] EXCEPT !.score = UnitScore(ask, found, us[k], i)]]
           ss == [i \in DOMAIN lexical |-> rated(i)]
<1>1. UnitCandidates(ask, lexical, found) = Capped(FlattenSeq(ss), FALSE)
  BY DEF UnitCandidates, Each
<1>2. ASSUME NEW i \in DOMAIN lexical PROVE rated(i) \in Seq(Cand)
  <2> DEFINE us == UnitsOf(lexical[i])
             v(k) == [us[k] EXCEPT !.score = UnitScore(ask, found, us[k], i)]
  <2>1. lexical[i] \in Cand /\ i \in Int
    OBVIOUS
  <2>2. us \in Seq(Cand)
    BY <2>1, CandIsClosed, UnitsIs
  <2> HIDE DEF us
  <2>3. ASSUME NEW k \in DOMAIN us PROVE v(k) \in Cand
    <3> DEFINE c == us[k]
               n == UnitScore(ask, found, c, i)
    <3>1. c \in Cand
      BY <2>2
    <3> HIDE DEF c
    <3>2. n \in Int
      BY <2>1, <3>1, UnitScoreIs
    <3> HIDE DEF n
    <3>3. [c EXCEPT !.score = n] \in Cand
      BY <3>1, <3>2, CandIsClosed DEF Closed
    <3> QED BY <3>3 DEF c, n
  <2>4. rated(i) = [k \in DOMAIN us |-> v(k)]
    BY DEF us
  <2> HIDE DEF v, rated
  <2> QED BY <2>2, <2>3, <2>4
<1> HIDE DEF rated
<1>3. ss \in Seq(Seq(Cand))
  BY <1>2
<1> HIDE DEF ss
<1>4. FlattenSeq(ss) \in Seq(Cand)
  BY <1>3, FlattenLaw
<1> QED BY <1>1, <1>4, CappedIs

\* The units sent to the service are some of them.
LEMMA PreRankedIs ==
  ASSUME NEW S, NEW units \in Seq(S), NEW pool \in Int
  PROVE  PreRanked(units, pool) \in Seq(S)
<1>1. Sort(units, ByScore) \in Seq(S)
  BY ByScoreSort
<1>2. Capped(Sort(units, ByScore), TRUE) \in Seq(S)
  BY <1>1, CappedIs
<1> QED BY <1>2, FirstIs DEF PreRanked

\* How many elements of s at the positions I are in T.
CountIn(s, I, T) == Cardinality({i \in I : s[i] \in T})

\* What is taken of a sequence is as often there as in the sequence.
LEMMA AmongCount ==
  ASSUME NEW S, NEW s \in Seq(S), NEW I \in SUBSET (1..Len(s)), NEW T
  PROVE  CountIn(Among(s, I), 1..Len(Among(s, I)), T) = CountIn(s, I, T)
<1> DEFINE a == Ascending(I, Len(s))
           t == Among(s, I)
           A == {k \in 1..Len(t) : t[k] \in T}
           B == {i \in I : s[i] \in T}
           f == [k \in A |-> a[k]]
<1>1. /\ Ascends(a, I, Len(s)) /\ t \in Seq(S) /\ Len(t) = Len(a)
      /\ \A k \in 1..Len(a) : a[k] \in I \cap (1..Len(s)) /\ t[k] = s[a[k]]
  BY AmongLaw
<1> HIDE DEF a, t
<1>2. /\ a \in Seq(I \cap (1..Len(s))) /\ Len(a) \in Nat
      /\ \A p, r \in 1..Len(a) : p < r => a[p] < a[r]
      /\ \A i \in I \cap (1..Len(s)) : \E p \in 1..Len(a) : a[p] = i
  BY <1>1 DEF Ascends
<1>3. \A p, r \in 1..Len(a) : a[p] = a[r] => p = r
  <2> SUFFICES ASSUME NEW p \in 1..Len(a), NEW r \in 1..Len(a), a[p] = a[r], p # r PROVE FALSE
    OBVIOUS
  <2>1. a[p] \in Int /\ a[r] \in Int
    BY <1>1
  <2>2. p < r \/ r < p
    BY <1>2
  <2>3. a[p] < a[r] \/ a[r] < a[p]
    BY <1>2, <2>2
  <2> QED BY <2>1, <2>3
<1>4. \A k : k \in A <=> k \in 1..Len(a) /\ s[a[k]] \in T
  BY <1>1
<1>5. \A i : i \in B <=> i \in I /\ s[i] \in T
  OBVIOUS
<1>6. f \in [A -> B]
  <2>1. \A k \in A : a[k] \in B
    <3> HIDE DEF A, B
    <3> QED BY <1>1, <1>4, <1>5
  <2> HIDE DEF A, B
  <2> QED BY <2>1
<1>7. \A k, l \in A : f[k] = f[l] => k = l
  <2> HIDE DEF A
  <2> QED BY <1>3, <1>4
<1>8. \A i \in B : \E k \in A : f[k] = i
  <2> SUFFICES ASSUME NEW i \in B PROVE \E k \in A : f[k] = i
    OBVIOUS
  <2>1. i \in I \cap (1..Len(s)) /\ s[i] \in T
    BY <1>5
  <2>2. PICK k \in 1..Len(a) : a[k] = i
    BY <1>2, <2>1
  <2> HIDE DEF A
  <2>3. k \in A
    BY <1>4, <2>1, <2>2
  <2> QED BY <2>2, <2>3
<1> HIDE DEF A, B, f
<1>9. f \in Bijection(A, B)
  BY <1>6, <1>7, <1>8 DEF Bijection, Injection, Surjection, IsInjective
<1>10. ExistsBijection(A, B)
  BY <1>9 DEF ExistsBijection
<1>11. IsFiniteSet(A)
  <2>1. A \in SUBSET (1..Len(a))
    BY <1>4
  <2>2. IsFiniteSet(1..Len(a))
    BY <1>2, Numbers
  <2> QED BY <2>1, <2>2, FS_Subset
<1>12. IsFiniteSet(B) /\ Cardinality(B) = Cardinality(A)
  BY <1>10, <1>11, FS_Bijection
<1> QED BY <1>12 DEF A, B, t, CountIn

\* A sequence without repetition has as many elements as its set.
Values(f, n) == {f[k] : k \in 1..n}
\* A sequence without repetition has as many elements as values.
LEMMA DistinctCount ==
  ASSUME NEW n \in Nat, NEW f, \A k, l \in 1..n : f[k] = f[l] => k = l
  PROVE  Cardinality(Values(f, n)) = n
<1> DEFINE A == {f[k] : k \in 1..n}
           g == [k \in 1..n |-> f[k]]
<1>1. g \in Bijection(1..n, A)
  <2>1. g \in [1..n -> A] /\ (\A k, l \in 1..n : g[k] = g[l] => k = l) /\ \A x \in A : \E k \in 1..n : g[k] = x
    OBVIOUS
  <2> HIDE DEF g, A
  <2> QED BY <2>1 DEF Bijection, Injection, Surjection, IsInjective
<1> HIDE DEF g, A
<1>2. ExistsBijection(1..n, A)
  BY <1>1 DEF ExistsBijection
<1>3. IsFiniteSet(1..n) /\ Cardinality(1..n) = n
  BY Numbers
<1>4. IsFiniteSet(A) /\ Cardinality(A) = n
  BY <1>2, <1>3, FS_Bijection
<1> QED BY <1>4 DEF A, Values

\* What SourcesByBestUnit says of the units and of what is selected.
BestSources(ranked, selected, quota) ==
  LET sources == {Source(u) : u \in ToSet(ranked)}
      scores(s) == [i \in {j \in DOMAIN ranked : Source(ranked[j]) = s} |-> ranked[i].score]
      best(s) == CHOOSE n \in {scores(s)[i] : i \in DOMAIN scores(s)} : \A i \in DOMAIN scores(s) : scores(s)[i] <= n
      shown   == {Source(c) : c \in ToSet(selected)}
  IN  /\ Len(selected) = IF Cardinality(sources) < quota THEN Cardinality(sources) ELSE quota
      /\ Cardinality(shown) = Len(selected) /\ shown \subseteq sources
      /\ \A c \in ToSet(selected) :
           /\ c.score = best(Source(c))
           /\ Len(c.hits) = IF Cardinality(DOMAIN scores(Source(c))) < 3 THEN Cardinality(DOMAIN scores(Source(c))) ELSE 3
           /\ \A h \in ToSet(c.hits) :
                Cardinality({i \in DOMAIN scores(Source(c)) : scores(Source(c))[i] > h.score}) < 3
      /\ \A s \in sources \ shown, c \in ToSet(selected) : best(s) <= c.score

\* The first sources that aggregate_units_maxp answers with are the best ones.
LEMMA BestSourcesLaw ==
  ASSUME NEW ranked \in Seq(Cand), NEW quota \in Nat, NEW m, m = MaxP(ranked)
  PROVE  BestSources(ranked, First(m, quota), quota)
<1> DEFINE selected == First(m, quota)
           sources == {Source(u) : u \in ToSet(ranked)}
           J(s) == {j \in DOMAIN ranked : Source(ranked[j]) = s}
           scores(s) == [i \in J(s) |-> ranked[i].score]
           best(s) == CHOOSE n \in {scores(s)[i] : i \in DOMAIN scores(s)} : \A i \in DOMAIN scores(s) : scores(s)[i] <= n
           shown == {Source(c) : c \in ToSet(selected)}
           n == Len(m)
           w == Len(selected)
<1>1. /\ m \in Seq(Cand)
      /\ \A k, l \in 1..n : k < l => m[k].score >= m[l].score
      /\ \A k, l \in 1..n : Source(m[k]) = Source(m[l]) => k = l
      /\ \A i \in 1..Len(ranked) : \E k \in 1..n : Source(m[k]) = Source(ranked[i])
      /\ \A k \in 1..n : BestOfSource(m[k], ranked)
  BY CandIsClosed, MaxPLaw
<1>2. n \in Nat /\ \A k \in 1..n : m[k] \in Cand
  BY <1>1, ElementOfSeq
<1>3. /\ selected \in Seq(Cand) /\ w = IF quota < n THEN quota ELSE n
      /\ \A k \in 1..w : k \in 1..n /\ selected[k] = m[k]
  <2>1. /\ selected \in Seq(Cand)
        /\ w = IF quota < 0 THEN 0 ELSE IF quota < n THEN quota ELSE n
        /\ \A k \in 1..w : k \in 1..n /\ selected[k] = m[k]
    BY <1>1, FirstLaw
  <2> HIDE DEF selected, w, n
  <2> QED BY <2>1
<1> HIDE DEF selected, n
<1>4. \A c : c \in ToSet(selected) <=> \E k \in 1..w : c = m[k]
  <2>1. \A c : c \in ToSet(selected) <=> \E k \in 1..w : c = selected[k]
    BY <1>3, ToSetIs
  <2> QED BY <1>3, <2>1
<1>5. w \in Nat
  BY <1>2, <1>3
<1> HIDE DEF w
<1>6. \A u : u \in ToSet(ranked) <=> \E i \in 1..Len(ranked) : u = ranked[i]
  BY ToSetIs
<1>7. sources = {Source(m[k]) : k \in 1..n}
  <2>1. ASSUME NEW u \in ToSet(ranked) PROVE \E k \in 1..n : Source(m[k]) = Source(u)
    BY <1>1, <1>6
  <2>2. ASSUME NEW k \in 1..n PROVE \E u \in ToSet(ranked) : Source(u) = Source(m[k])
    <3>1. PICK i \in 1..Len(ranked) : Source(ranked[i]) = Source(m[k])
      BY <1>1 DEF BestOfSource
    <3> QED BY <1>6, <3>1
  <2> QED BY <2>1, <2>2
<1>8. shown = {Source(m[k]) : k \in 1..w}
  BY <1>4
<1>9. Cardinality(sources) = n
  <2> DEFINE f == [k \in 1..n |-> Source(m[k])]
  <2>1. \A k, l \in 1..n : f[k] = f[l] => k = l
    BY <1>1
  <2>2. Values(f, n) = {Source(m[k]) : k \in 1..n}
    BY DEF Values
  <2> HIDE DEF f
  <2>3. Cardinality(Values(f, n)) = n
    BY <1>2, <2>1, DistinctCount
  <2> QED BY <1>7, <2>2, <2>3
<1>10. Cardinality(shown) = w
  <2> DEFINE f == [k \in 1..w |-> Source(m[k])]
  <2>1. \A k, l \in 1..w : f[k] = f[l] => k = l
    BY <1>1, <1>3
  <2>2. Values(f, w) = {Source(m[k]) : k \in 1..w}
    BY DEF Values
  <2> HIDE DEF f
  <2>3. Cardinality(Values(f, w)) = w
    BY <1>5, <2>1, DistinctCount
  <2> QED BY <1>8, <2>2, <2>3
<1>11. shown \subseteq sources
  <2> HIDE DEF shown, sources
  <2> QED BY <1>3, <1>7, <1>8
<1>12. \A k \in 1..n : /\ m[k].score \in Int
                       /\ \E i \in J(Source(m[k])) : ranked[i].score = m[k].score
                       /\ \A i \in J(Source(m[k])) : ranked[i].score <= m[k].score
  <2> SUFFICES ASSUME NEW k \in 1..n
               PROVE  /\ m[k].score \in Int
                      /\ \E i \in J(Source(m[k])) : ranked[i].score = m[k].score
                      /\ \A i \in J(Source(m[k])) : ranked[i].score <= m[k].score
    OBVIOUS
  <2>1. m[k].score \in Int
    BY <1>2 DEF Cand, Record
  <2>2. DOMAIN ranked = 1..Len(ranked)
    OBVIOUS
  <2> QED BY <1>1, <2>1, <2>2 DEF BestOfSource
<1>13. \A i \in 1..Len(ranked) : ranked[i].score \in Int
  <2>1. \A c \in Cand : c.score \in Int
    BY DEF Cand, Record
  <2> QED BY <2>1, ElementOfSeq
<1>14. \A s : \A i : i \in J(s) <=> i \in 1..Len(ranked) /\ Source(ranked[i]) = s
  OBVIOUS
<1>15. \A s : DOMAIN scores(s) = J(s) /\ \A i \in J(s) : scores(s)[i] = ranked[i].score
  OBVIOUS
<1> HIDE DEF J
<1>16. \A k \in 1..n : best(Source(m[k])) = m[k].score
  <2> SUFFICES ASSUME NEW k \in 1..n PROVE best(Source(m[k])) = m[k].score
    OBVIOUS
  <2> DEFINE s == Source(m[k])
             C == {scores(s)[i] : i \in DOMAIN scores(s)}
             x == m[k].score
  <2>1. x \in C /\ (\A y \in C : y <= x /\ y \in Int) /\ \A y \in C : \E i \in J(s) : y = scores(s)[i]
    <3>1. \A i \in J(s) : scores(s)[i] = ranked[i].score /\ ranked[i].score \in Int
      BY <1>13, <1>14
    <3>2. DOMAIN scores(s) = J(s)
      OBVIOUS
    <3> HIDE DEF scores
    <3> QED BY <1>12, <3>1, <3>2
  <2>2. \A i \in DOMAIN scores(s) : scores(s)[i] \in C
    OBVIOUS
  <2>3. best(s) = CHOOSE y \in C : \A i \in DOMAIN scores(s) : scores(s)[i] <= y
    OBVIOUS
  <2> DEFINE D == {y \in C : \A i \in DOMAIN scores(s) : scores(s)[i] <= y}
             P(y) == y \in C /\ \A i \in DOMAIN scores(s) : scores(s)[i] <= y
  <2>4. P(x)
    BY <2>1, <2>2
  <2>5. \A y : P(y) => y = x
    <3> SUFFICES ASSUME NEW y, P(y) PROVE y = x
      OBVIOUS
    <3>1. y <= x /\ y \in Int /\ x \in Int
      BY <2>1
    <3>2. x <= y
      <4>1. PICK i \in J(s) : x = scores(s)[i]
        BY <2>1
      <4>2. i \in DOMAIN scores(s)
        OBVIOUS
      <4> HIDE DEF scores, C, s, x
      <4> QED BY <4>1, <4>2
    <3> HIDE DEF x, P
    <3> QED BY <3>1, <3>2
  <2>6. best(s) = CHOOSE y : P(y)
    BY <2>3
  <2> HIDE DEF P, best, x
  <2> QED BY <2>4, <2>5, <2>6 DEF x
<1>17. \A k \in 1..n : /\ Len(m[k].hits) = IF Cardinality(J(Source(m[k]))) < 3 THEN Cardinality(J(Source(m[k]))) ELSE 3
                       /\ \A h \in ToSet(m[k].hits) :
                            Cardinality({i \in J(Source(m[k])) : ranked[i].score > h.score}) < 3
  <2> SUFFICES ASSUME NEW k \in 1..n
               PROVE  /\ Len(m[k].hits) = IF Cardinality(J(Source(m[k]))) < 3 THEN Cardinality(J(Source(m[k]))) ELSE 3
                      /\ \A h \in ToSet(m[k].hits) :
                           Cardinality({i \in J(Source(m[k])) : ranked[i].score > h.score}) < 3
    OBVIOUS
  <2> DEFINE c == m[k]
             I == J(Source(c))
             us == Of(ranked, Source(c))
  <2>1. c \in Cand /\ HitsOfBest(c.hits, us, Len(us))
    BY <1>1, <1>2 DEF BestOfSource
  <2>2. us = Among(ranked, I)
    BY DEF Of, J
  <2>3. I \in SUBSET (1..Len(ranked))
    BY <1>14
  <2> HIDE DEF I, us, c
  <2>4. us \in Seq(Cand) /\ Len(us) \in Nat
    <3>1. us \in Seq(Cand)
      BY <2>2, AmongIs
    <3> QED BY <3>1
  <2>5. ASSUME NEW T PROVE Cardinality({j \in 1..Len(us) : us[j] \in T}) = Cardinality({i \in I : ranked[i] \in T})
    <3>1. CountIn(us, 1..Len(us), T) = CountIn(ranked, I, T)
      BY <2>2, <2>3, AmongCount
    <3> QED BY <3>1 DEF CountIn
  <2>6. Len(us) = Cardinality(I)
    <3>1. {j \in 1..Len(us) : us[j] \in Cand} = 1..Len(us)
      BY <2>4, ElementOfSeq
    <3>2. {i \in I : ranked[i] \in Cand} = I
      BY <2>3, ElementOfSeq
    <3>3. Cardinality(1..Len(us)) = Len(us)
      BY <2>4, Numbers
    <3> QED BY <2>5, <3>1, <3>2, <3>3
  <2>7. Len(c.hits) = IF Cardinality(I) < 3 THEN Cardinality(I) ELSE 3
    BY <2>1, <2>6 DEF HitsOfBest
  <2>8. ASSUME NEW h \in ToSet(c.hits) PROVE Cardinality({i \in I : ranked[i].score > h.score}) < 3
    <3> DEFINE T == {d \in Cand : d.score > h.score}
    <3>0. Cand \in SUBSET Cand
      OBVIOUS
    <3>1. Cardinality({j \in 1..Len(us) : us[j].score > h.score}) < 3
      BY <2>1, <2>4, <3>0, HitsAreBest
    <3>2. {j \in 1..Len(us) : us[j] \in T} = {j \in 1..Len(us) : us[j].score > h.score}
      BY <2>4, ElementOfSeq
    <3>3. {i \in I : ranked[i] \in T} = {i \in I : ranked[i].score > h.score}
      BY <2>3, ElementOfSeq
    <3> HIDE DEF T
    <3>4. Cardinality({j \in 1..Len(us) : us[j] \in T}) = Cardinality({i \in I : ranked[i] \in T})
      BY <2>5
    <3> QED BY <3>1, <3>2, <3>3, <3>4
  <2> QED BY <2>7, <2>8 DEF I, c
<1>18. ASSUME NEW s \in sources \ shown, NEW c \in ToSet(selected) PROVE best(s) <= c.score
  <2>1. PICK k \in 1..n : s = Source(m[k])
    <3> HIDE DEF sources, shown
    <3> QED BY <1>7
  <2>2. PICK l \in 1..w : c = m[l]
    BY <1>4
  <2>3. ~(k \in 1..w)
    <3> HIDE DEF sources, shown
    <3> QED BY <1>8, <2>1
  <2>4. l < k /\ l \in 1..n
    BY <1>2, <1>3, <1>5, <2>3
  <2>5. m[l].score >= m[k].score /\ m[l].score \in Int /\ m[k].score \in Int
    BY <1>1, <1>12, <2>4
  <2> HIDE DEF best
  <2> QED BY <1>16, <2>1, <2>2, <2>5
<1>19. w = IF Cardinality(sources) < quota THEN Cardinality(sources) ELSE quota
  <2> HIDE DEF sources
  <2> QED BY <1>2, <1>3, <1>9
<1>20. ASSUME NEW c \in ToSet(selected)
       PROVE  /\ c.score = best(Source(c))
              /\ Len(c.hits) = IF Cardinality(DOMAIN scores(Source(c))) < 3 THEN Cardinality(DOMAIN scores(Source(c))) ELSE 3
              /\ \A h \in ToSet(c.hits) :
                   Cardinality({i \in DOMAIN scores(Source(c)) : scores(Source(c))[i] > h.score}) < 3
  <2>1. PICK k \in 1..w : c = m[k]
    BY <1>4
  <2>2. k \in 1..n
    BY <1>3
  <2>3. \A h : {i \in DOMAIN scores(Source(c)) : scores(Source(c))[i] > h.score} = {i \in J(Source(c)) : ranked[i].score > h.score}
    OBVIOUS
  <2>4. DOMAIN scores(Source(c)) = J(Source(c))
    OBVIOUS
  <2> HIDE DEF scores, best
  <2> QED BY <1>16, <1>17, <2>1, <2>2, <2>3, <2>4
<1>21. BestSources(ranked, selected, quota)
  <2> HIDE DEF sources, shown, best, scores
  <2>1. \A s \in sources \ shown, c \in ToSet(selected) : best(s) <= c.score
    BY <1>18
  <2>2. Len(selected) = IF Cardinality(sources) < quota THEN Cardinality(sources) ELSE quota
    BY <1>19 DEF w
  <2>3. Cardinality(shown) = Len(selected)
    BY <1>10 DEF w
  <2> USE DEF sources, shown, best, scores, J
  <2> QED BY <1>11, <1>20, <2>1, <2>2, <2>3 DEF BestSources
<1> QED BY <1>21 DEF selected

-----------------------------------------------------------------------------
(* What the reasons of a candidate rest on.                                *)

\* g: the symbols named and found, the nodes around them, the documents
\* embedded, the summaries, whether any text may add to them, and the scopes
Ground(g, reason, c) ==
  /\ reason = "symbol-localization" => c.symbol \in g.exact
  /\ reason = "symbol" => c.symbol \in g.found
  /\ reason = "graph" => \E n \in g.near : n.symbol = c.symbol /\ (c.symbol # 0 \/ n.path = c.path)
  /\ reason = "body" => c.kind \in BodyKinds /\ c.symbol \in g.found
  /\ reason = "embedding" => <<c.kind, Source(c)>> \in g.embedded
  /\ reason = "summary" => g.any \/ \E r \in g.summaries : r.kind = c.kind /\ r.path = c.path /\ r.symbol = c.symbol
\* the depth of a candidate is that in one of the scopes; a candidate all of whose reasons hold
Placed(g, c) == c.depth >= 0 => \E s \in g.scopes : IsPrefix(s.prefix, c.path) /\ Len(c.path) - Len(s.prefix) = c.depth
Founded(g) == {c \in Cand : (\A reason \in c.reasons : Ground(g, reason, c)) /\ Placed(g, c)}

\* the same kind, symbol and path: what a reason is about
SameThing(a, b) == a.kind = b.kind /\ a.symbol = b.symbol /\ a.path = b.path

\* A reason that holds of a candidate holds of the same thing,
LEMMA GroundSame ==
  ASSUME NEW g, NEW reason, NEW a, NEW b, SameThing(a, b), Ground(g, reason, a)
  PROVE  Ground(g, reason, b)
BY DEF Ground, SameThing, Source

\* and with no reason more it is founded as well:
LEMMA FoundedAs ==
  ASSUME NEW g, NEW c \in Founded(g), NEW d \in Cand, SameThing(c, d), d.reasons \subseteq c.reasons, d.depth = c.depth
  PROVE  d \in Founded(g)
<1>1. \A reason \in d.reasons : Ground(g, reason, d)
  BY GroundSame DEF Founded
<1>2. Placed(g, d)
  BY DEF Founded, Placed, SameThing
<1> QED BY <1>1, <1>2 DEF Founded

\* with another score, other hits or as another unit.
LEMMA FoundedIsClosed ==
  ASSUME NEW g
  PROVE  Closed(Founded(g)) /\ Rankable(Founded(g)) /\ Spread(Founded(g))
<1>1. ASSUME NEW c \in Founded(g), NEW n \in Int PROVE [c EXCEPT !.score = n] \in Founded(g)
  <2> DEFINE d == [c EXCEPT !.score = n]
  <2>1. c \in Cand /\ c \in Record
    BY DEF Founded, Cand
  <2>2. d \in Cand
    BY <2>1, CandIsClosed DEF Closed
  <2>3. SameThing(c, d) /\ d.reasons = c.reasons /\ d.depth = c.depth
    BY <2>1 DEF Record, SameThing
  <2> HIDE DEF d
  <2>4. d \in Founded(g)
    BY <2>2, <2>3, FoundedAs
  <2> QED BY <2>4 DEF d
<1>2. ASSUME NEW c \in Founded(g), NEW n \in Seq(Hit) PROVE [c EXCEPT !.hits = n] \in Founded(g)
  <2> DEFINE d == [c EXCEPT !.hits = n]
  <2>1. c \in Cand /\ c \in Record
    BY DEF Founded, Cand
  <2>2. d \in Cand
    BY <2>1, CandIsClosed DEF Rankable
  <2>3. SameThing(c, d) /\ d.reasons = c.reasons /\ d.depth = c.depth
    BY <2>1 DEF Record, SameThing
  <2> HIDE DEF d
  <2>4. d \in Founded(g)
    BY <2>2, <2>3, FoundedAs
  <2> QED BY <2>4 DEF d
<1>3. ASSUME NEW c \in Founded(g), NEW n \in Nat PROVE [c EXCEPT !.unit = n] \in Founded(g)
  <2> DEFINE d == [c EXCEPT !.unit = n]
  <2>1. c \in Cand /\ c \in Record
    BY DEF Founded, Cand
  <2>2. d \in Cand
    BY <2>1, CandIsClosed DEF Spread
  <2>3. SameThing(c, d) /\ d.reasons = c.reasons /\ d.depth = c.depth
    BY <2>1 DEF Record, SameThing
  <2> HIDE DEF d
  <2>4. d \in Founded(g)
    BY <2>2, <2>3, FoundedAs
  <2> QED BY <2>4 DEF d
<1>4. Founded(g) \subseteq Cand
  BY DEF Founded
<1> QED BY <1>1, <1>2, <1>3, <1>4 DEF Closed, Rankable, Spread

\* What a reason holds of.
Grounds(g, reason) == {c \in Founded(g) : Ground(g, reason, c)}
\* The same thing has the same grounds,
LEMMA GroundsAs ==
  ASSUME NEW g, NEW reason, NEW c \in Grounds(g, reason), NEW d \in Founded(g), SameThing(c, d)
  PROVE  d \in Grounds(g, reason)
BY GroundSame DEF Grounds

\* also as another unit.
LEMMA GroundsAreClosed ==
  ASSUME NEW g, NEW reason
  PROVE  Spread(Grounds(g, reason))
<1> DEFINE S == Grounds(g, reason)
<1>1. ASSUME NEW c \in S, NEW d, d \in Founded(g), d.kind = c.kind, d.symbol = c.symbol, d.path = c.path
      PROVE  d \in S
  BY <1>1, GroundsAs DEF SameThing
<1>2. \A c \in S : c \in Founded(g) /\ c \in Record
  BY DEF Grounds, Founded, Cand
<1> HIDE DEF S
<1>3. ASSUME NEW c \in S, NEW n \in Int PROVE [c EXCEPT !.score = n] \in S
  <2> DEFINE d == [c EXCEPT !.score = n]
  <2>1. d \in Founded(g)
    BY <1>2, FoundedIsClosed DEF Closed
  <2>2. d.kind = c.kind /\ d.symbol = c.symbol /\ d.path = c.path
    BY <1>2 DEF Record
  <2> HIDE DEF d
  <2>3. d \in S
    BY <1>1, <2>1, <2>2
  <2> QED BY <2>3 DEF d
<1>4. ASSUME NEW c \in S, NEW n \in Seq(Hit) PROVE [c EXCEPT !.hits = n] \in S
  <2> DEFINE d == [c EXCEPT !.hits = n]
  <2>1. d \in Founded(g)
    BY <1>2, FoundedIsClosed DEF Rankable
  <2>2. d.kind = c.kind /\ d.symbol = c.symbol /\ d.path = c.path
    BY <1>2 DEF Record
  <2> HIDE DEF d
  <2>3. d \in S
    BY <1>1, <2>1, <2>2
  <2> QED BY <2>3 DEF d
<1>5. ASSUME NEW c \in S, NEW n \in Nat PROVE [c EXCEPT !.unit = n] \in S
  <2> DEFINE d == [c EXCEPT !.unit = n]
  <2>1. d \in Founded(g)
    BY <1>2, FoundedIsClosed DEF Spread
  <2>2. d.kind = c.kind /\ d.symbol = c.symbol /\ d.path = c.path
    BY <1>2 DEF Record
  <2> HIDE DEF d
  <2>3. d \in S
    BY <1>1, <2>1, <2>2
  <2> QED BY <2>3 DEF d
<1>6. S \subseteq Cand
  BY <1>2 DEF Founded
<1>7. Spread(S)
  BY <1>3, <1>4, <1>5, <1>6 DEF Spread, Rankable, Closed
<1> QED BY <1>7 DEF S

\* A reason more.
LEMMA ReasonAdded ==
  ASSUME NEW g, NEW c \in Founded(g), NEW reason \in Reasons, Ground(g, reason, c)
  PROVE  [c EXCEPT !.reasons = @ \cup {reason}] \in Founded(g)
<1> DEFINE d == [c EXCEPT !.reasons = @ \cup {reason}]
<1>1. c \in Cand /\ c \in Record
  BY DEF Founded, Cand
<1>2. d \in Cand /\ SameThing(c, d) /\ d.reasons = c.reasons \cup {reason} /\ d.depth = c.depth
  BY <1>1 DEF Cand, Record, SameThing
<1> HIDE DEF d
<1>3. \A x \in d.reasons : Ground(g, x, d)
  BY <1>2, GroundSame DEF Founded
<1>4. Placed(g, d)
  BY <1>2 DEF Founded, Placed, SameThing
<1>5. d \in Founded(g)
  BY <1>2, <1>3, <1>4 DEF Founded
<1> QED BY <1>5 DEF d

\* Candidates of one key are of one kind, one symbol and one path.
LEMMA KeyLaw ==
  ASSUME NEW a \in Cand, NEW b \in Cand, Key(a) = Key(b)
  PROVE  SameThing(a, b)
<1>1. a.kind = b.kind /\ Identity(a) = Identity(b)
  BY DEF Key
<1>2. a.kind # "symbol" \/ a.path # <<>>
  BY DEF Cand
<1>3. a.path = <<>> => a.kind = "repo" /\ a.symbol = 0
  BY DEF Cand
<1>4. b.path = <<>> => b.kind = "repo" /\ b.symbol = 0
  BY DEF Cand
<1>5. a.symbol = b.symbol
  <2>1. Identity(a)[1] = Identity(b)[1] /\ Identity(a)[2] = Identity(b)[2]
    BY <1>1
  <2>2. CASE a.symbol # 0
    <3>1. Identity(a)[1] = "symbol" /\ Identity(a)[2] = a.symbol
      BY <2>2 DEF Identity
    <3>2. b.symbol # 0
      <4> SUFFICES ASSUME b.symbol = 0 PROVE FALSE
        OBVIOUS
      <4>1. Identity(b)[1] \in {"path", "repo"}
        BY <1>4 DEF Identity
      <4> QED BY <2>1, <3>1, <4>1
    <3>3. Identity(b)[2] = b.symbol
      BY <3>2 DEF Identity
    <3> QED BY <2>1, <3>1, <3>3
  <2>3. CASE b.symbol # 0 /\ a.symbol = 0
    <3>1. Identity(b)[1] = "symbol"
      BY <2>3 DEF Identity
    <3>2. Identity(a)[1] \in {"path", "repo"}
      BY <1>3, <2>3 DEF Identity
    <3> QED BY <2>1, <3>1, <3>2
  <2> QED BY <2>2, <2>3
<1>6. a.path = b.path
  <2>1. CASE a.symbol # 0
    <3>1. PICK s \in KnownRows : s.id = a.symbol /\ s.path = a.path
      BY <2>1 DEF Cand
    <3>2. PICK t \in KnownRows : t.id = b.symbol /\ t.path = b.path
      BY <2>1, <1>5 DEF Cand
    <3> QED BY <1>5, <3>1, <3>2, SameIdSamePath
  <2>2. CASE a.symbol = 0 /\ a.path # <<>>
    <3>1. Identity(a)[1] = "path" /\ Identity(a)[2] = a.path
      BY <2>2 DEF Identity
    <3>2. b.path # <<>>
      <4> SUFFICES ASSUME b.path = <<>> PROVE FALSE
        OBVIOUS
      <4>1. Identity(b)[1] = "repo"
        BY <1>4 DEF Identity
      <4> QED BY <1>1, <3>1, <4>1
    <3>3. Identity(b)[2] = b.path
      BY <1>5, <2>2, <3>2 DEF Identity
    <3> QED BY <1>1, <3>1, <3>3
  <2>3. CASE a.symbol = 0 /\ a.path = <<>>
    <3>1. Identity(a)[1] = "repo"
      BY <1>3, <2>3 DEF Identity
    <3>2. b.path = <<>>
      <4> SUFFICES ASSUME b.path # <<>> PROVE FALSE
        OBVIOUS
      <4>1. Identity(b)[1] = "path"
        BY <1>5, <2>3 DEF Identity
      <4> QED BY <1>1, <3>1, <4>1
    <3> QED BY <2>3, <3>2
  <2> QED BY <2>1, <2>2, <2>3
<1> QED BY <1>1, <1>5, <1>6 DEF SameThing

\* c is a with the fields a merge may change
MergedFields(c, a, worth, reasons, sk, pub, act, depth, dist, name, qname, path) ==
  c = [a EXCEPT !.score = worth, !.reasons = reasons, !.symbolKind = sk, !.pub = pub, !.activity = act, !.depth = depth,
                !.distance = dist, !.name = name, !.qname = qname, !.path = path]
\* A merged candidate is one, with its kind and symbol.
LEMMA MergedRecord ==
  ASSUME NEW a \in Record, NEW worth \in Int, NEW reasons \in SUBSET Reasons, NEW sk \in SymbolLabels, NEW pub \in BOOLEAN,
         NEW act \in Nat, NEW depth \in Int, NEW dist \in Nat, NEW name \in Segment, NEW qname \in Seq(Segment),
         NEW path \in Seq(Segment), NEW c, MergedFields(c, a, worth, reasons, sk, pub, act, depth, dist, name, qname, path)
  PROVE  /\ c \in Record /\ c.kind = a.kind /\ c.symbol = a.symbol /\ c.path = path
         /\ c.reasons = reasons /\ c.depth = depth
BY DEF Record, MergedFields

\* Candidates that are joined keep their reasons and the grounds of them.
LEMMA JoinedLaw ==
  ASSUME NEW g, NEW a \in Founded(g), NEW b \in Founded(g), Key(a) = Key(b)
  PROVE  Joined(a, b) \in Founded(g)
<1> DEFINE d == Joined(a, b)
<1>1. a \in Cand /\ b \in Cand /\ a \in Record /\ b \in Record
  BY DEF Founded, Cand
<1>2. SameThing(a, b)
  BY <1>1, KeyLaw
<1> DEFINE worth == Most(a.score, b.score)
           reasons == a.reasons \cup b.reasons
           sk == IF b.symbolKind # "" THEN b.symbolKind ELSE a.symbolKind
           pub == IF b.symbolKind # "" THEN b.pub ELSE a.pub
           act == IF b.symbolKind # "" THEN b.activity ELSE a.activity
           depth == IF b.depth >= 0 THEN b.depth ELSE a.depth
           dist == IF b.distance > 0 THEN b.distance ELSE a.distance
           name == IF a.name = "" THEN b.name ELSE a.name
           qname == IF a.qname = <<>> THEN b.qname ELSE a.qname
           path == IF a.path = <<>> THEN b.path ELSE a.path
<1>3. MergedFields(d, a, worth, reasons, sk, pub, act, depth, dist, name, qname, path)
  BY <1>1 DEF Joined, Record, MergedFields
<1>31. worth \in Int /\ reasons \in SUBSET Reasons /\ act \in Nat /\ depth \in {a.depth, b.depth} /\ depth \in Int /\ dist \in Nat
  BY <1>1, MostIs DEF Record
<1>32. sk \in SymbolLabels /\ pub \in BOOLEAN /\ name \in Segment /\ qname \in Seq(Segment) /\ path \in Seq(Segment)
  <2> USE DEF Record
  <2>1. sk \in SymbolLabels
    BY <1>1
  <2>2. pub \in BOOLEAN
    BY <1>1, Zenon
  <2>3. name \in Segment /\ qname \in Seq(Segment) /\ path \in Seq(Segment)
    BY <1>1
  <2> QED BY <2>1, <2>2, <2>3
<1>33. path = a.path
  BY <1>2 DEF SameThing
<1> HIDE DEF d, worth, sk, pub, act, depth, dist, name, qname, path, reasons
<1>34. /\ d \in Record /\ d.kind = a.kind /\ d.symbol = a.symbol /\ d.path = path
       /\ d.reasons = reasons /\ d.depth = depth
  BY <1>1, <1>3, <1>31, <1>32, MergedRecord
<1>4. SameThing(a, d) /\ SameThing(b, d) /\ d.reasons = a.reasons \cup b.reasons /\ d.depth \in {a.depth, b.depth}
  BY <1>2, <1>31, <1>33, <1>34 DEF SameThing, reasons
<1>5. d \in Cand
  BY <1>1, <1>34, <1>4 DEF Cand, SameThing
<1> HIDE DEF d
<1>6. \A x \in d.reasons : Ground(g, x, d)
  BY <1>4, GroundSame DEF Founded
<1>7. Placed(g, d)
  BY <1>4 DEF Founded, Placed, SameThing
<1>8. d \in Founded(g)
  BY <1>5, <1>6, <1>7 DEF Founded
<1> QED BY <1>8 DEF d

-----------------------------------------------------------------------------
(* The scopes and the symbols.                                             *)

Scope == [prefix : Seq(Segment), score : Int]

\* The scopes that summaries open (derive_summary_scopes) are prefixes of paths.
LEMMA ScopesIs ==
  ASSUME NEW ask, NEW results \in Seq(Cand)
  PROVE  SummaryScopes(ask, results) \in Seq(Scope)
<1> DEFINE prefix(r) == IF r.kind \in {"file", "doc"} /\ ~AskedFor(ask, r.path) /\ Len(r.path) > 1
                          THEN Front(r.path) ELSE r.path
           scope(r) == [prefix |-> prefix(r), score |-> r.score]
           I == {i \in DOMAIN results : results[i].path # <<>>}
           a == Among(results, I)
           J == {i \in DOMAIN a : \A j \in 1..(i - 1) : prefix(a[j]) # prefix(a[i])}
           b == Among(a, J)
           s == [i \in DOMAIN b |-> scope(b[i])]
<1>1. a \in Seq(Cand)
  BY AmongIs
<1>2. Where(results, LAMBDA r : r.path # <<>>) = a
  BY OnceIs DEF Where
<1>3. SummaryScopes(ask, results) = First(Each(Distinct(a, prefix), scope), ScopeCap)
  BY <1>2 DEF SummaryScopes
<1> HIDE DEF a
<1>4. Distinct(a, prefix) = b
  <2>1. Once(a) = a
    BY <1>1, OnceIs
  <2> HIDE DEF scope, s
  <2> QED BY <2>1, ZenonT(60) DEF Distinct
<1>5. SummaryScopes(ask, results) = First(s, ScopeCap)
  BY <1>3, <1>4 DEF Each
<1> HIDE DEF J
<1>6. b \in Seq(Cand)
  BY <1>1, AmongIs
<1> HIDE DEF b
<1>7. \A c \in Cand : scope(c) \in Scope
  <2> SUFFICES ASSUME NEW c \in Cand PROVE scope(c) \in Scope
    OBVIOUS
  <2>1. c.path \in Seq(Segment) /\ c.score \in Int
    BY DEF Cand, Record
  <2>2. Len(c.path) > 1 => Front(c.path) \in Seq(Segment)
    BY <2>1 DEF Front
  <2>3. prefix(c) \in Seq(Segment)
    BY <2>1, <2>2
  <2> HIDE DEF prefix
  <2> QED BY <2>1, <2>3 DEF Scope
<1>8. s \in Seq(Scope)
  <2> HIDE DEF scope
  <2>1. \A i \in DOMAIN b : b[i] \in Cand
    BY <1>6
  <2>2. \A i \in DOMAIN b : scope(b[i]) \in Scope
    BY <1>7, <2>1
  <2> QED BY <1>6, <2>2
<1>9. ScopeCap \in Int
  BY CapAssumption
<1> HIDE DEF s
<1> QED BY <1>5, <1>8, <1>9, FirstIs

\* The depth of a candidate is its own in the nearest scope.
LEMMA AnnotatedLaw ==
  ASSUME NEW g, NEW scopes \in Seq(Scope), g.scopes = ToSet(scopes), NEW c \in Founded(g)
  PROVE  Annotated(c, scopes) \in Founded(g)
<1> DEFINE I == {x \in ToSet(scopes) : IsPrefix(x.prefix, c.path)}
           depths == {Len(c.path) - Len(x.prefix) : x \in I}
<1>1. CASE c.path = <<>> \/ depths = {}
  BY <1>1 DEF Annotated
<1>2. CASE ~(c.path = <<>> \/ depths = {})
  <2> DEFINE n == CHOOSE d \in depths : \A e \in depths : d <= e
             d == [c EXCEPT !.depth = n]
  <2>0. c \in Cand /\ c \in Record /\ c.path \in Seq(Segment)
    BY DEF Founded, Cand, Record
  <2>1. depths \subseteq Nat
    <3> SUFFICES ASSUME NEW x \in ToSet(scopes), IsPrefix(x.prefix, c.path)
                 PROVE  Len(c.path) - Len(x.prefix) \in Nat
      OBVIOUS
    <3>0. x \in Scope
      BY ToSetIs
    <3>1. x.prefix \in Seq(Segment)
      BY <3>0 DEF Scope
    <3>2. Len(x.prefix) <= Len(c.path)
      BY <2>0, <3>1 DEF IsPrefix
    <3> QED BY <2>0, <3>1, <3>2
  <2>2. n \in depths
    <3> HIDE DEF depths
    <3>1. \E x \in depths : \A e \in depths : x <= e
      BY <1>2, <2>1, Least
    <3> QED BY <3>1
  <2>3. Annotated(c, scopes) = d
    BY <1>2 DEF Annotated
  <2>4. \E s \in ToSet(scopes) : IsPrefix(s.prefix, c.path) /\ Len(c.path) - Len(s.prefix) = n
    <3> HIDE DEF n
    <3> QED BY <2>2
  <2>5. n \in Int
    <3> HIDE DEF n, depths
    <3> QED BY <2>1, <2>2
  <2> HIDE DEF n
  <2>6. d \in Cand /\ SameThing(c, d) /\ d.reasons = c.reasons /\ d.depth = n
    BY <2>0, <2>5 DEF Cand, Record, SameThing
  <2> HIDE DEF d
  <2>7. \A x \in d.reasons : Ground(g, x, d)
    BY <2>6, GroundSame DEF Founded
  <2>8. Placed(g, d)
    BY <2>4, <2>6 DEF Placed, SameThing
  <2>9. d \in Founded(g)
    BY <2>6, <2>7, <2>8 DEF Founded
  <2> QED BY <2>3, <2>9
<1> QED BY <1>1, <1>2

\* The depth in a scope (annotate_scope) says nothing of what a candidate is.
LEMMA AnnotatedSame ==
  ASSUME NEW c \in Record, NEW scopes
  PROVE  SameThing(c, Annotated(c, scopes)) /\ Annotated(c, scopes).reasons = c.reasons
BY DEF Record, Annotated, SameThing

\* Annotated with the scopes, candidates stay founded,
LEMMA AnnotateLaw ==
  ASSUME NEW g, NEW scopes \in Seq(Scope), g.scopes = ToSet(scopes), NEW cs \in Seq(Founded(g))
  PROVE  Annotate(cs, scopes) \in Seq(Founded(g))
<1> DEFINE t == [i \in DOMAIN cs |-> Annotated(cs[i], scopes)]
<1>1. Annotate(cs, scopes) = t
  BY DEF Annotate, Each
<1>2. \A i \in DOMAIN cs : Annotated(cs[i], scopes) \in Founded(g)
  <2> SUFFICES ASSUME NEW i \in DOMAIN cs PROVE Annotated(cs[i], scopes) \in Founded(g)
    OBVIOUS
  <2>1. cs[i] \in Founded(g)
    OBVIOUS
  <2> QED BY <2>1, AnnotatedLaw
<1>3. t \in Seq(Founded(g))
  BY <1>2
<1> QED BY <1>1, <1>3

\* and so do those that a reason holds of.
LEMMA AnnotateGrounds ==
  ASSUME NEW g, NEW reason, NEW scopes \in Seq(Scope), g.scopes = ToSet(scopes), NEW cs \in Seq(Grounds(g, reason))
  PROVE  Annotate(cs, scopes) \in Seq(Grounds(g, reason))
<1> DEFINE t == [i \in DOMAIN cs |-> Annotated(cs[i], scopes)]
<1>1. Annotate(cs, scopes) = t
  BY DEF Annotate, Each
<1>2. \A i \in DOMAIN cs : Annotated(cs[i], scopes) \in Grounds(g, reason)
  <2> SUFFICES ASSUME NEW i \in DOMAIN cs PROVE Annotated(cs[i], scopes) \in Grounds(g, reason)
    OBVIOUS
  <2>1. cs[i] \in Grounds(g, reason)
    OBVIOUS
  <2>2. cs[i] \in Founded(g) /\ cs[i] \in Record
    BY <2>1 DEF Grounds, Founded, Cand
  <2>3. Annotated(cs[i], scopes) \in Founded(g) /\ SameThing(cs[i], Annotated(cs[i], scopes))
    BY <2>2, AnnotatedLaw, AnnotatedSame
  <2> QED BY <2>1, <2>3, GroundsAs
<1>3. t \in Seq(Grounds(g, reason))
  BY <1>2
<1> QED BY <1>1, <1>3

\* A document rests on nothing.
LEMMA DocIsFounded ==
  ASSUME NEW g
  PROVE  Doc \subseteq Founded(g)
<1> SUFFICES ASSUME NEW d \in Doc PROVE d \in Founded(g)
  OBVIOUS
<1>1. d \in Cand /\ d.reasons = {} /\ d.depth = -1
  BY DEF Doc
<1>2. Placed(g, d)
  <2>1. ~(d.depth >= 0)
    BY <1>1
  <2> QED BY <2>1 DEF Placed
<1> QED BY <1>1, <1>2 DEF Founded

\* The strongest of the same results are some of the results.
LEMMA StrongestIs ==
  ASSUME NEW S, NEW results \in Seq(S)
  PROVE  Strongest(results) \in Seq(S)
<1> DEFINE same(r) == Among(results, {i \in DOMAIN results : Identity(results[i]) = Identity(r)})
           best(r) == Sort(Where(results, LAMBDA x : Identity(x) = Identity(r)), Higher)[1]
           J == {i \in DOMAIN results : \A j \in 1..(i - 1) : Identity(results[j]) # Identity(results[i])}
           a == Among(results, J)
           t == [i \in DOMAIN a |-> best(a[i])]
<1>1. Strongest(results) = t
  <2>1. Distinct(results, Identity) = a
    BY OnceIs DEF Distinct
  <2> HIDE DEF a
  <2>2. Strongest(results) = Each(a, best)
    BY <2>1 DEF Strongest
  <2> QED BY <2>2 DEF Each
<1>2. a \in Seq(S) /\ \A k \in 1..Len(a) : \E i \in 1..Len(results) : a[k] = results[i]
  <2> HIDE DEF same, best, t, J
  <2>1. /\ Among(results, J) \in Seq(S)
        /\ \A k \in 1..Len(Among(results, J)) : \E i \in J \cap (1..Len(results)) : Among(results, J)[k] = results[i]
    BY AmongHas
  <2> QED BY <2>1
<1> HIDE DEF J, a
<1>3. \A i \in 1..Len(results) : best(results[i]) \in S
  <2> SUFFICES ASSUME NEW i \in 1..Len(results) PROVE best(results[i]) \in S
    OBVIOUS
  <2> DEFINE r == results[i]
             I == {j \in DOMAIN results : Identity(results[j]) = Identity(r)}
             v == Among(results, I)
             R == {x \in (DOMAIN v) \X (DOMAIN v) : Higher(v[x[1]], v[x[2]])}
  <2>1. i \in I /\ I \subseteq 1..Len(results)
    OBVIOUS
  <2>2. best(r) = Sort(v, Higher)[1]
    BY OnceIs DEF Where
  <2> HIDE DEF I
  <2>3. v \in Seq(S) /\ \E k \in 1..Len(v) : TRUE
    BY <2>1, AmongHas
  <2> HIDE DEF v
  <2>4. Sort(v, Higher) = InOrder(v, R)
    BY <2>3, OnceIs DEF Sort, Each, InOrder
  <2> HIDE DEF R, best
  <2>5. InOrder(v, R) \in Seq(S) /\ Len(InOrder(v, R)) = Len(v)
    BY <2>3, InOrderHas
  <2>6. InOrder(v, R)[1] \in S
    BY <2>3, <2>5
  <2> QED BY <2>2, <2>4, <2>6
<1>4. t \in Seq(S)
  <2> HIDE DEF best
  <2>1. \A i \in DOMAIN a : best(a[i]) \in S
    <3>1. DOMAIN a = 1..Len(a)
      BY <1>2
    <3> QED BY <1>2, <1>3, <3>1
  <2> QED BY <1>2, <2>1
<1> QED BY <1>1, <1>4

\* The searches in the scopes (search_scoped_symbol_results) answer with documents of the index.
LEMMA ScopedSymbolsIs ==
  ASSUME NEW S, Indexed(S), NEW index \in Seq(S), NEW ask, IsQuery(ask), NEW scopes \in Seq(Scope),
         NEW quota \in Nat, NEW kinds
  PROVE  ScopedSymbols(index, ask, scopes, quota, kinds) \in Seq(S)
<1> DEFINE ss == [i \in DOMAIN scopes |-> Search(index, ask, quota, kinds, scopes[i].prefix)]
<1>1. ScopedSymbols(index, ask, scopes, quota, kinds) = Strongest(FlattenSeq(ss))
  BY DEF ScopedSymbols, Each
<1>2. \A i \in DOMAIN scopes : Search(index, ask, quota, kinds, scopes[i].prefix) \in Seq(S)
  BY SearchIs
<1>3. ss \in Seq(Seq(S))
  BY <1>2
<1> HIDE DEF ss
<1> QED BY <1>1, <1>3, FlattenLaw, StrongestIs

\* The rows of an id are rows of the store.
LEMMA BySymbolIs ==
  ASSUME NEW S, NEW store, store.symbols \in Seq(S), NEW n
  PROVE  /\ BySymbol(store, n) \in Seq(S)
         /\ \A k \in 1..Len(BySymbol(store, n)) : BySymbol(store, n)[k].id = n
<1> DEFINE s == store.symbols
           I == {i \in DOMAIN s : s[i].id = n}
<1>1. BySymbol(store, n) = Among(s, I)
  BY OnceIs DEF BySymbol, Where
<1>2. \A i \in I : s[i].id = n
  OBVIOUS
<1> HIDE DEF I, s
<1>3. s \in Seq(S)
  BY DEF s
<1> QED BY <1>1, <1>2, <1>3, AmongHas

\* So are those of a name or a qualified name.
LEMMA ByNameIs ==
  ASSUME NEW S, NEW store, store.symbols \in Seq(S), NEW ask
  PROVE  ByQname(store, ask) \in Seq(S) /\ ByName(store, ask) \in Seq(S)
<1> DEFINE s == store.symbols
           I == {i \in DOMAIN s : IsName(ask) /\ s[i].qname = ask.words[1]}
           J == {i \in DOMAIN s : IsName(ask) /\ <<s[i].name>> = ask.words[1]}
<1>1. ByQname(store, ask) = Among(s, I) /\ ByName(store, ask) = Among(s, J)
  BY OnceIs DEF ByQname, ByName, Where
<1> HIDE DEF I, J, s
<1>2. s \in Seq(S)
  BY DEF s
<1> QED BY <1>1, <1>2, AmongIs

\* An exact result is a symbol of the store, and says so.
ExactlyFound == {c \in Cand : c.reasons = {"symbol-localization"} /\ c.depth = -1}
\* The exact results (resolve_exact_symbol_results) are symbols of the store, for their name alone.
LEMMA ExactResultsIs ==
  ASSUME NEW store, store.symbols \in Seq(KnownRows), NEW ask
  PROVE  ExactResults(store, ask) \in Seq(ExactlyFound)
<1> DEFINE named == BySymbol(store, ask.id) \o ByQname(store, ask) \o ByName(store, ask)
           one(i) == [SymbolDoc(named[i]) EXCEPT !.score = 42000 - 2000 * (i - 1), !.reasons = {"symbol-localization"}]
           t == [i \in DOMAIN named |-> one(i)]
           J == {i \in DOMAIN t : \A j \in 1..(i - 1) : t[j].symbol # t[i].symbol}
<1>1. named \in Seq(KnownRows)
  BY BySymbolIs, ByNameIs
<1>2. Numbered(named) = t
  BY DEF Numbered
<1>3. ExactResults(store, ask) = Distinct(t, LAMBDA c : c.symbol)
  <2> HIDE DEF t
  <2> QED BY <1>2 DEF ExactResults
<1> HIDE DEF named
<1>4. \A i \in DOMAIN named : one(i) \in ExactlyFound
  <2> HIDE DEF one
  <2> SUFFICES ASSUME NEW i \in DOMAIN named PROVE one(i) \in ExactlyFound
    OBVIOUS
  <2> USE DEF one
  <2> DEFINE d == SymbolDoc(named[i])
             x == 42000 - 2000 * (i - 1)
  <2>1. named[i] \in KnownRows /\ i \in Int
    BY <1>1
  <2>2. d \in Cand /\ d \in Record /\ d.depth = -1
    BY <2>1, RowDocs DEF Doc, Cand
  <2>3. x \in Int
    BY <2>1
  <2> HIDE DEF d, x
  <2>4. [d EXCEPT !.score = x, !.reasons = {"symbol-localization"}] \in ExactlyFound
    BY <2>2, <2>3 DEF Cand, Record, Reasons, ExactlyFound
  <2> QED BY <2>4 DEF d, x
<1>5. t \in Seq(ExactlyFound)
  <2> HIDE DEF one
  <2> QED BY <1>1, <1>4
<1> HIDE DEF t
<1>6. Distinct(t, LAMBDA c : c.symbol) = Among(t, J)
  BY <1>5, OnceIs DEF Distinct
<1> HIDE DEF J
<1> QED BY <1>3, <1>5, <1>6, AmongIs

\* They are founded in what was named.
LEMMA ExactIsFounded ==
  ASSUME NEW store, store.symbols \in Seq(KnownRows), NEW ask, NEW g,
         {r.symbol : r \in ToSet(ExactResults(store, ask))} \subseteq g.exact
  PROVE  ExactResults(store, ask) \in Seq(Founded(g))
<1> DEFINE t == ExactResults(store, ask)
<1>1. t \in Seq(ExactlyFound)
  BY ExactResultsIs
<1>2. \A i \in 1..Len(t) : t[i].symbol \in g.exact
  <2>1. \A i \in 1..Len(t) : t[i] \in ToSet(t)
    BY <1>1, ToSetIs
  <2> QED BY <2>1
<1> HIDE DEF t
<1>3. \A i \in 1..Len(t) : t[i] \in Founded(g)
  <2> SUFFICES ASSUME NEW i \in 1..Len(t) PROVE t[i] \in Founded(g)
    OBVIOUS
  <2> DEFINE c == t[i]
  <2>1. c \in ExactlyFound /\ c.symbol \in g.exact
    BY <1>1, <1>2
  <2> HIDE DEF c
  <2>2. c \in Cand /\ c.reasons = {"symbol-localization"} /\ ~(c.depth >= 0)
    <3>1. c.depth = -1
      BY <2>1 DEF ExactlyFound
    <3> QED BY <2>1, <3>1 DEF ExactlyFound
  <2>3. Ground(g, "symbol-localization", c)
    BY <2>1 DEF Ground
  <2>4. Placed(g, c)
    BY <2>2 DEF Placed
  <2>5. c \in Founded(g)
    BY <2>2, <2>3, <2>4 DEF Founded
  <2> QED BY <2>5 DEF c
<1>4. t \in Seq(Founded(g))
  BY <1>1, <1>3
<1> QED BY <1>4 DEF t

\* The symbols listed for the scopes are documents, whatever is left of the limit.
LEMMA ScopeSymbolsIs ==
  ASSUME NEW S, Closed(S), NEW index \in Seq(S), NEW scopes \in Seq(Scope), NEW quota \in Nat
  PROVE  ScopeSymbols(index, scopes, quota) \in Seq(S)
<1> DEFINE rated(docs, s) == [i \in DOMAIN docs |-> [docs[i] EXCEPT !.score = Most(@, s.score + 1200 - 35 * (i - 1))]]
           with(acc, docs) == [left |-> acc.left - Len(docs), found |-> acc.found \o docs]
           add(acc, s) == IF acc.left <= 0 THEN acc
                          ELSE with(acc, rated(ListDocuments(index, acc.left, {"symbol"}, s.prefix), s))
           base == [left |-> Most(quota, 1), found |-> <<>>]
           T == [left : Int, found : Seq(S)]
           n == Len(scopes)
           V == [k \in 0..n |-> T]
           G == [x \in T \X (1..n) |-> add(x[1], scopes[x[2]])]
           Solves(f) == f = [k \in 0..n |-> IF k = 0 THEN base ELSE add(f[k - 1], scopes[k])]
<1>1. ASSUME NEW acc \in T, NEW s \in Scope PROVE add(acc, s) \in T
  <2> DEFINE docs == ListDocuments(index, acc.left, {"symbol"}, s.prefix)
             t == rated(docs, s)
  <2>1. acc.left \in Int /\ acc.found \in Seq(S) /\ s.score \in Int
    BY DEF Scope
  <2>2. docs \in Seq(S)
    BY <2>1, ListIs
  <2> HIDE DEF docs
  <2>3. t \in Seq(S)
    <3> DEFINE one(i) == [docs[i] EXCEPT !.score = Most(docs[i].score, s.score + 1200 - 35 * (i - 1))]
    <3>1. \A i \in DOMAIN docs : one(i) \in S
      <4> SUFFICES ASSUME NEW i \in DOMAIN docs PROVE one(i) \in S
        OBVIOUS
      <4>1. docs[i] \in S /\ i \in Int
        BY <2>2
      <4>2. docs[i].score \in Int
        BY <4>1 DEF Closed, Cand, Record
      <4>3. Most(docs[i].score, s.score + 1200 - 35 * (i - 1)) \in Int
        <5> DEFINE y == s.score + 1200 - 35 * (i - 1)
        <5>1. y \in Int
          BY <2>1, <4>1
        <5> HIDE DEF y
        <5>2. Most(docs[i].score, y) \in Int
          BY <4>2, <5>1, MostIs
        <5> QED BY <5>2 DEF y
      <4> QED BY <4>1, <4>3 DEF Closed
    <3>2. t = [i \in DOMAIN docs |-> one(i)]
      OBVIOUS
    <3> HIDE DEF one, t
    <3> QED BY <2>2, <3>1, <3>2
  <2> HIDE DEF t
  <2>4. Len(t) \in Int /\ acc.found \o t \in Seq(S)
    BY <2>1, <2>3
  <2>5. with(acc, t) \in T
    BY <2>1, <2>4
  <2>6. add(acc, s) = IF acc.left <= 0 THEN acc ELSE with(acc, t)
    BY DEF t, docs
  <2> HIDE DEF with, add, T
  <2> QED BY <2>5, <2>6
<1>2. base \in T
  <2>1. Most(quota, 1) \in Int
    BY MostIs
  <2> QED BY <2>1
<1> HIDE DEF add, base, T
<1>3. \A k \in 0..n : V[k] = T
  OBVIOUS
<1>4. \A k \in 1..n : \A a \in V[k - 1] : G[<<a, k>>] = add(a, scopes[k]) /\ add(a, scopes[k]) \in V[k]
  <2> SUFFICES ASSUME NEW k \in 1..n, NEW a \in V[k - 1]
               PROVE  G[<<a, k>>] = add(a, scopes[k]) /\ add(a, scopes[k]) \in V[k]
    OBVIOUS
  <2>1. k - 1 \in 0..n /\ k \in 0..n /\ scopes[k] \in Scope
    OBVIOUS
  <2>2. a \in T
    BY <1>3, <2>1
  <2>3. G[<<a, k>>] = add(a, scopes[k])
    BY <2>2
  <2> HIDE DEF G, V
  <2> QED BY <1>1, <1>3, <2>1, <2>2, <2>3
<1> HIDE DEF G
<1>5. base \in V[0] /\ n \in Nat
  BY <1>2, <1>3
<1> HIDE DEF V
<1>6. PICK f : Runs(f, n, V, G, base)
  <2> HIDE DEF n
  <2> QED BY <1>4, <1>5, Recursion
<1> DEFINE h == [k \in 0..n |-> f[k]]
<1>7. Solves(h)
  <2>1. \A k \in 0..n : f[k] \in V[k]
    <3> HIDE DEF n
    <3> QED BY <1>4, <1>5, <1>6, Recursion
  <2> DEFINE of(k) == IF k = 0 THEN base ELSE add(h[k - 1], scopes[k])
  <2>2. \A k \in 0..n : f[k] = of(k)
    <3> SUFFICES ASSUME NEW k \in 0..n PROVE f[k] = of(k)
      OBVIOUS
    <3>1. CASE k = 0
      BY <1>6, <3>1 DEF Runs
    <3>2. CASE k # 0
      <4>1. k \in 1..n /\ k - 1 \in 0..n
        BY <3>2
      <4>2. f[k] = add(f[k - 1], scopes[k]) /\ h[k - 1] = f[k - 1]
        BY <1>4, <1>6, <2>1, <4>1 DEF Runs
      <4> QED BY <3>2, <4>2
    <3> QED BY <3>1, <3>2
  <2>3. h = [k \in 0..n |-> of(k)]
    <3> HIDE DEF of
    <3> QED BY <2>2
  <2> QED BY <2>3
<1> HIDE DEF h
<1> DEFINE r == CHOOSE x : Solves(x)
<1>8. Solves(r)
  <2> HIDE DEF Solves
  <2> QED BY <1>7
<1>9. ScopeSymbols(index, scopes, quota) = Strongest(r[n].found)
  BY DEF ScopeSymbols, Loop, add, base
<1> HIDE DEF r
<1>10. Runs(r, n, V, G, base)
  <2> DEFINE of(k) == IF k = 0 THEN base ELSE add(r[k - 1], scopes[k])
  <2>1. \A k \in 0..n : r[k] = of(k)
    <3>1. r = [k \in 0..n |-> of(k)]
      BY <1>8
    <3> HIDE DEF of
    <3> QED BY <3>1
  <2>2. \A k \in 1..n : r[k - 1] \in V[k - 1] => r[k] = G[<<r[k - 1], k>>]
    <3> SUFFICES ASSUME NEW k \in 1..n, r[k - 1] \in V[k - 1] PROVE r[k] = G[<<r[k - 1], k>>]
      OBVIOUS
    <3>1. k \in 0..n /\ k # 0
      OBVIOUS
    <3> QED BY <1>4, <2>1, <3>1
  <2>3. r[0] = base
    <3>1. 0 \in 0..n
      BY <1>5
    <3> QED BY <2>1, <3>1
  <2> QED BY <2>2, <2>3 DEF Runs
<1>11. \A k \in 0..n : r[k] \in V[k]
  <2> HIDE DEF n
  <2> QED BY <1>4, <1>5, <1>10, Recursion
<1>12. r[n] \in T
  BY <1>3, <1>5, <1>11
<1>13. r[n].found \in Seq(S)
  BY <1>12 DEF T
<1> QED BY <1>9, <1>13, StrongestIs

\* The symbol stage answers with founded candidates.
LEMMA SymbolResultsLaw ==
  ASSUME NEW index \in Seq(Doc), NEW store, store.symbols \in Seq(KnownRows), NEW ask, IsQuery(ask),
         NEW o, o.limit \in Nat, NEW summaries \in Seq(Cand),
         NEW g, {r.symbol : r \in ToSet(ExactResults(store, ask))} \subseteq g.exact,
         g.scopes = ToSet(SummaryScopes(ask, summaries))
  PROVE  SymbolResults(index, store, ask, o, summaries) \in Seq(Founded(g))
<1> DEFINE S == Founded(g)
           quota == Grow(o.limit, SymbolFan)
           kinds == StageKinds(SymbolKinds, o.kinds)
           scopes == SummaryScopes(ask, summaries)
           exacts == ExactResults(store, ask)
           a == IF Profile(ask).intent = "exploration" THEN ScopeSymbols(index, scopes, Grow(o.limit, SummaryFan)) ELSE <<>>
           b == ScopedSymbols(index, ask, scopes, quota, kinds)
           c == IF Gate(ask, Profile(ask), summaries, exacts, o.selective).search
                  THEN Search(index, ask, quota, kinds, <<>>) ELSE <<>>
           all == IF kinds = {} THEN exacts ELSE exacts \o a \o b \o c
<1>1. SymbolResults(index, store, ask, o, summaries) = Annotate(all, scopes)
  BY DEF SymbolResults
<1>2. scopes \in Seq(Scope)
  BY ScopesIs
<1>3. exacts \in Seq(S)
  BY ExactIsFounded
<1>4. quota \in Nat /\ Grow(o.limit, SummaryFan) \in Nat
  BY GrowIs, CapAssumption
<1> HIDE DEF scopes, quota, kinds, exacts
<1>5. Seq(Doc) \subseteq Seq(S) /\ Indexed(Doc) /\ Closed(Doc)
  <2>1. Doc \subseteq S
    BY DocIsFounded
  <2> QED BY <2>1, SeqMonotonic, DocIsIndexed DEF Indexed
<1> HIDE DEF S
<1>6. a \in Seq(S)
  <2>1. ScopeSymbols(index, scopes, Grow(o.limit, SummaryFan)) \in Seq(Doc)
    BY <1>2, <1>4, <1>5, ScopeSymbolsIs
  <2>2. <<>> \in Seq(S)
    OBVIOUS
  <2> QED BY <1>5, <2>1, <2>2
<1>7. b \in Seq(S)
  <2>1. b \in Seq(Doc)
    BY <1>2, <1>4, <1>5, ScopedSymbolsIs
  <2> HIDE DEF b
  <2> QED BY <1>5, <2>1
<1>8. c \in Seq(S)
  <2>1. Search(index, ask, quota, kinds, <<>>) \in Seq(Doc)
    BY <1>4, <1>5, SearchIs
  <2>2. <<>> \in Seq(S)
    OBVIOUS
  <2> QED BY <1>5, <2>1, <2>2
<1> HIDE DEF a, b, c
<1>9. all \in Seq(S)
  BY <1>3, <1>6, <1>7, <1>8
<1> HIDE DEF all
<1>10. Annotate(all, scopes) \in Seq(S)
  BY <1>2, <1>9, AnnotateLaw DEF S, scopes
<1> QED BY <1>1, <1>10 DEF S

-----------------------------------------------------------------------------
(* Around the symbols.                                                     *)

\* A node of the graph.
Node == {c \in Cand : c.reasons = {} /\ c.depth = -1}

\* The nodes of a symbol, of its statements and its file are nodes.
LEMMA NodesAre ==
  ASSUME NEW s \in KnownRows
  PROVE  SymbolNode(s) \in Node /\ StatementNode(s) \in Node /\ FileNode(s) \in Node
<1>1. s.path \in Seq(Segment) /\ s.path # <<>> /\ s.id \in Nat
  BY RowIs
<1>2. SymbolNode(s) \in Node
  <2> DEFINE d == SymbolDoc(s)
  <2>1. d \in Cand /\ d \in Record /\ d.reasons = {} /\ d.depth = -1
    BY RowDocs DEF Doc, Cand
  <2> HIDE DEF d
  <2>2. [d EXCEPT !.pub = FALSE, !.activity = 0, !.text = {}] \in Node
    BY <2>1 DEF Cand, Record, Node
  <2> QED BY <2>2 DEF d, SymbolNode
<1>3. Blank \in Record /\ Blank.reasons = {} /\ Blank.depth = -1 /\ Blank.symbol = 0
  BY BlankIs
<1>4. "statement" \in Kinds /\ "file" \in Kinds /\ "statement" \in SymbolLabels /\ "file" \in SymbolLabels
  BY DEF Kinds, RankKind, SymbolLabels
<1>5. StatementNode(s) \in Node
  <2> DEFINE n == 1000 + 10 * s.id + 3
  <2>1. n \in Nat
    BY <1>1
  <2> HIDE DEF n
  <2>2. [Blank EXCEPT !.kind = "statement", !.path = s.path, !.symbolKind = "statement", !.pos = n] \in Node
    BY <1>1, <1>3, <1>4, <2>1 DEF Node, Cand, Record, KindLabels
  <2> QED BY <2>2 DEF n, StatementNode
<1>6. FileNode(s) \in Node
  <2>1. [Blank EXCEPT !.kind = "file", !.path = s.path, !.symbolKind = "file", !.pos = 90] \in Node
    BY <1>1, <1>3, <1>4, ZenonT(60) DEF Node, Cand, Record, KindLabels
  <2> QED BY <2>1 DEF FileNode
<1> QED BY <1>2, <1>5, <1>6

\* Edges of a type to nodes, and the nodes of symbols.
Typed(type, cs) == [i \in DOMAIN cs |-> [type |-> type, node |-> cs[i]]]
\* Nodes with the type of their edge are edges.
LEMMA TypedEdges ==
  ASSUME NEW nodes \in Seq(Node), NEW type \in DOMAIN EdgeBonus
  PROVE  Typed(type, nodes) \in Seq([type : DOMAIN EdgeBonus, node : Node])
<1> DEFINE E == [type : DOMAIN EdgeBonus, node : Node]
           one(i) == [type |-> type, node |-> nodes[i]]
<1>1. \A i \in DOMAIN nodes : one(i) \in E
  <2>1. \A i \in DOMAIN nodes : nodes[i] \in Node
    OBVIOUS
  <2> QED BY <2>1
<1>2. Typed(type, nodes) = [i \in DOMAIN nodes |-> one(i)]
  BY DEF Typed
<1> HIDE DEF E, one
<1>3. Typed(type, nodes) \in Seq(E)
  BY <1>1, <1>2
<1> QED BY <1>3 DEF E

\* Rows one by one give nodes.
LEMMA NodeSequences ==
  ASSUME NEW ss \in Seq(KnownRows)
  PROVE  /\ Each(ss, SymbolNode) \in Seq(Node) /\ Each(ss, StatementNode) \in Seq(Node)
         /\ Each(ss, FileNode) \in Seq(Node)
<1>1. \A i \in DOMAIN ss : ss[i] \in KnownRows
  OBVIOUS
<1>2. \A i \in DOMAIN ss : SymbolNode(ss[i]) \in Node /\ StatementNode(ss[i]) \in Node /\ FileNode(ss[i]) \in Node
  BY <1>1, NodesAre
<1> DEFINE a == [i \in DOMAIN ss |-> SymbolNode(ss[i])]
           b == [i \in DOMAIN ss |-> StatementNode(ss[i])]
           c == [i \in DOMAIN ss |-> FileNode(ss[i])]
<1>3. a \in Seq(Node)
  BY <1>2
<1>4. b \in Seq(Node)
  BY <1>2
<1>5. c \in Seq(Node)
  BY <1>2
<1> QED BY <1>3, <1>4, <1>5 DEF Each

\* The neighbours of a node are edges to nodes.
LEMMA NeighborsAre ==
  ASSUME NEW repo, repo.symbols \in Seq(KnownRows), NEW n
  PROVE  Neighbors(repo, n) \in Seq([type : DOMAIN EdgeBonus, node : Node])
<1> DEFINE r == repo.symbols
           self == Where(r, LAMBDA s : s.id = n)
           I == {i \in DOMAIN r : \E x \in ToSet(self) : r[i].id \in x.calls \/ n \in r[i].calls}
           H == {i \in DOMAIN r : \E x \in ToSet(self) : r[i].id \in x.reads \/ n \in r[i].reads}
           J == {i \in DOMAIN r : \E x \in ToSet(self) : r[i].owner = n \/ x.owner = r[i].id}
           K == {i \in DOMAIN r : r[i].id = n /\ r[i].body # {}}
           L == {i \in DOMAIN r : r[i].id = n /\ r[i].owner = 0}
           called == Among(r, I)
           readers == Among(r, H)
           members == Among(r, J)
           statements == Among(r, K)
           fileRows == Among(r, L)
           p == Each(called, SymbolNode)
           p2 == Each(readers, SymbolNode)
           q1 == Each(members, SymbolNode)
           q2 == Each(statements, StatementNode)
           f == Each(fileRows, FileNode)
<1>0. Neighbors(repo, n) = Typed("CALLS", p) \o Typed("CONTAINS", q1 \o q2) \o Typed("DECLARES", f) \o Typed("READS", p2)
  <2>1. Where(r, LAMBDA s : \E x \in ToSet(self) : s.id \in x.calls \/ n \in s.calls) = called
    <3> HIDE DEF self
    <3> QED BY OnceIs DEF Where
  <2>2. Where(r, LAMBDA s : \E x \in ToSet(self) : s.owner = n \/ x.owner = s.id) = members
    <3> HIDE DEF self
    <3> QED BY OnceIs DEF Where
  <2>3. Where(r, LAMBDA s : s.id = n /\ s.body # {}) = statements
    BY OnceIs DEF Where
  <2>4. Where(r, LAMBDA s : s.id = n /\ s.owner = 0) = fileRows
    BY OnceIs DEF Where
  <2>5. Where(r, LAMBDA s : \E x \in ToSet(self) : s.id \in x.reads \/ n \in s.reads) = readers
    <3> HIDE DEF self
    <3> QED BY OnceIs DEF Where
  <2> HIDE DEF called, members, statements, fileRows, readers
  <2> QED BY <2>1, <2>2, <2>3, <2>4, <2>5 DEF Neighbors, Typed, Each
<1> HIDE DEF H, I, J, K, L, r
<1>1. r \in Seq(KnownRows)
  BY DEF r
<1>2. called \in Seq(KnownRows) /\ members \in Seq(KnownRows) /\ statements \in Seq(KnownRows) /\ fileRows \in Seq(KnownRows)
      /\ readers \in Seq(KnownRows)
  BY <1>1, AmongIs
<1> HIDE DEF called, members, statements, fileRows, readers
<1>3. p \in Seq(Node) /\ p2 \in Seq(Node) /\ q1 \in Seq(Node) /\ q2 \in Seq(Node) /\ f \in Seq(Node)
  BY <1>2, NodeSequences
<1> HIDE DEF p, p2, q1, q2, f
<1>4. {"CALLS", "CONTAINS", "DECLARES", "READS"} \subseteq DOMAIN EdgeBonus
  BY DEF EdgeBonus
<1> DEFINE E == [type : DOMAIN EdgeBonus, node : Node]
<1>5. Typed("CALLS", p) \in Seq(E)
  BY <1>3, <1>4, TypedEdges
<1>6. Typed("CONTAINS", q1 \o q2) \in Seq(E)
  <2>1. q1 \o q2 \in Seq(Node)
    BY <1>3
  <2> QED BY <1>4, <2>1, TypedEdges
<1>7. Typed("DECLARES", f) \in Seq(E) /\ Typed("READS", p2) \in Seq(E)
  BY <1>3, <1>4, TypedEdges
<1> HIDE DEF E
<1>8. Typed("CALLS", p) \o Typed("CONTAINS", q1 \o q2) \o Typed("DECLARES", f) \o Typed("READS", p2) \in Seq(E)
  BY <1>5, <1>6, <1>7
<1> QED BY <1>0, <1>8 DEF E

\* Sorted candidates are the candidates.
LEMMA SortedIs ==
  ASSUME NEW S, NEW cs \in Seq(S)
  PROVE  Sorted(cs) \in Seq(S)
BY BetterSort DEF Sorted

\* One candidate of each symbol is some of the candidates.
LEMMA SymbolsOnce ==
  ASSUME NEW S, NEW cs \in Seq(S)
  PROVE  Distinct(cs, LAMBDA c : c.symbol) \in Seq(S)
<1> DEFINE J == {i \in DOMAIN cs : \A j \in 1..(i - 1) : cs[j].symbol # cs[i].symbol}
<1>1. Distinct(cs, LAMBDA c : c.symbol) = Among(cs, J)
  BY OnceIs DEF Distinct
<1> HIDE DEF J
<1> QED BY <1>1, AmongIs

\* The seeds of the graph search (build_seed_nodes) are some of the symbols found.
LEMMA SeedsAre ==
  ASSUME NEW S, NEW cs \in Seq(S)
  PROVE  Seeds(cs) \in Seq(S)
<1> DEFINE t == Distinct(Sorted(cs), LAMBDA c : c.symbol)
<1>1. t \in Seq(S)
  BY SortedIs, SymbolsOnce
<1>2. Seeds(cs) = First(t, SeedCap)
  BY DEF Seeds
<1> HIDE DEF t
<1>3. SeedCap \in Int
  BY CapAssumption
<1> QED BY <1>1, <1>2, <1>3, FirstIs

\* Only the symbol's own words replace those of a candidate, which stays what it is.
LEMMA HydratedLaw ==
  ASSUME NEW g, NEW c \in Founded(g), NEW store, store.symbols \in Seq(KnownRows)
  PROVE  Hydrated(c, store) \in Founded(g) /\ SameThing(c, Hydrated(c, store))
<1> DEFINE row == BySymbol(store, c.symbol)
<1>1. row \in Seq(KnownRows) /\ \A k \in 1..Len(row) : row[k].id = c.symbol
  BY BySymbolIs
<1>2. CASE c.symbol = 0 \/ row = <<>>
  BY <1>2 DEF Hydrated, SameThing
<1>3. CASE ~(c.symbol = 0 \/ row = <<>>)
  <2> DEFINE d == SymbolDoc(row[1])
             x == [c EXCEPT !.name = d.name, !.qname = d.qname, !.path = d.path, !.symbolKind = d.symbolKind,
                            !.pub = d.pub, !.activity = d.activity]
  <2>1. Hydrated(c, store) = x
    BY <1>3 DEF Hydrated
  <2>2. c \in Cand /\ c \in Record
    BY DEF Founded, Cand
  <2> HIDE DEF row
  <2>3. row[1] \in KnownRows /\ row[1].id = c.symbol
    BY <1>1, <1>3
  <2>4. d \in Record /\ d.path = row[1].path
    BY <2>3, SymbolDocIs
  <2>5. d.path = c.path
    <3>1. PICK s \in KnownRows : s.id = c.symbol /\ s.path = c.path
      BY <1>3, <2>2 DEF Cand
    <3> HIDE DEF d
    <3> QED BY <2>3, <2>4, <3>1, SameIdSamePath
  <2> HIDE DEF d
  <2>6. x \in Record /\ SameThing(c, x) /\ x.reasons = c.reasons /\ x.depth = c.depth
    BY <2>2, <2>4, <2>5 DEF Record, SameThing
  <2> HIDE DEF x
  <2>7. x \in Cand
    BY <2>2, <2>6 DEF Cand, SameThing
  <2> QED BY <2>1, <2>6, <2>7, FoundedAs
<1> QED BY <1>2, <1>3

\* the nodes next to the seeds
NodesAround(graph, localized) == {e.node : e \in UNION {ToSet(Neighbors(graph, s.symbol)) : s \in ToSet(Seeds(localized))}}

\* The neighbour of a seed is a candidate for the reason that it is one.
LEMMA GraphNode ==
  ASSUME NEW g, NEW e \in [type : DOMAIN EdgeBonus, node : Node], e.node \in g.near, NEW n \in Int
  PROVE  [e.node EXCEPT !.score = n + EdgeBonus[e.type], !.distance = 1, !.reasons = {"graph"}] \in Grounds(g, "graph")
<1> DEFINE m == n + EdgeBonus[e.type]
           y == e.node
           d == [y EXCEPT !.score = m, !.distance = 1, !.reasons = {"graph"}]
<1>1. m \in Int
  BY DEF EdgeBonus
<1>2. y \in Node
  OBVIOUS
<1> HIDE DEF m
<1>3. y \in Cand /\ y \in Record /\ y.depth = -1 /\ y \in g.near
  BY <1>2 DEF Node, Cand
<1> HIDE DEF y
<1>4. d \in Cand /\ SameThing(y, d) /\ d.reasons = {"graph"} /\ d.depth = -1
  BY <1>1, <1>3 DEF Cand, Record, SameThing, Reasons
<1> HIDE DEF d
<1>5. Ground(g, "graph", d)
  BY <1>3, <1>4 DEF Ground, SameThing
<1>6. Placed(g, d)
  <2>1. ~(d.depth >= 0)
    BY <1>4
  <2> QED BY <2>1 DEF Placed
<1>7. d \in Founded(g)
  BY <1>4, <1>5, <1>6 DEF Founded
<1>8. d \in Grounds(g, "graph")
  BY <1>5, <1>7 DEF Grounds
<1> QED BY <1>8 DEF d, y, m

\* The graph stage (expand_graph_candidates) answers with neighbours of the seeds.
LEMMA GraphResultsLaw ==
  ASSUME NEW graph, graph.symbols \in Seq(KnownRows), NEW store, store.symbols \in Seq(KnownRows), NEW localized \in Seq(Cand),
         NEW profile, NEW scopes \in Seq(Scope), NEW g, g.scopes = ToSet(scopes),
         NodesAround(graph, localized) \subseteq g.near
  PROVE  GraphResults(graph, store, localized, profile, scopes) \in Seq(Grounds(g, "graph"))
<1> DEFINE S == Grounds(g, "graph")
           E == [type : DOMAIN EdgeBonus, node : Node]
           seeds == Seeds(localized)
           node(e, s) == [e.node EXCEPT !.score = s.score + EdgeBonus[e.type], !.distance = 1, !.reasons = {"graph"}]
           near(s) == First(Neighbors(graph, s.symbol), GraphFan)
           around(s) == [i \in DOMAIN near(s) |-> node(near(s)[i], s)]
           ss == [k \in DOMAIN seeds |-> around(seeds[k])]
           expanded == FlattenSeq(ss)
           I == {i \in DOMAIN expanded : profile.statement \/ expanded[i].kind # "statement"}
           kept == Among(expanded, I)
           t == Annotate(kept, scopes)
           h == [i \in DOMAIN t |-> Hydrated(t[i], store)]
<1>1. seeds \in Seq(Cand)
  BY SeedsAre
<1>2. \A k \in DOMAIN seeds : around(seeds[k]) \in Seq(S)
  <2> HIDE DEF around, S, seeds
  <2> SUFFICES ASSUME NEW k \in DOMAIN seeds PROVE around(seeds[k]) \in Seq(S)
    OBVIOUS
  <2> DEFINE s == seeds[k]
             v == Neighbors(graph, s.symbol)
             u == near(s)
  <2>1. s \in Cand /\ s.score \in Int
    <3>1. s \in Cand
      BY <1>1
    <3> QED BY <3>1 DEF Cand, Record
  <2>2. v \in Seq(E)
    BY NeighborsAre
  <2>3. \A i \in 1..Len(v) : v[i] \in E /\ v[i].node \in g.near
    <3> SUFFICES ASSUME NEW i \in 1..Len(v) PROVE v[i] \in E /\ v[i].node \in g.near
      OBVIOUS
    <3>1. v[i] \in E
      <4> HIDE DEF v, E
      <4> QED BY <2>2
    <3>2. v[i] \in ToSet(v)
      <4> HIDE DEF v, E
      <4> QED BY <2>2, ToSetIs
    <3>3. s \in ToSet(seeds)
      <4>1. k \in 1..Len(seeds)
        BY <1>1
      <4> QED BY <1>1, <4>1, ToSetIs
    <3>4. v[i].node \in NodesAround(graph, localized)
      BY <3>2, <3>3 DEF NodesAround, seeds
    <3> QED BY <3>1, <3>4
  <2> DEFINE EE == E
  <2> HIDE DEF v, EE
  <2>4. u \in Seq(EE) /\ \A i \in 1..Len(u) : \E j \in 1..Len(v) : u[i] = v[j]
    <3>1. GraphFan \in Int
      BY CapAssumption
    <3>2. v \in Seq(EE)
      BY <2>2 DEF EE
    <3>3. u = First(v, GraphFan)
      BY DEF v
    <3> HIDE DEF near
    <3>4. /\ First(v, GraphFan) \in Seq(EE)
          /\ \A k1 \in 1..Len(First(v, GraphFan)) : k1 \in 1..Len(v) /\ First(v, GraphFan)[k1] = v[k1]
      BY <3>1, <3>2, FirstLaw
    <3>5. u \in Seq(EE) /\ \A i \in 1..Len(u) : i \in 1..Len(v) /\ u[i] = v[i]
      BY <3>3, <3>4
    <3> QED BY <3>5
  <2>5. \A i \in 1..Len(u) : u[i] \in E /\ u[i].node \in g.near
    <3> HIDE DEF near
    <3> QED BY <2>3, <2>4
  <2> HIDE DEF near, s
  <2>6. \A i \in DOMAIN u : node(u[i], s) \in S
    <3> HIDE DEF node
    <3> SUFFICES ASSUME NEW i \in DOMAIN u PROVE node(u[i], s) \in S
      OBVIOUS
    <3>1. i \in 1..Len(u)
      BY <2>4
    <3>2. u[i] \in E /\ u[i].node \in g.near
      BY <2>5, <3>1
    <3> DEFINE e == u[i]
    <3> HIDE DEF e
    <3>3. [e.node EXCEPT !.score = s.score + EdgeBonus[e.type], !.distance = 1, !.reasons = {"graph"}] \in S
      BY <2>1, <3>2, GraphNode DEF S, e
    <3> QED BY <3>3 DEF node, e
  <2> HIDE DEF node
  <2> DEFINE w(i) == node(u[i], s)
  <2> HIDE DEF S
  <2>7. [i \in DOMAIN u |-> node(u[i], s)] \in Seq(S)
    <3>1. DOMAIN u = 1..Len(u) /\ Len(u) \in Nat
      BY <2>4
    <3>2. \A i \in 1..Len(u) : w(i) \in S
      BY <2>6, <3>1
    <3> HIDE DEF w
    <3>3. [i \in 1..Len(u) |-> w(i)] \in Seq(S)
      BY <3>1, <3>2, SMTT(60)
    <3> QED BY <3>1, <3>3 DEF w
  <2> QED BY <2>7 DEF around, s
<1>3. GraphResults(graph, store, localized, profile, scopes)
        = Each(Annotate(Where(expanded, LAMBDA c : profile.statement \/ c.kind # "statement"), scopes),
               LAMBDA c : Hydrated(c, store))
  BY DEF GraphResults, Each
<1> HIDE DEF around, seeds
<1>4. ss \in Seq(Seq(S))
  <2> DEFINE T == Seq(S)
             one(k) == around(seeds[k])
  <2>1. \A k \in DOMAIN seeds : one(k) \in T
    BY <1>2
  <2> HIDE DEF T, one
  <2>3. DOMAIN seeds = 1..Len(seeds) /\ Len(seeds) \in Nat
    BY <1>1
  <2>2. [k \in DOMAIN seeds |-> one(k)] \in Seq(T)
    BY <2>1, <2>3
  <2> QED BY <2>2 DEF T, one
<1> HIDE DEF ss
<1>5. expanded \in Seq(S)
  <2> HIDE DEF S
  <2> QED BY <1>4, FlattenLaw
<1> HIDE DEF expanded
<1>6. Where(expanded, LAMBDA c : profile.statement \/ c.kind # "statement") = kept
  BY <1>5, OnceIs DEF Where
<1> HIDE DEF I
<1>7. kept \in Seq(S)
  BY <1>5, AmongIs
<1> HIDE DEF kept
<1>8. t \in Seq(S)
  BY <1>7, AnnotateGrounds
<1>9. GraphResults(graph, store, localized, profile, scopes) = h
  BY <1>3, <1>6 DEF Each
<1> HIDE DEF t
<1>10. \A i \in DOMAIN t : Hydrated(t[i], store) \in S
  <2> SUFFICES ASSUME NEW i \in DOMAIN t PROVE Hydrated(t[i], store) \in S
    OBVIOUS
  <2>1. t[i] \in Grounds(g, "graph")
    BY <1>8
  <2>2. Hydrated(t[i], store) \in Founded(g) /\ SameThing(t[i], Hydrated(t[i], store))
    BY <2>1, HydratedLaw DEF Grounds
  <2> QED BY <2>1, <2>2, GroundsAs
<1>11. h \in Seq(S)
  <2> HIDE DEF S
  <2> QED BY <1>8, <1>10
<1> QED BY <1>9, <1>11

\* A lookup by symbol answers with documents of the symbol.
LEMMA LookupIs ==
  ASSUME NEW index \in Seq(Doc), NEW store, store.symbols \in Seq(KnownRows), NEW n, NEW kinds, NEW quota \in Nat
  PROVE  LookupSymbolDocs(store, index, n, kinds, quota) \in Seq(DocsOf(Doc, n, kinds))
<1> DEFINE T == DocsOf(Doc, n, kinds)
           s == {x \in ToSet(store.symbols) : x.id = n /\ x.body # {}}
           b == {d \in {BodyDoc(x) : x \in s} : kinds = {} \/ d.kind \in kinds}
           one == CHOOSE d \in b : TRUE
           many == Most(4 * quota, 20)
           q1 == QuerySymbol(index, n, many, kinds)
<1>1. LookupSymbolDocs(store, index, n, kinds, quota)
        = IF b # {} THEN <<[one EXCEPT !.score = 100]>> ELSE First(q1, quota)
  BY DEF LookupSymbolDocs
<1>2. \A d \in b : d \in T
  <2> SUFFICES ASSUME NEW x \in s, kinds = {} \/ BodyDoc(x).kind \in kinds PROVE BodyDoc(x) \in T
    OBVIOUS
  <2>1. x \in KnownRows /\ x.id = n
    BY ToSetIs
  <2> QED BY <2>1, RowDocs DEF DocsOf
<1>3. b # {} => [one EXCEPT !.score = 100] \in T
  <2> SUFFICES ASSUME b # {} PROVE [one EXCEPT !.score = 100] \in T
    OBVIOUS
  <2>1. one \in b
    <3> HIDE DEF b
    <3> QED OBVIOUS
  <2> HIDE DEF one, b
  <2>2. one \in T /\ one \in Doc
    BY <1>2, <2>1 DEF DocsOf
  <2>3. [one EXCEPT !.score = 100] \in Doc /\ one \in Record
    <3>1. [one EXCEPT !.score = 100] \in Doc
      <4>1. Closed(Doc)
        BY DocIsIndexed DEF Indexed
      <4> HIDE DEF T
      <4> QED BY <2>2, <4>1 DEF Closed
    <3>2. one \in Record
      BY <2>2 DEF Doc, Cand
    <3> QED BY <3>1, <3>2
  <2>4. [one EXCEPT !.score = 100].symbol = one.symbol /\ [one EXCEPT !.score = 100].kind = one.kind
    BY <2>3 DEF Record
  <2> QED BY <2>2, <2>3, <2>4 DEF DocsOf
<1>4. q1 \in Seq(T)
  <2>1. many \in Nat
    <3> DEFINE x == 4 * quota
    <3>1. x \in Nat
      OBVIOUS
    <3> HIDE DEF x
    <3>2. Most(x, 20) \in {x, 20}
      BY <3>1, MostIs
    <3>3. Most(x, 20) \in Nat
      BY <3>1, <3>2
    <3> QED BY <3>3 DEF x
  <2> HIDE DEF many, b, one
  <2> QED BY <2>1, QuerySymbolIs
<1> HIDE DEF q1, b, one, T
<1>5. First(q1, quota) \in Seq(T)
  BY <1>4, FirstIs
<1>6. LookupSymbolDocs(store, index, n, kinds, quota) \in Seq(T)
  BY <1>1, <1>3, <1>5
<1> QED BY <1>6 DEF T

\* The candidates of the symbol stage.
Localized(g) == {c \in Founded(g) : c.reasons \subseteq {"symbol-localization"}}

\* The body of a symbol found is a candidate for the reason that it is one.
LEMMA BodyOf ==
  ASSUME NEW scopes \in Seq(Scope), NEW g, g.scopes = ToSet(scopes), NEW c \in Localized(g), c.symbol \in g.found,
         NEW d \in Doc, d.symbol = c.symbol, d.kind \in BodyKinds
  PROVE  [Annotated(d, scopes) EXCEPT !.reasons = c.reasons \cup {"body"}] \in Grounds(g, "body")
<1> DEFINE x == Annotated(d, scopes)
           y == [x EXCEPT !.reasons = c.reasons \cup {"body"}]
<1>1. x \in Founded(g)
  BY DocIsFounded, AnnotatedLaw
<1>2. d \in Record /\ x \in Cand /\ x \in Record
  BY <1>1 DEF Doc, Cand, Founded
<1>3. SameThing(d, x)
  BY <1>2, AnnotatedSame
<1> HIDE DEF x
<1>4. c.reasons \subseteq {"symbol-localization"}
  BY DEF Localized
<1>5. y \in Cand /\ SameThing(x, y) /\ y.reasons = c.reasons \cup {"body"} /\ y.depth = x.depth
  BY <1>2, <1>4 DEF Cand, Record, SameThing, Reasons
<1> HIDE DEF y
<1>6. Ground(g, "body", y)
  BY <1>3, <1>5 DEF Ground, SameThing
<1>7. "symbol-localization" \in c.reasons => Ground(g, "symbol-localization", y)
  <2> SUFFICES ASSUME "symbol-localization" \in c.reasons PROVE Ground(g, "symbol-localization", y)
    OBVIOUS
  <2>1. c.symbol \in g.exact
    BY DEF Localized, Founded, Ground
  <2> QED BY <1>3, <1>5, <2>1 DEF Ground, SameThing
<1>8. Placed(g, y)
  BY <1>1, <1>5 DEF Founded, Placed, SameThing
<1>9. y \in Founded(g)
  BY <1>4, <1>5, <1>6, <1>7, <1>8 DEF Founded
<1>10. y \in Grounds(g, "body")
  BY <1>6, <1>9 DEF Grounds
<1> QED BY <1>10 DEF y, x

\* The body stage (hydrate_body_results) answers with bodies of the symbols found.
LEMMA BodyResultsLaw ==
  ASSUME NEW index \in Seq(Doc), NEW store, store.symbols \in Seq(KnownRows), NEW kinds \in SUBSET BodyKinds, kinds # {},
         NEW scopes \in Seq(Scope), NEW g, g.scopes = ToSet(scopes), NEW localized \in Seq(Localized(g)),
         {r.symbol : r \in ToSet(localized)} \subseteq g.found
  PROVE  BodyResults(index, store, localized, kinds, scopes) \in Seq(Grounds(g, "body"))
<1> DEFINE L == {c \in Localized(g) : c.symbol \in g.found}
           S == Grounds(g, "body")
           docs(c) == First(LookupSymbolDocs(store, index, c.symbol, kinds, 1), 1)
           one(c, d) == [Annotated(d, scopes) EXCEPT !.reasons = c.reasons \cup {"body"}]
           body(c) == [i \in DOMAIN docs(c) |-> one(c, docs(c)[i])]
           u == Distinct(Sorted(localized), LAMBDA c : c.symbol)
           ss == [k \in DOMAIN u |-> body(u[k])]
<1>1. BodyResults(index, store, localized, kinds, scopes) = First(FlattenSeq(ss), BodyCap)
  BY DEF BodyResults, Each
<1>2. localized \in Seq(L)
  <2>1. \A i \in 1..Len(localized) : localized[i] \in Localized(g) /\ localized[i] \in ToSet(localized)
    <3> HIDE DEF Localized
    <3> QED BY ToSetIs
  <2>2. \A i \in 1..Len(localized) : localized[i] \in L
    BY <2>1
  <2> HIDE DEF L
  <2> QED BY <2>2, SMTT(60)
<1> HIDE DEF L
<1>3. u \in Seq(L)
  BY <1>2, SortedIs, SymbolsOnce
<1> HIDE DEF u
<1>4. \A c \in L : body(c) \in Seq(S)
  <2> HIDE DEF body, S
  <2> SUFFICES ASSUME NEW c \in L PROVE body(c) \in Seq(S)
    OBVIOUS
  <2> DEFINE D == DocsOf(Doc, c.symbol, kinds)
             v == docs(c)
  <2>1. v \in Seq(D)
    <3>1. LookupSymbolDocs(store, index, c.symbol, kinds, 1) \in Seq(D)
      BY LookupIs
    <3> HIDE DEF D
    <3> QED BY <3>1, FirstIs
  <2>2. c \in Localized(g) /\ c.symbol \in g.found
    BY DEF L
  <2>3. \A d \in D : one(c, d) \in S
    <3> HIDE DEF one
    <3> SUFFICES ASSUME NEW d \in D PROVE one(c, d) \in S
      OBVIOUS
    <3>1. d \in Doc /\ d.symbol = c.symbol /\ d.kind \in BodyKinds
      BY DEF DocsOf
    <3>2. [Annotated(d, scopes) EXCEPT !.reasons = c.reasons \cup {"body"}] \in S
      BY <2>2, <3>1, BodyOf DEF S
    <3> QED BY <3>2 DEF one
  <2> HIDE DEF D, docs, one
  <2>4. [i \in DOMAIN v |-> one(c, v[i])] \in Seq(S)
    <3> DEFINE x(i) == one(c, v[i])
    <3>1. \A i \in DOMAIN v : x(i) \in S
      <4>1. \A i \in DOMAIN v : v[i] \in D
        BY <2>1
      <4> QED BY <2>3, <4>1
    <3> HIDE DEF x
    <3>2. [i \in DOMAIN v |-> x(i)] \in Seq(S)
      BY <2>1, <3>1
    <3> QED BY <3>2 DEF x
  <2> QED BY <2>4 DEF body
<1> HIDE DEF body
<1>5. ss \in Seq(Seq(S))
  <2> DEFINE T == Seq(S)
             x(k) == body(u[k])
  <2>1. \A k \in DOMAIN u : x(k) \in T
    <3>1. \A k \in DOMAIN u : u[k] \in L
      BY <1>3
    <3> QED BY <1>4, <3>1
  <2>2. DOMAIN u = 1..Len(u) /\ Len(u) \in Nat
    BY <1>3
  <2> HIDE DEF T, x
  <2>3. [k \in DOMAIN u |-> x(k)] \in Seq(T)
    BY <2>1, <2>2
  <2> QED BY <2>3 DEF T, x
<1> HIDE DEF ss, S
<1>6. FlattenSeq(ss) \in Seq(S)
  BY <1>5, FlattenLaw
<1>7. BodyCap \in Int
  BY CapAssumption
<1>8. First(FlattenSeq(ss), BodyCap) \in Seq(S)
  BY <1>6, <1>7, FirstIs
<1> QED BY <1>1, <1>8 DEF S

\* Results that the reason holds of are merged with the candidates.
LEMMA MergeLaw ==
  ASSUME NEW g, NEW reason \in Reasons, NEW candidates \in Seq(Founded(g)),
         NEW results \in Seq(Grounds(g, reason))
  PROVE  Merge(candidates, results, reason) \in Seq(Founded(g))
<1> DEFINE S == Founded(g)
           W == Grounds(g, reason)
           added(x) == [x EXCEPT !.reasons = @ \cup {reason}]
           join(acc, c) == [i \in DOMAIN acc |-> IF Key(acc[i]) = Key(c) THEN Joined(acc[i], c) ELSE acc[i]]
           with(acc, c) == IF \E i \in DOMAIN acc : Key(acc[i]) = Key(c) THEN join(acc, c) ELSE Append(acc, c)
           add(acc, x) == with(acc, added(x))
           base == candidates
           T == Seq(S)
           n == Len(results)
           V == [k \in 0..n |-> T]
           G == [x \in T \X (1..n) |-> add(x[1], results[x[2]])]
           Solves(f) == f = [k \in 0..n |-> IF k = 0 THEN base ELSE add(f[k - 1], results[k])]
<1>1. ASSUME NEW acc \in T, NEW x \in W PROVE add(acc, x) \in T
  <2> DEFINE c == added(x)
  <2>1. c \in S
    BY ReasonAdded DEF Grounds
  <2> HIDE DEF added
  <2>2. join(acc, c) \in Seq(S)
    <3> DEFINE one(i) == IF Key(acc[i]) = Key(c) THEN Joined(acc[i], c) ELSE acc[i]
    <3>1. \A i \in DOMAIN acc : one(i) \in S
      <4> HIDE DEF one
      <4> SUFFICES ASSUME NEW i \in DOMAIN acc PROVE one(i) \in S
        OBVIOUS
      <4>1. acc[i] \in S
        BY DEF T
      <4> HIDE DEF c
      <4>2. Key(acc[i]) = Key(c) => Joined(acc[i], c) \in S
        BY <2>1, <4>1, JoinedLaw
      <4> QED BY <4>1, <4>2 DEF one
    <3> HIDE DEF one, S, c
    <3>2. [i \in DOMAIN acc |-> one(i)] \in Seq(S)
      BY <3>1
    <3> QED BY <3>2 DEF one
  <2>3. Append(acc, c) \in Seq(S)
    <3> HIDE DEF c, S
    <3> QED BY <2>1
  <2> HIDE DEF join, c
  <2>4. with(acc, c) \in T
    BY <2>2, <2>3
  <2> QED BY <2>4 DEF c
<1>2. base \in T
  OBVIOUS
<1> HIDE DEF add, base, T
<1>3. \A k \in 0..n : V[k] = T
  OBVIOUS
<1>4. \A k \in 1..n : \A a \in V[k - 1] : G[<<a, k>>] = add(a, results[k]) /\ add(a, results[k]) \in V[k]
  <2> SUFFICES ASSUME NEW k \in 1..n, NEW a \in V[k - 1]
               PROVE  G[<<a, k>>] = add(a, results[k]) /\ add(a, results[k]) \in V[k]
    OBVIOUS
  <2>1. k - 1 \in 0..n /\ k \in 0..n /\ results[k] \in W
    OBVIOUS
  <2>2. a \in T
    BY <1>3, <2>1
  <2>3. G[<<a, k>>] = add(a, results[k])
    BY <2>2
  <2> HIDE DEF G, V
  <2> QED BY <1>1, <1>3, <2>1, <2>2, <2>3
<1> HIDE DEF G
<1>5. base \in V[0] /\ n \in Nat
  BY <1>2, <1>3
<1> HIDE DEF V
<1>6. PICK f : Runs(f, n, V, G, base)
  <2> HIDE DEF n
  <2> QED BY <1>4, <1>5, Recursion
<1> DEFINE h == [k \in 0..n |-> f[k]]
<1>7. Solves(h)
  <2>1. \A k \in 0..n : f[k] \in V[k]
    <3> HIDE DEF n
    <3> QED BY <1>4, <1>5, <1>6, Recursion
  <2> DEFINE of(k) == IF k = 0 THEN base ELSE add(h[k - 1], results[k])
  <2>2. \A k \in 0..n : f[k] = of(k)
    <3> SUFFICES ASSUME NEW k \in 0..n PROVE f[k] = of(k)
      OBVIOUS
    <3>1. CASE k = 0
      BY <1>6, <3>1 DEF Runs
    <3>2. CASE k # 0
      <4>1. k \in 1..n /\ k - 1 \in 0..n
        BY <3>2
      <4>2. f[k] = add(f[k - 1], results[k]) /\ h[k - 1] = f[k - 1]
        BY <1>4, <1>6, <2>1, <4>1 DEF Runs
      <4> QED BY <3>2, <4>2
    <3> QED BY <3>1, <3>2
  <2>3. h = [k \in 0..n |-> of(k)]
    <3> HIDE DEF of
    <3> QED BY <2>2
  <2> QED BY <2>3
<1> HIDE DEF h
<1> DEFINE r == CHOOSE x : Solves(x)
<1>8. Solves(r)
  <2> HIDE DEF Solves
  <2> QED BY <1>7
<1>9. Merge(candidates, results, reason) = r[n]
  BY DEF Merge, Loop, add, base
<1> HIDE DEF r
<1>10. Runs(r, n, V, G, base)
  <2> DEFINE of(k) == IF k = 0 THEN base ELSE add(r[k - 1], results[k])
  <2>1. \A k \in 0..n : r[k] = of(k)
    <3>1. r = [k \in 0..n |-> of(k)]
      BY <1>8
    <3> HIDE DEF of
    <3> QED BY <3>1
  <2>2. \A k \in 1..n : r[k - 1] \in V[k - 1] => r[k] = G[<<r[k - 1], k>>]
    <3> SUFFICES ASSUME NEW k \in 1..n, r[k - 1] \in V[k - 1] PROVE r[k] = G[<<r[k - 1], k>>]
      OBVIOUS
    <3>1. k \in 0..n /\ k # 0
      OBVIOUS
    <3> QED BY <1>4, <2>1, <3>1
  <2> QED BY <2>1, <2>2 DEF Runs
<1>11. \A k \in 0..n : r[k] \in V[k]
  <2> HIDE DEF n
  <2> QED BY <1>4, <1>5, <1>10, Recursion
<1>12. r[n] \in T
  BY <1>3, <1>5, <1>11
<1> QED BY <1>9, <1>12 DEF T

\* The texts that annotate_summary_relevance finds leave a candidate founded, where any may add to it.
LEMMA RelevantLaw ==
  ASSUME NEW g, g.any, NEW c \in Founded(g), NEW ask, IsQuery(ask)
  PROVE  Relevant(c, ask) \in Founded(g)
<1> DEFINE terms == ToSet(Tokens(ask))
           met == {t \in terms : \E w \in SummaryText(c) : Has(t, <<w>>)}
           overlap == Cardinality(met)
           x == (100 * overlap) \div Cardinality(terms)
           d == [c EXCEPT !.relevance = x]
           e == [c EXCEPT !.relevance = x, !.reasons = @ \cup {"summary"}]
<1>1. CASE overlap = 0
  BY <1>1 DEF Relevant
<1>2. CASE overlap # 0
  <2>1. Relevant(c, ask) = e
    BY <1>2 DEF Relevant
  <2>2. x \in Nat
    <3>1. met \subseteq terms
      OBVIOUS
    <3>2. Tokens(ask) \in Seq(Segment)
      BY TokensIs
    <3>3. IsFiniteSet(terms) /\ Cardinality(terms) \in Nat /\ overlap \in Nat
      <4>1. terms \in SUBSET terms /\ met \in SUBSET terms
        BY <3>1
      <4> HIDE DEF met
      <4> QED BY <3>2, <4>1, ToSetIs
    <3>4. Cardinality(terms) # 0
      <4> SUFFICES ASSUME Cardinality(terms) = 0 PROVE FALSE
        OBVIOUS
      <4>1. terms = {}
        <5> HIDE DEF terms
        <5> QED BY <3>3, FS_EmptySet
      <4>2. met = {}
        BY <3>1, <4>1
      <4>3. overlap = 0
        <5> HIDE DEF met
        <5> QED BY <4>2, FS_EmptySet
      <4> QED BY <1>2, <4>3
    <3> DEFINE a == overlap
               b == Cardinality(terms)
    <3>5. a \in Nat /\ b \in Nat /\ b # 0
      BY <3>3, <3>4
    <3> HIDE DEF a, b
    <3>6. (100 * a) \div b \in Nat
      BY <3>5
    <3> QED BY <3>6 DEF a, b
  <2> HIDE DEF x
  <2>3. c \in Cand /\ c \in Record
    BY DEF Founded, Cand
  <2>4. d \in Cand /\ SameThing(c, d) /\ d.reasons = c.reasons /\ d.depth = c.depth /\ d \in Record
    BY <2>2, <2>3 DEF Cand, Record, SameThing
  <2>5. e = [d EXCEPT !.reasons = @ \cup {"summary"}]
    BY <2>3 DEF Record
  <2> HIDE DEF d, e
  <2>6. d \in Founded(g)
    BY <2>4, FoundedAs
  <2>7. Ground(g, "summary", d)
    BY DEF Ground
  <2>8. e \in Founded(g)
    BY <2>5, <2>6, <2>7, ReasonAdded DEF Reasons
  <2> QED BY <2>1, <2>8
<1> QED BY <1>1, <1>2

\* What a document, a summary or a symbol of the symbol stage is merged for holds of it.
LEMMA Given ==
  ASSUME NEW g, NEW S, NEW reason, NEW cs \in Seq(S), \A i \in 1..Len(cs) : cs[i] \in Founded(g) /\ Ground(g, reason, cs[i])
  PROVE  cs \in Seq(Grounds(g, reason))
<1>1. \A i \in 1..Len(cs) : cs[i] \in Grounds(g, reason)
  BY DEF Grounds
<1> QED BY <1>1

\* The grounds of the candidates: what the stages return.
Rests(g, store, graph, vectors, ask, o, summaries, localized) ==
  /\ g.scopes = ToSet(SummaryScopes(ask, summaries))
  /\ {r.symbol : r \in ToSet(localized)} \subseteq g.found
  /\ o.graph /\ Gate(ask, Profile(ask), summaries, ExactResults(store, ask), o.selective).graph
       => NodesAround(graph, localized) \subseteq g.near
  /\ {<<d.kind, Source(d)>> : d \in ToSet(vectors)} \subseteq g.embedded
  /\ o.summaries => g.any
  /\ ToSet(summaries) \subseteq g.summaries

\* The stages merged: every candidate is founded in what the stages returned.
LEMMA CandidatesLaw ==
  ASSUME NEW index \in Seq(Doc), NEW store, store.symbols \in Seq(KnownRows), NEW graph, graph.symbols \in Seq(KnownRows),
         NEW vectors \in Seq(Doc), NEW ask, IsQuery(ask), NEW o, o.limit \in Nat, NEW summaries \in Seq(Doc),
         NEW g, NEW localized \in Seq(Localized(g)), Rests(g, store, graph, vectors, ask, o, summaries, localized)
  PROVE  Candidates(index, store, graph, vectors, ask, o, summaries, localized) \in Seq(Founded(g))
<1> DEFINE S == Founded(g)
           scopes == SummaryScopes(ask, summaries)
           gate == Gate(ask, Profile(ask), summaries, ExactResults(store, ask), o.selective)
           kinds == StageKinds(BodyKinds, o.kinds)
           near == IF o.graph /\ gate.graph THEN GraphResults(graph, store, localized, Profile(ask), scopes) ELSE <<>>
           bodies == IF kinds # {} /\ gate.body THEN BodyResults(index, store, localized, kinds, scopes) ELSE <<>>
           found == QueryEmbeddings(vectors, ask, Most(o.limit, EmbeddingLeast))
           embedded == Annotate(found, scopes)
           m1 == Merge(<<>>, summaries, "summary")
           m2 == Merge(m1, localized, "symbol")
           m3 == Merge(m2, near, "graph")
           m4 == Merge(m3, bodies, "body")
           m5 == Merge(m4, embedded, "embedding")
           one(c) == IF o.summaries THEN Relevant(c, ask) ELSE c
           t == [i \in DOMAIN m5 |-> one(m5[i])]
<1>1. Candidates(index, store, graph, vectors, ask, o, summaries, localized) = t
  BY DEF Candidates, Each
<1>2. scopes \in Seq(Scope) /\ g.scopes = ToSet(scopes)
  <2>1. summaries \in Seq(Cand)
    <3>1. Doc \subseteq Cand
      BY DEF Doc
    <3> QED BY <3>1, SeqMonotonic
  <2> QED BY <2>1, ScopesIs DEF Rests
<1>3. summaries \in Seq(Grounds(g, "summary"))
  <2>1. \A i \in 1..Len(summaries) : summaries[i] \in Founded(g) /\ Ground(g, "summary", summaries[i])
    <3> SUFFICES ASSUME NEW i \in 1..Len(summaries) PROVE summaries[i] \in Founded(g) /\ Ground(g, "summary", summaries[i])
      OBVIOUS
    <3>1. summaries[i] \in Doc /\ summaries[i] \in ToSet(summaries)
      BY ToSetIs
    <3>2. summaries[i] \in g.summaries
      BY <3>1 DEF Rests
    <3>3. Ground(g, "summary", summaries[i])
      BY <3>2 DEF Ground
    <3> QED BY <3>1, <3>3, DocIsFounded
  <2> QED BY <2>1, Given
<1>4. localized \in Seq(Grounds(g, "symbol"))
  <2>1. \A i \in 1..Len(localized) : localized[i] \in Founded(g) /\ Ground(g, "symbol", localized[i])
    <3> SUFFICES ASSUME NEW i \in 1..Len(localized) PROVE localized[i] \in Founded(g) /\ Ground(g, "symbol", localized[i])
      OBVIOUS
    <3>1. localized[i] \in Localized(g) /\ localized[i] \in ToSet(localized)
      BY ToSetIs
    <3>2. localized[i].symbol \in g.found
      BY <3>1 DEF Rests
    <3>3. Ground(g, "symbol", localized[i])
      BY <3>2 DEF Ground
    <3> QED BY <3>1, <3>3 DEF Localized
  <2> QED BY <2>1, Given
<1>5. near \in Seq(Grounds(g, "graph"))
  <2>1. CASE o.graph /\ gate.graph
    <3>1. NodesAround(graph, localized) \subseteq g.near
      BY <2>1 DEF Rests
    <3>2. localized \in Seq(Cand)
      <4>1. Localized(g) \subseteq Cand
        BY DEF Localized, Founded
      <4> QED BY <4>1, SeqMonotonic
    <3>3. GraphResults(graph, store, localized, Profile(ask), scopes) \in Seq(Grounds(g, "graph"))
      <4> HIDE DEF scopes
      <4> QED BY <1>2, <3>1, <3>2, GraphResultsLaw
    <3> QED BY <2>1, <3>3
  <2>2. CASE ~(o.graph /\ gate.graph)
    <3>1. near = <<>>
      BY <2>2
    <3> HIDE DEF near
    <3> QED BY <3>1
  <2> QED BY <2>1, <2>2
<1>6. bodies \in Seq(Grounds(g, "body"))
  <2>1. CASE kinds # {} /\ gate.body
    <3>1. kinds \in SUBSET BodyKinds
      BY DEF StageKinds
    <3>2. {r.symbol : r \in ToSet(localized)} \subseteq g.found
      BY DEF Rests
    <3>3. BodyResults(index, store, localized, kinds, scopes) \in Seq(Grounds(g, "body"))
      <4> HIDE DEF scopes, kinds
      <4> QED BY <1>2, <2>1, <3>1, <3>2, BodyResultsLaw
    <3> QED BY <2>1, <3>3
  <2>2. CASE ~(kinds # {} /\ gate.body)
    <3>1. bodies = <<>>
      BY <2>2
    <3> HIDE DEF bodies
    <3> QED BY <3>1
  <2> QED BY <2>1, <2>2
<1>7. embedded \in Seq(Grounds(g, "embedding"))
  <2>1. \A i \in 1..Len(vectors) : vectors[i] \in Founded(g) /\ Ground(g, "embedding", vectors[i])
    <3> SUFFICES ASSUME NEW i \in 1..Len(vectors) PROVE vectors[i] \in Founded(g) /\ Ground(g, "embedding", vectors[i])
      OBVIOUS
    <3>1. vectors[i] \in Doc /\ vectors[i] \in ToSet(vectors)
      BY ToSetIs
    <3>2. <<vectors[i].kind, Source(vectors[i])>> \in g.embedded
      BY <3>1 DEF Rests
    <3>3. Ground(g, "embedding", vectors[i])
      BY <3>2 DEF Ground
    <3> QED BY <3>1, <3>3, DocIsFounded
  <2>2. vectors \in Seq(Grounds(g, "embedding"))
    BY <2>1, Given
  <2>3. Most(o.limit, EmbeddingLeast) \in Int
    <3>1. EmbeddingLeast \in Int /\ o.limit \in Int
      BY CapAssumption
    <3> QED BY <3>1, MostIs
  <2>4. found \in Seq(Grounds(g, "embedding"))
    BY <2>2, <2>3, GroundsAreClosed, QueryEmbeddingsIs
  <2> HIDE DEF found, scopes
  <2> QED BY <1>2, <2>4, AnnotateGrounds
<1> HIDE DEF near, bodies, embedded, S
<1>8. m1 \in Seq(S)
  <2>1. <<>> \in Seq(S)
    OBVIOUS
  <2> QED BY <1>3, <2>1, MergeLaw DEF S, Reasons
<1> HIDE DEF m1
<1>9. m2 \in Seq(S)
  BY <1>4, <1>8, MergeLaw DEF S, Reasons
<1> HIDE DEF m2
<1>10. m3 \in Seq(S)
  BY <1>5, <1>9, MergeLaw DEF S, Reasons
<1> HIDE DEF m3
<1>11. m4 \in Seq(S)
  BY <1>6, <1>10, MergeLaw DEF S, Reasons
<1> HIDE DEF m4
<1>12. m5 \in Seq(S)
  BY <1>7, <1>11, MergeLaw DEF S, Reasons
<1> HIDE DEF m5
<1>13. \A c \in S : one(c) \in S
  BY RelevantLaw DEF S, Rests
<1> HIDE DEF one
<1>14. t \in Seq(S)
  <2> DEFINE x(i) == one(m5[i])
  <2>1. \A i \in DOMAIN m5 : x(i) \in S
    <3>1. \A i \in DOMAIN m5 : m5[i] \in S
      BY <1>12
    <3> QED BY <1>13, <3>1
  <2> HIDE DEF x
  <2>3. DOMAIN m5 = 1..Len(m5) /\ Len(m5) \in Nat
    BY <1>12
  <2>2. [i \in DOMAIN m5 |-> x(i)] \in Seq(S)
    BY <2>1, <2>3
  <2> QED BY <2>2 DEF x
<1> QED BY <1>1, <1>14 DEF S

-----------------------------------------------------------------------------
(* The invariant.                                                          *)

\* a call as a client makes it
IsRequest(r) ==
  /\ DOMAIN r = {"op", "q", "opts"} /\ r.op \in {"context", "bundle", "paper", "trace", "enclosing"}
  /\ DOMAIN r.q = {"words", "slash", "id"} /\ IsQuery(r.q)
  /\ "limit" \in DOMAIN r.opts /\ r.opts.limit \in Nat \ {0}

\* A call, whatever it has come to.
IsCall(c) ==
  /\ DOMAIN c = {"request", "stage", "round", "summaries", "localized", "pool", "ranked", "selected", "defined",
                 "seeds", "neighbors", "read"}
  /\ IsRequest(c.request)
  /\ c.summaries \in Seq(Doc)
  /\ c.localized \in Seq(Cand) /\ c.pool \in Seq(Cand) /\ c.ranked \in Seq(Cand) /\ c.selected \in Seq(Cand)

\* The stages of a call are those of its tool.
Staged(c) ==
  /\ c.stage \in {"summaries", "symbols", "localize", "expand", "select"} => c.request.op \in {"context", "bundle"}
  /\ c.stage \in {"preview", "bundle"} => c.request.op = "bundle"
  /\ c.stage \in {"units", "batch", "again"} => c.request.op = "paper"
  /\ c.stage \in {"define", "callers", "callees"} => c.request.op = "trace"
  /\ c.stage \in {"resolve", "slice"} => c.request.op = "enclosing"

\* The paper pipeline: what the heuristics rank again is what the batches were
\* made of, and the sources selected are those of the units ranked.
Fused(c) ==
  /\ c.stage = "again" => c.pool = <<>> /\ Matches(c.ranked, c.localized)
  /\ c.stage = "done" /\ c.request.op = "paper" => c.selected = First(MaxP(c.ranked), c.request.opts.limit)

\* What the symbols found rest on, and what the candidates rest on.
Named(store, c) ==
  [exact |-> {r.symbol : r \in ToSet(ExactResults(store, c.request.q))}, found |-> {}, near |-> {}, embedded |-> {},
   any |-> FALSE, summaries |-> {}, scopes |-> ToSet(SummaryScopes(c.request.q, c.summaries))]
Returned(store, graph, open, c) ==
  [exact |-> {r.symbol : r \in ToSet(ExactResults(store, c.request.q))},
   found |-> {r.symbol : r \in ToSet(c.localized)},
   near |-> IF open THEN NodesAround(graph, c.localized) ELSE {},
   embedded |-> {<<d.kind, Source(d)>> : d \in ToSet(Documents(Worlds[c.read]))},
   any |-> c.request.opts.summaries, summaries |-> ToSet(c.summaries),
   scopes |-> ToSet(SummaryScopes(c.request.q, c.summaries))]

\* The stages of a context query after the one that found its symbols, in which
\* the store stays open.
After(c) == c.stage \in {"localize", "expand", "select"} \/ (c.stage = "done" /\ c.request.op = "context")
Reasoned(h, store, graph, c) ==
  /\ After(c) => h.meta # 0 /\ c.localized \in Seq(Founded(Named(store, c)))
  /\ c.stage = "select" => c.ranked \in Seq(Founded(Returned(store, graph, h.graph # 0, c)))
  /\ c.stage = "done" /\ c.request.op = "context" =>
       c.selected \in Seq(Founded(Returned(store, graph, h.graph # 0, c)))

\* what is on disk or held open is a generation
Opens ==
  /\ built \in [{"meta", "graph", "index", "vectors"} -> 1..Len(Worlds)]
  /\ handle \in [{"meta", "graph"} -> 0..Len(Worlds)]
Inv == Opens /\ IsCall(call) /\ Staged(call) /\ Fused(call) /\ Reasoned(handle, Store, Graph, call)

-----------------------------------------------------------------------------
(* The grounds of a call.                                                  *)

\* What the symbol stage may rest on.
LEMMA NamedIs ==
  ASSUME NEW store, NEW c
  PROVE  /\ Named(store, c).exact = {r.symbol : r \in ToSet(ExactResults(store, c.request.q))}
         /\ Named(store, c).scopes = ToSet(SummaryScopes(c.request.q, c.summaries))
         /\ Named(store, c).found = {} /\ Named(store, c).near = {} /\ Named(store, c).embedded = {}
         /\ Named(store, c).any = FALSE /\ Named(store, c).summaries = {}
BY DEF Named

\* What the candidates may rest on.
LEMMA ReturnedIs ==
  ASSUME NEW store, NEW graph, NEW open, NEW c
  PROVE  /\ Returned(store, graph, open, c).exact = {r.symbol : r \in ToSet(ExactResults(store, c.request.q))}
         /\ Returned(store, graph, open, c).scopes = ToSet(SummaryScopes(c.request.q, c.summaries))
         /\ Returned(store, graph, open, c).found = {r.symbol : r \in ToSet(c.localized)}
         /\ Returned(store, graph, open, c).near = IF open THEN NodesAround(graph, c.localized) ELSE {}
         /\ Returned(store, graph, open, c).embedded = {<<d.kind, Source(d)>> : d \in ToSet(Documents(Worlds[c.read]))}
         /\ Returned(store, graph, open, c).any = c.request.opts.summaries
         /\ Returned(store, graph, open, c).summaries = ToSet(c.summaries)
BY DEF Returned

\* What is found before the second ranking has no reason but its name.
LEMMA NamedIsLocalized ==
  ASSUME NEW store, NEW graph, NEW open, NEW c
  PROVE  Founded(Named(store, c)) \subseteq Localized(Returned(store, graph, open, c))
<1> SUFFICES ASSUME NEW x \in Founded(Named(store, c)) PROVE x \in Localized(Returned(store, graph, open, c))
  OBVIOUS
<1> DEFINE g == Named(store, c)
           h == Returned(store, graph, open, c)
<1>1. /\ g.exact = h.exact /\ g.scopes = h.scopes
      /\ g.found = {} /\ g.near = {} /\ g.embedded = {} /\ g.any = FALSE /\ g.summaries = {}
  BY DEF Named, Returned
<1> HIDE DEF g, h
<1>2. x \in Cand /\ (\A reason \in x.reasons : Ground(g, reason, x)) /\ Placed(g, x)
  BY DEF Founded, g
<1>3. x.reasons \subseteq Reasons
  BY <1>2 DEF Cand, Record
<1>4. x.reasons \subseteq {"symbol-localization"}
  <2> SUFFICES ASSUME NEW r \in x.reasons, r # "symbol-localization" PROVE FALSE
    OBVIOUS
  <2>1. r \in {"summary", "symbol", "graph", "body", "embedding"} /\ Ground(g, r, x)
    BY <1>2, <1>3 DEF Reasons
  <2> QED BY <1>1, <2>1 DEF Ground
<1>5. \A reason \in x.reasons : Ground(h, reason, x)
  <2> SUFFICES ASSUME NEW r \in x.reasons PROVE Ground(h, r, x)
    OBVIOUS
  <2>1. r = "symbol-localization" /\ Ground(g, r, x)
    BY <1>2, <1>4
  <2> QED BY <1>1, <2>1 DEF Ground
<1>6. Placed(h, x)
  BY <1>1, <1>2 DEF Placed
<1> QED BY <1>2, <1>4, <1>5, <1>6 DEF Founded, Localized, h

\* Without seeds there is no neighbour.
LEMMA NoNodesAround ==
  ASSUME NEW graph
  PROVE  NodesAround(graph, <<>>) = {}
<1>1. Seeds(<<>>) \in Seq({})
  <2>1. <<>> \in Seq({})
    OBVIOUS
  <2> QED BY <2>1, SeedsAre
<1>2. ToSet(Seeds(<<>>)) = {}
  <2>1. ToSet(Seeds(<<>>)) \subseteq {}
    BY <1>1, ToSetIs
  <2> QED BY <2>1
<1> QED BY <1>2 DEF NodesAround

\* The ranking is a reordering of what it is given.
LEMMA RankedIs ==
  ASSUME IsQuery(q), NEW S, Closed(S), NEW cs \in Seq(S)
  PROVE  Ranked(cs) \in Seq(S)
<1>1. HeuristicRank(q, cs, Profile(q)) \in Seq(S)
  BY HeuristicRankLaw
<1>2. Sorted(cs) \in Seq(S)
  BY SortedIs
<1> QED BY <1>1, <1>2 DEF Ranked

-----------------------------------------------------------------------------
(* What is open.                                                           *)

\* There is a generation to read.
LEMMA WorldsAre == Len(Worlds) \in Nat /\ 1 \in 1..Len(Worlds)
BY WorldsAssumption

\* What a reader finds is one of the generations.
LEMMA OpenedIs ==
  ASSUME Opens
  PROVE  /\ Generation("meta") \in 1..Len(Worlds) /\ Generation("graph") \in 1..Len(Worlds)
         /\ built.index \in 1..Len(Worlds) /\ built.vectors \in 1..Len(Worlds)
BY WorldsAre DEF Opens, Generation

\* What is open or on disk are rows and documents.
LEMMA OpensAre ==
  ASSUME Opens
  PROVE  /\ Store.symbols \in Seq(KnownRows) /\ Graph.symbols \in Seq(KnownRows)
         /\ Index \in Seq(Doc) /\ Vectors \in Seq(Doc)
<1>1. /\ Generation("meta") \in 1..Len(Worlds) /\ Generation("graph") \in 1..Len(Worlds)
      /\ built.index \in 1..Len(Worlds) /\ built.vectors \in 1..Len(Worlds)
  BY OpenedIs
<1>2. Store.symbols \in Seq(KnownRows)
  BY <1>1, WorldIs DEF Store
<1>3. Graph.symbols \in Seq(KnownRows)
  BY <1>1, WorldIs DEF Graph
<1>4. Index \in Seq(Doc)
  BY <1>1, DocumentsIs DEF Index
<1>5. Vectors \in Seq(Doc)
  BY <1>1, DocumentsIs DEF Vectors
<1> QED BY <1>2, <1>3, <1>4, <1>5

\* A handle that is opened stays on what was there.
LEMMA OpenKeeps ==
  ASSUME Opens, NEW as, as \subseteq {"meta", "graph"}, Open(as), built' = built
  PROVE  /\ Opens' /\ Store' = Store /\ Graph' = Graph
         /\ \A a \in {"meta", "graph"} : (a \in as \/ handle[a] # 0) => handle'[a] # 0
         /\ \A a \in {"meta", "graph"} : handle'[a] # 0 => handle'[a] = Generation(a)
<1>1. /\ handle \in [{"meta", "graph"} -> 0..Len(Worlds)]
      /\ DOMAIN handle = {"meta", "graph"}
      /\ Generation("meta") \in 1..Len(Worlds) /\ Generation("graph") \in 1..Len(Worlds)
  BY OpenedIs DEF Opens
<1>2. \A a \in {"meta", "graph"} : handle'[a] = IF a \in as THEN Generation(a) ELSE handle[a]
  BY <1>1 DEF Open
<1>3. handle' = [a \in {"meta", "graph"} |-> IF a \in as THEN Generation(a) ELSE handle[a]]
  BY <1>1 DEF Open
<1>4. handle' \in [{"meta", "graph"} -> 0..Len(Worlds)]
  <2>1. \A a \in {"meta", "graph"} : handle[a] \in 0..Len(Worlds) /\ Generation(a) \in 0..Len(Worlds)
    BY <1>1, WorldsAre
  <2> QED BY <1>3, <2>1
<1>5. Opens'
  BY <1>4 DEF Opens
<1>6. \A a \in {"meta", "graph"} : (a \in as \/ handle[a] # 0) => handle'[a] # 0
  <2> SUFFICES ASSUME NEW a \in {"meta", "graph"}, a \in as \/ handle[a] # 0 PROVE handle'[a] # 0
    OBVIOUS
  <2>1. Generation(a) \in 1..Len(Worlds) /\ Len(Worlds) \in Nat
    <3>1. a = "meta" \/ a = "graph"
      OBVIOUS
    <3> QED BY <1>1, <3>1, WorldsAre
  <2>2. Generation(a) # 0
    BY <2>1
  <2> QED BY <1>2, <2>2
<1>7. \A a \in {"meta", "graph"} : handle'[a] # 0 => handle'[a] = Generation(a)
  BY <1>2 DEF Generation
<1>8. Generation("meta")' = Generation("meta") /\ Generation("graph")' = Generation("graph")
  BY <1>2, <1>7 DEF Generation
<1> QED BY <1>5, <1>6, <1>7, <1>8 DEF Store, Graph

\* A step that neither opens nor rebuilds leaves what is read.
LEMMA StillOpens ==
  ASSUME Opens, UNCHANGED <<built, handle>>
  PROVE  Opens' /\ Store' = Store /\ Graph' = Graph
BY DEF Opens, Store, Graph, Generation

\* What is older than the metadata is one of the artifacts, and is found.
Older(s, b, m) == {i \in DOMAIN s : b[s[i]] < m}
\* The artifacts behind the metadata are found, if there are any.
LEMMA LateLaw ==
  ASSUME NEW S, NEW s \in Seq(S), NEW b, NEW m
  PROVE  /\ Among(s, Older(s, b, m)) \in Seq(S)
         /\ \A k \in 1..Len(Among(s, Older(s, b, m))) : b[Among(s, Older(s, b, m))[k]] < m
         /\ Among(s, Older(s, b, m)) = <<>> => \A i \in 1..Len(s) : ~(b[s[i]] < m)
<1> DEFINE I == Older(s, b, m)
<1>1. \A i : i \in I <=> i \in 1..Len(s) /\ b[s[i]] < m
  BY DEF Older
<1> HIDE DEF I
<1>2. /\ Among(s, I) \in Seq(S)
      /\ \A k \in 1..Len(Among(s, I)) : \E i \in I \cap (1..Len(s)) : Among(s, I)[k] = s[i]
      /\ \A i \in I \cap (1..Len(s)) : \E k \in 1..Len(Among(s, I)) : Among(s, I)[k] = s[i]
  BY AmongHas, SMTT(60)
<1>3. \A k \in 1..Len(Among(s, I)) : b[Among(s, I)[k]] < m
  BY <1>1, <1>2
<1>4. ASSUME Among(s, I) = <<>>, NEW i \in 1..Len(s), b[s[i]] < m PROVE FALSE
  <2>1. i \in I \cap (1..Len(s))
    BY <1>1, <1>4
  <2>2. PICK k \in 1..Len(Among(s, I)) : Among(s, I)[k] = s[i]
    BY <1>2, <2>1
  <2>3. Len(Among(s, I)) = 0
    BY <1>4
  <2> QED BY <2>2, <2>3
<1> QED BY <1>2, <1>3, <1>4 DEF I

\* The artifacts are replaced one after the other, the metadata first.
LEMMA RebuildOpens ==
  ASSUME Opens, ReplaceArtifact
  PROVE  Opens'
<1> DEFINE A == {"meta", "graph", "index", "vectors"}
           late == Where(Artifacts, LAMBDA a : built[a] < built.meta)
           next == IF late = <<>> THEN "meta" ELSE late[1]
<1>1. Artifacts \in Seq(A) /\ Len(Artifacts) = 4 /\ Artifacts[4] = "vectors"
  BY DEF Artifacts
<1>2. built' = [built EXCEPT ![next] = @ + 1] /\ built.vectors < Len(Worlds) /\ handle' = handle
  BY DEF ReplaceArtifact
<1>3. /\ late \in Seq(A) /\ \A k \in 1..Len(late) : built[late[k]] < built.meta
      /\ late = <<>> => \A i \in 1..Len(Artifacts) : ~(built[Artifacts[i]] < built.meta)
  <2>1. late = Among(Artifacts, Older(Artifacts, built, built.meta))
    BY <1>1, OnceIs DEF Where, Older
  <2> HIDE DEF A, late
  <2>2. Artifacts \in Seq(A)
    BY <1>1
  <2> QED BY <2>1, <2>2, LateLaw
<1> HIDE DEF late
<1>4. built \in [A -> 1..Len(Worlds)] /\ Len(Worlds) \in Nat
  BY WorldsAre DEF Opens
<1>5. next \in A /\ built[next] + 1 \in 1..Len(Worlds)
  <2>1. CASE late = <<>>
    <3>1. ~(built["vectors"] < built["meta"])
      BY <1>1, <1>3, <2>1
    <3> QED BY <1>2, <1>4, <2>1, <3>1
  <2>2. CASE late # <<>>
    <3>1. late[1] \in A /\ built[late[1]] < built["meta"]
      BY <1>3, <2>2
    <3>2. built[late[1]] \in 1..Len(Worlds) /\ built["meta"] \in 1..Len(Worlds)
      BY <1>4, <3>1
    <3>3. built[late[1]] + 1 \in 1..Len(Worlds)
      BY <1>4, <3>1, <3>2
    <3> QED BY <2>2, <3>1, <3>3
  <2> QED BY <2>1, <2>2
<1> HIDE DEF next
<1>6. built' \in [A -> 1..Len(Worlds)]
  BY <1>2, <1>4, <1>5
<1> QED BY <1>2, <1>6 DEF Opens

-----------------------------------------------------------------------------
(* The stages of a call.                                                   *)

\* A call as far as its candidates depend on it.
Searching(c) ==
  /\ IsQuery(c.request.q) /\ c.request.opts.limit \in Nat
  /\ c.summaries \in Seq(Doc)

\* The symbols of a call are founded in its names and scopes.
LEMMA FirstStageLaw ==
  ASSUME NEW c, Searching(c), NEW index \in Seq(Doc), NEW store, store.symbols \in Seq(KnownRows)
  PROVE  SymbolResults(index, store, c.request.q, c.request.opts, c.summaries) \in Seq(Founded(Named(store, c)))
<1> DEFINE g == Named(store, c)
           ask == c.request.q
           o == c.request.opts
           summaries == c.summaries
<1>1. {r.symbol : r \in ToSet(ExactResults(store, ask))} \subseteq g.exact /\ g.scopes = ToSet(SummaryScopes(ask, summaries))
  BY DEF Named
<1>2. IsQuery(ask) /\ o.limit \in Nat /\ summaries \in Seq(Cand)
  BY DEF Searching, Doc
<1> HIDE DEF g, ask, o, summaries
<1>3. SymbolResults(index, store, ask, o, summaries) \in Seq(Founded(g))
  BY <1>1, <1>2, SymbolResultsLaw
<1> QED BY <1>3 DEF g, ask, o, summaries

\* Its candidates are founded in what its stages returned.
LEMMA SecondStageLaw ==
  ASSUME NEW c, Searching(c), NEW index \in Seq(Doc), NEW store, store.symbols \in Seq(KnownRows),
         NEW graph, graph.symbols \in Seq(KnownRows), NEW vectors \in Seq(Doc), vectors = Documents(Worlds[c.read]),
         c.localized \in Seq(Founded(Named(store, c))), NEW open \in BOOLEAN,
         \/ open \/ c.localized = <<>>
         \/ ~(c.request.opts.graph /\ Gate(c.request.q, Profile(c.request.q), c.summaries, ExactResults(store, c.request.q),
                                           c.request.opts.selective).graph)
  PROVE  Candidates(index, store, graph, vectors, c.request.q, c.request.opts, c.summaries, c.localized)
           \in Seq(Founded(Returned(store, graph, open, c)))
<1> DEFINE g == Returned(store, graph, open, c)
           ask == c.request.q
           o == c.request.opts
           summaries == c.summaries
           localized == c.localized
<1>1. /\ g.scopes = ToSet(SummaryScopes(ask, summaries))
      /\ {r.symbol : r \in ToSet(localized)} \subseteq g.found
      /\ g.near = IF open THEN NodesAround(graph, localized) ELSE {}
      /\ {<<d.kind, Source(d)>> : d \in ToSet(vectors)} \subseteq g.embedded
      /\ o.summaries => g.any
      /\ ToSet(summaries) \subseteq g.summaries
  BY DEF Returned
<1>2. localized \in Seq(Localized(g))
  <2> DEFINE A == Founded(Named(store, c))
             B == Localized(Returned(store, graph, open, c))
  <2>1. A \subseteq B /\ localized \in Seq(A)
    BY NamedIsLocalized
  <2> HIDE DEF A, B, localized
  <2>2. localized \in Seq(B)
    BY <2>1
  <2> QED BY <2>2 DEF B
<1>3. IsQuery(ask) /\ o.limit \in Nat /\ summaries \in Seq(Doc)
  BY DEF Searching
<1>4. \/ open \/ localized = <<>>
      \/ ~(o.graph /\ Gate(ask, Profile(ask), summaries, ExactResults(store, ask), o.selective).graph)
  OBVIOUS
<1> HIDE DEF g, ask, o, summaries, localized
<1>5. o.graph /\ Gate(ask, Profile(ask), summaries, ExactResults(store, ask), o.selective).graph
        => NodesAround(graph, localized) \subseteq g.near
  <2>1. CASE open
    BY <1>1, <2>1
  <2>2. CASE localized = <<>>
    <3>1. NodesAround(graph, <<>>) = {}
      BY NoNodesAround
    <3> QED BY <2>2, <3>1
  <2> QED BY <1>4, <2>1, <2>2
<1>6. Rests(g, store, graph, vectors, ask, o, summaries, localized)
  BY <1>1, <1>5 DEF Rests
<1>7. Candidates(index, store, graph, vectors, ask, o, summaries, localized) \in Seq(Founded(g))
  BY <1>2, <1>3, <1>6, CandidatesLaw
<1> QED BY <1>7 DEF g, ask, o, summaries, localized

\* A call asks what can be asked.
LEMMA CallSearching ==
  ASSUME NEW c, IsCall(c)
  PROVE  Searching(c)
BY DEF IsCall, IsRequest, Searching

\* The summary search answers with documents of the index.
LEMMA SummarySearchIs ==
  ASSUME IsQuery(q), NEW index \in Seq(Doc), NEW o, o.limit \in Nat
  PROVE  SummarySearch(index, o) \in Seq(Doc)
<1>1. Grow(o.limit, SummaryFan) \in Nat
  BY CapAssumption, GrowIs
<1>2. \A kinds : Search(index, q, Grow(o.limit, SummaryFan), kinds, <<>>) \in Seq(Doc)
  BY <1>1, DocIsIndexed, SearchIs
<1>3. <<>> \in Seq(Doc)
  OBVIOUS
<1> QED BY <1>2, <1>3 DEF SummarySearch

\* A query with hints is a query.
LEMMA RefinedIs ==
  ASSUME NEW ask, IsQuery(ask), DOMAIN ask = {"words", "slash", "id"}, NEW symbols \in Seq(Cand)
  PROVE  IsQuery(Refined(ask, symbols)) /\ DOMAIN Refined(ask, symbols) = {"words", "slash", "id"}
<1> DEFINE hint(c) == IF c.qname # <<>> THEN c.qname ELSE <<c.name>>
           top == First(symbols, 2)
           t == [i \in DOMAIN top |-> hint(symbols[i])]
           J == {i \in DOMAIN t : \A j \in 1..(i - 1) : t[j] # t[i]}
           hints == Among(t, J)
           T == Seq(Segment)
<1>1. /\ top \in Seq(Cand) /\ Len(top) \in Nat /\ DOMAIN top = 1..Len(top)
      /\ \A k \in 1..Len(top) : k \in 1..Len(symbols)
  BY FirstLaw
<1>2. \A k \in DOMAIN top : hint(symbols[k]) \in T
  <2> SUFFICES ASSUME NEW k \in DOMAIN top PROVE hint(symbols[k]) \in T
    OBVIOUS
  <2>1. symbols[k] \in Cand
    BY <1>1
  <2>2. symbols[k].qname \in Seq(Segment) /\ symbols[k].name \in Segment
    BY <2>1 DEF Cand, Record
  <2> QED BY <2>2
<1> HIDE DEF top, T, hint
<1>3. t \in Seq(T)
  BY <1>1, <1>2
<1>4. Distinct(t, LAMBDA h : h) = hints
  BY <1>3, OnceIs DEF Distinct
<1>5. Refined(ask, symbols) = [ask EXCEPT !.words = @ \o Distinct(t, LAMBDA h : h)]
  BY DEF Refined, t, hint, top
<1> HIDE DEF t, J
<1>6. hints \in Seq(T)
  BY <1>3, AmongIs
<1> HIDE DEF hints
<1>7. ask.words \in Seq(T)
  BY DEF IsQuery, T
<1>8. ask.words \o hints \in Seq(T)
  BY <1>6, <1>7
<1>9. Refined(ask, symbols) = [ask EXCEPT !.words = @ \o hints]
  BY <1>4, <1>5
<1> QED BY <1>8, <1>9 DEF IsQuery, T

\* A stage that says nothing of the grounds.
LEMMA Ungrounded ==
  ASSUME NEW c, ~After(c), c.stage # "select", NEW h, NEW store, NEW graph
  PROVE  Reasoned(h, store, graph, c)
BY DEF Reasoned, After

\* What the candidates of a call rest on stays while its handles do.
LEMMA StaysReasoned ==
  ASSUME NEW h, NEW store, NEW graph, NEW h2, NEW store2, NEW graph2, NEW c, Reasoned(h, store, graph, c),
         h.meta # 0 => h2.meta # 0 /\ store2 = store, h.graph # 0 <=> h2.graph # 0, h.graph # 0 => graph2 = graph
  PROVE  Reasoned(h2, store2, graph2, c)
<1>1. Returned(store, graph, h.graph # 0, c) = Returned(store, graph2, h2.graph # 0, c)
  BY DEF Returned
<1>2. After(c) => store2 = store
  BY DEF Reasoned
<1>3. c.stage = "select" \/ (c.stage = "done" /\ c.request.op = "context") => After(c)
  BY DEF After
<1> QED BY <1>1, <1>2, <1>3 DEF Reasoned

-----------------------------------------------------------------------------
(* The invariant holds.                                                    *)

\* A sequence of one.
LEMMA OneIs ==
  ASSUME NEW S, NEW x \in S
  PROVE  <<x>> \in Seq(S)
OBVIOUS

\* The request of no call is one.
LEMMA NoRequestIs == IsRequest(NoRequest)
<1>1. IsQuery(NoRequest.q)
  <2>1. << <<"">> >> \in Seq(Seq(Segment))
    <3>1. "" \in Segment
      BY SegmentAssumption DEF Segment
    <3>2. <<"">> \in Seq(Segment)
      BY <3>1, OneIs
    <3> QED BY <3>2, OneIs
  <2> QED BY <2>1 DEF NoRequest, Words, IsQuery
<1>2. DOMAIN NoRequest = {"op", "q", "opts"} /\ NoRequest.op = "context"
  BY DEF NoRequest
<1>3. DOMAIN NoRequest.q = {"words", "slash", "id"}
  BY DEF NoRequest, Words
<1>4. "limit" \in DOMAIN NoRequest.opts /\ NoRequest.opts.limit \in Nat \ {0}
  BY DEF NoRequest
<1> QED BY <1>1, <1>2, <1>3, <1>4 DEF IsRequest

\* No call is a call that is idle.
LEMMA NoCallIs == IsCall(NoCall) /\ NoCall.stage = "idle"
<1>1. \A S : <<>> \in Seq(S)
  OBVIOUS
<1> QED BY <1>1, NoRequestIs DEF NoCall, IsCall

\* A client that has asked nothing satisfies the invariant.
LEMMA QueryInitInv == QueryInit => Inv
<1> SUFFICES ASSUME QueryInit PROVE Inv
  OBVIOUS
<1>1. Opens
  BY WorldsAre DEF QueryInit, Opens
<1>2. IsCall(call) /\ call.stage = "idle"
  BY NoCallIs DEF QueryInit
<1>3. Reasoned(handle, Store, Graph, call)
  BY <1>2, Ungrounded DEF After
<1> QED BY <1>1, <1>2, <1>3 DEF Inv, Staged, Fused

\* A step that changes nothing keeps the invariant.
LEMMA Unchanged ==
  ASSUME Inv, UNCHANGED queryVars
  PROVE  Inv'
<1>1. Opens' /\ Store' = Store /\ Graph' = Graph
  BY StillOpens DEF Inv, queryVars
<1>2. Reasoned(handle', Store', Graph', call')
  BY <1>1 DEF Inv, queryVars
<1> QED BY <1>1, <1>2 DEF Inv, queryVars

\* The invariant is kept when a call begins,
LEMMA AskStep ==
  ASSUME Inv, NEW r \in Requests, Ask(r)
  PROVE  Inv'
<1>1. IsRequest(r)
  BY RequestsAssumption DEF IsRequest, IsQuery, Segment
<1>2. Opens'
  BY StillOpens DEF Inv, Ask, At
<1>3. call' = [NoCall EXCEPT !.request = r, !.stage = FirstStage[r.op]]
  BY DEF Ask, Then
<1>4. IsCall(call') /\ call'.stage = FirstStage[r.op] /\ call'.request = r
  <2>1. \A S : <<>> \in Seq(S)
    OBVIOUS
  <2> QED BY <1>1, <1>3, <2>1 DEF NoCall, IsCall
<1>5. Staged(call') /\ Fused(call') /\ ~After(call') /\ call'.stage # "select"
  BY <1>1, <1>4 DEF Staged, Fused, After, FirstStage, IsRequest
<1>6. Reasoned(handle', Store', Graph', call')
  BY <1>5, Ungrounded
<1> QED BY <1>2, <1>4, <1>5, <1>6 DEF Inv

\* when it ends,
LEMMA ReturnStep ==
  ASSUME Inv, Return
  PROVE  Inv'
<1>1. Opens'
  BY StillOpens DEF Inv, Return
<1>2. IsCall(call') /\ call'.stage = "idle"
  BY NoCallIs DEF Return, Then
<1>3. Reasoned(handle', Store', Graph', call')
  BY <1>2, Ungrounded DEF After
<1> QED BY <1>1, <1>2, <1>3 DEF Inv, Staged, Fused

\* when another process replaces an artifact, whatever is open,
LEMMA RebuildStep ==
  ASSUME Inv, ReplaceArtifact
  PROVE  Inv'
<1>1. Opens'
  BY RebuildOpens DEF Inv
<1>2. call' = call /\ handle' = handle
  BY DEF ReplaceArtifact
<1>3. (handle.meta # 0 => Store' = Store) /\ (handle.graph # 0 => Graph' = Graph)
  BY <1>2 DEF Store, Graph, Generation
<1>4. Reasoned(handle', Store', Graph', call')
  BY <1>2, <1>3, StaysReasoned DEF Inv
<1> QED BY <1>1, <1>2, <1>4 DEF Inv

\* and when the client is started anew: it is idle then.
LEMMA RestartStep ==
  ASSUME Inv, Restart
  PROVE  Inv'
<1>1. call' = call /\ call.stage = "idle"
  BY DEF Restart, At
<1>2. Opens'
  BY WorldsAre DEF Inv, Opens, Restart, At
<1>3. Reasoned(handle', Store', Graph', call')
  BY <1>1, Ungrounded DEF After
<1> QED BY <1>1, <1>2, <1>3 DEF Inv

\* The summary search keeps the invariant.
LEMMA SummariesStep ==
  ASSUME Inv, Summaries
  PROVE  Inv'
<1>1. Opens'
  BY StillOpens DEF Inv, Summaries, At
<1>2. Index \in Seq(Doc) /\ IsCall(call)
  BY OpensAre DEF Inv
<1>3. SummarySearch(Index, opts) \in Seq(Doc)
  BY <1>2, SummarySearchIs DEF IsCall, IsRequest, q, opts
<1>4. call' = [call EXCEPT !.summaries = SummarySearch(Index, opts), !.stage = "symbols"] /\ call.stage = "summaries"
  BY DEF Summaries, Then, At
<1>5. IsCall(call') /\ call'.stage = "symbols" /\ call'.request = call.request
  BY <1>2, <1>3, <1>4 DEF IsCall
<1>6. Staged(call') /\ Fused(call') /\ ~After(call') /\ call'.stage # "select"
  BY <1>4, <1>5 DEF Inv, Staged, Fused, After
<1>7. Reasoned(handle', Store', Graph', call')
  BY <1>6, Ungrounded
<1> QED BY <1>1, <1>5, <1>6, <1>7 DEF Inv

\* The exact symbols and the searches, in the store that is then open.
LEMMA SymbolsStep ==
  ASSUME Inv, Symbols
  PROVE  Inv'
<1> DEFINE found == Ranked(SymbolResults(Index, Store, q, opts, call.summaries))
           F == Founded(Named(Store, call))
<1>1. /\ Opens' /\ Store' = Store /\ handle'["meta"] # 0
  BY OpenKeeps DEF Inv, Symbols, At
<1>2. Index \in Seq(Doc) /\ Store.symbols \in Seq(KnownRows) /\ IsCall(call)
  BY OpensAre DEF Inv
<1>3. found \in Seq(F)
  <2>1. SymbolResults(Index, Store, q, opts, call.summaries) \in Seq(F)
    BY <1>2, CallSearching, FirstStageLaw DEF q, opts
  <2>2. Closed(F)
    BY FoundedIsClosed
  <2>3. IsQuery(q)
    BY <1>2 DEF IsCall, IsRequest, q
  <2> QED BY <2>1, <2>2, <2>3, RankedIs
<1>4. F \subseteq Cand
  BY DEF Founded
<1>5. /\ call' = [call EXCEPT !.localized = found, !.stage = Awaited(found, "localize", "expand")]
      /\ call.stage = "symbols"
  BY DEF Symbols, Then, At
<1>6. Awaited(found, "localize", "expand") \in {"localize", "expand"}
  BY DEF Awaited
<1> HIDE DEF found
<1>7. /\ IsCall(call') /\ call'.stage \in {"localize", "expand"} /\ call'.request = call.request
      /\ call'.summaries = call.summaries /\ call'.localized = found
  <2>1. found \in Seq(Cand)
    BY <1>3, <1>4
  <2> QED BY <1>2, <1>5, <1>6, <2>1 DEF IsCall
<1>8. Staged(call') /\ Fused(call')
  BY <1>5, <1>7 DEF Inv, Staged, Fused
<1>9. Named(Store', call') = Named(Store, call)
  BY <1>1, <1>7 DEF Named
<1>10. Reasoned(handle', Store', Graph', call')
  BY <1>1, <1>3, <1>7, <1>9 DEF Reasoned, After
<1> QED BY <1>1, <1>7, <1>8, <1>10 DEF Inv

\* The reranking of the symbols keeps the invariant, whatever the answer.
LEMMA LocalizeStep ==
  ASSUME Inv, Localize
  PROVE  Inv'
<1> DEFINE F == Founded(Named(Store, call))
<1>1. Opens' /\ Store' = Store /\ handle' = handle
  BY StillOpens DEF Inv, Localize, At
<1>2. PICK answer \in Answers(Len(First(call.localized, RerankTop))) \ {<<>>} :
        call' = [call EXCEPT !.localized = QwenRank(@, answer), !.stage = "expand"]
  BY DEF Localize, Then
<1>3. call.stage = "localize" /\ IsCall(call) /\ handle.meta # 0 /\ call.localized \in Seq(F)
  BY DEF Localize, At, Inv, Reasoned, After
<1>4. Closed(F) /\ F \subseteq Cand
  BY FoundedIsClosed DEF Founded
<1> DEFINE found == QwenRank(call.localized, answer)
<1>5. found \in Seq(F)
  <2> HIDE DEF F
  <2> QED BY <1>3, <1>4, QwenRankLaw
<1>6. call' = [call EXCEPT !.localized = found, !.stage = "expand"]
  BY <1>2
<1> HIDE DEF found
<1>7. /\ IsCall(call') /\ call'.stage = "expand" /\ call'.request = call.request
      /\ call'.summaries = call.summaries /\ call'.localized = found
  <2>1. found \in Seq(Cand)
    BY <1>4, <1>5
  <2> QED BY <1>3, <1>6, <2>1 DEF IsCall
<1>8. Staged(call') /\ Fused(call')
  BY <1>3, <1>7 DEF Inv, Staged, Fused
<1>9. Named(Store', call') = Named(Store, call)
  BY <1>1, <1>7 DEF Named
<1>10. Reasoned(handle', Store', Graph', call')
  BY <1>1, <1>3, <1>5, <1>7, <1>9 DEF Reasoned, After
<1> QED BY <1>1, <1>7, <1>8, <1>10 DEF Inv

\* A context that is selected: the candidates ranked are grounded in what the
\* stages returned, and so are the first of them.
LEMMA SelectedLaw ==
  ASSUME NEW c, IsCall(c), NEW g, NEW ranked \in Seq(Founded(g)), NEW d, d = Selected(c, ranked)
  PROVE  /\ IsCall(d) /\ d.request = c.request /\ d.summaries = c.summaries /\ d.localized = c.localized
         /\ d.read = c.read /\ d.ranked = ranked /\ d.selected \in Seq(Founded(g))
         /\ d.stage = IF c.request.op = "bundle" THEN "bundle" ELSE "done"
<1> DEFINE top == First(ranked, c.request.opts.limit)
           stage == IF c.request.op = "bundle" THEN "bundle" ELSE "done"
           F == Founded(g)
<1>1. top \in Seq(F) /\ F \subseteq Cand
  <2>1. c.request.opts.limit \in Int
    BY DEF IsCall, IsRequest
  <2>2. F \subseteq Cand /\ ranked \in Seq(F)
    BY DEF Founded
  <2> HIDE DEF F
  <2> QED BY <2>1, <2>2, FirstIs
<1>2. d = [c EXCEPT !.ranked = ranked, !.selected = top, !.stage = stage]
  BY DEF Selected
<1> HIDE DEF F, top, stage
<1>3. top \in Seq(Cand) /\ ranked \in Seq(Cand)
  BY <1>1 DEF F
<1>4. IsCall(d)
  BY <1>2, <1>3 DEF IsCall
<1>5. /\ d.request = c.request /\ d.summaries = c.summaries /\ d.localized = c.localized
      /\ d.read = c.read /\ d.ranked = ranked /\ d.selected = top /\ d.stage = stage
  BY <1>2 DEF IsCall
<1> QED BY <1>1, <1>4, <1>5 DEF F, stage

\* What a call that goes on from the ranking rests on.
LEMMA ReturnedSame ==
  ASSUME NEW store, NEW graph, NEW open, NEW c, NEW d, d.request = c.request, d.summaries = c.summaries,
         d.localized = c.localized, d.read = c.read
  PROVE  /\ Returned(store, graph, open, d) = Returned(store, graph, open, c)
         /\ Named(store, d) = Named(store, c)
BY DEF Returned, Named

\* What is selected of founded candidates satisfies the invariant.
LEMMA SelectedReasoned ==
  ASSUME NEW c, IsCall(c), c.request.op \in {"context", "bundle"}, NEW h, h.meta # 0, NEW store, NEW graph,
         c.localized \in Seq(Founded(Named(store, c))),
         NEW ranked \in Seq(Founded(Returned(store, graph, h.graph # 0, c))), NEW d, d = Selected(c, ranked)
  PROVE  IsCall(d) /\ Staged(d) /\ Fused(d) /\ Reasoned(h, store, graph, d)
<1> DEFINE g == Returned(store, graph, h.graph # 0, c)
<1>1. /\ IsCall(d) /\ d.request = c.request /\ d.summaries = c.summaries /\ d.localized = c.localized
      /\ d.read = c.read /\ d.ranked = ranked /\ d.selected \in Seq(Founded(g))
      /\ d.stage = IF c.request.op = "bundle" THEN "bundle" ELSE "done"
  <2> HIDE DEF g
  <2>1. ranked \in Seq(Founded(g))
    BY DEF g
  <2> QED BY <2>1, SelectedLaw
<1>2. Returned(store, graph, h.graph # 0, d) = g /\ Named(store, d) = Named(store, c)
  BY <1>1, ReturnedSame
<1> HIDE DEF g
<1>3. Staged(d) /\ Fused(d)
  BY <1>1 DEF Staged, Fused
<1>4. Reasoned(h, store, graph, d)
  BY <1>1, <1>2 DEF Reasoned, After
<1> QED BY <1>1, <1>3, <1>4

\* The graph, the bodies and the embeddings, and the second ranking.
LEMMA ExpandStep ==
  ASSUME Inv, Expand
  PROVE  Inv'
<1> DEFINE found == Ranked(Candidates(Index, Store, Graph, Vectors, q, opts, call.summaries, call.localized))
           next == [call EXCEPT !.pool = found, !.read = built.vectors]
           e == [call EXCEPT !.read = built.vectors]
           open == handle'["graph"] # 0
           as == {"meta"} \cup (IF Expanding THEN {"graph"} ELSE {})
           G == Founded(Returned(Store, Graph, open, e))
<1>1. Opens /\ IsCall(call) /\ Staged(call) /\ call.stage = "expand"
  BY DEF Inv, Expand, At
<1>2. call.localized \in Seq(Founded(Named(Store, call))) /\ call.request.op \in {"context", "bundle"}
  BY <1>1 DEF Inv, Reasoned, After, Staged
<1>3. /\ Opens' /\ Store' = Store /\ Graph' = Graph /\ handle'["meta"] # 0
      /\ Expanding => handle'["graph"] # 0
  <2>1. as \subseteq {"meta", "graph"} /\ Open(as) /\ built' = built
    BY DEF Expand, At
  <2>2. "meta" \in as /\ (Expanding => "graph" \in as)
    OBVIOUS
  <2> HIDE DEF as
  <2> QED BY <1>1, <2>1, <2>2, OpenKeeps
<1>4. Index \in Seq(Doc) /\ Vectors \in Seq(Doc) /\ Store.symbols \in Seq(KnownRows) /\ Graph.symbols \in Seq(KnownRows)
  BY <1>1, OpensAre
<1>5. /\ e.request = call.request /\ e.summaries = call.summaries /\ e.localized = call.localized
      /\ e.read = built.vectors
  BY <1>1 DEF IsCall
<1>6. Searching(e) /\ IsQuery(q)
  BY <1>1, <1>5, CallSearching DEF Searching, q
<1>7. Vectors = Documents(Worlds[e.read])
  BY <1>5 DEF Vectors
<1>8. e.localized \in Seq(Founded(Named(Store, e)))
  BY <1>2, <1>5 DEF Named
<1>9. \/ open \/ e.localized = <<>>
      \/ ~(e.request.opts.graph /\ Gate(e.request.q, Profile(e.request.q), e.summaries, ExactResults(Store, e.request.q),
                                        e.request.opts.selective).graph)
  BY <1>3, <1>5 DEF Expanding, q, opts
<1>10. Candidates(Index, Store, Graph, Vectors, q, opts, call.summaries, call.localized) \in Seq(G)
  <2>1. Candidates(Index, Store, Graph, Vectors, e.request.q, e.request.opts, e.summaries, e.localized)
          \in Seq(Founded(Returned(Store, Graph, open, e)))
    <3> HIDE DEF e, open
    <3>1. open \in BOOLEAN
      BY DEF open
    <3> QED BY <1>4, <1>6, <1>7, <1>8, <1>9, <3>1, SecondStageLaw
  <2> QED BY <1>5, <2>1 DEF q, opts
<1>11. found \in Seq(G) /\ G \subseteq Cand
  <2>1. Closed(G) /\ G \subseteq Cand
    BY FoundedIsClosed DEF Founded
  <2> HIDE DEF G
  <2> QED BY <1>6, <1>10, <2>1, RankedIs
<1>12. call' = IF Awaited(found, "select", "done") = "select" THEN [next EXCEPT !.ranked = found, !.stage = "select"]
               ELSE Selected(next, found)
  BY DEF Expand, Then
<1> HIDE DEF found
<1>13. IsCall(next)
  <2>1. found \in Seq(Cand)
    <3> HIDE DEF G
    <3> QED BY <1>11
  <2> HIDE DEF G, e, open, as
  <2> QED BY <1>1, <2>1 DEF IsCall
<1>14. /\ next.request = call.request /\ next.summaries = call.summaries /\ next.localized = call.localized
       /\ next.read = built.vectors
  BY <1>1 DEF IsCall
<1>15. Returned(Store, Graph, open, next) = Returned(Store, Graph, open, e) /\ Named(Store, next) = Named(Store, call)
  BY <1>5, <1>14 DEF Returned, Named
<1>16. found \in Seq(Founded(Returned(Store, Graph, open, next)))
  BY <1>11, <1>15
<1> HIDE DEF next, e, G, as
<1>17. CASE Awaited(found, "select", "done") = "select"
  <2>1. call' = [next EXCEPT !.ranked = found, !.stage = "select"]
    BY <1>12, <1>17
  <2>2. found \in Seq(Cand)
    BY <1>11
  <2>3. /\ IsCall(call') /\ call'.request = next.request /\ call'.summaries = next.summaries
        /\ call'.localized = next.localized /\ call'.read = next.read /\ call'.ranked = found /\ call'.stage = "select"
    BY <1>13, <2>1, <2>2 DEF IsCall
  <2>4. Returned(Store, Graph, open, call') = Returned(Store, Graph, open, next) /\ Named(Store, call') = Named(Store, next)
    BY <2>3 DEF Returned, Named
  <2>5. Staged(call') /\ Fused(call')
    BY <1>2, <1>14, <2>3 DEF Staged, Fused
  <2>6. call'.localized \in Seq(Founded(Named(Store, call')))
    BY <1>2, <1>14, <1>15, <2>3, <2>4
  <2>7. call'.ranked \in Seq(Founded(Returned(Store, Graph, open, call')))
    BY <1>16, <2>3, <2>4
  <2>8. Reasoned(handle', Store', Graph', call')
    BY <1>3, <2>3, <2>6, <2>7 DEF Reasoned, After, open
  <2> QED BY <1>3, <2>3, <2>5, <2>8 DEF Inv
<1>18. CASE Awaited(found, "select", "done") # "select"
  <2>1. call' = Selected(next, found)
    BY <1>12, <1>18
  <2>2. next.request.op \in {"context", "bundle"} /\ next.localized \in Seq(Founded(Named(Store, next)))
    BY <1>2, <1>14, <1>15
  <2>3. IsCall(call') /\ Staged(call') /\ Fused(call') /\ Reasoned(handle', Store, Graph, call')
    BY <1>3, <1>13, <1>16, <2>1, <2>2, SelectedReasoned DEF open
  <2> QED BY <1>3, <2>3 DEF Inv
<1> QED BY <1>17, <1>18

\* The reranking of the candidates keeps the invariant, whatever the answer,
LEMMA SelectStep ==
  ASSUME Inv, Select
  PROVE  Inv'
<1> DEFINE G == Founded(Returned(Store, Graph, handle.graph # 0, call))
<1>1. Opens' /\ Store' = Store /\ Graph' = Graph /\ handle' = handle
  BY StillOpens DEF Inv, Select, At
<1>2. PICK answer \in Answers(Len(First(call.ranked, RerankTop))) \ {<<>>} :
        call' = Selected(call, QwenRank(call.ranked, answer))
  BY DEF Select, Then
<1>3. call.stage = "select" /\ IsCall(call) /\ handle.meta # 0 /\ call.ranked \in Seq(G)
  BY DEF Select, At, Inv, Reasoned, After
<1>4. call.localized \in Seq(Founded(Named(Store, call))) /\ call.request.op \in {"context", "bundle"}
  BY <1>3 DEF Inv, Reasoned, After, Staged
<1> DEFINE found == QwenRank(call.ranked, answer)
<1>5. found \in Seq(G)
  <2>1. Closed(G)
    BY FoundedIsClosed
  <2> HIDE DEF G
  <2> QED BY <1>3, <2>1, QwenRankLaw
<1> HIDE DEF found
<1>6. call' = Selected(call, found)
  BY <1>2 DEF found
<1>7. IsCall(call') /\ Staged(call') /\ Fused(call') /\ Reasoned(handle, Store, Graph, call')
  BY <1>3, <1>4, <1>5, <1>6, SelectedReasoned
<1> QED BY <1>1, <1>7 DEF Inv

\* and so it does when the service fails at either.
LEMMA ServiceFailsStep ==
  ASSUME Inv, ServiceFails
  PROVE  Inv'
<1>1. Opens' /\ Store' = Store /\ Graph' = Graph /\ handle' = handle
  BY StillOpens DEF Inv, ServiceFails
<1>2. call.stage \in {"localize", "select"} /\ IsCall(call) /\ handle.meta # 0
  BY DEF ServiceFails, Inv, Reasoned, After
<1>3. call.localized \in Seq(Founded(Named(Store, call))) /\ call.request.op \in {"context", "bundle"}
  BY <1>2 DEF Inv, Reasoned, After, Staged
<1>4. call' = IF ~opts.fallback THEN [call EXCEPT !.stage = "failed"]
              ELSE IF call.stage = "localize" THEN [call EXCEPT !.stage = "expand"]
              ELSE Selected(call, call.ranked)
  BY DEF ServiceFails, Then
<1>5. CASE call' = [call EXCEPT !.stage = "failed"]
  <2>1. IsCall(call') /\ call'.stage = "failed"
    BY <1>2, <1>5 DEF IsCall
  <2>2. Reasoned(handle', Store', Graph', call')
    BY <2>1, Ungrounded DEF After
  <2> QED BY <1>1, <2>1, <2>2 DEF Inv, Staged, Fused
<1>6. CASE call' = [call EXCEPT !.stage = "expand"]
  <2>1. /\ IsCall(call') /\ call'.stage = "expand" /\ call'.request = call.request
        /\ call'.summaries = call.summaries /\ call'.localized = call.localized
    BY <1>2, <1>6 DEF IsCall
  <2>2. Named(Store', call') = Named(Store, call)
    BY <1>1, <2>1 DEF Named
  <2>3. Reasoned(handle', Store', Graph', call')
    BY <1>1, <1>2, <1>3, <2>1, <2>2 DEF Reasoned, After
  <2> QED BY <1>1, <1>3, <2>1, <2>3 DEF Inv, Staged, Fused
<1>7. CASE call.stage = "select" /\ call' = Selected(call, call.ranked)
  <2>1. call.ranked \in Seq(Founded(Returned(Store, Graph, handle.graph # 0, call)))
    BY <1>7 DEF Inv, Reasoned
  <2>2. IsCall(call') /\ Staged(call') /\ Fused(call') /\ Reasoned(handle, Store, Graph, call')
    BY <1>2, <1>3, <1>7, <2>1, SelectedReasoned
  <2> QED BY <1>1, <2>2 DEF Inv
<1> QED BY <1>2, <1>4, <1>5, <1>6, <1>7

\* The preview: the two stages of a call with options of its own.
LEMMA PreviewStep ==
  ASSUME Inv, Preview
  PROVE  Inv'
<1> DEFINE quota == IF opts.limit > 6 THEN 6 ELSE Most(opts.limit, 3)
           plan  == [opts EXCEPT !.limit = quota, !.graph = FALSE, !.rerank = FALSE, !.summaries = TRUE, !.selective = FALSE]
           sums  == SummarySearch(Index, plan)
           found == Sorted(SymbolResults(Index, Store, q, plan, sums))
           all   == Candidates(Index, Store, Graph, Vectors, q, plan, sums, found)
           p == [request |-> [q |-> q, opts |-> plan], summaries |-> sums, localized |-> found, read |-> built.vectors]
           F == Founded(Named(Store, p))
           G == Founded(Returned(Store, Graph, TRUE, p))
<1>1. Opens /\ IsCall(call) /\ Staged(call) /\ call.stage = "preview" /\ IsQuery(q)
  BY DEF Inv, Preview, At, IsCall, IsRequest, q
<1>2. Opens'
  BY <1>1, OpenKeeps DEF Preview, At
<1>3. Index \in Seq(Doc) /\ Vectors \in Seq(Doc) /\ Store.symbols \in Seq(KnownRows) /\ Graph.symbols \in Seq(KnownRows)
  BY <1>1, OpensAre
<1>4. plan.limit \in Nat
  <2>1. opts.limit \in Nat /\ "limit" \in DOMAIN opts
    BY <1>1 DEF IsCall, IsRequest, opts
  <2>2. quota \in Nat
    <3>1. opts.limit \in Int /\ 3 \in Int
      BY <2>1
    <3>2. Most(opts.limit, 3) \in Int /\ Most(opts.limit, 3) >= 3
      BY <3>1, MostIs
    <3>3. Most(opts.limit, 3) \in Nat
      BY <3>2
    <3> HIDE DEF plan, sums, found, all, p, F, G
    <3> QED BY <3>3
  <2> HIDE DEF quota
  <2>3. plan.limit = quota
    BY <2>1
  <2> QED BY <2>2, <2>3
<1> HIDE DEF plan
<1>5. sums \in Seq(Doc)
  BY <1>1, <1>3, <1>4, SummarySearchIs
<1> HIDE DEF sums
<1>6. p.request.q = q /\ p.request.opts = plan /\ p.summaries = sums /\ p.localized = found /\ p.read = built.vectors
  OBVIOUS
<1> HIDE DEF p
<1>7. Searching(p)
  BY <1>1, <1>4, <1>5, <1>6 DEF Searching
<1>8. SymbolResults(Index, Store, q, plan, sums) \in Seq(F)
  <2>1. SymbolResults(Index, Store, p.request.q, p.request.opts, p.summaries) \in Seq(Founded(Named(Store, p)))
    BY <1>3, <1>7, FirstStageLaw
  <2> QED BY <1>6, <2>1
<1>9. found \in Seq(F)
  <2> HIDE DEF F
  <2> QED BY <1>8, SortedIs
<1> HIDE DEF found
<1>10. all \in Seq(G)
  <2>1. Vectors = Documents(Worlds[p.read]) /\ p.localized \in Seq(Founded(Named(Store, p)))
    BY <1>6, <1>9 DEF Vectors
  <2>2. Candidates(Index, Store, Graph, Vectors, p.request.q, p.request.opts, p.summaries, p.localized)
          \in Seq(Founded(Returned(Store, Graph, TRUE, p)))
    BY <1>3, <1>7, <2>1, SecondStageLaw
  <2> QED BY <1>6, <2>2
<1> DEFINE shown == First(Sorted(all), quota)
<1>11. shown \in Seq(Cand)
  <2>1. G \subseteq Cand
    BY DEF Founded
  <2>2. quota \in Int
    BY <1>1, MostIs DEF IsCall, IsRequest, opts
  <2> HIDE DEF G, all, quota
  <2>3. Sorted(all) \in Seq(G)
    BY <1>10, SortedIs
  <2>4. First(Sorted(all), quota) \in Seq(G)
    BY <2>2, <2>3, FirstIs
  <2> QED BY <2>1, <2>4
<1>12. call' = [call EXCEPT !.selected = shown, !.stage = "summaries"]
  BY DEF Preview, Then, plan, sums, found
<1> HIDE DEF shown
<1>13. IsCall(call') /\ call'.stage = "summaries" /\ call'.request = call.request
  BY <1>1, <1>11, <1>12 DEF IsCall
<1>14. Staged(call') /\ Fused(call') /\ ~After(call') /\ call'.stage # "select"
  BY <1>1, <1>13 DEF Staged, Fused, After
<1>15. Reasoned(handle', Store', Graph', call')
  BY <1>14, Ungrounded
<1> QED BY <1>2, <1>13, <1>14, <1>15 DEF Inv

\* The neighbours of the bundle keep the invariant,
LEMMA BundleStep ==
  ASSUME Inv, AnswerBundle
  PROVE  Inv'
<1>1. Opens /\ IsCall(call) /\ Staged(call) /\ call.stage = "bundle"
  BY DEF Inv, AnswerBundle, At
<1>2. Opens'
  BY <1>1, OpenKeeps DEF AnswerBundle, At
<1> DEFINE pool == First(Evidence(call.selected), opts.limit)
<1>3. pool \in Seq(Cand)
  <2> DEFINE key(c) == <<c.symbol, c.path, c.kind>>
             J == {i \in DOMAIN call.selected : \A j \in 1..(i - 1) : key(call.selected[j]) # key(call.selected[i])}
  <2>1. call.selected \in Seq(Cand) /\ opts.limit \in Int
    BY <1>1 DEF IsCall, IsRequest, opts
  <2>2. Evidence(call.selected) = Among(call.selected, J)
    BY <2>1, OnceIs DEF Evidence, Distinct
  <2> HIDE DEF J
  <2>3. Evidence(call.selected) \in Seq(Cand)
    BY <2>1, <2>2, AmongIs
  <2> QED BY <2>1, <2>3, FirstIs
<1>4. \E near : call' = [call EXCEPT !.neighbors = near, !.pool = pool, !.stage = "done"]
  BY DEF AnswerBundle, Then
<1> HIDE DEF pool
<1>5. IsCall(call') /\ call'.stage = "done" /\ call'.request.op = "bundle"
  BY <1>1, <1>3, <1>4 DEF IsCall, Staged
<1>6. Staged(call') /\ Fused(call') /\ ~After(call') /\ call'.stage # "select"
  BY <1>5 DEF Staged, Fused, After
<1>7. Reasoned(handle', Store', Graph', call')
  BY <1>6, Ungrounded
<1> QED BY <1>2, <1>5, <1>6, <1>7 DEF Inv

\* and so does the second round.
LEMMA IterateStep ==
  ASSUME Inv, Iterate
  PROVE  Inv'
<1>1. Opens /\ IsCall(call) /\ call.stage = "done" /\ call.request.op = "bundle"
  BY DEF Inv, Iterate, At
<1>2. Opens'
  BY <1>1, StillOpens DEF Iterate, At
<1> DEFINE again == Refined(q, First(call.localized, opts.limit))
           r == [call.request EXCEPT !.q = again]
<1>3. IsQuery(again) /\ DOMAIN again = {"words", "slash", "id"}
  <2>1. /\ IsQuery(q) /\ DOMAIN q = {"words", "slash", "id"}
        /\ call.localized \in Seq(Cand) /\ opts.limit \in Int
    BY <1>1 DEF IsCall, IsRequest, q, opts
  <2>2. First(call.localized, opts.limit) \in Seq(Cand)
    BY <2>1, FirstIs
  <2> QED BY <2>1, <2>2, RefinedIs
<1>4. call' = [NoCall EXCEPT !.request = r, !.stage = "preview", !.round = 1]
  BY DEF Iterate, Then
<1> HIDE DEF again
<1>5. IsRequest(r) /\ r.op = "bundle"
  BY <1>1, <1>3 DEF IsCall, IsRequest
<1> HIDE DEF r
<1>6. IsCall(call') /\ call'.stage = "preview" /\ call'.request = r
  <2>1. \A S : <<>> \in Seq(S)
    OBVIOUS
  <2> QED BY <1>4, <1>5, <2>1 DEF NoCall, IsCall
<1>7. Staged(call') /\ Fused(call') /\ ~After(call') /\ call'.stage # "select"
  BY <1>5, <1>6 DEF Staged, Fused, After
<1>8. Reasoned(handle', Store', Graph', call')
  BY <1>7, Ungrounded
<1> QED BY <1>2, <1>6, <1>7, <1>8 DEF Inv

\* A paper call that comes to its end.
LEMMA AggregatedLaw ==
  ASSUME NEW c, IsCall(c), c.request.op = "paper", NEW ranked \in Seq(Cand), NEW d, d = Aggregated(c, ranked)
  PROVE  IsCall(d) /\ Staged(d) /\ Fused(d) /\ ~After(d) /\ d.stage = "done" /\ d.ranked = ranked /\ d.pool = <<>>
<1> DEFINE m == MaxP(ranked)
           top == First(m, c.request.opts.limit)
<1>1. top \in Seq(Cand)
  <2>1. Rankable(Cand)
    BY CandIsClosed
  <2>2. m \in Seq(Cand)
    BY <2>1, MaxPLaw
  <2>3. c.request.opts.limit \in Int
    BY DEF IsCall, IsRequest
  <2> HIDE DEF m
  <2> QED BY <2>2, <2>3, FirstIs
<1>2. d = [c EXCEPT !.ranked = ranked, !.pool = <<>>, !.selected = top, !.stage = "done"]
  BY DEF Aggregated
<1>3. top = First(MaxP(ranked), c.request.opts.limit)
  OBVIOUS
<1> HIDE DEF top, m
<1>4. IsCall(d)
  <2>1. <<>> \in Seq(Cand)
    OBVIOUS
  <2> QED BY <1>1, <1>2, <2>1 DEF IsCall
<1>5. d.stage = "done" /\ d.request = c.request /\ d.selected = top /\ d.ranked = ranked /\ d.pool = <<>>
  BY <1>2 DEF IsCall
<1> QED BY <1>3, <1>4, <1>5 DEF Staged, Fused, After

\* The units of the paper pipeline keep the invariant,
LEMMA UnitsStep ==
  ASSUME Inv, Units
  PROVE  Inv'
<1> DEFINE quota == Most(Pool, opts.limit)
           units == UnitCandidates(q, Search(Index, q, quota, {}, <<>>), QueryEmbeddings(Vectors, q, quota))
           sent  == PreRanked(units, quota)
           ranked == HeuristicRank(q, sent, NoProfile)
<1>1. Opens /\ IsCall(call) /\ call.request.op = "paper" /\ IsQuery(q)
  BY DEF Inv, Units, At, IsCall, IsRequest, Staged, q
<1>2. Opens'
  BY <1>1, StillOpens DEF Units, At
<1>3. Index \in Seq(Doc) /\ Vectors \in Seq(Doc) /\ Doc \subseteq Cand
  BY <1>1, OpensAre DEF Doc
<1>4. quota \in Nat
  <2>1. Pool \in Int /\ opts.limit \in Int /\ Pool >= 0
    BY <1>1, PoolAssumption DEF IsCall, IsRequest, opts
  <2>2. Most(Pool, opts.limit) \in Int /\ Most(Pool, opts.limit) >= Pool
    BY <2>1, MostIs
  <2> QED BY <2>1, <2>2
<1> HIDE DEF quota
<1>5. units \in Seq(Cand)
  <2>1. Search(Index, q, quota, {}, <<>>) \in Seq(Doc)
    BY <1>1, <1>3, <1>4, DocIsIndexed, SearchIs
  <2>2. Search(Index, q, quota, {}, <<>>) \in Seq(Cand)
    BY <1>3, <2>1
  <2>3. Spread(Cand) /\ Vectors \in Seq(Cand) /\ quota \in Int
    BY <1>3, <1>4, CandIsClosed
  <2>4. QueryEmbeddings(Vectors, q, quota) \in Seq(Cand)
    BY <1>1, <2>3, QueryEmbeddingsIs
  <2> QED BY <1>1, <2>2, <2>4, UnitCandidatesIs
<1> HIDE DEF units
<1>6. sent \in Seq(Cand)
  <2>1. quota \in Int
    BY <1>4
  <2> QED BY <1>5, <2>1, PreRankedIs
<1>7. call' = IF ~opts.service THEN Aggregated(call, ranked)
              ELSE IF sent = <<>> THEN Aggregated(call, sent)
              ELSE [call EXCEPT !.pool = sent, !.localized = sent, !.stage = "batch"]
  BY DEF Units, Then, units, quota
<1> HIDE DEF sent
<1>8. ranked \in Seq(Cand)
  BY <1>1, <1>6, CandIsClosed, HeuristicRankLaw
<1> HIDE DEF ranked
<1>9. IsCall(call') /\ Staged(call') /\ Fused(call') /\ ~After(call') /\ call'.stage # "select"
  <2>1. CASE call' = Aggregated(call, ranked)
    BY <1>1, <1>8, <2>1, AggregatedLaw
  <2>2. CASE call' = Aggregated(call, sent)
    BY <1>1, <1>6, <2>2, AggregatedLaw
  <2>3. CASE call' = [call EXCEPT !.pool = sent, !.localized = sent, !.stage = "batch"]
    <3>1. IsCall(call') /\ call'.stage = "batch" /\ call'.request = call.request
      BY <1>1, <1>6, <2>3 DEF IsCall
    <3> QED BY <1>1, <3>1 DEF Staged, Fused, After
  <2> QED BY <1>7, <2>1, <2>2, <2>3
<1>10. Reasoned(handle', Store', Graph', call')
  BY <1>9, Ungrounded
<1> QED BY <1>2, <1>9, <1>10 DEF Inv

\* each batch,
LEMMA BatchStep ==
  ASSUME Inv, Batch
  PROVE  Inv'
<1> DEFINE batch == First(call.pool, RerankTop)
           rest  == SubSeq(call.pool, Len(batch) + 1, Len(call.pool))
<1>1. Opens /\ IsCall(call) /\ call.request.op = "paper" /\ call.stage = "batch"
  BY DEF Inv, Batch, At, Staged
<1>2. Opens'
  BY <1>1, StillOpens DEF Batch, At
<1>3. PICK answer \in Answers(Len(batch)) :
        call' = IF rest = <<>> THEN Aggregated(call, Sort(call.ranked \o RerankBatch(batch, answer), ByScore))
                ELSE [call EXCEPT !.pool = rest, !.ranked = call.ranked \o RerankBatch(batch, answer)]
  BY DEF Batch, Then
<1> DEFINE ranked == call.ranked \o RerankBatch(batch, answer)
<1>4. ranked \in Seq(Cand) /\ rest \in Seq(Cand)
  <2>1. call.ranked \in Seq(Cand) /\ call.pool \in Seq(Cand)
    BY <1>1 DEF IsCall
  <2> QED BY <2>1, CandIsClosed, BatchLaw
<1>5. Sort(ranked, ByScore) \in Seq(Cand)
  <2> HIDE DEF ranked
  <2> QED BY <1>4, ByScoreSort
<1>6. IsCall(call') /\ Staged(call') /\ Fused(call') /\ ~After(call') /\ call'.stage # "select"
  <2> DEFINE best == Sort(ranked, ByScore)
  <2>1. call' = Aggregated(call, best) \/ call' = [call EXCEPT !.pool = rest, !.ranked = ranked]
    BY <1>3
  <2> HIDE DEF best, ranked, rest
  <2>2. best \in Seq(Cand)
    BY <1>5 DEF best
  <2>3. CASE call' = Aggregated(call, best)
    BY <1>1, <2>2, <2>3, AggregatedLaw
  <2>4. CASE call' = [call EXCEPT !.pool = rest, !.ranked = ranked]
    <3>1. IsCall(call') /\ call'.stage = "batch" /\ call'.request = call.request
      BY <1>1, <1>4, <2>4 DEF IsCall
    <3> QED BY <1>1, <3>1 DEF Staged, Fused, After
  <2> QED BY <2>1, <2>3, <2>4
<1>7. Reasoned(handle', Store', Graph', call')
  BY <1>6, Ungrounded
<1> QED BY <1>2, <1>6, <1>7 DEF Inv

\* What is ranked again is what the batches were made of.
LEMMA BatchFailsStep ==
  ASSUME Inv, BatchFails
  PROVE  Inv'
<1> DEFINE again == HeuristicRank(q, call.localized, NoProfile)
<1>1. Opens /\ IsCall(call) /\ call.request.op = "paper" /\ IsQuery(q)
  BY DEF Inv, BatchFails, At, IsCall, IsRequest, Staged, q
<1>2. Opens'
  BY <1>1, StillOpens DEF BatchFails, At
<1>3. again \in Seq(Cand) /\ Matches(again, call.localized)
  <2>1. call.localized \in Seq(Cand)
    BY <1>1 DEF IsCall
  <2> QED BY <1>1, <2>1, CandIsClosed, HeuristicRankLaw
<1>4. call' = IF opts.fallback THEN [call EXCEPT !.pool = <<>>, !.ranked = again, !.stage = "again"]
              ELSE [call EXCEPT !.stage = "failed"]
  BY DEF BatchFails, Then
<1> HIDE DEF again
<1>5. IsCall(call') /\ Staged(call') /\ Fused(call') /\ ~After(call') /\ call'.stage # "select"
  <2>1. CASE call' = [call EXCEPT !.pool = <<>>, !.ranked = again, !.stage = "again"]
    <3>1. <<>> \in Seq(Cand)
      OBVIOUS
    <3>2. /\ IsCall(call') /\ call'.stage = "again" /\ call'.request = call.request
          /\ call'.pool = <<>> /\ call'.ranked = again /\ call'.localized = call.localized
      BY <1>1, <1>3, <2>1, <3>1 DEF IsCall
    <3> QED BY <1>1, <1>3, <3>2 DEF Staged, Fused, After
  <2>2. CASE call' = [call EXCEPT !.stage = "failed"]
    <3>1. IsCall(call') /\ call'.stage = "failed"
      BY <1>1, <2>2 DEF IsCall
    <3> QED BY <3>1 DEF Staged, Fused, After
  <2> QED BY <1>4, <2>1, <2>2
<1>6. Reasoned(handle', Store', Graph', call')
  BY <1>5, Ungrounded
<1> QED BY <1>2, <1>5, <1>6 DEF Inv

\* and the heuristics after a batch that failed.
LEMMA AgainStep ==
  ASSUME Inv, Again
  PROVE  Inv'
<1>1. Opens /\ IsCall(call) /\ call.request.op = "paper"
  BY DEF Inv, Again, At, Staged
<1>2. Opens'
  BY <1>1, StillOpens DEF Again, At
<1>3. PICK answer \in Answers(Len(First(call.ranked, RerankTop))) : call' = Aggregated(call, QwenRank(call.ranked, answer))
  BY DEF Again, Then
<1> DEFINE ranked == QwenRank(call.ranked, answer)
<1>4. ranked \in Seq(Cand)
  <2>1. call.ranked \in Seq(Cand)
    BY <1>1 DEF IsCall
  <2> QED BY <2>1, CandIsClosed, QwenRankLaw
<1> HIDE DEF ranked
<1>5. IsCall(call') /\ Staged(call') /\ Fused(call') /\ ~After(call') /\ call'.stage = "done"
  BY <1>1, <1>3, <1>4, AggregatedLaw DEF ranked
<1>6. Reasoned(handle', Store', Graph', call')
  BY <1>5, Ungrounded
<1> QED BY <1>2, <1>5, <1>6 DEF Inv

\* A step of the other tools: it leaves the candidates alone.
LEMMA ToolStep ==
  ASSUME Inv, Opens', call.stage \in {"define", "callers", "callees", "resolve", "slice"}, IsCall(call'),
         call'.request = call.request, call'.stage \in {"callers", "callees", "slice", "done"},
         call'.stage \in {"callers", "callees"} => call.request.op = "trace",
         call'.stage = "slice" => call.request.op = "enclosing"
  PROVE  Inv'
<1>1. call.request.op \in {"trace", "enclosing"}
  BY DEF Inv, Staged
<1>2. Staged(call') /\ Fused(call') /\ ~After(call') /\ call'.stage # "select"
  BY <1>1 DEF Staged, Fused, After
<1>3. Reasoned(handle', Store', Graph', call')
  BY <1>2, Ungrounded
<1> QED BY <1>2, <1>3 DEF Inv

\* where_defined keeps the invariant,
LEMMA DefineStep ==
  ASSUME Inv, Define
  PROVE  Inv'
<1> DEFINE ids == WhereDefined(Store, Graph, q, 1)
           stage == IF ids = <<>> THEN "done" ELSE "callers"
           as == IF ByQname(Store, q) \o ByName(Store, q) = <<>> THEN {"meta", "graph"} ELSE {"meta"}
<1>1. Opens /\ IsCall(call) /\ call.stage = "define" /\ call.request.op = "trace"
  BY DEF Inv, Define, At, Staged
<1>2. Opens'
  <2>1. as \subseteq {"meta", "graph"} /\ Open(as) /\ built' = built
    BY DEF Define, At
  <2> HIDE DEF as
  <2> QED BY <1>1, <2>1, OpenKeeps
<1>3. call' = [call EXCEPT !.defined = ids, !.stage = stage]
  BY DEF Define, Then
<1>4. stage \in {"done", "callers"}
  OBVIOUS
<1> HIDE DEF ids, stage
<1>5. IsCall(call') /\ call'.request = call.request /\ call'.stage \in {"done", "callers"}
  BY <1>1, <1>3, <1>4 DEF IsCall
<1> QED BY <1>1, <1>2, <1>5, ToolStep

\* callers_of and callees_of,
LEMMA NeighborStep ==
  ASSUME Inv, NEW stage \in {"callers", "callees"}, NEW next \in {"callees", "done"}, Neighbor(stage, next)
  PROVE  Inv'
<1> DEFINE answer == ResolveSeed(Store, Index, q, opts.limit)
           as == IF answer.how = "ambiguous" THEN {"meta"} ELSE {"meta", "graph"}
<1>1. Opens /\ IsCall(call) /\ call.stage = stage /\ call.request.op = "trace"
  BY DEF Inv, Neighbor, At, Staged
<1>2. Opens'
  <2>1. as \subseteq {"meta", "graph"} /\ Open(as) /\ built' = built
    BY DEF Neighbor, At
  <2> HIDE DEF as
  <2> QED BY <1>1, <2>1, OpenKeeps
<1>3. \E x, y : call' = [call EXCEPT !.seeds = x, !.stage = next, !.neighbors = y]
  BY DEF Neighbor, Then
<1>4. IsCall(call') /\ call'.request = call.request /\ call'.stage = next
  BY <1>1, <1>3 DEF IsCall
<1> QED BY <1>1, <1>2, <1>4, ToolStep

\* resolve_symbol_query,
LEMMA ResolveStep ==
  ASSUME Inv, Resolve
  PROVE  Inv'
<1> DEFINE n == ResolveSymbol(Store, Index, Graph, q)
           stage == IF n = 0 THEN "done" ELSE "slice"
           defined == IF n = 0 THEN <<>> ELSE <<n>>
           as == IF q.id = 0 /\ ByQname(Store, q) \o ByName(Store, q) \o SymbolCandidates(Store, Index, q, 5) = <<>>
                   THEN {"meta", "graph"} ELSE {"meta"}
<1>1. Opens /\ IsCall(call) /\ call.stage = "resolve" /\ call.request.op = "enclosing"
  BY DEF Inv, Resolve, At, Staged
<1>2. Opens'
  <2>1. as \subseteq {"meta", "graph"} /\ Open(as) /\ built' = built
    BY DEF Resolve, At
  <2> HIDE DEF as
  <2> QED BY <1>1, <2>1, OpenKeeps
<1>3. call' = [call EXCEPT !.defined = defined, !.stage = stage]
  BY DEF Resolve, Then
<1>4. stage \in {"done", "slice"}
  OBVIOUS
<1> HIDE DEF n, stage, defined
<1>5. IsCall(call') /\ call'.request = call.request /\ call'.stage \in {"done", "slice"}
  BY <1>1, <1>3, <1>4 DEF IsCall
<1> QED BY <1>1, <1>2, <1>5, ToolStep

\* and the statement slice.
LEMMA SliceStep ==
  ASSUME Inv, Slice
  PROVE  Inv'
<1> DEFINE answer == ResolveSeed(Store, Index, q, 8)
           as == IF answer.how = "ambiguous" THEN {"meta"} ELSE {"meta", "graph"}
<1>1. Opens /\ IsCall(call) /\ call.stage = "slice"
  BY DEF Inv, Slice, At
<1>2. Opens'
  <2>1. as \subseteq {"meta", "graph"} /\ Open(as) /\ built' = built
    BY DEF Slice, At
  <2> HIDE DEF as
  <2> QED BY <1>1, <2>1, OpenKeeps
<1>3. \E x : call' = [call EXCEPT !.seeds = x, !.stage = "done"]
  BY DEF Slice, Then
<1>4. IsCall(call') /\ call'.request = call.request /\ call'.stage = "done"
  BY <1>1, <1>3 DEF IsCall
<1> QED BY <1>1, <1>2, <1>4, ToolStep

\* Every step keeps the invariant.
LEMMA NextInv ==
  ASSUME Inv, [QueryNext]_queryVars
  PROVE  Inv'
<1>1. CASE \E r \in Requests : Ask(r)
  BY <1>1, AskStep
<1>2. CASE Return \/ ReplaceArtifact \/ Restart
  BY <1>2, ReturnStep, RebuildStep, RestartStep
<1>3. CASE Summaries \/ Symbols \/ Localize \/ Expand \/ Select \/ ServiceFails
  BY <1>3, SummariesStep, SymbolsStep, LocalizeStep, ExpandStep, SelectStep, ServiceFailsStep
<1>4. CASE Preview \/ AnswerBundle \/ Iterate
  BY <1>4, PreviewStep, BundleStep, IterateStep
<1>5. CASE Units \/ Batch \/ BatchFails \/ Again
  BY <1>5, UnitsStep, BatchStep, BatchFailsStep, AgainStep
<1>6. CASE Define \/ Resolve \/ Slice
  BY <1>6, DefineStep, ResolveStep, SliceStep
<1>7. CASE Callers \/ Callees
  BY <1>7, NeighborStep DEF Callers, Callees
<1>8. CASE UNCHANGED queryVars
  BY <1>8, Unchanged
<1> QED BY <1>1, <1>2, <1>3, <1>4, <1>5, <1>6, <1>7, <1>8 DEF QueryNext

\* The invariant: what is open is a generation, a call has the fields and the
\* stages of its tool, what the heuristics rank again is what the batches were
\* made of, and at each stage of a context query the symbols and the
\* candidates are grounded in what the stages before it returned.
THEOREM CallsAreFounded == QuerySpec => []Inv
<1>1. QueryInit => Inv
  BY QueryInitInv
<1>2. Inv /\ [QueryNext]_queryVars => Inv'
  BY NextInv
<1> QED BY <1>1, <1>2, PTL DEF QuerySpec

\* The sources of a paper call that ended are the best ones, as Fused says.
LEMMA InvSources == Inv => SourcesByBestUnit
<1> SUFFICES ASSUME Inv, call.stage = "done", call.request.op = "paper"
             PROVE  BestSources(call.ranked, call.selected, opts.limit)
  BY DEF SourcesByBestUnit, BestSources
<1> DEFINE m == MaxP(call.ranked)
<1>1. call.selected = First(m, opts.limit) /\ call.ranked \in Seq(Cand) /\ opts.limit \in Nat
  BY DEF Inv, Fused, IsCall, IsRequest, opts
<1> HIDE DEF m
<1>2. BestSources(call.ranked, First(m, opts.limit), opts.limit)
  BY <1>1, BestSourcesLaw DEF m
<1> QED BY <1>1, <1>2

\* The paper pipeline answers with the best sources, in any order of the units.
THEOREM PaperSources == QuerySpec => []SourcesByBestUnit
<1>1. Inv => SourcesByBestUnit
  BY InvSources
<1> QED BY <1>1, CallsAreFounded, PTL

\* The reasons of a context call that ended are true, as Reasoned says.
LEMMA InvReasons == Inv => ReasonsAreTrue
<1> SUFFICES ASSUME Inv, call.stage = "done", call.request.op = "context", NEW c \in ToSet(call.selected)
             PROVE
      /\ "symbol-localization" \in c.reasons => c.symbol \in {r.symbol : r \in ToSet(ExactResults(Store, q))}
      /\ "symbol" \in c.reasons => c.symbol \in {r.symbol : r \in ToSet(call.localized)}
      /\ "graph" \in c.reasons => \E n \in Reached : n.symbol = c.symbol /\ (c.symbol # 0 \/ n.path = c.path)
      /\ "body" \in c.reasons => c.kind \in BodyKinds /\ c.symbol \in {r.symbol : r \in ToSet(call.localized)}
      /\ "embedding" \in c.reasons => <<c.kind, Source(c)>> \in Embedded
      /\ "summary" \in c.reasons /\ ~opts.summaries =>
           \E r \in ToSet(call.summaries) : r.kind = c.kind /\ r.path = c.path /\ r.symbol = c.symbol
      /\ c.depth >= 0 => \E s \in ToSet(SummaryScopes(q, call.summaries)) :
                           IsPrefix(s.prefix, c.path) /\ Len(c.path) - Len(s.prefix) = c.depth
  BY DEF ReasonsAreTrue
<1> DEFINE g == Returned(Store, Graph, handle.graph # 0, call)
<1>1. call.selected \in Seq(Founded(g))
  BY DEF Inv, Reasoned
<1>2. /\ g.exact = {r.symbol : r \in ToSet(ExactResults(Store, q))}
      /\ g.found = {r.symbol : r \in ToSet(call.localized)}
      /\ g.near \subseteq Reached
      /\ g.embedded = Embedded
      /\ g.any = opts.summaries /\ g.summaries = ToSet(call.summaries)
      /\ g.scopes = ToSet(SummaryScopes(q, call.summaries))
  BY DEF Returned, Reached, NodesAround, Embedded, q, opts
<1> HIDE DEF g
<1>3. c \in Founded(g)
  BY <1>1, ToSetIs
<1>4. (\A reason \in c.reasons : Ground(g, reason, c)) /\ Placed(g, c)
  BY <1>3 DEF Founded
<1>5. "symbol-localization" \in c.reasons => c.symbol \in {r.symbol : r \in ToSet(ExactResults(Store, q))}
  BY <1>2, <1>4 DEF Ground
<1>6. "symbol" \in c.reasons => c.symbol \in {r.symbol : r \in ToSet(call.localized)}
  BY <1>2, <1>4 DEF Ground
<1>7. "graph" \in c.reasons => \E n \in Reached : n.symbol = c.symbol /\ (c.symbol # 0 \/ n.path = c.path)
  BY <1>2, <1>4 DEF Ground
<1>8. "body" \in c.reasons => c.kind \in BodyKinds /\ c.symbol \in {r.symbol : r \in ToSet(call.localized)}
  BY <1>2, <1>4 DEF Ground
<1>9. "embedding" \in c.reasons => <<c.kind, Source(c)>> \in Embedded
  BY <1>2, <1>4 DEF Ground
<1>10. "summary" \in c.reasons /\ ~opts.summaries =>
         \E r \in ToSet(call.summaries) : r.kind = c.kind /\ r.path = c.path /\ r.symbol = c.symbol
  BY <1>2, <1>4 DEF Ground
<1>11. c.depth >= 0 => \E s \in ToSet(SummaryScopes(q, call.summaries)) :
                         IsPrefix(s.prefix, c.path) /\ Len(c.path) - Len(s.prefix) = c.depth
  BY <1>2, <1>4 DEF Placed
<1> QED BY <1>5, <1>6, <1>7, <1>8, <1>9, <1>10, <1>11

\* The reasons an agent is shown are true, whatever was rebuilt meanwhile.
THEOREM ReasonsHold == QuerySpec => []ReasonsAreTrue
<1>1. Inv => ReasonsAreTrue
  BY InvReasons
<1> QED BY <1>1, CallsAreFounded, PTL

\* What a step leaves of the candidates that are reranked.
Kept ==
  /\ call.stage = "localize" => Census(call'.localized) = Census(call.localized)
  /\ call.stage = "select" /\ call'.stage # "failed" => Census(call'.ranked) = Census(call.ranked)
  /\ call.stage \in {"batch", "again"} /\ call'.stage # "failed" =>
       Census(call'.ranked \o call'.pool) = Census(IF call'.stage = "again" THEN call.localized
                                                   ELSE call.ranked \o call.pool)

\* Where nothing is reranked nothing is to be kept.
LEMMA KeptElsewhere ==
  ASSUME call.stage \notin {"localize", "select", "batch", "again"}
  PROVE  Kept
BY DEF Kept

\* A step that leaves the call alone: the units ranked again are those of the batches.
LEMMA KeptUnchanged ==
  ASSUME Inv, call' = call
  PROVE  Kept
<1>1. call.stage = "again" => Census(call.ranked \o call.pool) = Census(call.localized)
  <2> SUFFICES ASSUME call.stage = "again" PROVE Census(call.ranked \o call.pool) = Census(call.localized)
    OBVIOUS
  <2>1. call.pool = <<>> /\ Matches(call.ranked, call.localized) /\ call.ranked \in Seq(Cand) /\ call.localized \in Seq(Cand)
    BY DEF Inv, Fused, IsCall
  <2>2. call.ranked \o call.pool = call.ranked
    BY <2>1
  <2>3. Census(call.ranked) = Census(call.localized)
    BY <2>1, MatchesCensus
  <2> QED BY <2>2, <2>3
<1> QED BY <1>1 DEF Kept

\* The reranking of the symbols keeps them,
LEMMA LocalizeKeeps ==
  ASSUME Inv, Localize
  PROVE  Kept
<1>1. call.stage = "localize" /\ call.localized \in Seq(Cand) /\ "localized" \in DOMAIN call
  BY DEF Localize, At, Inv, IsCall
<1>2. PICK answer \in Answers(Len(First(call.localized, RerankTop))) :
        call' = [call EXCEPT !.localized = QwenRank(@, answer), !.stage = "expand"]
  BY DEF Localize, Then
<1> DEFINE found == QwenRank(call.localized, answer)
<1>3. found \in Seq(Cand) /\ Matches(found, call.localized)
  BY <1>1, CandIsClosed, QwenRankLaw
<1> HIDE DEF found
<1>4. call'.localized = found
  BY <1>1, <1>2 DEF found
<1>5. Census(found) = Census(call.localized)
  BY <1>1, <1>3, MatchesCensus
<1> QED BY <1>1, <1>4, <1>5 DEF Kept

\* the reranking of the candidates does,
LEMMA SelectKeeps ==
  ASSUME Inv, Select
  PROVE  Kept
<1>1. call.stage = "select" /\ call.ranked \in Seq(Cand) /\ IsCall(call)
  BY DEF Select, At, Inv, IsCall
<1>2. PICK answer \in Answers(Len(First(call.ranked, RerankTop))) : call' = Selected(call, QwenRank(call.ranked, answer))
  BY DEF Select, Then
<1> DEFINE found == QwenRank(call.ranked, answer)
<1>3. found \in Seq(Cand) /\ Matches(found, call.ranked)
  BY <1>1, CandIsClosed, QwenRankLaw
<1> HIDE DEF found
<1>4. call'.ranked = found
  BY <1>1, <1>2 DEF found, Selected, IsCall
<1>5. Census(found) = Census(call.ranked)
  BY <1>1, <1>3, MatchesCensus
<1> QED BY <1>1, <1>4, <1>5 DEF Kept

\* and a service that fails leaves them as they were.
LEMMA ServiceFailsKeeps ==
  ASSUME Inv, ServiceFails
  PROVE  Kept
<1>1. call.stage \in {"localize", "select"} /\ IsCall(call)
  BY DEF ServiceFails, Inv
<1>2. \/ call' = [call EXCEPT !.stage = "failed"]
      \/ call.stage = "localize" /\ call' = [call EXCEPT !.stage = "expand"]
      \/ call.stage = "select" /\ call' = Selected(call, call.ranked)
  BY <1>1 DEF ServiceFails, Then
<1>3. CASE call' = [call EXCEPT !.stage = "failed"]
  BY <1>1, <1>3 DEF Kept, IsCall
<1>4. CASE call.stage = "localize" /\ call' = [call EXCEPT !.stage = "expand"]
  BY <1>1, <1>4 DEF Kept, IsCall
<1>5. CASE call.stage = "select" /\ call' = Selected(call, call.ranked)
  <2>1. call'.ranked = call.ranked
    BY <1>1, <1>5 DEF Selected, IsCall
  <2> QED BY <1>5, <2>1 DEF Kept
<1> QED BY <1>2, <1>3, <1>4, <1>5

\* What an aggregated call says of its units.
LEMMA AggregatedFields ==
  ASSUME NEW c, IsCall(c), NEW ranked, NEW d, d = Aggregated(c, ranked)
  PROVE  d.ranked = ranked /\ d.pool = <<>> /\ d.stage = "done"
BY DEF Aggregated, IsCall

\* The units of the batches answered and of those still to be sent are the
\* ones before the step.
LEMMA BatchKeeps ==
  ASSUME Inv, Batch
  PROVE  Kept
<1> DEFINE batch == First(call.pool, RerankTop)
           rest  == SubSeq(call.pool, Len(batch) + 1, Len(call.pool))
<1>1. IsCall(call) /\ call.stage = "batch" /\ call.ranked \in Seq(Cand) /\ call.pool \in Seq(Cand)
  BY DEF Inv, Batch, At, IsCall
<1>2. PICK answer \in Answers(Len(batch)) :
        call' = IF rest = <<>> THEN Aggregated(call, Sort(call.ranked \o RerankBatch(batch, answer), ByScore))
                ELSE [call EXCEPT !.pool = rest, !.ranked = call.ranked \o RerankBatch(batch, answer)]
  BY DEF Batch, Then
<1> DEFINE ranked == call.ranked \o RerankBatch(batch, answer)
           best == Sort(ranked, ByScore)
<1>3. ranked \in Seq(Cand) /\ rest \in Seq(Cand) /\ Matches(ranked \o rest, call.ranked \o call.pool)
  BY <1>1, CandIsClosed, BatchLaw
<1>4. \/ rest = <<>> /\ call' = Aggregated(call, best)
      \/ call' = [call EXCEPT !.pool = rest, !.ranked = ranked]
  BY <1>2
<1>5. best \in Seq(Cand) /\ Matches(best, ranked)
  <2> HIDE DEF ranked
  <2> QED BY <1>3, ByScoreMatches
<1> HIDE DEF best, ranked, rest
<1>6. call.ranked \o call.pool \in Seq(Cand) /\ ranked \o rest \in Seq(Cand)
  BY <1>1, <1>3
<1>7. CASE rest = <<>> /\ call' = Aggregated(call, best)
  <2>1. call'.ranked = best /\ call'.pool = <<>> /\ call'.stage = "done"
    BY <1>1, <1>7, AggregatedFields
  <2>2. call'.ranked \o call'.pool = best /\ ranked \o rest = ranked
    BY <1>3, <1>5, <1>7, <2>1
  <2>3. Matches(best, call.ranked \o call.pool)
    BY <1>3, <1>5, <2>2, MatchesStep
  <2>4. Census(best) = Census(call.ranked \o call.pool)
    BY <1>5, <1>6, <2>3, MatchesCensus
  <2> QED BY <1>1, <2>1, <2>2, <2>4 DEF Kept
<1>8. CASE call' = [call EXCEPT !.pool = rest, !.ranked = ranked]
  <2>1. call'.ranked = ranked /\ call'.pool = rest /\ call'.stage = "batch"
    BY <1>1, <1>8 DEF IsCall
  <2>2. Census(ranked \o rest) = Census(call.ranked \o call.pool)
    BY <1>3, <1>6, MatchesCensus
  <2> QED BY <1>1, <2>1, <2>2 DEF Kept
<1> QED BY <1>4, <1>7, <1>8

\* After a batch that failed the units are those the batches were made of.
LEMMA BatchFailsKeeps ==
  ASSUME Inv, BatchFails
  PROVE  Kept
<1> DEFINE again == HeuristicRank(q, call.localized, NoProfile)
<1>1. IsCall(call) /\ call.stage = "batch" /\ call.localized \in Seq(Cand) /\ IsQuery(q)
  BY DEF Inv, BatchFails, At, IsCall, IsRequest, q
<1>2. again \in Seq(Cand) /\ Matches(again, call.localized)
  BY <1>1, CandIsClosed, HeuristicRankLaw
<1>3. \/ call' = [call EXCEPT !.pool = <<>>, !.ranked = again, !.stage = "again"]
      \/ call' = [call EXCEPT !.stage = "failed"]
  BY DEF BatchFails, Then
<1> HIDE DEF again
<1>4. CASE call' = [call EXCEPT !.pool = <<>>, !.ranked = again, !.stage = "again"]
  <2>1. call'.ranked = again /\ call'.pool = <<>> /\ call'.stage = "again"
    BY <1>1, <1>4 DEF IsCall
  <2>2. call'.ranked \o call'.pool = again
    BY <1>2, <2>1
  <2>3. Census(again) = Census(call.localized)
    BY <1>1, <1>2, MatchesCensus
  <2> QED BY <1>1, <2>1, <2>2, <2>3 DEF Kept
<1>5. CASE call' = [call EXCEPT !.stage = "failed"]
  BY <1>1, <1>5 DEF Kept, IsCall
<1> QED BY <1>3, <1>4, <1>5

\* The heuristics that ask the service again keep the units.
LEMMA AgainKeeps ==
  ASSUME Inv, Again
  PROVE  Kept
<1>1. IsCall(call) /\ call.stage = "again" /\ call.ranked \in Seq(Cand) /\ call.pool = <<>>
  BY DEF Inv, Again, At, IsCall, Fused
<1>2. PICK answer \in Answers(Len(First(call.ranked, RerankTop))) : call' = Aggregated(call, QwenRank(call.ranked, answer))
  BY DEF Again, Then
<1> DEFINE found == QwenRank(call.ranked, answer)
<1>3. found \in Seq(Cand) /\ Matches(found, call.ranked)
  BY <1>1, CandIsClosed, QwenRankLaw
<1> HIDE DEF found
<1>4. call'.ranked = found /\ call'.pool = <<>> /\ call'.stage = "done"
  BY <1>1, <1>2, AggregatedFields DEF found
<1>5. call'.ranked \o call'.pool = found /\ call.ranked \o call.pool = call.ranked
  BY <1>1, <1>3, <1>4
<1>6. Census(found) = Census(call.ranked)
  BY <1>1, <1>3, MatchesCensus
<1> QED BY <1>1, <1>4, <1>5, <1>6 DEF Kept

\* Every step keeps the candidates that are reranked.
LEMMA QueryNextKeeps ==
  ASSUME Inv, [QueryNext]_queryVars
  PROVE  Kept
<1>1. CASE \E r \in Requests : Ask(r)
  BY <1>1, KeptElsewhere DEF Ask, At
<1>2. CASE Return \/ Restart
  BY <1>2, KeptElsewhere DEF Return, Restart, At
<1>3. CASE ReplaceArtifact \/ UNCHANGED queryVars
  BY <1>3, KeptUnchanged DEF ReplaceArtifact, queryVars
<1>4. CASE Summaries \/ Symbols \/ Expand
  BY <1>4, KeptElsewhere DEF Summaries, Symbols, Expand, At
<1>5. CASE Localize \/ Select \/ ServiceFails
  BY <1>5, LocalizeKeeps, SelectKeeps, ServiceFailsKeeps
<1>6. CASE Preview \/ AnswerBundle \/ Iterate \/ Units
  BY <1>6, KeptElsewhere DEF Preview, AnswerBundle, Iterate, Units, At
<1>7. CASE Batch \/ BatchFails \/ Again
  BY <1>7, BatchKeeps, BatchFailsKeeps, AgainKeeps
<1>8. CASE Define \/ Callers \/ Callees \/ Resolve \/ Slice
  BY <1>8, KeptElsewhere DEF Define, Callers, Callees, Neighbor, Resolve, Slice, At
<1> QED BY <1>1, <1>2, <1>3, <1>4, <1>5, <1>6, <1>7, <1>8 DEF QueryNext

\* A reranking keeps the candidates, whatever the service answers.
THEOREM RerankingKeeps == QuerySpec => RerankKeepsCandidates
<1>1. Inv /\ [QueryNext]_queryVars => [Kept]_queryVars
  BY QueryNextKeeps
<1>2. QuerySpec => [][Kept]_queryVars
  BY <1>1, CallsAreFounded, PTL DEF QuerySpec
<1> QED BY <1>2 DEF RerankKeepsCandidates, Kept

-----------------------------------------------------------------------------
(* The cache of evaluation cases.                                          *)
(*                                                                         *)
(* The inductive invariant.                                                *)

\* what a command knows at each of its steps
LocalOK(p) ==
  /\ metaAt[p] <= art /\ graphAt[p] <= art
  /\ graphAt[p] # 0 => metaAt[p] # 0 /\ metaAt[p] <= graphAt[p]
  /\ pc[p] \in {"fingerprint", "lookup", "prepare", "put", "serve"} =>
       at[p] \in Case /\ limit[p] \in Limits
  /\ pc[p] \in {"lookup", "prepare", "put"} =>
       /\ fp[p] \in Fingerprint /\ fp[p].rows = metaAt[p]
       /\ fp[p].limit = limit[p] /\ fp[p].files <= art
  /\ pc[p] = "put" =>
       /\ held[p] \in Bundle /\ held[p].case = at[p] /\ held[p].limit = limit[p]
       /\ held[p].meta = metaAt[p] /\ held[p].search >= fp[p].files
       /\ held[p].graph = graphAt[p]
  /\ pc[p] = "serve" => held[p] \in Bundle

Locals == \A p \in Proc : LocalOK(p)

\* a case no two commands prepared at once has one bundle, wherever it went
OneBundle(c) ==
  /\ \A f \in Fingerprint : exact[c][f] \in {Nothing, latest[c]}
  /\ prompt[c] \in {Nothing, latest[c]} /\ score[c] \in {Nothing, latest[c]}
  /\ \A p \in Proc :
       /\ scored[p][c] \in {Nothing, latest[c]}
       /\ pc[p] = "serve" /\ at[p] = c => held[p] = latest[c]
       /\ Preparing(p, c) => latest[c] = Nothing
  /\ \A p, r \in Proc : Preparing(p, c) /\ Preparing(r, c) => p = r

OneBundlePerCase == \A c \in Case \ raced : OneBundle(c)

IInv == TypeOK /\ Locals /\ EntryNotOlder /\ OneBundlePerCase

-----------------------------------------------------------------------------
LEMMA NothingIsNoBundle == Nothing \notin Bundle
BY CaseAssumption DEF Nothing, Bundle

\* a step of another command, or a rebuild, leaves what a command knows true
Same(r) ==
  /\ pc'[r] = pc[r] /\ limit'[r] = limit[r] /\ at'[r] = at[r]
  /\ metaAt'[r] = metaAt[r] /\ graphAt'[r] = graphAt[r]
  /\ fp'[r] = fp[r] /\ held'[r] = held[r] /\ scored'[r] = scored[r]

LEMMA LocalSame ==
  ASSUME IInv, NEW r \in Proc, Same(r), art' = art \/ art' = art + 1
  PROVE  LocalOK(r)'
<1> USE DEF IInv, Locals
<1>1. art \in Nat /\ metaAt[r] \in Nat /\ graphAt[r] \in Nat
  BY DEF TypeOK, Gens
<1>2. fp[r] \in Fingerprint => fp[r].files \in Nat
  BY DEF Fingerprint, Gens
<1> QED
  BY <1>1, <1>2 DEF LocalOK, Same

LEMMA InitInv == Init => IInv
<1> SUFFICES ASSUME Init PROVE IInv
  OBVIOUS
<1>1. TypeOK
  BY BoundAssumption DEF Init, TypeOK, Gens, PCs, Commands
<1>2. Locals
  BY DEF Init, Locals, LocalOK
<1>3. EntryNotOlder
  BY DEF Init, EntryNotOlder
<1>4. OneBundlePerCase
  BY DEF Init, OneBundlePerCase, OneBundle, Preparing
<1> QED
  BY <1>1, <1>2, <1>3, <1>4 DEF IInv

-----------------------------------------------------------------------------
(* The steps.                                                              *)

LEMMA RebuildKeeps == IInv /\ Rebuild => IInv'
<1> SUFFICES ASSUME IInv, Rebuild PROVE IInv'
  OBVIOUS
<1> USE DEF IInv
<1>1. TypeOK'
  <2>1. art' \in Gens
    BY BoundAssumption DEF Rebuild, TypeOK, Gens
  <2> QED
    BY <2>1 DEF Rebuild, TypeOK, cache, files, local, handles
<1>2. \A r \in Proc : Same(r)
  BY DEF Rebuild, Same, local, handles
<1>3. Locals'
  BY <1>2, LocalSame DEF Rebuild, Locals
<1>4. EntryNotOlder' /\ OneBundlePerCase'
  BY DEF Rebuild, EntryNotOlder, OneBundlePerCase, OneBundle, Preparing, cache, files, local, handles
<1> QED
  BY <1>1, <1>3, <1>4

LEMMA StartKeeps ==
  ASSUME IInv, NEW p \in Proc, NEW c \in Commands, NEW l \in Limits, Start(p, c, l)
  PROVE  IInv'
<1> USE DEF IInv
<1>1. TypeOK'
  BY CaseAssumption, BoundAssumption
     DEF Start, Goto, TypeOK, PCs, cache, files, handles
<1>2. Locals'
  <2> SUFFICES ASSUME NEW r \in Proc PROVE LocalOK(r)'
    BY DEF Locals
  <2>1. CASE r = p
    BY <2>1, CaseAssumption DEF Start, Goto, TypeOK, Locals, LocalOK, handles
  <2>2. CASE r # p
    <3>1. Same(r)
      BY <2>2 DEF Start, Goto, TypeOK, Same, handles
    <3> QED
      BY <3>1, LocalSame DEF Start
  <2> QED
    BY <2>1, <2>2
<1>3. EntryNotOlder'
  BY DEF Start, EntryNotOlder, cache
<1>4. OneBundlePerCase'
  BY DEF Start, Goto, TypeOK, OneBundlePerCase, OneBundle, Preparing, cache, files
<1> QED
  BY <1>1, <1>2, <1>3, <1>4

LEMMA FingerprintedKeeps ==
  ASSUME IInv, NEW p \in Proc, Fingerprinted(p)
  PROVE  IInv'
<1> USE DEF IInv
<1>1. Opened(metaAt, p) \in Gens /\ Opened(metaAt, p) <= art /\ metaAt'[p] = Opened(metaAt, p)
  BY DEF Fingerprinted, Opened, Locals, LocalOK, TypeOK, Gens
<1>2. /\ fp'[p] = [files |-> art, rows |-> Opened(metaAt, p), limit |-> limit[p]]
      /\ fp'[p] \in Fingerprint
  BY <1>1 DEF Fingerprinted, Rows, Fingerprint, Locals, LocalOK, TypeOK
<1>3. TypeOK'
  BY <1>1, <1>2 DEF Fingerprinted, Goto, TypeOK, PCs, cache, files
<1>4. Locals'
  <2> SUFFICES ASSUME NEW r \in Proc PROVE LocalOK(r)'
    BY DEF Locals
  <2>1. CASE r = p
    BY <2>1, <1>1, <1>2 DEF Fingerprinted, Goto, TypeOK, Locals, LocalOK, Opened, Gens
  <2>2. CASE r # p
    <3>1. Same(r)
      BY <2>2 DEF Fingerprinted, Goto, TypeOK, Same
    <3> QED
      BY <3>1, LocalSame DEF Fingerprinted
  <2> QED
    BY <2>1, <2>2
<1>5. EntryNotOlder'
  BY DEF Fingerprinted, EntryNotOlder, cache
<1>6. OneBundlePerCase'
  BY DEF Fingerprinted, Goto, TypeOK, OneBundlePerCase, OneBundle, Preparing, cache, files
<1> QED
  BY <1>3, <1>4, <1>5, <1>6

LEMMA LookupKeeps ==
  ASSUME IInv, NEW p \in Proc, Lookup(p)
  PROVE  IInv'
<1> USE DEF IInv
<1>1. at[p] \in Case /\ fp[p] \in Fingerprint
  BY DEF Lookup, Locals, LocalOK
<1>2. Found(at[p], fp[p]) \in Bundle \cup {Nothing} /\ held'[p] = Found(at[p], fp[p])
  BY <1>1 DEF Lookup, Found, TypeOK
<1>3. raced \subseteq raced' /\ raced' \in SUBSET Case
  BY <1>1 DEF Lookup, TypeOK
<1>4. TypeOK'
  BY <1>2, <1>3 DEF Lookup, Goto, TypeOK, PCs, cache, files, handles
<1>5. Locals'
  <2> SUFFICES ASSUME NEW r \in Proc PROVE LocalOK(r)'
    BY DEF Locals
  <2>1. CASE r = p
    BY <2>1, <1>2 DEF Lookup, Goto, TypeOK, Locals, LocalOK, handles
  <2>2. CASE r # p
    <3>1. Same(r)
      BY <2>2 DEF Lookup, Goto, TypeOK, Same, handles
    <3> QED
      BY <3>1, LocalSame DEF Lookup
  <2> QED
    BY <2>1, <2>2
<1>6. EntryNotOlder'
  BY DEF Lookup, EntryNotOlder, cache
<1>7. OneBundlePerCase'
  <2> SUFFICES ASSUME NEW c \in Case, c \notin raced' PROVE OneBundle(c)'
    BY DEF OneBundlePerCase
  <2>1. OneBundle(c)
    BY <1>3 DEF OneBundlePerCase
  <2>2. \A r \in Proc : r # p => pc'[r] = pc[r] /\ held'[r] = held[r]
    BY DEF Lookup, Goto, TypeOK
  <2>3. CASE at[p] # c
    BY <2>1, <2>2, <2>3 DEF Lookup, OneBundle, Preparing, cache, files
  <2>4. CASE at[p] = c /\ Found(c, fp[p]) # Nothing
    <3>1. Found(c, fp[p]) = latest[c]
      BY <2>1, <2>4, <1>1 DEF Found, OneBundle
    <3>2. pc'[p] = "serve" /\ held'[p] = latest[c]
      BY <2>4, <3>1, <1>2 DEF Lookup, Goto, TypeOK
    <3> QED
      BY <2>1, <2>2, <3>2 DEF Lookup, OneBundle, Preparing, cache, files
  <2>5. CASE at[p] = c /\ Found(c, fp[p]) = Nothing
    <3>1. pc'[p] = "prepare" /\ latest[c] = Nothing
      BY <2>5 DEF Lookup, Goto, TypeOK, Found
    <3>2. \A r \in Proc : ~ Preparing(r, c)
      BY <2>5 DEF Lookup
    <3> QED
      BY <2>1, <2>2, <3>1, <3>2 DEF Lookup, OneBundle, Preparing, cache, files
  <2> QED
    BY <2>3, <2>4, <2>5
<1> QED
  BY <1>4, <1>5, <1>6, <1>7

LEMMA PrepareKeeps ==
  ASSUME IInv, NEW p \in Proc, Prepare(p)
  PROVE  IInv'
<1> USE DEF IInv
<1>1. /\ at[p] \in Case /\ limit[p] \in Limits /\ fp[p] \in Fingerprint
      /\ fp[p].rows = metaAt[p] /\ fp[p].limit = limit[p] /\ fp[p].files <= art
  BY DEF Prepare, Locals, LocalOK
<1>2. metaAt[p] \in Gens /\ art \in Gens /\ metaAt[p] <= art
  BY <1>1 DEF Fingerprint, TypeOK, Locals, LocalOK
<1>3. /\ Opened(graphAt, p) \in Gens /\ Opened(graphAt, p) <= art
      /\ metaAt[p] <= Opened(graphAt, p) /\ graphAt'[p] = Opened(graphAt, p)
  BY <1>2 DEF Prepare, Opened, Locals, LocalOK, TypeOK, Gens
<1>4. Prepared(p) \in Bundle /\ held'[p] = Prepared(p)
  BY <1>1, <1>2, <1>3 DEF Prepare, Prepared, Bundle, TypeOK
<1>5. TypeOK'
  BY <1>3, <1>4 DEF Prepare, Goto, TypeOK, PCs, cache, files
<1>6. Locals'
  <2> SUFFICES ASSUME NEW r \in Proc PROVE LocalOK(r)'
    BY DEF Locals
  <2>1. CASE r = p
    <3>1. pc'[p] = "put" /\ UNCHANGED <<art, metaAt, at, limit, fp>>
      BY DEF Prepare, Goto, TypeOK
    <3>2. metaAt[p] # 0
      BY <1>2 DEF Gens
    <3>3. /\ Prepared(p).case = at[p] /\ Prepared(p).limit = limit[p] /\ Prepared(p).search = art
          /\ Prepared(p).meta = metaAt[p] /\ Prepared(p).graph = graphAt'[p]
      BY <1>3 DEF Prepared
    <3>4. fp[p].files \in Nat /\ art \in Nat
      BY <1>1, <1>2 DEF Fingerprint, Gens
    <3> QED
      BY <2>1, <1>1, <1>2, <1>3, <1>4, <3>1, <3>2, <3>3, <3>4 DEF LocalOK
  <2>2. CASE r # p
    <3>1. Same(r)
      BY <2>2 DEF Prepare, Goto, TypeOK, Same
    <3> QED
      BY <3>1, LocalSame DEF Prepare
  <2> QED
    BY <2>1, <2>2
<1>7. EntryNotOlder'
  BY DEF Prepare, EntryNotOlder, cache
<1>8. OneBundlePerCase'
  BY DEF Prepare, Goto, TypeOK, OneBundlePerCase, OneBundle, Preparing, cache, files
<1> QED
  BY <1>5, <1>6, <1>7, <1>8

LEMMA PutKeeps ==
  ASSUME IInv, NEW p \in Proc, Put(p)
  PROVE  IInv'
<1> USE DEF IInv
<1>1. /\ at[p] \in Case /\ fp[p] \in Fingerprint /\ fp[p].rows = metaAt[p] /\ fp[p].limit = limit[p]
      /\ held[p] \in Bundle /\ held[p].case = at[p] /\ held[p].limit = limit[p]
      /\ held[p].meta = metaAt[p] /\ held[p].search >= fp[p].files /\ held[p].graph = graphAt[p]
  BY DEF Put, Locals, LocalOK
<1>2. exact' \in [Case -> [Fingerprint -> Bundle \cup {Nothing}]]
  BY <1>1 DEF Put, TypeOK
<1>3. latest' \in [Case -> Bundle \cup {Nothing}]
  BY <1>1 DEF Put, TypeOK
<1>4. TypeOK'
  BY <1>2, <1>3 DEF Put, Goto, TypeOK, PCs, files, local, handles
<1>5. Locals'
  <2> SUFFICES ASSUME NEW r \in Proc PROVE LocalOK(r)'
    BY DEF Locals
  <2>1. CASE r = p
    BY <2>1, <1>1 DEF Put, Goto, TypeOK, Locals, LocalOK, local, handles
  <2>2. CASE r # p
    <3>1. Same(r)
      BY <2>2 DEF Put, Goto, TypeOK, Same, local, handles
    <3> QED
      BY <3>1, LocalSame DEF Put
  <2> QED
    BY <2>1, <2>2
<1>6. EntryNotOlder'
  <2> SUFFICES ASSUME NEW c \in Case, NEW f \in Fingerprint, exact'[c][f] # Nothing
               PROVE  /\ exact'[c][f].case = c /\ exact'[c][f].limit = f.limit
                      /\ exact'[c][f].meta = f.rows /\ exact'[c][f].search >= f.files
                      /\ f.rows = f.files => exact'[c][f].graph >= f.files
    BY DEF EntryNotOlder
  <2>1. CASE c = at[p] /\ f = fp[p]
    <3>1. exact'[c][f] = held[p]
      BY <2>1, <1>1 DEF Put, TypeOK
    <3>2. graphAt[p] \in Gens /\ metaAt[p] <= graphAt[p]
      <4>1. held[p].graph \in Gens
        BY <1>1 DEF Bundle
      <4> QED
        BY <1>1, <4>1 DEF Locals, LocalOK, Gens
    <3> QED
      BY <2>1, <3>1, <3>2, <1>1
  <2>2. CASE ~ (c = at[p] /\ f = fp[p])
    <3>1. exact'[c][f] = exact[c][f]
      BY <2>2, <1>1 DEF Put, TypeOK
    <3> QED
      BY <3>1 DEF EntryNotOlder
  <2> QED
    BY <2>1, <2>2
<1>7. OneBundlePerCase'
  <2> SUFFICES ASSUME NEW c \in Case, c \notin raced PROVE OneBundle(c)'
    BY DEF OneBundlePerCase, Put
  <2>1. OneBundle(c)
    BY DEF OneBundlePerCase
  <2>2. /\ \A r \in Proc : r # p => pc'[r] = pc[r]
        /\ pc'[p] = "serve" /\ UNCHANGED <<at, held, scored, prompt, score>>
    BY DEF Put, Goto, TypeOK, files, local, handles
  <2>3. CASE at[p] # c
    <3>1. exact'[c] = exact[c] /\ latest'[c] = latest[c]
      BY <2>3, <1>1 DEF Put, TypeOK
    <3> QED
      BY <2>1, <2>2, <2>3, <3>1 DEF OneBundle, Preparing
  <2>4. CASE at[p] = c
    <3>1. Preparing(p, c) /\ latest[c] = Nothing
      BY <2>1, <2>4 DEF Put, Preparing, OneBundle
    <3>2. latest'[c] = held[p] /\ \A f \in Fingerprint : exact'[c][f] \in {Nothing, held[p]}
      BY <2>1, <2>4, <3>1, <1>1 DEF Put, TypeOK, OneBundle
    <3>3. \A r \in Proc : r # p => ~ Preparing(r, c)
      BY <2>1, <3>1 DEF OneBundle
    <3>4. \A r \in Proc : r # p /\ at[r] = c => pc[r] # "serve"
      BY <2>1, <3>1, NothingIsNoBundle DEF OneBundle, Locals, LocalOK
    <3> QED
      BY <2>1, <2>2, <2>4, <3>1, <3>2, <3>3, <3>4 DEF OneBundle, Preparing
  <2> QED
    BY <2>3, <2>4
<1> QED
  BY <1>4, <1>5, <1>6, <1>7

LEMMA ServeKeeps ==
  ASSUME IInv, NEW p \in Proc, Serve(p)
  PROVE  IInv'
<1> USE DEF IInv
<1>1. at[p] \in Case /\ limit[p] \in Limits /\ held[p] \in Bundle
  BY DEF Serve, Locals, LocalOK
<1>2. /\ NextCase[at[p]] \in Case \cup {NoCase} /\ at'[p] = NextCase[at[p]]
      /\ pc'[p] = IF NextCase[at[p]] = NoCase THEN "end" ELSE "fingerprint"
  BY <1>1, CaseAssumption DEF Serve, Goto, TypeOK
<1>3. prompt' \in [Case -> Bundle \cup {Nothing}]
  BY <1>1 DEF Serve, TypeOK
<1>4. scored' \in [Proc -> [Case -> Bundle \cup {Nothing}]]
  <2> DEFINE row == [scored[p] EXCEPT ![at[p]] = held[p]]
  <2>1. scored \in [Proc -> [Case -> Bundle \cup {Nothing}]]
    BY DEF TypeOK
  <2>2. row \in [Case -> Bundle \cup {Nothing}]
    BY <1>1, <2>1
  <2>3. scored' = scored \/ scored' = [scored EXCEPT ![p] = row]
    BY DEF Serve
  <2> QED
    BY <2>1, <2>2, <2>3
<1>5. TypeOK'
  BY <1>2, <1>3, <1>4 DEF Serve, Goto, TypeOK, PCs, cache, handles
<1>6. Locals'
  <2> SUFFICES ASSUME NEW r \in Proc PROVE LocalOK(r)'
    BY DEF Locals
  <2>1. CASE r = p
    BY <2>1, <1>1, <1>2, CaseAssumption DEF Serve, Goto, TypeOK, Locals, LocalOK, handles
  <2>2. CASE r # p
    <3>1. Same(r)
      BY <2>2 DEF Serve, Goto, TypeOK, Same, handles
    <3> QED
      BY <3>1, LocalSame DEF Serve
  <2> QED
    BY <2>1, <2>2
<1>7. EntryNotOlder'
  BY DEF Serve, EntryNotOlder, cache
<1>8. OneBundlePerCase'
  <2> SUFFICES ASSUME NEW c \in Case, c \notin raced PROVE OneBundle(c)'
    BY DEF OneBundlePerCase, Serve
  <2>1. OneBundle(c)
    BY DEF OneBundlePerCase
  <2>2. /\ \A r \in Proc : r # p => pc'[r] = pc[r] /\ at'[r] = at[r] /\ held'[r] = held[r]
        /\ pc'[p] \in {"end", "fingerprint"} /\ UNCHANGED <<exact, latest, score>>
    BY <1>2 DEF Serve, Goto, TypeOK, cache
  <2>3. at[p] = c => held[p] = latest[c]
    BY <2>1 DEF OneBundle, Serve
  <2>4. prompt'[c] \in {Nothing, latest[c]}
    BY <2>1, <2>3, <1>1 DEF Serve, TypeOK, OneBundle
  <2>5. \A r \in Proc : scored'[r][c] \in {Nothing, latest[c]}
    <3> SUFFICES ASSUME NEW r \in Proc PROVE scored'[r][c] \in {Nothing, latest[c]}
      OBVIOUS
    <3>1. CASE cmd[p] = "export" \/ r # p \/ at[p] # c
      <4>1. scored'[r][c] = scored[r][c]
        BY <3>1, <1>1 DEF Serve, TypeOK
      <4> QED
        BY <2>1, <4>1 DEF OneBundle
    <3>2. CASE cmd[p] # "export" /\ r = p /\ at[p] = c
      <4>1. scored'[r][c] = held[p]
        BY <3>2, <1>1 DEF Serve, TypeOK
      <4> QED
        BY <2>3, <3>2, <4>1
    <3> QED
      BY <3>1, <3>2
  <2> QED
    BY <2>1, <2>2, <2>4, <2>5 DEF OneBundle, Preparing
<1> QED
  BY <1>5, <1>6, <1>7, <1>8

\* a command that ends or is killed knows nothing any more
LEMMA ForgetKeeps ==
  ASSUME IInv, NEW p \in Proc, Forget(p), Goto(p, "off"), UNCHANGED <<art, cache, prompt, raced, starts>>,
         score' = score \/ score' = scored[p]
  PROVE  IInv'
<1> USE DEF IInv
<1>1. TypeOK'
  BY DEF Forget, Goto, TypeOK, PCs, Commands, cache
<1>2. Locals'
  <2> SUFFICES ASSUME NEW r \in Proc PROVE LocalOK(r)'
    BY DEF Locals
  <2>1. CASE r = p
    BY <2>1 DEF Forget, Goto, TypeOK, LocalOK, Gens
  <2>2. CASE r # p
    <3>1. Same(r)
      BY <2>2 DEF Forget, Goto, TypeOK, Same
    <3> QED
      BY <3>1, LocalSame
  <2> QED
    BY <2>1, <2>2
<1>3. EntryNotOlder'
  BY DEF EntryNotOlder, cache
<1>4. OneBundlePerCase'
  <2> SUFFICES ASSUME NEW c \in Case, c \notin raced PROVE OneBundle(c)'
    BY DEF OneBundlePerCase
  <2>1. OneBundle(c)
    BY DEF OneBundlePerCase
  <2>2. /\ \A r \in Proc : r # p => /\ pc'[r] = pc[r] /\ at'[r] = at[r] /\ held'[r] = held[r]
                                   /\ scored'[r] = scored[r]
        /\ pc'[p] = "off" /\ scored'[p][c] = Nothing /\ UNCHANGED <<exact, latest, prompt>>
    BY DEF Forget, Goto, TypeOK, cache
  <2>3. score'[c] \in {Nothing, latest[c]}
    BY <2>1 DEF OneBundle
  <2> QED
    BY <2>1, <2>2, <2>3 DEF OneBundle, Preparing
<1> QED
  BY <1>1, <1>2, <1>3, <1>4

LEMMA NextKeeps == IInv /\ [Next]_vars => IInv'
<1> SUFFICES ASSUME IInv, [Next]_vars PROVE IInv'
  OBVIOUS
<1>1. CASE Rebuild
  BY <1>1, RebuildKeeps
<1>2. ASSUME NEW p \in Proc, NEW c \in Commands, NEW l \in Limits, Start(p, c, l) PROVE IInv'
  BY <1>2, StartKeeps
<1>3. ASSUME NEW p \in Proc, Fingerprinted(p) \/ Lookup(p) \/ Prepare(p) \/ Put(p) \/ Serve(p)
      PROVE  IInv'
  BY <1>3, FingerprintedKeeps, LookupKeeps, PrepareKeeps, PutKeeps, ServeKeeps
<1>4. ASSUME NEW p \in Proc, End(p) PROVE IInv'
  BY <1>4, ForgetKeeps DEF End
<1>5. ASSUME NEW p \in Proc, Kill(p) PROVE IInv'
  BY <1>5, ForgetKeeps DEF Kill, files
<1>6. CASE UNCHANGED vars
  BY <1>6 DEF vars, cache, files, local, handles, IInv, TypeOK, Locals, LocalOK, EntryNotOlder,
              OneBundlePerCase, OneBundle, Preparing
<1> QED
  BY <1>1, <1>2, <1>3, <1>4, <1>5, <1>6 DEF Next

LEMMA Invariance == Spec => []IInv
<1>1. Init => IInv
  BY InitInv
<1>2. IInv /\ [Next]_vars => IInv'
  BY NextKeeps
<1> QED
  BY <1>1, <1>2, PTL DEF Spec

-----------------------------------------------------------------------------
(* Every variable of the cache and its commands keeps its type.            *)
THEOREM TypeCorrect == Spec => []TypeOK
<1>1. IInv => TypeOK
  BY DEF IInv
<1> QED
  BY <1>1, Invariance, PTL

(* Whatever is rebuilt, killed or asked with another limit between the     *)
(* export of a prompt and the scoring of its answer, both used one bundle, *)
(* unless two commands prepared the case at the same time.                 *)
THEOREM ScoredAsPrompted == Spec => []ScoreMatchesPrompt
<1>1. IInv => ScoreMatchesPrompt
  BY DEF IInv, OneBundlePerCase, OneBundle, ScoreMatchesPrompt
<1> QED
  BY <1>1, Invariance, PTL

(* An entry of the case cache is of its case and limit, and no part of it  *)
(* is older than its fingerprint, although a process keeps its handles     *)
(* over rebuilds.                                                          *)
THEOREM EntriesNotOlder == Spec => []EntryNotOlder
<1>1. IInv => EntryNotOlder
  BY DEF IInv
<1> QED
  BY <1>1, Invariance, PTL
=============================================================================
