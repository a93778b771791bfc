------------------------------ MODULE SumProofs ------------------------------
(***************************************************************************)
(* Sums of a function over a finite set: the cash booked in a ledger, the  *)
(* shares left in the lots, the profit of the closes.  What a change of one *)
(* summand does to the sum.  The provers cannot instantiate the induction  *)
(* rules of the library, so each induction here takes a smallest           *)
(* counterexample (FS_StrictSubsetOrderingWellFounded, WFMin).             *)
(***************************************************************************)
EXTENDS Integers, Functions, FiniteSets, FiniteSetTheorems, TLAPS

Pick(S) == CHOOSE x \in S : TRUE

\* g[T] is the sum of f over T for each subset T of S.
SumsTo(g, f, S) ==
  g = [T \in SUBSET S |-> IF T = {} THEN 0 ELSE f[Pick(T)] + g[T \ {Pick(T)}]]

\* The same read as two facts.
RunsTo(g, f, S) ==
  /\ g[{}] = 0
  /\ \A T \in SUBSET S : T # {} => g[T] = f[Pick(T)] + g[T \ {Pick(T)}]

\* The summands are integers; two functions agree but at x; their sums differ by what x contributes.
Summands(f, S) == \A y \in S : f[y] \in Int
Agree(f, h, S, x) == \A y \in S \ {x} : h[y] = f[y]
Booked(f, h, S, x) == SumFunctionOnSet(h, S) = SumFunctionOnSet(f, S) + (h[x] - f[x])

LEMMA PickIn == ASSUME NEW S, S # {} PROVE Pick(S) \in S
BY DEF Pick

\* A family of subsets of a finite set has a member none of whose smaller subsets is in it.
LEMMA SmallestSubset ==
  ASSUME NEW S, IsFiniteSet(S), NEW B \in SUBSET SUBSET S, B # {}
  PROVE  \E T \in B : \A x \in T : T \ {x} \notin B
<1>1. B \subseteq FiniteSubsetsOf(S)
  BY FS_Subset DEF FiniteSubsetsOf
<1>2. PICK T \in B : \A U \in B : <<U, T>> \notin StrictSubsetOrdering(S)
  BY <1>1, FS_StrictSubsetOrderingWellFounded, WFMin
<1>3. ASSUME NEW x \in T PROVE T \ {x} \notin B
  BY <1>2 DEF StrictSubsetOrdering
<1> QED
  BY <1>2, <1>3

LEMMA SumIsChosen ==
  ASSUME NEW f, NEW S
  PROVE  SumFunctionOnSet(f, S) = (CHOOSE g : SumsTo(g, f, S))[S]
BY DEF SumFunctionOnSet, FoldFunctionOnSet, MapThenFoldSet, SumsTo, Pick

Smalls(S, n) == {T \in SUBSET S : Cardinality(T) <= n}
SumsUpTo(g, f, S, n) ==
  g = [T \in Smalls(S, n) |-> IF T = {} THEN 0 ELSE f[Pick(T)] + g[T \ {Pick(T)}]]

LEMMA LeastNumber ==
  ASSUME NEW N \in SUBSET Nat, N # {}
  PROVE  \E n \in N : \A m \in N : n <= m
<1>1. PICK k \in N : TRUE
  OBVIOUS
<1> DEFINE B == {1 .. n : n \in {m \in N : m <= k}}
<1>2. IsFiniteSet(1 .. k) /\ B \in SUBSET SUBSET (1 .. k) /\ 1 .. k \in B
  <2>1. k \in Nat /\ 1 \in Int /\ k \in Int
    OBVIOUS
  <2>2. IsFiniteSet(1 .. k)
    BY <2>1, FS_Interval
  <2>3. ASSUME NEW n \in N, n <= k PROVE 1 .. n \subseteq 1 .. k
    BY <2>1, <2>3
  <2>4. k \in {m \in N : m <= k}
    BY <2>1
  <2> QED
    BY <2>2, <2>3, <2>4
<1>3. B \subseteq FiniteSubsetsOf(1 .. k)
  BY <1>2, FS_Subset DEF FiniteSubsetsOf
<1>4. PICK T \in B : \A U \in B : <<U, T>> \notin StrictSubsetOrdering(1 .. k)
  BY <1>2, <1>3, FS_StrictSubsetOrderingWellFounded, WFMin
<1>5. PICK n \in N : n <= k /\ T = 1 .. n
  OBVIOUS
<1>6. ASSUME NEW m \in N, ~ (n <= m) PROVE FALSE
  <2>1. m < n /\ 1 .. m \in B
    BY <1>5, <1>6
  <2>2. 1 .. m \subseteq 1 .. n /\ n \in 1 .. n /\ n \notin 1 .. m
    BY <1>5, <2>1
  <2>3. <<1 .. m, 1 .. n>> \in StrictSubsetOrdering(1 .. k)
    BY <1>2, <1>5, <2>1, <2>2 DEF StrictSubsetOrdering
  <2> QED
    BY <1>4, <1>5, <2>1, <2>3
<1> QED
  BY <1>5, <1>6

LEMMA RemoveSmaller ==
  ASSUME NEW S, IsFiniteSet(S), NEW T \in SUBSET S, T # {}, NEW n \in Nat, Cardinality(T) <= n
  PROVE  /\ n - 1 \in Nat /\ T \ {Pick(T)} \in Smalls(S, n - 1)
         /\ T \ {Pick(T)} \in Smalls(S, n)
<1>1. IsFiniteSet(T) /\ Cardinality(T) \in Nat /\ Cardinality(T) # 0
  BY FS_Subset, FS_CardinalityType, FS_EmptySet
<1>2. Cardinality(T \ {Pick(T)}) = Cardinality(T) - 1
  BY <1>1, PickIn, FS_RemoveElement
<1> QED
  BY <1>1, <1>2 DEF Smalls

LEMMA SumsLarger ==
  ASSUME NEW f, NEW S, IsFiniteSet(S), NEW n \in Nat, n # 0, NEW g, SumsUpTo(g, f, S, n - 1)
  PROVE  \E h : SumsUpTo(h, f, S, n)
<1> DEFINE V(u, T) == IF T = {} THEN 0 ELSE f[Pick(T)] + u[T \ {Pick(T)}]
           h == [T \in Smalls(S, n) |-> V(g, T)]
<1>1. \A T \in Smalls(S, n - 1) : g[T] = V(g, T)
  BY DEF SumsUpTo
<1>2. Smalls(S, n - 1) \subseteq Smalls(S, n)
  BY FS_Subset, FS_CardinalityType DEF Smalls
<1>3. \A T \in Smalls(S, n - 1) : h[T] = g[T]
  BY <1>1, <1>2
<1>4. ASSUME NEW T \in Smalls(S, n) PROVE V(g, T) = V(h, T)
  <2>1. CASE T = {}
    BY <2>1
  <2>2. CASE T # {}
    <3>1. T \ {Pick(T)} \in Smalls(S, n - 1)
      BY <2>2, RemoveSmaller DEF Smalls
    <3>2. h[T \ {Pick(T)}] = g[T \ {Pick(T)}]
      BY <3>1, <1>3
    <3> HIDE DEF h
    <3> QED
      BY <3>2
  <2> QED
    BY <2>1, <2>2
<1>5. h = [T \in Smalls(S, n) |-> V(h, T)]
  BY <1>4
<1> HIDE DEF h
<1> QED
  BY <1>5 DEF SumsUpTo

LEMMA SumsExist ==
  ASSUME NEW f, NEW S, IsFiniteSet(S)
  PROVE  \E g : SumsTo(g, f, S)
<1> DEFINE N == {n \in Nat : ~ \E g : SumsUpTo(g, f, S, n)}
<1>1. N = {}
  <2> SUFFICES ASSUME N # {} PROVE FALSE
    OBVIOUS
  <2>1. PICK n \in N : \A m \in N : n <= m
    BY LeastNumber
  <2>2. CASE n = 0
    <3> DEFINE z == [T \in Smalls(S, 0) |-> 0]
    <3>1. \A T \in Smalls(S, 0) : T = {}
      BY FS_Subset, FS_CardinalityType, FS_EmptySet DEF Smalls
    <3>2. z = [T \in Smalls(S, 0) |-> IF T = {} THEN 0 ELSE f[Pick(T)] + z[T \ {Pick(T)}]]
      BY <3>1
    <3> HIDE DEF z
    <3>3. SumsUpTo(z, f, S, 0)
      BY <3>2 DEF SumsUpTo
    <3> QED
      BY <3>3, <2>2
  <2>3. CASE n # 0
    <3>1. n - 1 \in Nat /\ n - 1 \notin N
      BY <2>1, <2>3
    <3>2. PICK g : SumsUpTo(g, f, S, n - 1)
      BY <3>1
    <3> QED
      BY <3>2, <2>3, SumsLarger
  <2> QED
    BY <2>2, <2>3
<1>2. Cardinality(S) \in Nat /\ Smalls(S, Cardinality(S)) = SUBSET S
  BY FS_Subset, FS_CardinalityType DEF Smalls
<1>3. PICK g : SumsUpTo(g, f, S, Cardinality(S))
  BY <1>1, <1>2
<1> QED
  BY <1>2, <1>3 DEF SumsUpTo, SumsTo

\* The running sums of f over the subsets of a finite set: the last is the sum.
LEMMA SumsAre ==
  ASSUME NEW f, NEW S, IsFiniteSet(S)
  PROVE  \E g : /\ RunsTo(g, f, S)
                /\ SumFunctionOnSet(f, S) = g[S]
<1> DEFINE g == CHOOSE g : SumsTo(g, f, S)
<1>1. SumsTo(g, f, S)
  BY SumsExist
<1>2. SumFunctionOnSet(f, S) = g[S]
  BY SumIsChosen
<1> HIDE DEF g
<1>3. {} \in SUBSET S
  OBVIOUS
<1>4. RunsTo(g, f, S)
  BY <1>1, <1>3 DEF SumsTo, RunsTo
<1> QED
  BY <1>2, <1>4

\* A sum of integers is an integer.
LEMMA SumTyped ==
  ASSUME NEW S, IsFiniteSet(S), NEW f, \A x \in S : f[x] \in Int
  PROVE  SumFunctionOnSet(f, S) \in Int
<1>1. PICK g : /\ RunsTo(g, f, S)
               /\ SumFunctionOnSet(f, S) = g[S]
  BY SumsAre
<1> DEFINE B == {T \in SUBSET S : g[T] \notin Int}
<1>2. B = {}
  <2> SUFFICES ASSUME B # {} PROVE FALSE
    OBVIOUS
  <2>1. PICK T \in B : \A x \in T : T \ {x} \notin B
    BY SmallestSubset
  <2>2. T \in SUBSET S /\ g[T] \notin Int
    OBVIOUS
  <2>3. T # {}
    <3>1. g[{}] \in Int
      BY <1>1 DEF RunsTo
    <3> QED
      BY <2>2, <3>1
  <2>4. Pick(T) \in T /\ g[T \ {Pick(T)}] \in Int /\ f[Pick(T)] \in Int
    BY <2>1, <2>3, PickIn
  <2>5. g[T] = f[Pick(T)] + g[T \ {Pick(T)}]
    BY <1>1, <2>2, <2>3 DEF RunsTo
  <2> HIDE DEF B
  <2> QED
    BY <2>2, <2>4, <2>5
<1> QED
  BY <1>1, <1>2

\* Summands that agree but at x make sums that differ by what x contributes.
LEMMA SumChanges ==
  ASSUME NEW S, IsFiniteSet(S), NEW f, NEW h, NEW x \in S,
         Summands(f, S), Summands(h, S), Agree(f, h, S, x)
  PROVE  Booked(f, h, S, x)
<1> USE DEF Summands, Agree
<1>1. PICK g : /\ RunsTo(g, f, S)
               /\ SumFunctionOnSet(f, S) = g[S]
  BY SumsAre
<1>2. PICK k : /\ RunsTo(k, h, S)
               /\ SumFunctionOnSet(h, S) = k[S]
  BY SumsAre
<1> DEFINE OK(T) == /\ g[T] \in Int /\ k[T] \in Int
                    /\ k[T] = IF x \in T THEN g[T] + (h[x] - f[x]) ELSE g[T]
           B == {T \in SUBSET S : ~OK(T)}
<1>3. B = {}
  <2> SUFFICES ASSUME B # {} PROVE FALSE
    OBVIOUS
  <2>1. PICK T \in B : \A y \in T : T \ {y} \notin B
    BY SmallestSubset
  <2>2. T # {}
    <3>1. g[{}] = 0 /\ k[{}] = 0
      BY <1>1, <1>2 DEF RunsTo
    <3>2. OK({})
      BY <3>1
    <3> QED
      BY <3>2
  <2> DEFINE p == Pick(T)
             U == T \ {p}
  <2>3. p \in T /\ p \in S /\ OK(U) /\ f[p] \in Int /\ h[p] \in Int
    BY <2>1, <2>2, PickIn
  <2>4. g[T] = f[p] + g[U] /\ k[T] = h[p] + k[U]
    BY <1>1, <1>2, <2>2 DEF RunsTo
  <2>5. CASE p = x
    <3>1. x \in T /\ x \notin U
      BY <2>3, <2>5
    <3> HIDE DEF U, p
    <3> QED
      BY <2>1, <2>3, <2>4, <2>5, <3>1
  <2>6. CASE p # x
    <3>1. (x \in T) <=> (x \in U)
      BY <2>6
    <3>2. h[p] = f[p]
      BY <2>3, <2>6
    <3>3. x \in T => f[x] \in Int /\ h[x] \in Int
      OBVIOUS
    <3> HIDE DEF U, p
    <3> QED
      BY <2>1, <2>3, <2>4, <3>1, <3>2, <3>3
  <2> QED
    BY <2>5, <2>6
<1> QED
  BY <1>1, <1>2, <1>3 DEF Booked

\* An amount booked under one key moves the sum by this amount.
LEMMA SumBooks ==
  ASSUME NEW S, IsFiniteSet(S), NEW f \in [S -> Int], NEW x \in S, NEW d \in Int
  PROVE  SumFunctionOnSet([f EXCEPT ![x] = f[x] + d], S) = SumFunctionOnSet(f, S) + d
<1> DEFINE h == [f EXCEPT ![x] = f[x] + d]
<1>1. Summands(f, S) /\ Summands(h, S) /\ Agree(f, h, S, x)
  BY DEF Summands, Agree
<1>2. h[x] - f[x] = d
  OBVIOUS
<1> HIDE DEF h
<1>3. Booked(f, h, S, x)
  BY <1>1, SumChanges
<1> QED
  BY <1>2, <1>3 DEF h, Booked

\* Nothing adds up to nothing.
LEMMA SumOfNothing ==
  ASSUME NEW S, IsFiniteSet(S), NEW f, \A x \in S : f[x] = 0
  PROVE  SumFunctionOnSet(f, S) = 0
<1>1. PICK g : /\ RunsTo(g, f, S)
               /\ SumFunctionOnSet(f, S) = g[S]
  BY SumsAre
<1> DEFINE B == {T \in SUBSET S : g[T] # 0}
<1>2. B = {}
  <2> SUFFICES ASSUME B # {} PROVE FALSE
    OBVIOUS
  <2>1. PICK T \in B : \A x \in T : T \ {x} \notin B
    BY SmallestSubset
  <2>2. T # {}
    BY <1>1 DEF RunsTo
  <2>3. Pick(T) \in T /\ g[T \ {Pick(T)}] = 0 /\ f[Pick(T)] = 0
    BY <2>1, <2>2, PickIn
  <2> QED
    BY <1>1, <2>1, <2>2, <2>3 DEF RunsTo
<1> QED
  BY <1>1, <1>2

\* A single summand is the sum.
LEMMA SumOfOne ==
  ASSUME NEW S, IsFiniteSet(S), NEW f, NEW x \in S, f[x] \in Int, \A y \in S \ {x} : f[y] = 0
  PROVE  SumFunctionOnSet(f, S) = f[x]
<1> DEFINE z == [y \in S |-> 0]
<1>1. SumFunctionOnSet(z, S) = 0
  BY SumOfNothing
<1>2. \A y \in S : z[y] = 0 /\ z[y] \in Int /\ f[y] \in Int
  OBVIOUS
<1> HIDE DEF z
<1>3. Summands(z, S) /\ Summands(f, S) /\ Agree(z, f, S, x)
  BY <1>2 DEF Summands, Agree
<1>4. Booked(z, f, S, x)
  BY <1>3, SumChanges
<1> QED
  BY <1>1, <1>2, <1>4 DEF Booked

\* A sum is bounded below by nought, and by each of its summands, when none is negative.
LEMMA SumAtLeast ==
  ASSUME NEW S, IsFiniteSet(S), NEW f, \A x \in S : f[x] \in Nat
  PROVE  SumFunctionOnSet(f, S) \in Nat
<1>1. PICK g : /\ RunsTo(g, f, S)
               /\ SumFunctionOnSet(f, S) = g[S]
  BY SumsAre
<1> DEFINE B == {T \in SUBSET S : g[T] \notin Nat}
<1>2. B = {}
  <2> SUFFICES ASSUME B # {} PROVE FALSE
    OBVIOUS
  <2>1. PICK T \in B : \A x \in T : T \ {x} \notin B
    BY SmallestSubset
  <2>2. T \in SUBSET S /\ g[T] \notin Nat
    OBVIOUS
  <2>3. T # {}
    <3>1. g[{}] \in Nat
      BY <1>1 DEF RunsTo
    <3> QED
      BY <2>2, <3>1
  <2>4. Pick(T) \in T /\ g[T \ {Pick(T)}] \in Nat /\ f[Pick(T)] \in Nat
    BY <2>1, <2>3, PickIn
  <2>5. g[T] = f[Pick(T)] + g[T \ {Pick(T)}]
    BY <1>1, <2>2, <2>3 DEF RunsTo
  <2> HIDE DEF B
  <2> QED
    BY <2>2, <2>4, <2>5
<1> QED
  BY <1>1, <1>2
=============================================================================
