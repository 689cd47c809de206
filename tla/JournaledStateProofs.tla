----------------------- MODULE JournaledStateProofs -----------------------
(***************************************************************************)
(* A subroutine that fails leaves the world as it found it, for any number *)
(* of accounts, keys, subroutines and transactions: what an entry takes    *)
(* back of one account, what a set of them takes back of a state, what     *)
(* every operation of the journaled state leaves to be taken back, and the *)
(* inductive invariant of the handlers.                                    *)
(***************************************************************************)
EXTENDS JournaledState, FiniteSetTheorems, SequenceTheorems, WellFoundedInduction, TLAPS

\* A set of naturals with 0 and every successor of a member is all of Nat.
LEMMA Induction ==
  ASSUME NEW S, 0 \in S, \A n \in Nat : n \in S => n + 1 \in S
  PROVE  Nat \subseteq S
  <1> DEFINE Bad == {0..m : m \in Nat \ S}
             R   == StrictSubsetOrdering(Nat)
  <1>1. SUFFICES ASSUME Bad # {} PROVE FALSE
    OBVIOUS
  <1>2. Bad \subseteq FiniteSubsetsOf(Nat)
    <2>1. \A m \in Nat : IsFiniteSet(0..m) /\ 0..m \subseteq Nat
      BY FS_Interval
    <2>2. QED
      BY <2>1 DEF FiniteSubsetsOf
  <1>3. IsWellFoundedOn(R, FiniteSubsetsOf(Nat))
    BY FS_StrictSubsetOrderingWellFounded
  <1>4. PICK T \in Bad : \A U \in Bad : ~ (<<U, T>> \in R)
    <2> HIDE DEF Bad, R
    <2>1. QED BY <1>1, <1>2, <1>3, WFMin
  <1>5. PICK m \in Nat \ S : T = 0..m
    OBVIOUS
  <1>6. m # 0 /\ m - 1 \in Nat \ S
    OBVIOUS
  <1>7. 0..(m - 1) \in Bad
    BY <1>6
  <1>8. 0..(m - 1) \subseteq 0..m /\ 0..(m - 1) # 0..m
    <2>1. m \in 0..m /\ m \notin 0..(m - 1)
      BY <1>5
    <2>2. QED BY <2>1, <1>5
  <1>9. 0..(m - 1) \subseteq Nat /\ 0..m \subseteq Nat
    BY <1>5, <1>6
  <1>10. <<0..(m - 1), 0..m>> \in R
    BY <1>8, <1>9 DEF StrictSubsetOrdering
  <1>11. QED
    BY <1>4, <1>5, <1>7, <1>10

-----------------------------------------------------------------------------
(* Sums over a finite set                                                   *)

\* The sum of f over the finite set S.
Sum(f, S) == SumFunctionOnSet(f, S)

\* The sum over s, given those over smaller sets.
Added(f, it, s) == IF s = {} THEN 0
                   ELSE f[CHOOSE x \in s : TRUE] + it[s \ {CHOOSE x \in s : TRUE}]

\* Such a sum for every subset of S.
Adds(f, it, S) == it = [s \in SUBSET S |-> Added(f, it, s)]

\* What the folds of the library define.
LEMMA SumIs ==
  ASSUME NEW f, NEW S
  PROVE  Sum(f, S) = (CHOOSE it : Adds(f, it, S))[S]
  BY DEF Sum, SumFunctionOnSet, FoldFunctionOnSet, MapThenFoldSet, Adds, Added

\* SumFunction of a function is its sum over its domain.
LEMMA SumFunctionIs ==
  ASSUME NEW f
  PROVE  SumFunction(f) = Sum(f, DOMAIN f)
  BY DEF SumFunction, Sum

\* Taking an element from a finite set.
LEMMA Smaller ==
  ASSUME NEW s, IsFiniteSet(s), NEW x \in s
  PROVE  /\ IsFiniteSet(s \ {x}) /\ Cardinality(s) \in Nat \ {0}
         /\ Cardinality(s \ {x}) = Cardinality(s) - 1
  BY FS_RemoveElement, FS_CardinalityType, FS_EmptySet

\* The recursive function of the sum exists.
LEMMA AddsExists ==
  ASSUME NEW f, NEW S, IsFiniteSet(S)
  PROVE  \E it : Adds(f, it, S)
  <1> DEFINE Small(n) == {s \in SUBSET S : Cardinality(s) <= n}
             N == {n \in Nat : \E it : it = [s \in Small(n) |-> Added(f, it, s)]}
  <1>1. \A s \in SUBSET S : IsFiniteSet(s) /\ Cardinality(s) \in Nat
    BY FS_Subset, FS_CardinalityType
  <1>2. 0 \in N
    <2> DEFINE it == [s \in Small(0) |-> 0]
    <2>1. \A s \in Small(0) : s = {}
      BY <1>1, FS_EmptySet
    <2>2. it = [s \in Small(0) |-> Added(f, it, s)]
      BY <2>1 DEF Added
    <2> HIDE DEF it, Small
    <2>3. QED BY <2>2
  <1>3. ASSUME NEW n \in Nat, n \in N PROVE n + 1 \in N
    <2>1. PICK it : it = [s \in Small(n) |-> Added(f, it, s)]
      BY <1>3
    <2> DEFINE g == [s \in Small(n + 1) |-> Added(f, it, s)]
    <2>2. \A s \in Small(n) : s \in Small(n + 1)
      BY <1>1
    <2>3. \A s \in Small(n) : g[s] = it[s]
      <3>1. \A s \in Small(n) : it[s] = Added(f, it, s)
        BY <2>1
      <3>2. \A s \in Small(n + 1) : g[s] = Added(f, it, s)
        OBVIOUS
      <3> HIDE DEF g, Small
      <3>3. QED BY <2>2, <3>1, <3>2
    <2>4. ASSUME NEW s \in Small(n + 1), s # {}
          PROVE  s \ {CHOOSE x \in s : TRUE} \in Small(n)
      <3> DEFINE x == CHOOSE x \in s : TRUE
      <3>1. x \in s
        BY <2>4
      <3> HIDE DEF x
      <3>2. IsFiniteSet(s) /\ Cardinality(s) \in Nat /\ Cardinality(s) <= n + 1 /\ s \subseteq S
        BY <1>1
      <3>3. Cardinality(s \ {x}) = Cardinality(s) - 1
        BY <3>1, <3>2, Smaller
      <3>4. Cardinality(s \ {x}) <= n
        BY <3>2, <3>3
      <3>5. s \ {x} \in Small(n)
        BY <3>2, <3>4
      <3>6. QED BY <3>5 DEF x
    <2>5. \A s \in Small(n + 1) : Added(f, g, s) = Added(f, it, s)
      <3> HIDE DEF g, Small
      <3>1. QED BY <2>3, <2>4 DEF Added
    <2>6. g = [s \in Small(n + 1) |-> Added(f, g, s)]
      <3>1. g = [s \in Small(n + 1) |-> g[s]] /\ \A s \in Small(n + 1) : g[s] = Added(f, it, s)
        OBVIOUS
      <3> HIDE DEF g, Small
      <3>2. QED BY <2>5, <3>1
    <2> HIDE DEF g, Small
    <2>7. QED BY <2>6
  <1>4. Cardinality(S) \in N
    <2>1. Cardinality(S) \in Nat
      BY <1>1
    <2> HIDE DEF N
    <2>2. QED BY <1>2, <1>3, <2>1, Induction
  <1>5. Small(Cardinality(S)) = SUBSET S
    BY FS_Subset, FS_CardinalityType
  <1>6. QED
    BY <1>4, <1>5 DEF Adds

\* It is the same function on the subsets of a smaller set.
LEMMA AddsAgree ==
  ASSUME NEW f, NEW S, IsFiniteSet(S), NEW T \in SUBSET S, NEW p, Adds(f, p, S),
         NEW q, Adds(f, q, T)
  PROVE  p[T] = q[T]
  <1> DEFINE N == {n \in Nat : \A s \in SUBSET T : Cardinality(s) = n => p[s] = q[s]}
  <1>1. \A s \in SUBSET T : /\ s \in SUBSET S /\ IsFiniteSet(s) /\ Cardinality(s) \in Nat
                            /\ p[s] = Added(f, p, s) /\ q[s] = Added(f, q, s)
    <2>1. ASSUME NEW s \in SUBSET T
          PROVE  /\ s \in SUBSET S /\ IsFiniteSet(s) /\ Cardinality(s) \in Nat
                 /\ p[s] = Added(f, p, s) /\ q[s] = Added(f, q, s)
      <3>1. s \in SUBSET S
        OBVIOUS
      <3>2. IsFiniteSet(s) /\ Cardinality(s) \in Nat
        BY <3>1, FS_Subset, FS_CardinalityType
      <3>3. p[s] = Added(f, p, s) /\ q[s] = Added(f, q, s)
        BY <3>1 DEF Adds
      <3>4. QED BY <3>1, <3>2, <3>3
    <2>2. QED BY <2>1
  <1>2. 0 \in N
    <2>1. ASSUME NEW s \in SUBSET T, Cardinality(s) = 0 PROVE p[s] = q[s]
      <3>1. s = {}
        BY <1>1, <2>1, FS_EmptySet
      <3>2. QED BY <1>1, <3>1 DEF Added
    <2>2. QED BY <2>1
  <1>3. ASSUME NEW n \in Nat, n \in N PROVE n + 1 \in N
    <2>1. ASSUME NEW s \in SUBSET T, Cardinality(s) = n + 1 PROVE p[s] = q[s]
      <3> DEFINE x == CHOOSE x \in s : TRUE
      <3>1. s # {}
        BY <1>3, <2>1, FS_EmptySet
      <3>2. x \in s
        BY <3>1
      <3> HIDE DEF x
      <3>3. Cardinality(s \ {x}) = Cardinality(s) - 1
        BY <1>1, <3>2, Smaller
      <3>4. Cardinality(s \ {x}) = n
        BY <1>3, <2>1, <3>3
      <3>5. p[s \ {x}] = q[s \ {x}]
        BY <1>3, <3>4
      <3>6. p[s] = f[x] + p[s \ {x}] /\ q[s] = f[x] + q[s \ {x}]
        BY <1>1, <3>1 DEF Added, x
      <3>7. QED BY <3>5, <3>6
    <2>2. QED BY <2>1
  <1>4. Nat \subseteq N
    <2> HIDE DEF N
    <2>1. QED BY <1>2, <1>3, Induction
  <1>5. QED
    BY <1>1, <1>4

\* A sum, one element at a time.
LEMMA SumChosen ==
  ASSUME NEW f, NEW S, IsFiniteSet(S)
  PROVE  /\ S = {} => Sum(f, S) = 0
         /\ S # {} => \E x \in S : Sum(f, S) = f[x] + Sum(f, S \ {x})
  <1> DEFINE p == CHOOSE it : Adds(f, it, S)
             x == CHOOSE x \in S : TRUE
             q == CHOOSE it : Adds(f, it, S \ {x})
  <1>1. Adds(f, p, S)
    BY AddsExists
  <1>2. Adds(f, q, S \ {x})
    <2>1. IsFiniteSet(S \ {x})
      BY FS_Subset
    <2> HIDE DEF x
    <2>2. QED BY <2>1, AddsExists
  <1>3. Sum(f, S) = p[S] /\ Sum(f, S \ {x}) = q[S \ {x}]
    BY SumIs
  <1> HIDE DEF p, q
  <1>4. p[S] = Added(f, p, S)
    BY <1>1 DEF Adds
  <1>5. p[S \ {x}] = q[S \ {x}]
    <2> HIDE DEF x
    <2>1. QED BY <1>1, <1>2, AddsAgree
  <1>6. S = {} => Sum(f, S) = 0
    BY <1>3, <1>4 DEF Added
  <1>7. S # {} => x \in S /\ Sum(f, S) = f[x] + Sum(f, S \ {x})
    BY <1>3, <1>4, <1>5 DEF Added
  <1> HIDE DEF x
  <1>8. QED BY <1>6, <1>7

\* f is an integer on every member of S.
Ints(f, S) == \A x \in S : f[x] \in Int

\* A sum of integers is one,
LEMMA SumType ==
  ASSUME NEW f, NEW A, IsFiniteSet(A), Ints(f, A)
  PROVE  \A S \in SUBSET A : Sum(f, S) \in Int
  <1> DEFINE N == {n \in Nat : \A S \in SUBSET A : Cardinality(S) = n => Sum(f, S) \in Int}
  <1>1. \A S \in SUBSET A : IsFiniteSet(S) /\ Cardinality(S) \in Nat
    BY FS_Subset, FS_CardinalityType
  <1>2. 0 \in N
    <2>1. ASSUME NEW S \in SUBSET A, Cardinality(S) = 0 PROVE Sum(f, S) \in Int
      BY <1>1, <2>1, FS_EmptySet, SumChosen
    <2>2. QED BY <2>1
  <1>3. ASSUME NEW n \in Nat, n \in N PROVE n + 1 \in N
    <2>1. ASSUME NEW S \in SUBSET A, Cardinality(S) = n + 1 PROVE Sum(f, S) \in Int
      <3>1. S # {}
        BY <1>3, <2>1, FS_EmptySet
      <3>2. PICK x \in S : Sum(f, S) = f[x] + Sum(f, S \ {x})
        BY <1>1, <3>1, SumChosen
      <3>3. Cardinality(S \ {x}) = Cardinality(S) - 1
        BY <1>1, Smaller
      <3>4. Cardinality(S \ {x}) = n /\ S \ {x} \in SUBSET A
        BY <1>3, <2>1, <3>3
      <3>5. Sum(f, S \ {x}) \in Int
        BY <1>3, <3>4
      <3>6. f[x] \in Int
        BY DEF Ints
      <3>7. QED BY <3>2, <3>5, <3>6
    <2>2. QED BY <2>1
  <1>4. Nat \subseteq N
    <2> HIDE DEF N
    <2>1. QED BY <1>2, <1>3, Induction
  <1>5. QED BY <1>1, <1>4

\* and it does not depend on the order.
LEMMA SumAny ==
  ASSUME NEW f, NEW A, IsFiniteSet(A), Ints(f, A)
  PROVE  \A S \in SUBSET A : \A x \in S : Sum(f, S) = f[x] + Sum(f, S \ {x})
  <1> DEFINE Free(S) == \A x \in S : Sum(f, S) = f[x] + Sum(f, S \ {x})
             N == {n \in Nat : \A S \in SUBSET A : Cardinality(S) = n => Free(S)}
  <1>1. \A S \in SUBSET A : IsFiniteSet(S) /\ Cardinality(S) \in Nat
    BY FS_Subset, FS_CardinalityType
  <1>2. 0 \in N
    <2>1. ASSUME NEW S \in SUBSET A, Cardinality(S) = 0 PROVE Free(S)
      BY <1>1, <2>1, FS_EmptySet
    <2> HIDE DEF Free
    <2>2. QED BY <2>1
  <1>3. ASSUME NEW n \in Nat, n \in N PROVE n + 1 \in N
    <2>1. ASSUME NEW S \in SUBSET A, Cardinality(S) = n + 1 PROVE Free(S)
      <3> SUFFICES ASSUME NEW x \in S PROVE Sum(f, S) = f[x] + Sum(f, S \ {x})
        OBVIOUS
      <3>1. PICK y \in S : Sum(f, S) = f[y] + Sum(f, S \ {y})
        BY <1>1, SumChosen
      <3>2. CASE x = y
        BY <3>1, <3>2
      <3>3. CASE x # y
        <4> DEFINE U == S \ {x}
                   V == S \ {y}
                   W == (S \ {y}) \ {x}
        <4>1. U \in SUBSET A /\ V \in SUBSET A /\ W \in SUBSET A /\ W = U \ {y}
              /\ y \in U /\ x \in V /\ W = V \ {x}
          BY <3>3
        <4>2. Cardinality(U) = n /\ Cardinality(V) = n
          <5>1. Cardinality(U) = Cardinality(S) - 1 /\ Cardinality(V) = Cardinality(S) - 1
            BY <1>1, Smaller
          <5>2. QED BY <1>3, <2>1, <5>1
        <4>3. Free(U) /\ Free(V)
          <5> HIDE DEF Free
          <5>1. QED BY <1>3, <4>1, <4>2
        <4>4. Sum(f, U) = f[y] + Sum(f, W) /\ Sum(f, V) = f[x] + Sum(f, W)
          <5> HIDE DEF U, V, W
          <5>1. QED BY <4>1, <4>3
        <4>5. Sum(f, W) \in Int /\ f[x] \in Int /\ f[y] \in Int
          <5> HIDE DEF W
          <5>1. Sum(f, W) \in Int
            BY <4>1, SumType
          <5>2. QED BY <5>1 DEF Ints
        <4>6. Sum(f, S) = f[y] + Sum(f, V)
          BY <3>1
        <4> HIDE DEF U, V, W
        <4>7. Sum(f, S) = f[x] + Sum(f, U)
          BY <4>4, <4>5, <4>6
        <4>8. QED BY <4>7 DEF U
      <3>4. QED BY <3>2, <3>3
    <2> HIDE DEF Free
    <2>2. QED BY <2>1
  <1>4. Nat \subseteq N
    <2> HIDE DEF N
    <2>1. QED BY <1>2, <1>3, Induction
  <1>5. \A S \in SUBSET A : Free(S)
    <2> HIDE DEF Free
    <2>1. QED BY <1>1, <1>4
  <1>6. QED BY <1>5

\* A sum of larger integers is larger.
LEMMA SumLess ==
  ASSUME NEW f, NEW g, NEW A, IsFiniteSet(A), Ints(f, A), Ints(g, A),
         \A x \in A : f[x] <= g[x]
  PROVE  \A S \in SUBSET A : Sum(f, S) <= Sum(g, S)
  <1> DEFINE N == {n \in Nat : \A S \in SUBSET A : Cardinality(S) = n => Sum(f, S) <= Sum(g, S)}
  <1>1. \A S \in SUBSET A : IsFiniteSet(S) /\ Cardinality(S) \in Nat
    BY FS_Subset, FS_CardinalityType
  <1>2. 0 \in N
    <2>1. ASSUME NEW S \in SUBSET A, Cardinality(S) = 0 PROVE Sum(f, S) <= Sum(g, S)
      <3>1. Sum(f, S) = 0 /\ Sum(g, S) = 0
        BY <1>1, <2>1, FS_EmptySet, SumChosen
      <3>2. QED BY <3>1
    <2>2. QED BY <2>1
  <1>3. ASSUME NEW n \in Nat, n \in N PROVE n + 1 \in N
    <2>1. ASSUME NEW S \in SUBSET A, Cardinality(S) = n + 1 PROVE Sum(f, S) <= Sum(g, S)
      <3>1. S # {}
        BY <1>3, <2>1, FS_EmptySet
      <3>2. PICK x \in S : TRUE
        BY <3>1
      <3>3. Cardinality(S \ {x}) = Cardinality(S) - 1
        BY <1>1, Smaller
      <3>4. Cardinality(S \ {x}) = n /\ S \ {x} \in SUBSET A
        BY <1>3, <2>1, <3>3
      <3>5. Sum(f, S \ {x}) <= Sum(g, S \ {x})
        BY <1>3, <3>4
      <3>6. Sum(f, S) = f[x] + Sum(f, S \ {x}) /\ Sum(g, S) = g[x] + Sum(g, S \ {x})
        BY SumAny
      <3>7. Sum(f, S \ {x}) \in Int /\ Sum(g, S \ {x}) \in Int
        BY <3>4, SumType
      <3>8. f[x] \in Int /\ g[x] \in Int /\ f[x] <= g[x]
        BY DEF Ints
      <3>9. QED BY <3>5, <3>6, <3>7, <3>8
    <2>2. QED BY <2>1
  <1>4. Nat \subseteq N
    <2> HIDE DEF N
    <2>1. QED BY <1>2, <1>3, Induction
  <1>5. QED BY <1>1, <1>4

\* Sums of the same integers are the same.
LEMMA SumSame ==
  ASSUME NEW f, NEW g, NEW A, IsFiniteSet(A), Ints(f, A), \A x \in A : f[x] = g[x]
  PROVE  Sum(f, A) = Sum(g, A)
  <1>1. Ints(g, A) /\ (\A x \in A : f[x] <= g[x]) /\ (\A x \in A : g[x] <= f[x])
    BY DEF Ints
  <1>2. Sum(f, A) <= Sum(g, A) /\ Sum(g, A) <= Sum(f, A)
    BY <1>1, SumLess
  <1>3. Sum(f, A) \in Int /\ Sum(g, A) \in Int
    BY <1>1, SumType
  <1>4. QED BY <1>2, <1>3

\* One member changed: the sum changes by as much.
LEMMA SumOne ==
  ASSUME NEW f, NEW g, NEW A, IsFiniteSet(A), Ints(f, A), Ints(g, A), NEW x \in A,
         \A y \in A : y # x => f[y] = g[y]
  PROVE  Sum(g, A) = Sum(f, A) + (g[x] - f[x])
  <1>1. Sum(f, A) = f[x] + Sum(f, A \ {x}) /\ Sum(g, A) = g[x] + Sum(g, A \ {x})
    BY SumAny
  <1>2. Sum(f, A \ {x}) = Sum(g, A \ {x})
    <2>1. IsFiniteSet(A \ {x}) /\ Ints(f, A \ {x}) /\ \A y \in A \ {x} : f[y] = g[y]
      BY FS_Subset DEF Ints
    <2>2. QED BY <2>1, SumSame
  <1>3. Sum(f, A \ {x}) \in Int /\ f[x] \in Int /\ g[x] \in Int
    BY SumType DEF Ints
  <1>4. QED BY <1>1, <1>2, <1>3

\* v is paid from x to y.
Transferred(f, g, A, x, y, v) ==
  \A z \in A : g[z] = f[z] + ((IF z = y THEN v ELSE 0) - (IF z = x THEN v ELSE 0))

\* A payment from x to y leaves the sum.
LEMMA SumPaid ==
  ASSUME NEW f, NEW g, NEW A, IsFiniteSet(A), Ints(f, A), NEW x \in A, NEW y \in A,
         NEW v \in Int, Transferred(f, g, A, x, y, v)
  PROVE  Sum(g, A) = Sum(f, A)
  <1>1. \A z \in A : g[z] = f[z] + ((IF z = y THEN v ELSE 0) - (IF z = x THEN v ELSE 0))
    BY DEF Transferred
  <1>2. \A z \in A : f[z] \in Int /\ g[z] \in Int
    BY <1>1 DEF Ints
  <1>3. CASE x = y
    <2>1. \A z \in A : f[z] = g[z]
      BY <1>2, <1>3, <1>1
    <2>2. QED BY <2>1, SumSame
  <1>4. CASE x # y
    <2> DEFINE h == [z \in A |-> IF z = x THEN f[z] - v ELSE f[z]]
    <2>1. Ints(h, A) /\ h[x] = f[x] - v /\ \A z \in A : z # x => f[z] = h[z]
      BY <1>2 DEF Ints
    <2>2. g[y] = h[y] + v /\ \A z \in A : z # y => h[z] = g[z]
      BY <1>2, <1>4, <1>1
    <2> HIDE DEF h
    <2>3. Ints(g, A)
      BY <1>2 DEF Ints
    <2>4. Sum(h, A) = Sum(f, A) + (h[x] - f[x])
      BY <2>1, SumOne
    <2>5. Sum(g, A) = Sum(h, A) + (g[y] - h[y])
      BY <2>1, <2>2, <2>3, SumOne
    <2>6. Sum(f, A) \in Int /\ h[y] \in Int /\ f[x] \in Int
      BY <1>2, <2>1, SumType DEF Ints
    <2>7. QED BY <2>1, <2>2, <2>4, <2>5, <2>6
  <1>5. QED BY <1>3, <1>4

\* The exceptional precompile (address 3), whose loading and touching journal_revert
\* keeps.
P == PRECOMPILE3

-----------------------------------------------------------------------------
(* Types                                                                    *)

Slot   == [original_value : Int, present_value : Int]
Slots  == UNION {[D -> Slot] : D \in SUBSET Key}
Info   == [balance : Int, nonce : Int, code : Code]
Account == [info : Info, storage : Slots, status : SUBSET Status]
States == UNION {[D -> Account] : D \in SUBSET Address}

HadValue == {<<>>} \union {<<v>> : v \in Int}
EntryOf(kind, a) == [kind : {kind}, address : a]
EntryType ==
  UNION {EntryOf("AccountLoaded", Address), EntryOf("AccountTouched", Address),
         EntryOf("NonceChange", Address \ {P}),
         [kind : {"AccountDestroyed"}, address : Address \ {P}, target : Address,
          was_destroyed : BOOLEAN, had_balance : Int],
         [kind : {"BalanceTransfer"}, from : Address \ {P}, to : Address, balance : Int],
         [kind : {"StorageChange"}, address : Address \ {P}, key : Key,
          had_value : HadValue],
         [kind : {"CodeChange"}, address : Address \ {P}, had_code : Code]}

\* A state is a function from a set of addresses to accounts.
LEMMA StatesType ==
  ASSUME NEW s
  PROVE  s \in States <=> DOMAIN s \subseteq Address /\ s \in [DOMAIN s -> Account]
  BY DEF States

\* The storage of an account is a function from a set of keys to slots.
LEMMA SlotsType ==
  ASSUME NEW s
  PROVE  s \in Slots <=> DOMAIN s \subseteq Key /\ s \in [DOMAIN s -> Slot]
  BY DEF Slots

\* The empty function is a state.
LEMMA EmptyState == <<>> \in States /\ DOMAIN <<>> = {}
  BY DEF States

\* An info record with one field replaced is an info record.
LEMMA InfoSet ==
  ASSUME NEW i \in Info, NEW w \in Int, NEW code \in Code
  PROVE  /\ [i EXCEPT !.balance = w] \in Info /\ [i EXCEPT !.nonce = w] \in Info
         /\ [i EXCEPT !.code = code] \in Info
         /\ i = [balance |-> i.balance, nonce |-> i.nonce, code |-> i.code]
  BY DEF Info

\* An account with one of its parts replaced.
LEMMA SetBalance ==
  ASSUME NEW acc \in Account, NEW w \in Int
  PROVE  LET b == [acc EXCEPT !.info.balance = w]
         IN /\ b \in Account /\ b.info.balance = w /\ b.info.nonce = acc.info.nonce
            /\ b.storage = acc.storage /\ b.status = acc.status
  BY InfoSet DEF Account, Info

\* The nonce replaced: the other parts stay.
LEMMA SetNonce ==
  ASSUME NEW acc \in Account, NEW w \in Int
  PROVE  LET b == [acc EXCEPT !.info.nonce = w]
         IN /\ b \in Account /\ b.info.nonce = w /\ b.info.balance = acc.info.balance
            /\ b.storage = acc.storage /\ b.status = acc.status
  BY InfoSet DEF Account, Info

\* The code replaced: the other parts stay.
LEMMA SetCode ==
  ASSUME NEW acc \in Account, NEW code \in Code
  PROVE  LET b == [acc EXCEPT !.info.code = code]
         IN /\ b \in Account /\ b.info.nonce = acc.info.nonce
            /\ b.info.balance = acc.info.balance
            /\ b.storage = acc.storage /\ b.status = acc.status
  BY InfoSet DEF Account, Info

\* The storage replaced: the other parts stay.
LEMMA SetStorage ==
  ASSUME NEW acc \in Account, NEW st \in Slots
  PROVE  LET b == [acc EXCEPT !.storage = st]
         IN b \in Account /\ b.info = acc.info /\ b.storage = st /\ b.status = acc.status
  BY DEF Account

\* The status replaced: the other parts stay.
LEMMA SetStatus ==
  ASSUME NEW acc \in Account, NEW status \in SUBSET Status
  PROVE  LET b == [acc EXCEPT !.status = status]
         IN b \in Account /\ b.info = acc.info /\ b.storage = acc.storage /\ b.status = status
  BY DEF Account

\* The parts of an account have their types.
LEMMA AccountParts ==
  ASSUME NEW acc \in Account
  PROVE  /\ acc.info \in Info /\ acc.info.balance \in Int /\ acc.info.nonce \in Int
         /\ acc.info.code \in Code /\ acc.storage \in Slots /\ acc.status \subseteq Status
  BY DEF Account, Info

\* A state with one account replaced.
LEMMA StateSet ==
  ASSUME NEW s \in States, NEW a, NEW acc \in Account
  PROVE  LET t == [s EXCEPT ![a] = acc]
         IN /\ t \in States /\ DOMAIN t = DOMAIN s
            /\ \A b \in DOMAIN s : t[b] = IF b = a THEN acc ELSE s[b]
  <1>1. DOMAIN s \subseteq Address /\ s \in [DOMAIN s -> Account]
    BY StatesType
  <1> DEFINE t == [s EXCEPT ![a] = acc]
  <1>2. DOMAIN t = DOMAIN s /\ t \in [DOMAIN s -> Account]
    BY <1>1
  <1>3. t \in States
    BY <1>1, <1>2, StatesType
  <1>4. \A b \in DOMAIN s : t[b] = IF b = a THEN acc ELSE s[b]
    BY <1>1
  <1>5. QED BY <1>2, <1>3, <1>4

-----------------------------------------------------------------------------
(* What undoing one entry does to one account                               *)

\* The kinds of entries, JournalEntry of the code.
Kinds == {"AccountLoaded", "AccountTouched", "AccountDestroyed", "BalanceTransfer",
          "NonceChange", "StorageChange", "CodeChange"}

\* What each kind of entry holds.
LEMMA EntryParts ==
  ASSUME NEW e \in EntryType
  PROVE  /\ e.kind \in Kinds
         /\ e.kind \in {"AccountLoaded", "AccountTouched"} => e.address \in Address
         /\ e.kind \in {"NonceChange", "StorageChange", "CodeChange", "AccountDestroyed"} =>
              e.address \in Address \ {P}
         /\ e.kind = "AccountDestroyed" =>
              /\ e.target \in Address /\ e.was_destroyed \in BOOLEAN /\ e.had_balance \in Int
         /\ e.kind = "BalanceTransfer" =>
              e.from \in Address \ {P} /\ e.to \in Address /\ e.balance \in Int
         /\ e.kind = "StorageChange" => e.key \in Key /\ e.had_value \in HadValue
         /\ e.kind = "CodeChange" => e.had_code \in Code
  <1>1. CASE e \in EntryOf("AccountLoaded", Address) \union EntryOf("AccountTouched", Address)
    BY <1>1 DEF EntryOf, Kinds
  <1>2. CASE e \in EntryOf("NonceChange", Address \ {P})
    BY <1>2 DEF EntryOf, Kinds
  <1>3. CASE e \in [kind : {"AccountDestroyed"}, address : Address \ {P}, target : Address,
                    was_destroyed : BOOLEAN, had_balance : Int]
    BY <1>3 DEF Kinds
  <1>4. CASE e \in [kind : {"BalanceTransfer"}, from : Address \ {P}, to : Address,
                    balance : Int]
    BY <1>4 DEF Kinds
  <1>5. CASE e \in [kind : {"StorageChange"}, address : Address \ {P}, key : Key,
                    had_value : HadValue]
    BY <1>5 DEF Kinds
  <1>6. CASE e \in [kind : {"CodeChange"}, address : Address \ {P}, had_code : Code]
    BY <1>6 DEF Kinds
  <1>7. QED BY <1>1, <1>2, <1>3, <1>4, <1>5, <1>6 DEF EntryType

\* The account that undoing e removes, if any.
Gone(e) == IF e.kind = "AccountLoaded" /\ e.address # P THEN {e.address} ELSE {}

\* What undoing e adds to the balance of a.
Credit(e, a) ==
  CASE e.kind = "BalanceTransfer" ->
         (IF a = e.from THEN e.balance ELSE 0) - (IF a = e.to THEN e.balance ELSE 0)
    [] e.kind = "AccountDestroyed" ->
         (IF a = e.address THEN e.had_balance ELSE 0)
           - (IF a = e.target /\ a # e.address THEN e.had_balance ELSE 0)
    [] OTHER -> 0

\* What undoing e takes from the nonce of a.
Counted(e, a) == IF e.kind = "NonceChange" /\ a = e.address THEN 1 ELSE 0

\* The status of a after e was undone.
StatusBack(e, a, status) ==
  CASE e.kind = "AccountTouched" /\ a = e.address /\ a # P -> status \ {"Touched"}
    [] e.kind = "AccountDestroyed" /\ a = e.address ->
         IF e.was_destroyed THEN status \union {"SelfDestructed"}
                            ELSE status \ {"SelfDestructed"}
    [] OTHER -> status

\* The storage of a after e was undone.
StorageBack(e, a, storage) ==
  IF e.kind = "StorageChange" /\ a = e.address
    THEN IF e.had_value = <<>> THEN Without(storage, e.key)
         ELSE [storage EXCEPT ![e.key].present_value = e.had_value[1]]
    ELSE storage

\* The entries that pay the address whose loading and touching stay.
NamesP(e) == \/ e.kind = "AccountDestroyed" /\ e.target = P
             \/ e.kind = "BalanceTransfer" /\ e.to = P

\* acc is the account old after the entry was undone.
UndoneAccount(e, a, old, acc) ==
  /\ acc \in Account
  /\ acc.info.balance = old.info.balance + Credit(e, a)
  /\ acc.info.nonce = old.info.nonce - Counted(e, a)
  /\ acc.status = StatusBack(e, a, old.status)
  /\ acc.storage = StorageBack(e, a, old.storage)

\* undoing keeps every account but the one that was loaded, and changes each
\* by what the entry says of it.
UndoneState(e, s, t) ==
  /\ t \in States
  /\ DOMAIN t = DOMAIN s \ Gone(e)
  /\ \A a \in DOMAIN t : UndoneAccount(e, a, s[a], t[a])
  /\ P \in DOMAIN t /\ ~NamesP(e) => t[P] = s[P]

\* Undoing an entry leaves a storage a storage.
LEMMA StorageBackType ==
  ASSUME NEW e \in EntryType, NEW a, NEW st \in Slots
  PROVE  StorageBack(e, a, st) \in Slots
  <1>1. CASE e.kind = "StorageChange" /\ a = e.address
    <2>1. DOMAIN st \subseteq Key /\ st \in [DOMAIN st -> Slot] /\ e.had_value \in HadValue
      BY <1>1, SlotsType, EntryParts
    <2>2. CASE e.had_value = <<>>
      <3>1. Without(st, e.key) \in Slots
        BY <2>1, SlotsType DEF Without
      <3>2. QED BY <1>1, <2>2, <3>1 DEF StorageBack
    <2>3. CASE e.had_value # <<>>
      <3>1. e.had_value[1] \in Int
        BY <2>1, <2>3 DEF HadValue
      <3>2. \A x \in Slot : [x EXCEPT !.present_value = e.had_value[1]] \in Slot
        BY <3>1 DEF Slot
      <3> DEFINE new == [st EXCEPT ![e.key].present_value = e.had_value[1]]
      <3>3. DOMAIN new = DOMAIN st /\ new \in [DOMAIN st -> Slot]
        BY <2>1, <3>2
      <3>4. new \in Slots
        BY <2>1, <3>3, SlotsType
      <3>5. QED BY <1>1, <2>3, <3>4 DEF StorageBack
    <2>4. QED BY <2>2, <2>3
  <1>2. QED BY <1>1 DEF StorageBack

\* One account changed: what the update of a state does.
LEMMA UpdateUndoes ==
  ASSUME NEW e \in EntryType, NEW s \in States, NEW a, Gone(e) = {},
         NEW acc, a \in DOMAIN s => UndoneAccount(e, a, s[a], acc),
         \A b \in DOMAIN s : b # a => UndoneAccount(e, b, s[b], s[b]),
         a = P => NamesP(e) \/ a \notin DOMAIN s
  PROVE  UndoneState(e, s, [s EXCEPT ![a] = acc])
  <1> DEFINE t == [s EXCEPT ![a] = acc]
  <1>1. CASE a \in DOMAIN s
    <2>1. acc \in Account
      BY <1>1 DEF UndoneAccount
    <2>2. /\ t \in States /\ DOMAIN t = DOMAIN s
          /\ \A b \in DOMAIN s : t[b] = IF b = a THEN acc ELSE s[b]
      BY <2>1, StateSet
    <2> HIDE DEF t
    <2>3. \A b \in DOMAIN t : UndoneAccount(e, b, s[b], t[b])
      BY <1>1, <2>2
    <2>4. P \in DOMAIN t /\ ~NamesP(e) => t[P] = s[P]
      BY <2>2
    <2>5. UndoneState(e, s, t)
      BY <2>2, <2>3, <2>4 DEF UndoneState
    <2>6. QED BY <2>5 DEF t
  <1>2. CASE a \notin DOMAIN s
    <2>1. t = s
      BY <1>2, StatesType
    <2>2. \A b \in DOMAIN s : UndoneAccount(e, b, s[b], s[b])
      BY <1>2
    <2>3. UndoneState(e, s, s)
      BY <2>2 DEF UndoneState
    <2>4. QED BY <2>1, <2>3
  <1>3. QED BY <1>1, <1>2

\* An account that an entry does not concern.
LEMMA Unconcerned ==
  ASSUME NEW e, NEW a, NEW acc \in Account, Credit(e, a) = 0, Counted(e, a) = 0,
         StatusBack(e, a, acc.status) = acc.status, StorageBack(e, a, acc.storage) = acc.storage
  PROVE  UndoneAccount(e, a, acc, acc)
  BY AccountParts DEF UndoneAccount

\* Undoing AccountLoaded removes the account, unless it is the precompile.
LEMMA UndoLoaded ==
  ASSUME NEW e \in EntryType, NEW s \in States, e.kind = "AccountLoaded"
  PROVE  UndoneState(e, s, Undo(e, s))
  <1>1. DOMAIN s \subseteq Address /\ s \in [DOMAIN s -> Account]
    BY StatesType
  <1>2. \A a, acc : acc \in Account => UndoneAccount(e, a, acc, acc)
    BY Unconcerned DEF Credit, Counted, StatusBack, StorageBack
  <1>3. CASE e.address = P
    <2>1. Undo(e, s) = s /\ Gone(e) = {}
      BY <1>3 DEF Undo, Gone, P
    <2>2. QED BY <1>1, <1>2, <2>1 DEF UndoneState
  <1>4. CASE e.address # P
    <2> DEFINE t == Without(s, e.address)
    <2>1. Undo(e, s) = t /\ Gone(e) = {e.address}
      BY <1>4 DEF Undo, Gone, P
    <2>2. DOMAIN t = DOMAIN s \ {e.address} /\ \A a \in DOMAIN t : t[a] = s[a]
      BY DEF Without
    <2>3. t \in [DOMAIN t -> Account] /\ DOMAIN t \subseteq Address
      BY <1>1 DEF Without
    <2>4. t \in States
      BY <2>3, StatesType
    <2> HIDE DEF t
    <2>5. \A a \in DOMAIN t : UndoneAccount(e, a, s[a], t[a])
      BY <1>1, <1>2, <2>2
    <2>6. QED BY <2>1, <2>2, <2>4, <2>5 DEF UndoneState
  <1>5. QED BY <1>3, <1>4

\* Undoing AccountTouched takes the mark off, unless it is the precompile.
LEMMA UndoTouched ==
  ASSUME NEW e \in EntryType, NEW s \in States, e.kind = "AccountTouched"
  PROVE  UndoneState(e, s, Undo(e, s))
  <1>1. DOMAIN s \subseteq Address /\ s \in [DOMAIN s -> Account]
    BY StatesType
  <1>2. \A a, acc : acc \in Account /\ (a # e.address \/ a = P) => UndoneAccount(e, a, acc, acc)
    BY Unconcerned DEF Credit, Counted, StatusBack, StorageBack
  <1>3. Gone(e) = {}
    BY DEF Gone
  <1>4. CASE e.address = P
    <2>1. Undo(e, s) = s
      BY <1>4 DEF Undo, P
    <2>2. \A a \in DOMAIN s : UndoneAccount(e, a, s[a], s[a])
      BY <1>1, <1>2, <1>4
    <2>3. QED BY <1>3, <2>1, <2>2 DEF UndoneState
  <1>5. CASE e.address # P
    <2> DEFINE a   == e.address
               acc == [s[a] EXCEPT !.status = @ \ {"Touched"}]
    <2>1. Undo(e, s) = [s EXCEPT ![a] = acc]
      BY <1>5 DEF Undo, P
    <2>2. ASSUME a \in DOMAIN s PROVE UndoneAccount(e, a, s[a], acc)
      <3>1. s[a] \in Account /\ s[a].status \ {"Touched"} \in SUBSET Status
        BY <1>1, <2>2, AccountParts
      <3>2. acc \in Account /\ acc.info = s[a].info /\ acc.storage = s[a].storage
            /\ acc.status = s[a].status \ {"Touched"}
        BY <3>1, SetStatus
      <3>3. Credit(e, a) = 0 /\ Counted(e, a) = 0 /\ s[a].info.balance \in Int /\ s[a].info.nonce \in Int
        BY <3>1, AccountParts DEF Credit, Counted
      <3>4. StatusBack(e, a, s[a].status) = s[a].status \ {"Touched"}
            /\ StorageBack(e, a, s[a].storage) = s[a].storage
        BY <1>5 DEF StatusBack, StorageBack
      <3> HIDE DEF acc
      <3>5. QED BY <3>2, <3>3, <3>4 DEF UndoneAccount
    <2>3. \A b \in DOMAIN s : b # a => UndoneAccount(e, b, s[b], s[b])
      BY <1>1, <1>2
    <2> HIDE DEF acc
    <2>4. UndoneState(e, s, [s EXCEPT ![a] = acc])
      BY <1>3, <1>5, <2>2, <2>3, UpdateUndoes
    <2>5. QED BY <2>1, <2>4
  <1>6. QED BY <1>4, <1>5

\* An update of the account at a, as the model writes it.
LEMMA UndoNonce ==
  ASSUME NEW e \in EntryType, NEW s \in States, e.kind = "NonceChange"
  PROVE  UndoneState(e, s, Undo(e, s))
  <1> DEFINE a   == e.address
             acc == [s[a] EXCEPT !.info.nonce = @ - 1]
  <1>1. s \in [DOMAIN s -> Account] /\ a # P /\ Gone(e) = {}
    BY StatesType, EntryParts DEF Gone
  <1>2. Undo(e, s) = [s EXCEPT ![a] = acc]
    BY DEF Undo
  <1>3. ASSUME a \in DOMAIN s PROVE UndoneAccount(e, a, s[a], acc)
    <2>1. s[a] \in Account /\ s[a].info.nonce \in Int /\ s[a].info.balance \in Int
      BY <1>1, <1>3, AccountParts
    <2>2. s[a].info.nonce - 1 \in Int
      BY <2>1
    <2>3. /\ acc \in Account /\ acc.info.nonce = s[a].info.nonce - 1
          /\ acc.info.balance = s[a].info.balance
          /\ acc.storage = s[a].storage /\ acc.status = s[a].status
      BY <2>2, <2>1, SetNonce
    <2>4. Credit(e, a) = 0 /\ Counted(e, a) = 1
      BY DEF Credit, Counted
    <2>5. /\ StatusBack(e, a, s[a].status) = s[a].status
          /\ StorageBack(e, a, s[a].storage) = s[a].storage
      BY DEF StatusBack, StorageBack
    <2> HIDE DEF acc
    <2>6. QED BY <2>1, <2>3, <2>4, <2>5 DEF UndoneAccount
  <1>4. \A b \in DOMAIN s : b # a => UndoneAccount(e, b, s[b], s[b])
    BY <1>1, Unconcerned DEF Credit, Counted, StatusBack, StorageBack
  <1> HIDE DEF acc
  <1>5. UndoneState(e, s, [s EXCEPT ![a] = acc])
    BY <1>1, <1>3, <1>4, UpdateUndoes
  <1>6. QED BY <1>2, <1>5

\* Undoing CodeChange sets the old code.
LEMMA UndoCode ==
  ASSUME NEW e \in EntryType, NEW s \in States, e.kind = "CodeChange"
  PROVE  UndoneState(e, s, Undo(e, s))
  <1> DEFINE a   == e.address
             acc == [s[a] EXCEPT !.info.code = e.had_code]
  <1>1. s \in [DOMAIN s -> Account] /\ a # P /\ Gone(e) = {} /\ e.had_code \in Code
    BY StatesType, EntryParts DEF Gone
  <1>2. Undo(e, s) = [s EXCEPT ![a] = acc]
    BY DEF Undo
  <1>3. ASSUME a \in DOMAIN s PROVE UndoneAccount(e, a, s[a], acc)
    <2>1. s[a] \in Account /\ s[a].info.nonce \in Int /\ s[a].info.balance \in Int
      BY <1>1, <1>3, AccountParts
    <2>2. /\ acc \in Account /\ acc.info.nonce = s[a].info.nonce
          /\ acc.info.balance = s[a].info.balance
          /\ acc.storage = s[a].storage /\ acc.status = s[a].status
      BY <1>1, <2>1, SetCode
    <2>3. Credit(e, a) = 0 /\ Counted(e, a) = 0
      BY DEF Credit, Counted
    <2>4. /\ StatusBack(e, a, s[a].status) = s[a].status
          /\ StorageBack(e, a, s[a].storage) = s[a].storage
      BY DEF StatusBack, StorageBack
    <2> HIDE DEF acc
    <2>5. QED BY <2>1, <2>2, <2>3, <2>4 DEF UndoneAccount
  <1>4. \A b \in DOMAIN s : b # a => UndoneAccount(e, b, s[b], s[b])
    BY <1>1, Unconcerned DEF Credit, Counted, StatusBack, StorageBack
  <1> HIDE DEF acc
  <1>5. UndoneState(e, s, [s EXCEPT ![a] = acc])
    BY <1>1, <1>3, <1>4, UpdateUndoes
  <1>6. QED BY <1>2, <1>5

\* Undoing StorageChange sets the old value, or removes the slot that was loaded.
LEMMA UndoSlot ==
  ASSUME NEW e \in EntryType, NEW s \in States, e.kind = "StorageChange"
  PROVE  UndoneState(e, s, Undo(e, s))
  <1> DEFINE a   == e.address
             acc == [s[a] EXCEPT !.storage = StorageBack(e, a, @)]
  <1>1. s \in [DOMAIN s -> Account] /\ a # P /\ Gone(e) = {}
    BY StatesType, EntryParts DEF Gone
  <1>2. Undo(e, s) = [s EXCEPT ![a] = acc]
    BY DEF Undo, UndoStorage, StorageBack
  <1>3. ASSUME a \in DOMAIN s PROVE UndoneAccount(e, a, s[a], acc)
    <2>1. /\ s[a] \in Account /\ s[a].info.nonce \in Int /\ s[a].info.balance \in Int
          /\ s[a].storage \in Slots
      BY <1>1, <1>3, AccountParts
    <2>2. StorageBack(e, a, s[a].storage) \in Slots
      BY <2>1, StorageBackType
    <2>3. /\ acc \in Account /\ acc.info = s[a].info
          /\ acc.storage = StorageBack(e, a, s[a].storage) /\ acc.status = s[a].status
      BY <2>1, <2>2, SetStorage
    <2>4. Credit(e, a) = 0 /\ Counted(e, a) = 0
      BY DEF Credit, Counted
    <2>5. StatusBack(e, a, s[a].status) = s[a].status
      BY DEF StatusBack
    <2> HIDE DEF acc
    <2>6. QED BY <2>1, <2>3, <2>4, <2>5 DEF UndoneAccount
  <1>4. \A b \in DOMAIN s : b # a => UndoneAccount(e, b, s[b], s[b])
    BY <1>1, Unconcerned DEF Credit, Counted, StatusBack, StorageBack
  <1> HIDE DEF acc
  <1>5. UndoneState(e, s, [s EXCEPT ![a] = acc])
    BY <1>1, <1>3, <1>4, UpdateUndoes
  <1>6. QED BY <1>2, <1>5

\* The balance of one account changed, if it is there.
LEMMA OneBalance ==
  ASSUME NEW q \in States, NEW z, NEW u \in Int
  PROVE  LET p == [q EXCEPT ![z].info.balance = @ + u]
         IN /\ p \in States /\ DOMAIN p = DOMAIN q
            /\ \A a \in DOMAIN q :
                 /\ p[a] \in Account
                 /\ p[a].info.balance = q[a].info.balance + (IF a = z THEN u ELSE 0)
                 /\ p[a].info.nonce = q[a].info.nonce
                 /\ p[a].status = q[a].status /\ p[a].storage = q[a].storage
                 /\ a # z => p[a] = q[a]
  <1> DEFINE acc == [q[z] EXCEPT !.info.balance = @ + u]
             p   == [q EXCEPT ![z] = acc]
  <1>1. q \in [DOMAIN q -> Account]
    BY StatesType
  <1>2. CASE z \in DOMAIN q
    <2>1. q[z] \in Account /\ q[z].info.balance + u \in Int
      BY <1>1, <1>2, AccountParts
    <2>2. /\ acc \in Account /\ acc.info.balance = q[z].info.balance + u
          /\ acc.info.nonce = q[z].info.nonce
          /\ acc.storage = q[z].storage /\ acc.status = q[z].status
      BY <2>1, SetBalance
    <2>3. /\ p \in States /\ DOMAIN p = DOMAIN q
          /\ \A b \in DOMAIN q : p[b] = IF b = z THEN acc ELSE q[b]
      BY <2>2, StateSet
    <2>4. \A a \in DOMAIN q : q[a] \in Account /\ q[a].info.balance \in Int
      BY <1>1, AccountParts
    <2> DEFINE r == [q EXCEPT ![z].info.balance = @ + u]
    <2>5. r = p
      OBVIOUS
    <2> HIDE DEF acc, p, r
    <2>6. /\ r \in States /\ DOMAIN r = DOMAIN q
          /\ \A a \in DOMAIN q :
               /\ r[a] \in Account
               /\ r[a].info.balance = q[a].info.balance + (IF a = z THEN u ELSE 0)
               /\ r[a].info.nonce = q[a].info.nonce
               /\ r[a].status = q[a].status /\ r[a].storage = q[a].storage
               /\ a # z => r[a] = q[a]
      BY <2>2, <2>3, <2>4, <2>5
    <2>7. QED BY <2>6 DEF r
  <1>3. CASE z \notin DOMAIN q
    <2>1. [q EXCEPT ![z].info.balance = @ + u] = q
      BY <1>1, <1>3
    <2>2. \A a \in DOMAIN q : q[a] \in Account /\ q[a].info.balance \in Int /\ a # z
      BY <1>1, <1>3, AccountParts
    <2> DEFINE r == [q EXCEPT ![z].info.balance = @ + u]
    <2>3. r = q
      BY <2>1
    <2> HIDE DEF r
    <2>4. /\ r \in States /\ DOMAIN r = DOMAIN q
          /\ \A a \in DOMAIN q :
               /\ r[a] \in Account
               /\ r[a].info.balance = q[a].info.balance + (IF a = z THEN u ELSE 0)
               /\ r[a].info.nonce = q[a].info.nonce
               /\ r[a].status = q[a].status /\ r[a].storage = q[a].storage
               /\ a # z => r[a] = q[a]
      BY <2>2, <2>3
    <2>5. QED BY <2>4 DEF r
  <1>4. QED BY <1>2, <1>3

\* The balances of two accounts changed one after the other.
LEMMA TwoBalances ==
  ASSUME NEW s \in States, NEW x, NEW y, NEW v \in Int, NEW w \in Int
  PROVE  LET r == [s EXCEPT ![x].info.balance = @ + v]
             t == [r EXCEPT ![y].info.balance = @ - w]
         IN /\ t \in States /\ DOMAIN t = DOMAIN s
            /\ \A a \in DOMAIN s :
                 /\ t[a] \in Account
                 /\ t[a].info.balance = s[a].info.balance + (IF a = x THEN v ELSE 0)
                                                          - (IF a = y THEN w ELSE 0)
                 /\ t[a].info.nonce = s[a].info.nonce
                 /\ t[a].status = s[a].status /\ t[a].storage = s[a].storage
                 /\ a # x /\ a # y => t[a] = s[a]
  <1> DEFINE r == [s EXCEPT ![x].info.balance = @ + v]
             t == [r EXCEPT ![y].info.balance = @ - w]
  <1>1. -w \in Int /\ \A b \in Int : b - w = b + (-w)
    OBVIOUS
  <1>2. /\ r \in States /\ DOMAIN r = DOMAIN s
        /\ \A a \in DOMAIN s :
             /\ r[a] \in Account
             /\ r[a].info.balance = s[a].info.balance + (IF a = x THEN v ELSE 0)
             /\ r[a].info.nonce = s[a].info.nonce
             /\ r[a].status = s[a].status /\ r[a].storage = s[a].storage
             /\ a # x => r[a] = s[a]
    BY OneBalance
  <1> HIDE DEF r
  <1> DEFINE p == [r EXCEPT ![y].info.balance = @ + (-w)]
  <1>3. /\ p \in States /\ DOMAIN p = DOMAIN r
        /\ \A a \in DOMAIN r :
             /\ p[a] \in Account
             /\ p[a].info.balance = r[a].info.balance + (IF a = y THEN -w ELSE 0)
             /\ p[a].info.nonce = r[a].info.nonce
             /\ p[a].status = r[a].status /\ p[a].storage = r[a].storage
             /\ a # y => p[a] = r[a]
    BY <1>1, <1>2, OneBalance
  <1>4. t = p
    <2>1. CASE y \in DOMAIN r
      <3>1. r[y].info.balance \in Int
        BY <1>2, <2>1, AccountParts
      <3>2. QED BY <1>1, <3>1
    <2>2. CASE y \notin DOMAIN r
      <3>1. r \in [DOMAIN r -> Account]
        BY <1>2, StatesType
      <3>2. t = r /\ p = r
        BY <2>2, <3>1
      <3>3. QED BY <3>2
    <2>3. QED BY <2>1, <2>2
  <1> HIDE DEF p, t
  <1>5. \A a \in DOMAIN s : s[a].info.balance \in Int /\ r[a].info.balance \in Int
    BY <1>2, AccountParts, StatesType
  <1>6. \A a \in DOMAIN s :
          t[a].info.balance = s[a].info.balance + (IF a = x THEN v ELSE 0)
                                                - (IF a = y THEN w ELSE 0)
    BY <1>1, <1>2, <1>3, <1>4, <1>5
  <1>7. /\ t \in States /\ DOMAIN t = DOMAIN s
        /\ \A a \in DOMAIN s :
             /\ t[a] \in Account /\ t[a].info.nonce = s[a].info.nonce
             /\ t[a].status = s[a].status /\ t[a].storage = s[a].storage
             /\ a # x /\ a # y => t[a] = s[a]
    BY <1>2, <1>3, <1>4
  <1>8. QED BY <1>6, <1>7 DEF t, r

\* Undoing BalanceTransfer pays the value back.
LEMMA UndoTransferred ==
  ASSUME NEW e \in EntryType, NEW s \in States, e.kind = "BalanceTransfer"
  PROVE  UndoneState(e, s, Undo(e, s))
  <1> DEFINE x == e.from
             y == e.to
             v == e.balance
             r == [s EXCEPT ![x].info.balance = @ + v]
             t == [r EXCEPT ![y].info.balance = @ - v]
  <1>1. t = Undo(e, s)
    BY DEF Undo, UndoTransfer
  <1>2. /\ e.from # P /\ e.balance \in Int /\ Gone(e) = {}
    BY EntryParts DEF Gone
  <1>3. /\ t \in States /\ DOMAIN t = DOMAIN s
        /\ \A a \in DOMAIN s :
             /\ t[a] \in Account
             /\ t[a].info.balance = s[a].info.balance + (IF a = x THEN v ELSE 0)
                                                      - (IF a = y THEN v ELSE 0)
             /\ t[a].info.nonce = s[a].info.nonce
             /\ t[a].status = s[a].status /\ t[a].storage = s[a].storage
             /\ a # x /\ a # y => t[a] = s[a]
    <2> HIDE DEF x, y
    <2>1. v \in Int
      BY <1>2
    <2> HIDE DEF v
    <2>2. QED BY <2>1, TwoBalances
  <1> HIDE DEF t
  <1>4. \A a \in DOMAIN s : s[a].info.balance \in Int /\ s[a].info.nonce \in Int
    BY StatesType, AccountParts
  <1>5. ASSUME NEW a \in DOMAIN s PROVE UndoneAccount(e, a, s[a], t[a])
    <2>1. /\ Counted(e, a) = 0 /\ StatusBack(e, a, s[a].status) = s[a].status
          /\ StorageBack(e, a, s[a].storage) = s[a].storage
          /\ Credit(e, a) = (IF a = e.from THEN e.balance ELSE 0)
                              - (IF a = e.to THEN e.balance ELSE 0)
      BY DEF Counted, StatusBack, StorageBack, Credit
    <2>2. t[a].info.balance = s[a].info.balance + Credit(e, a)
      BY <1>2, <1>3, <1>4, <2>1
    <2>3. QED BY <1>3, <1>4, <2>1, <2>2 DEF UndoneAccount
  <1>6. P \in DOMAIN t /\ ~NamesP(e) => t[P] = s[P]
    BY <1>2, <1>3 DEF NamesP
  <1>7. UndoneState(e, s, t)
    BY <1>2, <1>3, <1>5, <1>6 DEF UndoneState
  <1>8. QED BY <1>1, <1>7

\* Undoing AccountDestroyed gives the balance back and the old mark.
LEMMA UndoDestruction ==
  ASSUME NEW e \in EntryType, NEW s \in States, e.kind = "AccountDestroyed"
  PROVE  UndoneState(e, s, Undo(e, s))
  <1> DEFINE a == e.address
             status == StatusBack(e, a, s[a].status)
             acc == [s[a] EXCEPT !.status = status]
             r == [s EXCEPT ![a] = acc]
             h == e.had_balance
             t == Undo(e, s)
  <1>1. s \in [DOMAIN s -> Account] /\ a # P /\ Gone(e) = {} /\ h \in Int
    BY StatesType, EntryParts DEF Gone
  <1>2. /\ r \in States /\ DOMAIN r = DOMAIN s
        /\ \A b \in DOMAIN s :
             /\ r[b] \in Account /\ r[b].info = s[b].info /\ r[b].storage = s[b].storage
             /\ r[b].status = StatusBack(e, b, s[b].status)
             /\ b # a => r[b] = s[b]
    <2>1. \A b : b # a => StatusBack(e, b, s[b].status) = s[b].status
      BY DEF StatusBack
    <2>2. CASE a \in DOMAIN s
      <3>1. s[a] \in Account /\ status \in SUBSET Status
        BY <1>1, <2>2, AccountParts DEF StatusBack, Status
      <3>2. acc \in Account /\ acc.info = s[a].info /\ acc.storage = s[a].storage
            /\ acc.status = status
        BY <3>1, SetStatus
      <3>3. /\ r \in States /\ DOMAIN r = DOMAIN s
            /\ \A b \in DOMAIN s : r[b] = IF b = a THEN acc ELSE s[b]
        BY <3>2, StateSet
      <3> HIDE DEF acc, r
      <3>4. QED BY <1>1, <2>1, <3>2, <3>3
    <2>3. CASE a \notin DOMAIN s
      <3>1. r = s
        BY <1>1, <2>3
      <3>2. QED BY <1>1, <2>1, <2>3, <3>1
    <2>4. QED BY <2>2, <2>3
  <1>3. t = IF a = e.target THEN [r EXCEPT ![a].info.balance = @ + h]
            ELSE [[r EXCEPT ![a].info.balance = @ + h] EXCEPT ![e.target].info.balance = @ - h]
    <2> DEFINE new(st) == IF e.was_destroyed THEN st \union {"SelfDestructed"}
                                             ELSE st \ {"SelfDestructed"}
               both == [s EXCEPT ![a].status = new(@), ![a].info.balance = @ + h]
    <2>1. r = [s EXCEPT ![a].status = new(@)]
      BY DEF StatusBack
    <2>2. both = [[s EXCEPT ![a].status = new(@)] EXCEPT ![a].info.balance = @ + h]
      <3> HIDE DEF new, a, h
      <3>1. QED OBVIOUS
    <2>3. t = IF a = e.target THEN both
              ELSE [both EXCEPT ![e.target].info.balance = @ - h]
      BY DEF Undo, UndoDestroyed
    <2> HIDE DEF both, t, r, new
    <2>4. QED BY <2>1, <2>2, <2>3, ZenonT(40)
  <1> HIDE DEF t, r, acc, status
  <1>4. /\ t \in States /\ DOMAIN t = DOMAIN r
        /\ \A b \in DOMAIN r :
             /\ t[b] \in Account
             /\ t[b].info.balance = r[b].info.balance + Credit(e, b)
             /\ t[b].info.nonce = r[b].info.nonce
             /\ t[b].status = r[b].status /\ t[b].storage = r[b].storage
             /\ b # a /\ b # e.target => t[b] = r[b]
    <2>1. \A b \in DOMAIN r : r[b].info.balance \in Int
      BY <1>2, AccountParts
    <2>2. CASE a = e.target
      <3>1. /\ t \in States /\ DOMAIN t = DOMAIN r
            /\ \A b \in DOMAIN r :
                 /\ t[b] \in Account
                 /\ t[b].info.balance = r[b].info.balance + (IF b = a THEN h ELSE 0)
                 /\ t[b].info.nonce = r[b].info.nonce
                 /\ t[b].status = r[b].status /\ t[b].storage = r[b].storage
                 /\ b # a => t[b] = r[b]
        <4> DEFINE u == [r EXCEPT ![a].info.balance = @ + h]
        <4>1. h \in Int /\ r \in States /\ t = u
          BY <1>1, <1>2, <1>3, <2>2
        <4> HIDE DEF a, h
        <4>2. /\ u \in States /\ DOMAIN u = DOMAIN r
              /\ \A b \in DOMAIN r :
                   /\ u[b] \in Account
                   /\ u[b].info.balance = r[b].info.balance + (IF b = a THEN h ELSE 0)
                   /\ u[b].info.nonce = r[b].info.nonce
                   /\ u[b].status = r[b].status /\ u[b].storage = r[b].storage
                   /\ b # a => u[b] = r[b]
          BY <4>1, OneBalance
        <4> HIDE DEF u
        <4>3. QED BY <4>1, <4>2
      <3>2. \A b : Credit(e, b) = IF b = a THEN h ELSE 0
        BY <1>1, <2>2 DEF Credit
      <3>3. QED BY <3>1, <3>2
    <2>3. CASE a # e.target
      <3>1. /\ t \in States /\ DOMAIN t = DOMAIN r
            /\ \A b \in DOMAIN r :
                 /\ t[b] \in Account
                 /\ t[b].info.balance = r[b].info.balance + (IF b = a THEN h ELSE 0)
                                                          - (IF b = e.target THEN h ELSE 0)
                 /\ t[b].info.nonce = r[b].info.nonce
                 /\ t[b].status = r[b].status /\ t[b].storage = r[b].storage
                 /\ b # a /\ b # e.target => t[b] = r[b]
        <4> DEFINE y == e.target
                   q == [r EXCEPT ![a].info.balance = @ + h]
                   u == [q EXCEPT ![y].info.balance = @ - h]
        <4>1. h \in Int /\ r \in States /\ t = u
          BY <1>1, <1>2, <1>3, <2>3
        <4> HIDE DEF a, h, y
        <4>2. /\ u \in States /\ DOMAIN u = DOMAIN r
              /\ \A b \in DOMAIN r :
                   /\ u[b] \in Account
                   /\ u[b].info.balance = r[b].info.balance + (IF b = a THEN h ELSE 0)
                                                            - (IF b = y THEN h ELSE 0)
                   /\ u[b].info.nonce = r[b].info.nonce
                   /\ u[b].status = r[b].status /\ u[b].storage = r[b].storage
                   /\ b # a /\ b # y => u[b] = r[b]
          BY <4>1, TwoBalances
        <4> HIDE DEF u, q
        <4>3. QED BY <4>1, <4>2 DEF y
      <3>2. \A b : Credit(e, b) = (IF b = a THEN h ELSE 0) - (IF b = e.target THEN h ELSE 0)
        BY <1>1, <2>3 DEF Credit
      <3>3. \A b \in DOMAIN r : t[b].info.balance = r[b].info.balance + Credit(e, b)
        BY <1>1, <2>1, <3>1, <3>2
      <3>4. QED BY <3>1, <3>3
    <2>4. QED BY <2>2, <2>3
  <1>5. \A b \in DOMAIN s : s[b].info.balance \in Int /\ s[b].info.nonce \in Int
    BY <1>1, AccountParts
  <1>6. ASSUME NEW b \in DOMAIN s PROVE UndoneAccount(e, b, s[b], t[b])
    <2>1. Counted(e, b) = 0 /\ StorageBack(e, b, s[b].storage) = s[b].storage
      BY DEF Counted, StorageBack
    <2>2. QED BY <1>2, <1>4, <1>5, <2>1 DEF UndoneAccount
  <1>7. P \in DOMAIN t /\ ~NamesP(e) => t[P] = s[P]
    BY <1>1, <1>2, <1>4 DEF NamesP
  <1>8. UndoneState(e, s, t)
    BY <1>1, <1>2, <1>4, <1>6, <1>7 DEF UndoneState
  <1>9. QED BY <1>8 DEF t

\* Undo, for every kind of entry: each account changes by what the entry says of it.
LEMMA UndoAt ==
  ASSUME NEW e \in EntryType, NEW s \in States
  PROVE  UndoneState(e, s, Undo(e, s))
  <1>1. e.kind \in Kinds
    BY EntryParts
  <1>2. QED BY <1>1, UndoLoaded, UndoTouched, UndoDestruction, UndoTransferred, UndoNonce,
               UndoSlot, UndoCode DEF Kinds

-----------------------------------------------------------------------------
(* States that a comparison does not tell apart, and what is left beneath   *)

\* Restored is reflexive.
LEMMA LikeSame ==
  ASSUME NEW s
  PROVE  Restored(s, s)
  BY DEF Restored

\* Restored is transitive: states are alike but for codes, original values and
\* the precompile.
LEMMA LikeTrans ==
  ASSUME NEW s, NEW t, NEW u, Restored(s, t), Restored(t, u)
  PROVE  Restored(s, u)
  BY DEF Restored

\* The parts of storage and status that Essence keeps.
Values(storage) == [k \in DOMAIN storage |-> storage[k].present_value]
Marks == {"Touched", "SelfDestructed"}

\* Two accounts have the same essence when these four parts are the same.
LEMMA EssenceParts ==
  ASSUME NEW x, NEW y
  PROVE  Essence(x) = Essence(y) <=>
           /\ x.info.balance = y.info.balance
           /\ x.info.nonce = y.info.nonce
           /\ Values(x.storage) = Values(y.storage)
           /\ x.status \intersect Marks = y.status \intersect Marks
  BY DEF Essence, Values, Marks

\* Two slot maps with the same present values.
LEMMA SameValues ==
  ASSUME NEW x, NEW y
  PROVE  Values(x) = Values(y) <=>
           /\ DOMAIN x = DOMAIN y
           /\ \A k \in DOMAIN x : x[k].present_value = y[k].present_value
  <1>1. ASSUME Values(x) = Values(y)
        PROVE  /\ DOMAIN x = DOMAIN y
               /\ \A k \in DOMAIN x : x[k].present_value = y[k].present_value
    <2>1. DOMAIN Values(x) = DOMAIN x /\ DOMAIN Values(y) = DOMAIN y
      BY DEF Values
    <2>2. \A k \in DOMAIN x : Values(x)[k] = x[k].present_value
      BY DEF Values
    <2>3. \A k \in DOMAIN y : Values(y)[k] = y[k].present_value
      BY DEF Values
    <2>4. QED BY <1>1, <2>1, <2>2, <2>3
  <1>2. ASSUME DOMAIN x = DOMAIN y, \A k \in DOMAIN x : x[k].present_value = y[k].present_value
        PROVE  Values(x) = Values(y)
    BY <1>2 DEF Values
  <1>3. QED BY <1>1, <1>2

\* Undoing an entry keeps equal present values equal.
LEMMA StorageBackValues ==
  ASSUME NEW e \in EntryType, NEW a, NEW x \in Slots, NEW y \in Slots, Values(x) = Values(y)
  PROVE  Values(StorageBack(e, a, x)) = Values(StorageBack(e, a, y))
  <1>1. /\ DOMAIN x = DOMAIN y /\ x \in [DOMAIN x -> Slot] /\ y \in [DOMAIN y -> Slot]
        /\ \A k \in DOMAIN x : x[k].present_value = y[k].present_value
    BY SameValues, SlotsType
  <1>2. CASE e.kind = "StorageChange" /\ a = e.address
    <2>1. CASE e.had_value = <<>>
      <3> DEFINE p == Without(x, e.key)
                 q == Without(y, e.key)
      <3>1. p = StorageBack(e, a, x) /\ q = StorageBack(e, a, y)
        BY <1>2, <2>1 DEF StorageBack
      <3>2. DOMAIN p = DOMAIN q /\ \A k \in DOMAIN p : p[k].present_value = q[k].present_value
        BY <1>1 DEF Without
      <3> HIDE DEF p, q
      <3>3. Values(p) = Values(q)
        BY <3>2, SameValues
      <3>4. QED BY <3>1, <3>3
    <2>2. CASE e.had_value # <<>>
      <3> DEFINE v == e.had_value[1]
                 p == [x EXCEPT ![e.key].present_value = v]
                 q == [y EXCEPT ![e.key].present_value = v]
      <3>1. p = StorageBack(e, a, x) /\ q = StorageBack(e, a, y)
        BY <1>2, <2>2 DEF StorageBack
      <3>2. DOMAIN p = DOMAIN x /\ DOMAIN q = DOMAIN y
        BY <1>1
      <3>3. ASSUME NEW k \in DOMAIN x PROVE p[k].present_value = q[k].present_value
        <4>1. x[k] \in Slot /\ y[k] \in Slot
          BY <1>1
        <4>2. CASE k = e.key
          <5>1. p[k] = [x[k] EXCEPT !.present_value = v] /\ q[k] = [y[k] EXCEPT !.present_value = v]
            BY <1>1, <4>2
          <5> HIDE DEF p, q, v
          <5>2. QED BY <4>1, <5>1 DEF Slot
        <4>3. CASE k # e.key
          BY <1>1, <4>3
        <4>4. QED BY <4>2, <4>3
      <3> HIDE DEF p, q, v
      <3>4. Values(p) = Values(q)
        BY <1>1, <3>2, <3>3, SameValues
      <3>5. QED BY <3>1, <3>4
    <2>3. QED BY <2>1, <2>2
  <1>3. CASE ~(e.kind = "StorageChange" /\ a = e.address)
    BY <1>3 DEF StorageBack
  <1>4. QED BY <1>2, <1>3

\* Undoing an entry keeps equal essences equal.
LEMMA EssenceBack ==
  ASSUME NEW e \in EntryType, NEW a, NEW x \in Account, NEW y \in Account, NEW p, NEW q,
         Essence(x) = Essence(y), UndoneAccount(e, a, x, p), UndoneAccount(e, a, y, q)
  PROVE  Essence(p) = Essence(q)
  <1>1. /\ x.info.balance = y.info.balance /\ x.info.nonce = y.info.nonce
        /\ Values(x.storage) = Values(y.storage)
        /\ x.status \intersect Marks = y.status \intersect Marks
    BY EssenceParts
  <1>2. p.info.balance = q.info.balance /\ p.info.nonce = q.info.nonce
    BY <1>1 DEF UndoneAccount
  <1>3. x.storage \in Slots /\ y.storage \in Slots
    BY AccountParts
  <1>4. Values(p.storage) = Values(q.storage)
    BY <1>1, <1>3, StorageBackValues DEF UndoneAccount
  <1>5. StatusBack(e, a, x.status) \intersect Marks = StatusBack(e, a, y.status) \intersect Marks
    BY <1>1 DEF StatusBack, Marks
  <1>6. p.status \intersect Marks = q.status \intersect Marks
    BY <1>5 DEF UndoneAccount
  <1>7. QED BY <1>2, <1>4, <1>6, EssenceParts

\* Undoing an entry leads from like states to like states.
LEMMA UndoLike ==
  ASSUME NEW e \in EntryType, NEW s \in States, NEW t \in States, Restored(s, t)
  PROVE  Restored(Undo(e, s), Undo(e, t))
  <1> DEFINE p == Undo(e, s)
             q == Undo(e, t)
  <1>1. UndoneState(e, s, p) /\ UndoneState(e, t, q)
    BY UndoAt
  <1> HIDE DEF p, q
  <1>2. /\ DOMAIN p = DOMAIN s \ Gone(e) /\ DOMAIN q = DOMAIN t \ Gone(e)
        /\ DOMAIN t \ {P} = DOMAIN s \ {P}
        /\ \A a \in DOMAIN s \ {P} : Essence(t[a]) = Essence(s[a])
        /\ \A a \in DOMAIN s : s[a] \in Account
        /\ \A a \in DOMAIN t : t[a] \in Account
        /\ \A a \in DOMAIN p : UndoneAccount(e, a, s[a], p[a])
        /\ \A a \in DOMAIN q : UndoneAccount(e, a, t[a], q[a])
    BY <1>1, StatesType DEF Restored, UndoneState, P
  <1>3. DOMAIN q \ {P} = DOMAIN p \ {P}
    BY <1>2
  <1>4. ASSUME NEW a \in DOMAIN p \ {P} PROVE Essence(q[a]) = Essence(p[a])
    <2>1. /\ a \in DOMAIN s \ {P} /\ a \in DOMAIN t /\ a \in DOMAIN q
      BY <1>2, <1>3
    <2>2. /\ s[a] \in Account /\ t[a] \in Account /\ Essence(t[a]) = Essence(s[a])
          /\ UndoneAccount(e, a, s[a], p[a]) /\ UndoneAccount(e, a, t[a], q[a])
      BY <1>2, <2>1
    <2>3. QED BY <2>2, EssenceBack
  <1>5. Restored(p, q)
    BY <1>3, <1>4 DEF Restored, P
  <1>6. QED BY <1>5 DEF p, q

\* The precompile is loaded and touched: nothing takes that back.
PTouched(s) == P \in DOMAIN s /\ "Touched" \in s[P].status

\* t is left of s when entries are undone: the mark Created stays, and so do
\* the loading, touching, nonce and storage of the exceptional precompile.
Beneath(t, s) ==
  /\ DOMAIN t \subseteq DOMAIN s
  /\ \A a \in DOMAIN t : "Created" \in t[a].status <=> "Created" \in s[a].status
  /\ P \in DOMAIN s => P \in DOMAIN t
  /\ P \in DOMAIN t => /\ t[P].info.nonce = s[P].info.nonce /\ t[P].storage = s[P].storage
                       /\ t[P].status = s[P].status
                       /\ "Touched" \notin s[P].status => t[P] = s[P]

\* Beneath is reflexive.
LEMMA BeneathSame ==
  ASSUME NEW s
  PROVE  Beneath(s, s)
  BY DEF Beneath

\* Beneath is transitive.
LEMMA BeneathTrans ==
  ASSUME NEW s, NEW t, NEW u, Beneath(s, t), Beneath(t, u)
  PROVE  Beneath(s, u)
  <1>1. /\ DOMAIN s \subseteq DOMAIN u
        /\ \A a \in DOMAIN s : "Created" \in s[a].status <=> "Created" \in u[a].status
        /\ P \in DOMAIN u => P \in DOMAIN s
    BY DEF Beneath
  <1>2. ASSUME P \in DOMAIN s
        PROVE  /\ s[P].info.nonce = u[P].info.nonce /\ s[P].storage = u[P].storage
               /\ s[P].status = u[P].status
               /\ "Touched" \notin u[P].status => s[P] = u[P]
    <2>1. P \in DOMAIN t
      BY <1>2 DEF Beneath
    <2>2. QED BY <1>2, <2>1 DEF Beneath
  <1>3. QED BY <1>1, <1>2 DEF Beneath

\* The precompile stays touched in what is left beneath.
LEMMA BeneathTouched ==
  ASSUME NEW s, NEW t, Beneath(t, s), PTouched(s)
  PROVE  PTouched(t)
  BY DEF Beneath, PTouched

\* Undoing one entry leaves a state beneath.
LEMMA UndoBeneath ==
  ASSUME NEW e \in EntryType, NEW s \in States, NamesP(e) => PTouched(s)
  PROVE  Beneath(Undo(e, s), s)
  <1> DEFINE t == Undo(e, s)
  <1>1. UndoneState(e, s, t)
    BY UndoAt
  <1> HIDE DEF t
  <1>2. /\ DOMAIN t = DOMAIN s \ Gone(e)
        /\ \A a \in DOMAIN t : UndoneAccount(e, a, s[a], t[a])
        /\ \A a \in DOMAIN s : s[a].info.nonce \in Int /\ s[a].info.balance \in Int
        /\ P \in DOMAIN t /\ ~NamesP(e) => t[P] = s[P]
    BY <1>1, StatesType, AccountParts DEF UndoneState
  <1>3. ASSUME NEW a \in DOMAIN t
        PROVE  "Created" \in t[a].status <=> "Created" \in s[a].status
    <2>1. t[a].status = StatusBack(e, a, s[a].status)
      BY <1>2 DEF UndoneAccount
    <2>2. QED BY <2>1 DEF StatusBack
  <1>4. P \in DOMAIN s => P \in DOMAIN t
    BY <1>2 DEF Gone
  <1>5. ASSUME P \in DOMAIN t
        PROVE  /\ t[P].info.nonce = s[P].info.nonce /\ t[P].storage = s[P].storage
               /\ t[P].status = s[P].status
               /\ "Touched" \notin s[P].status => t[P] = s[P]
    <2>1. CASE ~NamesP(e)
      BY <1>2, <1>5, <2>1
    <2>2. CASE NamesP(e)
      <3>1. "Touched" \in s[P].status
        BY <2>2 DEF PTouched
      <3>2. UndoneAccount(e, P, s[P], t[P]) /\ s[P].info.nonce \in Int
        BY <1>2, <1>5
      <3>3. Counted(e, P) = 0 /\ StorageBack(e, P, s[P].storage) = s[P].storage
        BY <2>2 DEF NamesP, Counted, StorageBack
      <3>4. e.kind = "AccountDestroyed" => e.address # P
        BY EntryParts
      <3>5. StatusBack(e, P, s[P].status) = s[P].status
        BY <2>2, <3>4 DEF NamesP, StatusBack
      <3>6. QED BY <3>1, <3>2, <3>3, <3>5 DEF UndoneAccount
    <2>3. QED BY <2>1, <2>2
  <1>6. Beneath(t, s)
    BY <1>2, <1>3, <1>4, <1>5 DEF Beneath
  <1>7. QED BY <1>6 DEF t
\* The balance of a in the state s over the database d, and all of them.
Bal(d, s, a) == IF a \in DOMAIN s THEN s[a].info.balance ELSE d[a].info.balance
Wealth(d, s) == Sum([a \in Address |-> Bal(d, s, a)], Address)

\* What a comparison leaves out of P, except that its balance must be the same.
SameP(d, s, t) == (P \in DOMAIN s => P \in DOMAIN t) /\ Bal(d, s, P) = Bal(d, t, P)

\* t is like s as far as entries take changes back.
Alike(d, s, t) == Restored(s, t) /\ SameP(d, s, t)

\* Alike is reflexive.
LEMMA AlikeSame ==
  ASSUME NEW d, NEW s
  PROVE  Alike(d, s, s)
  BY LikeSame DEF Alike, SameP

\* Alike is transitive.
LEMMA AlikeTrans ==
  ASSUME NEW d, NEW s, NEW t, NEW u, Alike(d, s, t), Alike(d, t, u)
  PROVE  Alike(d, s, u)
  BY LikeTrans DEF Alike, SameP

\* An entry that pays P fits a state in which P was loaded and touched.
LEMMA UndoAlike ==
  ASSUME NEW d, NEW e \in EntryType, NEW s \in States, NEW t \in States, Alike(d, s, t),
         NamesP(e) => PTouched(s)
  PROVE  Alike(d, Undo(e, s), Undo(e, t))
  <1> DEFINE p == Undo(e, s)
             q == Undo(e, t)
  <1>1. UndoneState(e, s, p) /\ UndoneState(e, t, q)
    BY UndoAt
  <1>2. Restored(p, q)
    BY UndoLike DEF Alike
  <1> HIDE DEF p, q
  <1>3. /\ DOMAIN p = DOMAIN s \ Gone(e) /\ DOMAIN q = DOMAIN t \ Gone(e) /\ P \notin Gone(e)
        /\ \A a \in DOMAIN p : p[a].info.balance = s[a].info.balance + Credit(e, a)
        /\ \A a \in DOMAIN q : q[a].info.balance = t[a].info.balance + Credit(e, a)
        /\ P \in DOMAIN q /\ ~NamesP(e) => q[P] = t[P]
    BY <1>1 DEF UndoneState, UndoneAccount, Gone
  <1>4. (P \in DOMAIN s => P \in DOMAIN t) /\ Bal(d, s, P) = Bal(d, t, P)
    BY DEF Alike, SameP
  <1>5. ASSUME P \in DOMAIN s PROVE Bal(d, p, P) = Bal(d, q, P)
    BY <1>3, <1>4, <1>5 DEF Bal
  <1>6. ASSUME P \notin DOMAIN s PROVE Bal(d, p, P) = Bal(d, q, P)
    <2>1. ~NamesP(e)
      BY <1>6 DEF PTouched
    <2>2. QED BY <1>3, <1>4, <1>6, <2>1 DEF Bal
  <1>7. SameP(d, p, q)
    <2>1. P \in DOMAIN s => P \in DOMAIN q
      BY <1>3, <1>4
    <2>2. P \in DOMAIN p => P \in DOMAIN s
      BY <1>3
    <2>3. Bal(d, p, P) = Bal(d, q, P)
      BY <1>5, <1>6
    <2>4. QED BY <2>1, <2>2, <2>3 DEF SameP
  <1>8. QED BY <1>2, <1>7 DEF Alike, p, q

-----------------------------------------------------------------------------
(* Undoing a set of entries, last one first                                 *)

\* f[k] is s with the last k entries of es undone.
IsUndone(f, s, es) ==
  f = [k \in 0..Len(es) |-> IF k = 0 THEN s ELSE Undo(es[Len(es) + 1 - k], f[k - 1])]

\* The recursive function of journal_revert exists.
LEMMA UndoneExists ==
  ASSUME NEW s, NEW es \in Seq(EntryType)
  PROVE  \E f : IsUndone(f, s, es) /\ journal_revert(s, es) = f[Len(es)]
  <1> DEFINE N == Len(es)
             E(f, k) == IF k = 0 THEN s ELSE Undo(es[N + 1 - k], f[k - 1])
             S == {n \in Nat : \E f : f = [k \in 0..n |-> E(f, k)]}
             F == CHOOSE f : f = [k \in 0..N |-> E(f, k)]
  <1>1. 0 \in S
    <2> DEFINE f == [k \in 0..0 |-> s]
    <2>1. f = [k \in 0..0 |-> E(f, k)]
      OBVIOUS
    <2>2. QED BY <2>1
  <1>2. ASSUME NEW n \in Nat, n \in S PROVE n + 1 \in S
    <2>1. PICK f : f = [k \in 0..n |-> E(f, k)]
      BY <1>2
    <2> DEFINE g == [k \in 0..(n + 1) |-> IF k = n + 1 THEN E(f, n + 1) ELSE f[k]]
    <2>2. \A k \in 1..(n + 1) : g[k - 1] = f[k - 1]
      OBVIOUS
    <2>3. \A k \in 0..(n + 1) : E(g, k) = E(f, k)
      BY <2>2
    <2>4. \A k \in 0..(n + 1) : g[k] = E(f, k)
      <3> SUFFICES ASSUME NEW k \in 0..(n + 1) PROVE g[k] = E(f, k)
        OBVIOUS
      <3>1. CASE k = n + 1
        BY <3>1
      <3>2. CASE k # n + 1
        <4>1. k \in 0..n /\ g[k] = f[k]
          BY <3>2
        <4> HIDE DEF g, E
        <4>2. QED BY <4>1, <2>1
      <3>3. QED BY <3>1, <3>2
    <2>5. g = [k \in 0..(n + 1) |-> E(g, k)]
      <3>1. g = [k \in 0..(n + 1) |-> g[k]]
        OBVIOUS
      <3> HIDE DEF g, E
      <3>2. QED BY <3>1, <2>3, <2>4
    <2> HIDE DEF g, E
    <2>6. QED BY <2>5
  <1>3. N \in S
    <2> HIDE DEF S
    <2>1. QED BY <1>1, <1>2, Induction
  <1>4. F = [k \in 0..N |-> E(F, k)]
    <2> HIDE DEF E
    <2>1. QED BY <1>3
  <1>5. journal_revert(s, es) = F[N]
    BY DEF journal_revert
  <1>6. IsUndone(F, s, es)
    <2>1. F = [k \in 0..Len(es) |-> IF k = 0 THEN s ELSE Undo(es[Len(es) + 1 - k], F[k - 1])]
      BY <1>4
    <2> HIDE DEF F
    <2>2. QED BY <2>1 DEF IsUndone
  <1> HIDE DEF F
  <1>7. QED BY <1>5, <1>6

\* What IsUndone says, step by step.
LEMMA UndoneSteps ==
  ASSUME NEW f, NEW s, NEW es \in Seq(EntryType), IsUndone(f, s, es)
  PROVE  /\ Len(es) \in Nat /\ f[0] = s /\ f = [k \in 0..Len(es) |-> f[k]]
         /\ \A k \in 1..Len(es) : f[k] = Undo(es[Len(es) + 1 - k], f[k - 1])
  <1> DEFINE N == Len(es)
             E(k) == IF k = 0 THEN s ELSE Undo(es[N + 1 - k], f[k - 1])
  <1>1. f = [k \in 0..N |-> E(k)] /\ N \in Nat
    BY DEF IsUndone
  <1>2. E(0) = s /\ \A k \in 1..N : E(k) = Undo(es[N + 1 - k], f[k - 1])
    OBVIOUS
  <1> HIDE DEF E
  <1>3. f[0] = s /\ f = [k \in 0..N |-> f[k]] /\ \A k \in 1..N : f[k] = E(k)
    BY <1>1, <1>2
  <1>4. QED BY <1>1, <1>2, <1>3

\* There is one such function.
LEMMA UndoneUnique ==
  ASSUME NEW s, NEW es \in Seq(EntryType), NEW f, NEW g, IsUndone(f, s, es), IsUndone(g, s, es)
  PROVE  f = g
  <1> DEFINE N == Len(es)
             S == {n \in Nat : n <= N => f[n] = g[n]}
  <1>1. /\ N \in Nat /\ f[0] = s /\ g[0] = s
        /\ f = [k \in 0..N |-> f[k]] /\ g = [k \in 0..N |-> g[k]]
        /\ \A k \in 1..N : /\ f[k] = Undo(es[N + 1 - k], f[k - 1])
                           /\ g[k] = Undo(es[N + 1 - k], g[k - 1])
    BY UndoneSteps
  <1>2. 0 \in S
    BY <1>1
  <1>3. ASSUME NEW n \in Nat, n \in S PROVE n + 1 \in S
    <2>1. CASE n + 1 <= N
      <3>1. n + 1 \in 1..N /\ (n + 1) - 1 = n /\ f[n] = g[n]
        BY <1>1, <1>3, <2>1
      <3>2. f[n + 1] = g[n + 1]
        BY <1>1, <3>1
      <3>3. QED BY <3>2
    <2>2. CASE ~(n + 1 <= N)
      BY <2>2
    <2>3. QED BY <2>1, <2>2
  <1>4. Nat \subseteq S
    <2> HIDE DEF S
    <2>1. QED BY <1>2, <1>3, Induction
  <1>5. \A k \in 0..N : f[k] = g[k]
    BY <1>1, <1>4
  <1>6. QED BY <1>1, <1>5

\* Undoing no entries changes nothing.
LEMMA RevertNothing ==
  ASSUME NEW s
  PROVE  journal_revert(s, <<>>) = s
  <1>1. <<>> \in Seq(EntryType) /\ Len(<<>>) = 0
    OBVIOUS
  <1>2. PICK f : IsUndone(f, s, <<>>) /\ journal_revert(s, <<>>) = f[Len(<<>>)]
    BY <1>1, UndoneExists
  <1>3. f[0] = s
    BY <1>1, <1>2 DEF IsUndone
  <1>4. QED BY <1>1, <1>2, <1>3

\* The last entry is undone first.
LEMMA RevertAppended ==
  ASSUME NEW s, NEW es \in Seq(EntryType), NEW e \in EntryType
  PROVE  journal_revert(s, Append(es, e)) = journal_revert(Undo(e, s), es)
  <1> DEFINE N  == Len(es)
             fs == Append(es, e)
  <1>1. N \in Nat /\ fs \in Seq(EntryType) /\ Len(fs) = N + 1 /\ fs[N + 1] = e
        /\ \A i \in 1..N : fs[i] = es[i]
    OBVIOUS
  <1> HIDE DEF fs
  <1>2. PICK g : IsUndone(g, Undo(e, s), es) /\ journal_revert(Undo(e, s), es) = g[N]
    BY UndoneExists
  <1>3. PICK f : IsUndone(f, s, fs) /\ journal_revert(s, fs) = f[Len(fs)]
    BY <1>1, UndoneExists
  <1> DEFINE h == [k \in 0..(N + 1) |-> IF k = 0 THEN s ELSE g[k - 1]]
  <1>4. g[0] = Undo(e, s) /\ \A k \in 1..N : g[k] = Undo(es[N + 1 - k], g[k - 1])
    BY <1>2, UndoneSteps
  <1>5. ASSUME NEW k \in 0..(N + 1)
        PROVE  h[k] = IF k = 0 THEN s ELSE Undo(fs[N + 2 - k], h[k - 1])
    <2>1. CASE k = 0
      BY <1>1, <2>1
    <2>2. CASE k = 1
      <3>1. h[k] = g[0] /\ h[k - 1] = s /\ N + 2 - k = N + 1
        BY <1>1, <2>2
      <3> HIDE DEF h
      <3>2. QED BY <1>1, <1>4, <2>2, <3>1
    <2>3. CASE k \in 2..(N + 1)
      <3>1. h[k] = g[k - 1] /\ h[k - 1] = g[k - 2] /\ k - 1 \in 1..N
            /\ N + 1 - (k - 1) = N + 2 - k /\ N + 2 - k \in 1..N /\ (k - 1) - 1 = k - 2
        BY <1>1, <2>3
      <3> HIDE DEF h
      <3>2. g[k - 1] = Undo(es[N + 2 - k], g[k - 2])
        BY <1>4, <3>1
      <3>3. fs[N + 2 - k] = es[N + 2 - k]
        BY <1>1, <3>1
      <3>4. k # 0
        BY <2>3
      <3>5. QED BY <3>1, <3>2, <3>3, <3>4
    <2>4. QED BY <1>1, <2>1, <2>2, <2>3
  <1>6. IsUndone(h, s, fs)
    <2>1. Len(fs) + 1 = N + 2 /\ h = [k \in 0..(N + 1) |-> h[k]]
      BY <1>1
    <2> HIDE DEF h
    <2>2. h = [k \in 0..(N + 1) |-> IF k = 0 THEN s ELSE Undo(fs[N + 2 - k], h[k - 1])]
      BY <1>5, <2>1
    <2>3. 0..Len(fs) = 0..(N + 1) /\ \A k \in 0..(N + 1) : Len(fs) + 1 - k = N + 2 - k
      BY <1>1
    <2> HIDE DEF fs, N
    <2>4. h = [k \in 0..Len(fs) |-> IF k = 0 THEN s ELSE Undo(fs[Len(fs) + 1 - k], h[k - 1])]
      BY <2>2, <2>3
    <2>5. QED BY <2>4 DEF IsUndone
  <1> HIDE DEF h
  <1>7. f = h
    BY <1>1, <1>3, <1>6, UndoneUnique
  <1>8. h[N + 1] = g[N]
    BY <1>1 DEF h
  <1>9. journal_revert(s, fs) = journal_revert(Undo(e, s), es)
    BY <1>1, <1>2, <1>3, <1>7, <1>8
  <1>10. QED BY <1>9 DEF fs

\* The precompile is touched if an entry pays it.
Fits(s, es) == \A n \in 1..Len(es) : NamesP(es[n]) => PTouched(s)

\* Undoing a set of entries leads from states to states.
LEMMA RevertType ==
  ASSUME NEW s \in States, NEW es \in Seq(EntryType)
  PROVE  journal_revert(s, es) \in States
  <1> DEFINE N == Len(es)
  <1>1. PICK f : IsUndone(f, s, es) /\ journal_revert(s, es) = f[N]
    BY UndoneExists
  <1> DEFINE S == {n \in Nat : n <= N => f[n] \in States}
  <1>2. /\ N \in Nat /\ f[0] = s
        /\ \A k \in 1..N : f[k] = Undo(es[N + 1 - k], f[k - 1])
    BY <1>1, UndoneSteps
  <1>3. 0 \in S
    BY <1>2
  <1>4. ASSUME NEW n \in Nat, n \in S PROVE n + 1 \in S
    <2>1. CASE n + 1 <= N
      <3>1. n + 1 \in 1..N /\ (n + 1) - 1 = n /\ f[n] \in States /\ N + 1 - (n + 1) \in 1..N
        BY <1>2, <1>4, <2>1
      <3>2. es[N + 1 - (n + 1)] \in EntryType
        BY <3>1
      <3>3. Undo(es[N + 1 - (n + 1)], f[n]) \in States
        BY <3>1, <3>2, UndoAt DEF UndoneState
      <3>4. f[n + 1] \in States
        BY <1>2, <3>1, <3>3
      <3>5. QED BY <3>4
    <2>2. CASE ~(n + 1 <= N)
      BY <2>2
    <2>3. QED BY <2>1, <2>2
  <1>5. Nat \subseteq S
    <2> HIDE DEF S
    <2>1. QED BY <1>3, <1>4, Induction
  <1>6. QED BY <1>1, <1>2, <1>5

\* Undoing a set of entries leads to a state beneath.
LEMMA RevertBeneath ==
  ASSUME NEW s \in States, NEW es \in Seq(EntryType), Fits(s, es)
  PROVE  Beneath(journal_revert(s, es), s)
  <1> DEFINE N == Len(es)
  <1>1. PICK f : IsUndone(f, s, es) /\ journal_revert(s, es) = f[N]
    BY UndoneExists
  <1> DEFINE S == {n \in Nat : n <= N => f[n] \in States /\ Beneath(f[n], s)}
  <1>2. /\ N \in Nat /\ f[0] = s
        /\ \A k \in 1..N : f[k] = Undo(es[N + 1 - k], f[k - 1])
    BY <1>1, UndoneSteps
  <1>3. 0 \in S
    BY <1>2, BeneathSame
  <1>4. ASSUME NEW n \in Nat, n \in S PROVE n + 1 \in S
    <2>1. CASE n + 1 <= N
      <3> DEFINE e == es[N + 1 - (n + 1)]
      <3>1. n + 1 \in 1..N /\ (n + 1) - 1 = n /\ N + 1 - (n + 1) \in 1..N
            /\ f[n] \in States /\ Beneath(f[n], s)
        BY <1>2, <1>4, <2>1
      <3>2. e \in EntryType
        BY <3>1
      <3>3. f[n + 1] = Undo(e, f[n])
        BY <1>2, <3>1
      <3>4. NamesP(e) => PTouched(f[n])
        BY <3>1, BeneathTouched DEF Fits
      <3> HIDE DEF e
      <3>5. Undo(e, f[n]) \in States
        BY <3>1, <3>2, UndoAt DEF UndoneState
      <3>6. Beneath(Undo(e, f[n]), f[n])
        BY <3>1, <3>2, <3>4, UndoBeneath
      <3>7. Beneath(Undo(e, f[n]), s)
        BY <3>1, <3>6, BeneathTrans
      <3>8. QED BY <3>3, <3>5, <3>7
    <2>2. CASE ~(n + 1 <= N)
      BY <2>2
    <2>3. QED BY <2>1, <2>2
  <1>5. Nat \subseteq S
    <2> HIDE DEF S
    <2>1. QED BY <1>3, <1>4, Induction
  <1>6. QED BY <1>1, <1>2, <1>5

\* Undoing a set of entries leads from like states to like states.
LEMMA RevertAlike ==
  ASSUME NEW d, NEW s \in States, NEW t \in States, NEW es \in Seq(EntryType), Alike(d, s, t),
         Fits(s, es)
  PROVE  Alike(d, journal_revert(s, es), journal_revert(t, es))
  <1> DEFINE N == Len(es)
  <1>1. PICK f : IsUndone(f, s, es) /\ journal_revert(s, es) = f[N]
    BY UndoneExists
  <1>2. PICK g : IsUndone(g, t, es) /\ journal_revert(t, es) = g[N]
    BY UndoneExists
  <1> DEFINE S == {n \in Nat : n <= N => /\ f[n] \in States /\ g[n] \in States
                                           /\ Beneath(f[n], s) /\ Alike(d, f[n], g[n])}
  <1>3. /\ N \in Nat /\ f[0] = s /\ g[0] = t
        /\ \A k \in 1..N : /\ f[k] = Undo(es[N + 1 - k], f[k - 1])
                           /\ g[k] = Undo(es[N + 1 - k], g[k - 1])
    BY <1>1, <1>2, UndoneSteps
  <1>4. 0 \in S
    BY <1>3, BeneathSame
  <1>5. ASSUME NEW n \in Nat, n \in S PROVE n + 1 \in S
    <2>1. CASE n + 1 <= N
      <3> DEFINE e == es[N + 1 - (n + 1)]
      <3>1. n + 1 \in 1..N /\ (n + 1) - 1 = n /\ N + 1 - (n + 1) \in 1..N
            /\ f[n] \in States /\ g[n] \in States /\ Beneath(f[n], s) /\ Alike(d, f[n], g[n])
        BY <1>3, <1>5, <2>1
      <3>2. e \in EntryType
        BY <3>1
      <3>3. f[n + 1] = Undo(e, f[n]) /\ g[n + 1] = Undo(e, g[n])
        BY <1>3, <3>1
      <3>4. NamesP(e) => PTouched(f[n])
        BY <3>1, BeneathTouched DEF Fits
      <3> HIDE DEF e
      <3>5. Undo(e, f[n]) \in States /\ Undo(e, g[n]) \in States
        BY <3>1, <3>2, UndoAt DEF UndoneState
      <3>6. Beneath(Undo(e, f[n]), s)
        <4>1. Beneath(Undo(e, f[n]), f[n])
          BY <3>1, <3>2, <3>4, UndoBeneath
        <4>2. QED BY <3>1, <4>1, BeneathTrans
      <3>7. Alike(d, Undo(e, f[n]), Undo(e, g[n]))
        BY <3>1, <3>2, <3>4, UndoAlike
      <3>8. QED BY <3>3, <3>5, <3>6, <3>7
    <2>2. CASE ~(n + 1 <= N)
      BY <2>2
    <2>3. QED BY <2>1, <2>2
  <1>6. Nat \subseteq S
    <2> HIDE DEF S
    <2>1. QED BY <1>4, <1>5, Induction
  <1>7. QED BY <1>1, <1>2, <1>3, <1>6

-----------------------------------------------------------------------------
(* Undoing the last sets of a journal                                       *)

\* A journal is a sequence of sets (sequences) of entries, one per subroutine.
Journals == Seq(Seq(EntryType))

\* The function of RevertSets, once for every number of sets.
LEMMA RevertSetsExists ==
  ASSUME NEW s, NEW jn \in Journals
  PROVE  \E f : /\ f = [k \in 0..Len(jn) |->
                          IF k = 0 THEN s ELSE journal_revert(f[k - 1], jn[Len(jn) + 1 - k])]
                /\ \A n : RevertSets(s, jn, n) = f[n]
  <1> DEFINE N == Len(jn)
             E(f, k) == IF k = 0 THEN s ELSE journal_revert(f[k - 1], jn[N + 1 - k])
             S == {n \in Nat : \E f : f = [k \in 0..n |-> E(f, k)]}
             F == CHOOSE f : f = [k \in 0..N |-> E(f, k)]
  <1>1. N \in Nat
    BY DEF Journals
  <1>2. 0 \in S
    <2> DEFINE f == [k \in 0..0 |-> s]
    <2>1. f = [k \in 0..0 |-> E(f, k)]
      OBVIOUS
    <2>2. QED BY <2>1
  <1>3. ASSUME NEW n \in Nat, n \in S PROVE n + 1 \in S
    <2>1. PICK f : f = [k \in 0..n |-> E(f, k)]
      BY <1>3
    <2> DEFINE g == [k \in 0..(n + 1) |-> IF k = n + 1 THEN E(f, n + 1) ELSE f[k]]
    <2>2. \A k \in 1..(n + 1) : g[k - 1] = f[k - 1]
      OBVIOUS
    <2>3. \A k \in 0..(n + 1) : E(g, k) = E(f, k)
      BY <2>2
    <2>4. \A k \in 0..(n + 1) : g[k] = E(f, k)
      <3> SUFFICES ASSUME NEW k \in 0..(n + 1) PROVE g[k] = E(f, k)
        OBVIOUS
      <3>1. CASE k = n + 1
        BY <3>1
      <3>2. CASE k # n + 1
        <4>1. k \in 0..n /\ g[k] = f[k]
          BY <3>2
        <4> HIDE DEF g, E
        <4>2. QED BY <4>1, <2>1
      <3>3. QED BY <3>1, <3>2
    <2>5. g = [k \in 0..(n + 1) |-> E(g, k)]
      <3>1. g = [k \in 0..(n + 1) |-> g[k]]
        OBVIOUS
      <3> HIDE DEF g, E
      <3>2. QED BY <3>1, <2>3, <2>4
    <2> HIDE DEF g, E
    <2>6. QED BY <2>5
  <1>4. N \in S
    <2> HIDE DEF S
    <2>1. QED BY <1>1, <1>2, <1>3, Induction
  <1>5. F = [k \in 0..N |-> E(F, k)]
    <2> HIDE DEF E
    <2>1. QED BY <1>4
  <1>6. \A n : RevertSets(s, jn, n) = F[n]
    BY DEF RevertSets
  <1>7. F = [k \in 0..Len(jn) |->
               IF k = 0 THEN s ELSE journal_revert(F[k - 1], jn[Len(jn) + 1 - k])]
    BY <1>5
  <1> HIDE DEF F
  <1>8. QED BY <1>6, <1>7

\* RevertSets undoes the last set first, then the one before it.
LEMMA RevertSetsSteps ==
  ASSUME NEW s, NEW jn \in Journals
  PROVE  /\ Len(jn) \in Nat
         /\ RevertSets(s, jn, 0) = s
         /\ \A n \in 0..(Len(jn) - 1) :
              RevertSets(s, jn, n + 1) = journal_revert(RevertSets(s, jn, n), jn[Len(jn) - n])
  <1>1. Len(jn) \in Nat
    BY DEF Journals
  <1>2. PICK f : /\ f = [k \in 0..Len(jn) |->
                          IF k = 0 THEN s ELSE journal_revert(f[k - 1], jn[Len(jn) + 1 - k])]
                 /\ \A n : RevertSets(s, jn, n) = f[n]
    BY RevertSetsExists
  <1>3. f[0] = s
    BY <1>1, <1>2
  <1>4. ASSUME NEW n \in 0..(Len(jn) - 1)
        PROVE  f[n + 1] = journal_revert(f[n], jn[Len(jn) - n])
    <2>1. n + 1 \in 0..Len(jn) /\ n + 1 # 0 /\ (n + 1) - 1 = n
          /\ Len(jn) + 1 - (n + 1) = Len(jn) - n
      BY <1>1
    <2>2. f[n + 1] = journal_revert(f[(n + 1) - 1], jn[Len(jn) + 1 - (n + 1)])
      BY <1>2, <2>1
    <2>3. QED BY <2>1, <2>2
  <1>5. QED BY <1>1, <1>2, <1>3, <1>4

\* The same, for one number of sets.
LEMMA OneSetMore ==
  ASSUME NEW s, NEW jn \in Journals, NEW N \in Nat, Len(jn) = N, NEW n \in 0..(N - 1)
  PROVE  RevertSets(s, jn, n + 1) = journal_revert(RevertSets(s, jn, n), jn[N - n])
  BY RevertSetsSteps

\* The same, for all of them.
LEMMA EachSetMore ==
  ASSUME NEW s, NEW jn \in Journals
  PROVE  \A n \in 0..(Len(jn) - 1) :
           RevertSets(s, jn, n + 1) = journal_revert(RevertSets(s, jn, n), jn[Len(jn) - n])
  <1> DEFINE N == Len(jn)
  <1>1. N \in Nat
    BY DEF Journals
  <1>2. N = Len(jn)
    OBVIOUS
  <1> HIDE DEF N
  <1>3. QED BY <1>1, <1>2, OneSetMore

\* Every set of a journal is a sequence of entries.
LEMMA JournalSets ==
  ASSUME NEW jn \in Journals
  PROVE  Len(jn) \in Nat /\ \A i \in 1..Len(jn) : jn[i] \in Seq(EntryType)
  BY DEF Journals

\* RevertSets leads from states to states.
LEMMA SetsType ==
  ASSUME NEW s \in States, NEW jn \in Journals
  PROVE  \A n \in 0..Len(jn) : RevertSets(s, jn, n) \in States
  <1> DEFINE N == Len(jn)
             S == {n \in Nat : n <= N => RevertSets(s, jn, n) \in States}
  <1>1. 0 \in S /\ N \in Nat
    BY RevertSetsSteps
  <1>2. ASSUME NEW n \in Nat, n \in S PROVE n + 1 \in S
    <2>1. CASE n + 1 <= N
      <3>1. n \in 0..(N - 1) /\ N - n \in 1..N /\ RevertSets(s, jn, n) \in States
        BY <1>1, <1>2, <2>1
      <3>2. jn[N - n] \in Seq(EntryType)
        BY <3>1, JournalSets
      <3>3. journal_revert(RevertSets(s, jn, n), jn[N - n]) \in States
        BY <3>1, <3>2, RevertType
      <3>4. RevertSets(s, jn, n + 1) \in States
        BY <3>1, <3>3, RevertSetsSteps
      <3>5. QED BY <3>4
    <2>2. CASE ~(n + 1 <= N)
      BY <2>2
    <2>3. QED BY <2>1, <2>2
  <1>3. Nat \subseteq S
    <2> HIDE DEF S
    <2>1. QED BY <1>1, <1>2, Induction
  <1>4. QED BY <1>1, <1>3

\* The precompile is touched if an entry of the journal pays it.
JournalFits(s, jn) == \A i \in 1..Len(jn) : Fits(s, jn[i])

\* RevertSets leads to a state beneath.
LEMMA SetsBeneath ==
  ASSUME NEW s \in States, NEW jn \in Journals, JournalFits(s, jn)
  PROVE  \A n \in 0..Len(jn) : Beneath(RevertSets(s, jn, n), s)
  <1> DEFINE N == Len(jn)
             S == {n \in Nat : n <= N => Beneath(RevertSets(s, jn, n), s)}
  <1>1. 0 \in S /\ N \in Nat
    BY RevertSetsSteps, BeneathSame
  <1>2. ASSUME NEW n \in Nat, n \in S PROVE n + 1 \in S
    <2>1. CASE n + 1 <= N
      <3> DEFINE r == RevertSets(s, jn, n)
                 es == jn[N - n]
      <3>1. n \in 0..(N - 1) /\ N - n \in 1..N /\ n \in 0..N /\ Beneath(r, s)
        BY <1>1, <1>2, <2>1
      <3>2. es \in Seq(EntryType)
        BY <3>1, JournalSets
      <3>3. r \in States
        BY <3>1, SetsType
      <3>4. Fits(s, es)
        BY <3>1 DEF JournalFits
      <3> HIDE DEF r, es
      <3>5. Fits(r, es)
        BY <3>1, <3>4, BeneathTouched DEF Fits
      <3>6. Beneath(journal_revert(r, es), r)
        BY <3>2, <3>3, <3>5, RevertBeneath
      <3>7. Beneath(journal_revert(r, es), s)
        BY <3>1, <3>6, BeneathTrans
      <3>8. RevertSets(s, jn, n + 1) = journal_revert(r, es)
        BY <3>1, RevertSetsSteps DEF r, es
      <3>9. Beneath(RevertSets(s, jn, n + 1), s)
        BY <3>7, <3>8
      <3>10. QED BY <3>9
    <2>2. CASE ~(n + 1 <= N)
      BY <2>2
    <2>3. QED BY <2>1, <2>2
  <1>3. Nat \subseteq S
    <2> HIDE DEF S
    <2>1. QED BY <1>1, <1>2, Induction
  <1>4. QED BY <1>1, <1>3

\* RevertSets leads from like states to like states.
LEMMA SetsAlike ==
  ASSUME NEW d, NEW s \in States, NEW t \in States, NEW jn \in Journals, Alike(d, s, t),
         JournalFits(s, jn)
  PROVE  \A n \in 0..Len(jn) : Alike(d, RevertSets(s, jn, n), RevertSets(t, jn, n))
  <1> DEFINE N == Len(jn)
             S == {n \in Nat : n <= N => Alike(d, RevertSets(s, jn, n), RevertSets(t, jn, n))}
  <1>1. 0 \in S /\ N \in Nat
    BY RevertSetsSteps
  <1>2. ASSUME NEW n \in Nat, n \in S PROVE n + 1 \in S
    <2>1. CASE n + 1 <= N
      <3>1. n \in 0..(N - 1) /\ N - n \in 1..N /\ n \in 0..N
            /\ Alike(d, RevertSets(s, jn, n), RevertSets(t, jn, n))
        BY <1>1, <1>2, <2>1
      <3>2. jn[N - n] \in Seq(EntryType)
        BY <3>1, JournalSets
      <3>3. RevertSets(s, jn, n) \in States /\ RevertSets(t, jn, n) \in States
        BY <3>1, SetsType
      <3>4. Alike(d, journal_revert(RevertSets(s, jn, n), jn[N - n]),
                     journal_revert(RevertSets(t, jn, n), jn[N - n]))
        <4>1. Fits(s, jn[N - n]) /\ Beneath(RevertSets(s, jn, n), s)
          BY <3>1, SetsBeneath DEF JournalFits
        <4>2. Fits(RevertSets(s, jn, n), jn[N - n])
          BY <4>1, BeneathTouched DEF Fits
        <4>3. QED BY <3>1, <3>2, <3>3, <4>2, RevertAlike
      <3>5. /\ RevertSets(s, jn, n + 1) = journal_revert(RevertSets(s, jn, n), jn[N - n])
            /\ RevertSets(t, jn, n + 1) = journal_revert(RevertSets(t, jn, n), jn[N - n])
        BY <3>1, RevertSetsSteps
      <3>6. Alike(d, RevertSets(s, jn, n + 1), RevertSets(t, jn, n + 1))
        BY <3>4, <3>5
      <3>7. QED BY <3>6
    <2>2. CASE ~(n + 1 <= N)
      BY <2>2
    <2>3. QED BY <2>1, <2>2
  <1>3. Nat \subseteq S
    <2> HIDE DEF S
    <2>1. QED BY <1>1, <1>2, Induction
  <1>4. QED BY <1>1, <1>3

\* An entry at the end of the last set is undone before the rest.
LEMMA SetsPushed ==
  ASSUME NEW s, NEW jn \in Journals, jn # <<>>, NEW e \in EntryType,
         NEW km, km = [jn EXCEPT ![Len(jn)] = Append(@, e)]
  PROVE  /\ km \in Journals /\ Len(km) = Len(jn)
         /\ \A n \in 1..Len(jn) : RevertSets(s, km, n) = RevertSets(Undo(e, s), jn, n)
  <1> DEFINE N == Len(jn)
             S == {n \in Nat : n + 1 <= N =>
                        RevertSets(s, km, n + 1) = RevertSets(Undo(e, s), jn, n + 1)}
  <1>1. /\ N \in Nat /\ N >= 1 /\ jn \in Seq(Seq(EntryType))
        /\ jn[N] \in Seq(EntryType) /\ Append(jn[N], e) \in Seq(EntryType)
    BY DEF Journals
  <1>2. /\ km \in Seq(Seq(EntryType)) /\ Len(km) = N
        /\ km[N] = Append(jn[N], e) /\ \A i \in 1..(N - 1) : km[i] = jn[i]
    BY <1>1
  <1>3. km \in Journals
    BY <1>2 DEF Journals
  <1>4. \A n \in 0..(N - 1) :
          RevertSets(s, km, n + 1) = journal_revert(RevertSets(s, km, n), km[N - n])
    <2>1. Len(km) = N
      BY <1>2
    <2>2. \A n \in 0..(Len(km) - 1) :
            RevertSets(s, km, n + 1) = journal_revert(RevertSets(s, km, n), km[Len(km) - n])
      BY <1>3, EachSetMore
    <2> HIDE DEF N, S
    <2>3. QED BY <2>1, <2>2
  <1>5. \A n \in 0..(N - 1) : RevertSets(Undo(e, s), jn, n + 1)
                              = journal_revert(RevertSets(Undo(e, s), jn, n), jn[N - n])
    BY EachSetMore
  <1>6. 0 \in S
    <2>1. 0 \in 0..(N - 1) /\ N - 0 = N /\ 0 + 1 = 1
      BY <1>1
    <2>2. RevertSets(s, km, 0) = s /\ RevertSets(Undo(e, s), jn, 0) = Undo(e, s)
      BY <1>3, RevertSetsSteps
    <2>3. RevertSets(s, km, 0 + 1) = journal_revert(RevertSets(s, km, 0), km[N - 0])
      BY <1>4, <2>1
    <2>4. RevertSets(Undo(e, s), jn, 0 + 1)
            = journal_revert(RevertSets(Undo(e, s), jn, 0), jn[N - 0])
      BY <1>5, <2>1
    <2>5. /\ RevertSets(s, km, 1) = journal_revert(s, km[N])
          /\ RevertSets(Undo(e, s), jn, 1) = journal_revert(Undo(e, s), jn[N])
      BY <2>1, <2>2, <2>3, <2>4
    <2>6. journal_revert(s, km[N]) = journal_revert(Undo(e, s), jn[N])
      <3>1. km[N] = Append(jn[N], e) /\ jn[N] \in Seq(EntryType)
        BY <1>1, <1>2
      <3> HIDE DEF N, S
      <3>2. QED BY <3>1, RevertAppended
    <2>7. QED BY <2>1, <2>5, <2>6, <2>2
  <1>7. ASSUME NEW n \in Nat, n \in S PROVE n + 1 \in S
    <2>1. CASE (n + 1) + 1 <= N
      <3>1. n + 1 \in 0..(N - 1) /\ N - (n + 1) \in 1..(N - 1)
            /\ RevertSets(s, km, n + 1) = RevertSets(Undo(e, s), jn, n + 1)
        BY <1>1, <1>7, <2>1
      <3>2. RevertSets(s, km, (n + 1) + 1)
              = journal_revert(RevertSets(s, km, n + 1), km[N - (n + 1)])
        BY <1>4, <3>1
      <3>3. RevertSets(Undo(e, s), jn, (n + 1) + 1)
              = journal_revert(RevertSets(Undo(e, s), jn, n + 1), jn[N - (n + 1)])
        BY <1>5, <3>1
      <3>4. km[N - (n + 1)] = jn[N - (n + 1)]
        BY <1>2, <3>1
      <3>5. RevertSets(s, km, (n + 1) + 1) = RevertSets(Undo(e, s), jn, (n + 1) + 1)
        BY <3>1, <3>2, <3>3, <3>4
      <3>6. QED BY <3>5
    <2>2. CASE ~((n + 1) + 1 <= N)
      BY <2>2
    <2>3. QED BY <2>1, <2>2
  <1>8. Nat \subseteq S
    <2> HIDE DEF S
    <2>1. QED BY <1>6, <1>7, Induction
  <1>9. ASSUME NEW n \in 1..N PROVE RevertSets(s, km, n) = RevertSets(Undo(e, s), jn, n)
    <2>1. n - 1 \in Nat /\ (n - 1) + 1 = n /\ n <= N
      BY <1>1
    <2>2. n - 1 \in S
      BY <1>8, <2>1
    <2>3. QED BY <2>1, <2>2
  <1>10. QED BY <1>2, <1>3, <1>9

\* An empty set at the end makes no difference.
LEMMA SetsOpened ==
  ASSUME NEW s, NEW jn \in Journals
  PROVE  LET km == Append(jn, <<>>)
         IN /\ km \in Journals /\ Len(km) = Len(jn) + 1
            /\ \A n \in 0..Len(jn) : RevertSets(s, km, n + 1) = RevertSets(s, jn, n)
  <1> DEFINE N == Len(jn)
             km == Append(jn, <<>>)
             S == {n \in Nat : n <= N => RevertSets(s, km, n + 1) = RevertSets(s, jn, n)}
  <1>1. N \in Nat /\ jn \in Seq(Seq(EntryType))
    BY DEF Journals
  <1>2. /\ km \in Seq(Seq(EntryType)) /\ Len(km) = N + 1
        /\ km[N + 1] = <<>> /\ \A i \in 1..N : km[i] = jn[i]
    BY <1>1
  <1>3. km \in Journals
    BY <1>2 DEF Journals
  <1> HIDE DEF km
  <1>4. \A n \in 0..N :
          RevertSets(s, km, n + 1) = journal_revert(RevertSets(s, km, n), km[N + 1 - n])
    <2> DEFINE M == N + 1
    <2>1. M \in Nat /\ Len(km) = M /\ 0..N = 0..(M - 1)
      BY <1>1, <1>2
    <2> HIDE DEF M
    <2>2. \A n \in 0..(M - 1) :
            RevertSets(s, km, n + 1) = journal_revert(RevertSets(s, km, n), km[M - n])
      BY <1>3, <2>1, OneSetMore
    <2>3. QED BY <2>1, <2>2 DEF M
  <1>5. 0 \in S
    <2>1. 0 \in 0..(Len(km) - 1) /\ Len(km) - 0 = N + 1
      BY <1>1, <1>2
    <2>2. RevertSets(s, km, 0 + 1) = journal_revert(RevertSets(s, km, 0), km[N + 1 - 0])
      BY <1>1, <1>4
    <2>3. RevertSets(s, km, 0 + 1) = journal_revert(s, km[N + 1])
      BY <1>1, <1>3, <2>2, RevertSetsSteps
    <2>4. RevertSets(s, km, 0 + 1) = s
      BY <1>2, <2>3, RevertNothing
    <2>5. QED BY <2>4, RevertSetsSteps
  <1>6. ASSUME NEW n \in Nat, n \in S PROVE n + 1 \in S
    <2>1. CASE n + 1 <= N
      <3>1. n + 1 \in 0..(Len(km) - 1) /\ n \in 0..(N - 1)
            /\ Len(km) - (n + 1) = N - n /\ N + 1 - (n + 1) = N - n /\ N - n \in 1..N
            /\ RevertSets(s, km, n + 1) = RevertSets(s, jn, n)
        BY <1>1, <1>2, <1>6, <2>1
      <3>2. RevertSets(s, km, (n + 1) + 1) =
              journal_revert(RevertSets(s, km, n + 1), km[N + 1 - (n + 1)])
        BY <1>1, <1>4, <3>1
      <3>3. RevertSets(s, jn, n + 1) = journal_revert(RevertSets(s, jn, n), jn[N - n])
        BY <3>1, RevertSetsSteps
      <3>4. RevertSets(s, km, (n + 1) + 1) = RevertSets(s, jn, n + 1)
        BY <1>2, <3>1, <3>2, <3>3
      <3>5. QED BY <3>4
    <2>2. CASE ~(n + 1 <= N)
      BY <2>2
    <2>3. QED BY <2>1, <2>2
  <1>7. Nat \subseteq S
    <2> HIDE DEF S
    <2>1. QED BY <1>5, <1>6, Induction
  <1>8. \A n \in 0..N : RevertSets(s, km, n + 1) = RevertSets(s, jn, n)
    BY <1>1, <1>7
  <1>9. QED BY <1>2, <1>3, <1>8 DEF km

\* What is left of a journal after a revert takes the state the same way back.
LEMMA SetsCut ==
  ASSUME NEW s, NEW jn \in Journals, NEW c \in 0..Len(jn)
  PROVE  LET km == SubSeq(jn, 1, c)
             m  == Len(jn) - c
         IN /\ km \in Journals /\ Len(km) = c
            /\ \A i \in 1..c : km[i] = jn[i]
            /\ \A n \in 0..c : RevertSets(RevertSets(s, jn, m), km, n) = RevertSets(s, jn, m + n)
  <1> DEFINE N == Len(jn)
             km == SubSeq(jn, 1, c)
             m  == N - c
             r  == RevertSets(s, jn, m)
             S == {n \in Nat : n <= c => RevertSets(r, km, n) = RevertSets(s, jn, m + n)}
  <1>1. N \in Nat /\ jn \in Seq(Seq(EntryType)) /\ c \in Nat /\ c <= N /\ m \in Nat
    BY DEF Journals
  <1>2. /\ km \in Seq(Seq(EntryType)) /\ Len(km) = c /\ \A i \in 1..c : km[i] = jn[i]
    BY <1>1
  <1>3. km \in Journals
    BY <1>2 DEF Journals
  <1> HIDE DEF km
  <1>4. 0 \in S
    BY <1>1, <1>3, RevertSetsSteps
  <1>5. ASSUME NEW n \in Nat, n \in S PROVE n + 1 \in S
    <2>1. CASE n + 1 <= c
      <3>1. n \in 0..(c - 1) /\ c - n \in 1..c /\ m + n \in 0..(N - 1) /\ N - (m + n) = c - n
            /\ m + (n + 1) = (m + n) + 1 /\ RevertSets(r, km, n) = RevertSets(s, jn, m + n)
        BY <1>1, <1>5, <2>1
      <3> HIDE DEF r, m
      <3>2. RevertSets(r, km, n + 1) = journal_revert(RevertSets(r, km, n), km[c - n])
        BY <1>2, <1>3, <3>1, OneSetMore
      <3>3. RevertSets(s, jn, (m + n) + 1)
              = journal_revert(RevertSets(s, jn, m + n), jn[N - (m + n)])
        BY <3>1, RevertSetsSteps
      <3>4. RevertSets(r, km, n + 1) = RevertSets(s, jn, m + (n + 1))
        BY <1>2, <3>1, <3>2, <3>3
      <3>5. QED BY <3>4
    <2>2. CASE ~(n + 1 <= c)
      BY <2>2
    <2>3. QED BY <2>1, <2>2
  <1>6. Nat \subseteq S
    <2> HIDE DEF S
    <2>1. QED BY <1>4, <1>5, Induction
  <1>7. \A n \in 0..c : RevertSets(r, km, n) = RevertSets(s, jn, m + n)
    BY <1>1, <1>6
  <1>8. QED BY <1>2, <1>3, <1>7 DEF km

-----------------------------------------------------------------------------
(* Sums of balances                                                         *)

\* The database holds no debts.
Funded(d) == \A a \in Address : d[a].info.balance \in Nat

\* Who is marked as destroyed in t was so in s.
Intact(s, t) == \A a \in DOMAIN t : "SelfDestructed" \in t[a].status =>
                   a \in DOMAIN s /\ "SelfDestructed" \in s[a].status

\* No value is made on the way from s to t, and none is lost unless something
\* was destroyed.
Frugal(d, s, t) ==
  /\ Wealth(d, t) <= Wealth(d, s)
  /\ ~burnt' => Wealth(d, t) = Wealth(d, s) /\ Intact(s, t)

\* Wealth is an integer, and so is every balance.
LEMMA WealthType ==
  ASSUME NEW d, Funded(d), NEW s \in States
  PROVE  /\ Wealth(d, s) \in Int
         /\ Ints([a \in Address |-> Bal(d, s, a)], Address)
         /\ \A a \in Address : Bal(d, s, a) \in Int
  <1>1. \A a \in Address : Bal(d, s, a) \in Int
    BY StatesType, AccountParts DEF Bal, Funded
  <1> DEFINE f == [a \in Address |-> Bal(d, s, a)]
  <1>2. Ints(f, Address)
    BY <1>1 DEF Ints
  <1>3. Wealth(d, s) = Sum(f, Address)
    BY DEF Wealth
  <1> HIDE DEF f
  <1>4. Sum(f, Address) \in Int
    BY <1>2, SumType, ConstAssumption
  <1>5. QED BY <1>1, <1>2, <1>3, <1>4 DEF f

\* States with the same balances have the same wealth.
LEMMA WealthSame ==
  ASSUME NEW d, Funded(d), NEW c, NEW s \in States, NEW t,
         \A a \in Address : Bal(d, s, a) = Bal(c, t, a)
  PROVE  Wealth(d, s) = Wealth(c, t)
  BY DEF Wealth

\* Smaller balances are less wealth.
LEMMA WealthLess ==
  ASSUME NEW d, Funded(d), NEW s \in States, NEW c, Funded(c), NEW t \in States,
         \A a \in Address : Bal(d, s, a) <= Bal(c, t, a)
  PROVE  Wealth(d, s) <= Wealth(c, t)
  <1> DEFINE f == [a \in Address |-> Bal(d, s, a)]
             g == [a \in Address |-> Bal(c, t, a)]
  <1>1. Ints(f, Address) /\ Ints(g, Address)
    BY WealthType
  <1>2. \A a \in Address : f[a] <= g[a]
    OBVIOUS
  <1>3. Wealth(d, s) = Sum(f, Address) /\ Wealth(c, t) = Sum(g, Address)
    BY DEF Wealth
  <1> HIDE DEF f, g
  <1>4. Sum(f, Address) <= Sum(g, Address)
    BY <1>1, <1>2, SumLess, ConstAssumption
  <1>5. QED BY <1>3, <1>4

\* One balance changed.
LEMMA WealthOne ==
  ASSUME NEW d, Funded(d), NEW s \in States, NEW t \in States, NEW a \in Address,
         \A b \in Address : b # a => Bal(d, t, b) = Bal(d, s, b)
  PROVE  Wealth(d, t) = Wealth(d, s) + (Bal(d, t, a) - Bal(d, s, a))
  <1> DEFINE f == [b \in Address |-> Bal(d, s, b)]
             g == [b \in Address |-> Bal(d, t, b)]
  <1>1. Ints(f, Address) /\ Ints(g, Address)
    BY WealthType
  <1>2. \A b \in Address : b # a => f[b] = g[b]
    OBVIOUS
  <1>3. /\ Wealth(d, s) = Sum(f, Address) /\ Wealth(d, t) = Sum(g, Address)
        /\ f[a] = Bal(d, s, a) /\ g[a] = Bal(d, t, a)
    BY DEF Wealth
  <1> HIDE DEF f, g
  <1>4. Sum(g, Address) = Sum(f, Address) + (g[a] - f[a])
    BY <1>1, <1>2, SumOne, ConstAssumption
  <1>5. QED BY <1>3, <1>4

\* A payment from a to b.
LEMMA WealthPaid ==
  ASSUME NEW d, Funded(d), NEW s \in States, NEW t, NEW a \in Address, NEW b \in Address,
         NEW v \in Int,
         \A x \in Address : Bal(d, t, x) =
           Bal(d, s, x) + ((IF x = b THEN v ELSE 0) - (IF x = a THEN v ELSE 0))
  PROVE  Wealth(d, t) = Wealth(d, s)
  <1> DEFINE f == [x \in Address |-> Bal(d, s, x)]
             g == [x \in Address |-> Bal(d, t, x)]
  <1>1. Ints(f, Address)
    BY WealthType
  <1>2. \A x \in Address :
          g[x] = f[x] + ((IF x = b THEN v ELSE 0) - (IF x = a THEN v ELSE 0))
    OBVIOUS
  <1>3. Wealth(d, s) = Sum(f, Address) /\ Wealth(d, t) = Sum(g, Address)
    BY DEF Wealth
  <1> HIDE DEF f, g
  <1>4. Sum(g, Address) = Sum(f, Address)
    <2>1. IsFiniteSet(Address)
      BY ConstAssumption
    <2>2. Transferred(f, g, Address, a, b, v)
      BY <1>2 DEF Transferred
    <2>3. QED BY <1>1, <2>1, <2>2, SumPaid
  <1>5. QED BY <1>3, <1>4

\* Frugal is reflexive.
LEMMA FrugalSame ==
  ASSUME NEW d, Funded(d), NEW s \in States
  PROVE  Frugal(d, s, s)
  <1>1. Wealth(d, s) \in Int
    BY WealthType
  <1>2. QED BY <1>1 DEF Frugal, Intact

\* Frugal is transitive.
LEMMA FrugalTrans ==
  ASSUME NEW d, Funded(d), NEW s \in States, NEW t \in States, NEW u \in States,
         Frugal(d, s, t), Frugal(d, t, u)
  PROVE  Frugal(d, s, u)
  <1>1. Wealth(d, s) \in Int /\ Wealth(d, t) \in Int /\ Wealth(d, u) \in Int
    BY WealthType
  <1>2. QED BY <1>1 DEF Frugal, Intact

\* A change that moves no value and destroys nothing.
LEMMA FrugalAs ==
  ASSUME NEW d, Funded(d), NEW s \in States, NEW t \in States, Intact(s, t),
         \A a \in Address : Bal(d, s, a) = Bal(d, t, a)
  PROVE  Frugal(d, s, t)
  <1>1. Wealth(d, s) = Wealth(d, t)
    BY WealthSame
  <1>2. Wealth(d, s) \in Int
    BY WealthType
  <1>3. QED BY <1>1, <1>2 DEF Frugal

\* A payment is frugal.
LEMMA FrugalPaid ==
  ASSUME NEW d, Funded(d), NEW s \in States, NEW t \in States, Intact(s, t),
         NEW a \in Address, NEW b \in Address, NEW v \in Int,
         \A x \in Address : Bal(d, t, x) =
           Bal(d, s, x) + ((IF x = b THEN v ELSE 0) - (IF x = a THEN v ELSE 0))
  PROVE  Frugal(d, s, t)
  <1>1. Wealth(d, t) = Wealth(d, s)
    BY WealthPaid
  <1>2. Wealth(d, s) \in Int
    BY WealthType
  <1>3. QED BY <1>1, <1>2 DEF Frugal

\* Alike states have the same balances.
LEMMA AlikeBal ==
  ASSUME NEW d, NEW s, NEW t, Alike(d, s, t), NEW a
  PROVE  Bal(d, s, a) = Bal(d, t, a)
  <1>1. CASE a = P
    BY <1>1 DEF Alike, SameP
  <1>2. CASE a # P /\ a \in DOMAIN s
    <2>1. a \in DOMAIN t /\ Essence(t[a]) = Essence(s[a])
      BY <1>2 DEF Alike, Restored, P
    <2>2. t[a].info.balance = s[a].info.balance
      BY <2>1, EssenceParts
    <2>3. QED BY <1>2, <2>1, <2>2 DEF Bal
  <1>3. CASE a # P /\ a \notin DOMAIN s
    <2>1. a \notin DOMAIN t
      BY <1>3 DEF Alike, Restored, P
    <2>2. QED BY <1>3, <2>1 DEF Bal
  <1>4. QED BY <1>1, <1>2, <1>3

\* Going on to k and back again is frugal.
LEMMA FrugalBack ==
  ASSUME NEW d, Funded(d), NEW s \in States, NEW k, NEW t \in States, Alike(d, s, t),
         Beneath(t, k), Frugal(d, s, k)
  PROVE  Frugal(d, s, t) /\ Wealth(d, s) = Wealth(d, t)
  <1>1. Wealth(d, s) = Wealth(d, t) /\ Wealth(d, s) \in Int
    <2>1. \A a \in Address : Bal(d, s, a) = Bal(d, t, a)
      BY AlikeBal
    <2>2. Wealth(d, s) = Wealth(d, t)
      BY <2>1, WealthSame
    <2>3. QED BY <2>2, WealthType
  <1>2. ASSUME ~burnt', NEW a \in DOMAIN t, "SelfDestructed" \in t[a].status
        PROVE  a \in DOMAIN s /\ "SelfDestructed" \in s[a].status
    <2>1. CASE a = P
      <3>1. a \in DOMAIN k /\ "SelfDestructed" \in k[a].status
        BY <1>2, <2>1 DEF Beneath
      <3>2. QED BY <1>2, <3>1 DEF Frugal, Intact
    <2>2. CASE a # P
      <3>1. a \in DOMAIN s /\ Essence(t[a]) = Essence(s[a])
        BY <2>2 DEF Alike, Restored, P
      <3>2. t[a].status \intersect Marks = s[a].status \intersect Marks
        BY <3>1, EssenceParts
      <3>3. QED BY <1>2, <3>1, <3>2 DEF Marks
    <2>3. QED BY <2>1, <2>2
  <1>3. ~burnt' => Intact(s, t)
    BY <1>2 DEF Intact
  <1>4. QED BY <1>1, <1>3 DEF Frugal

-----------------------------------------------------------------------------
(* Journaled states that a running transaction can be in                    *)

\* The journaled states of the right type.
JState == [state : States, logs : Nat, depth : Int, journal : Journals]

\* An account is as the database has it until it is touched, and an account
\* without a nonce has no storage but zeros (the coinbase, loaded bare, none).
NiceAccount(d, a, acc) ==
  /\ acc.info.nonce \in 0..MaxNonce /\ acc.info.balance \in Nat
  /\ "Touched" \notin acc.status =>
       /\ acc.info.balance = d[a].info.balance
       /\ acc.info.nonce = d[a].info.nonce
       /\ "SelfDestructed" \notin acc.status
       /\ \A k \in DOMAIN acc.storage : acc.storage[k].present_value = db_storage(d, a, k)
  /\ acc.info.nonce = 0 =>
       /\ d[a].info.nonce = 0
       /\ \A k \in DOMAIN acc.storage : acc.storage[k].present_value = 0
       /\ a = coinbase => DOMAIN acc.storage = {}

\* Every loaded account of s is nice.
Nice(s, d) == \A a \in DOMAIN s : NiceAccount(d, a, s[a])

\* A journaled state between two operations of a transaction.
Good(j, d) ==
  /\ j \in JState /\ j.journal # <<>>
  /\ JournalFits(j.state, j.journal)
  /\ Nice(j.state, d) /\ Funded(d)

\* t has what running code relies on in s: loaded accounts, their marks, and
\* no account with a nonce is created anew.
Keeps(s, t) ==
  \A a \in DOMAIN s :
    /\ a \in DOMAIN t
    /\ "Touched" \in s[a].status => "Touched" \in t[a].status
    /\ s[a].info.nonce >= 1 =>
         /\ t[a].info.nonce >= 1
         /\ "Created" \in t[a].status => "Created" \in s[a].status

\* The state that a revert to i sets of the journal leads to.
RevertTo(j, i) == RevertSets(j.state, j.journal, Len(j.journal) - i)

\* k comes after j: every set but the last one leads back to the same states,
\* and no value is made.
Grows(j, k, d) ==
  /\ Len(j.journal) <= Len(k.journal) /\ j.logs <= k.logs
  /\ \A i \in 1..(Len(j.journal) - 1) : Alike(d, RevertTo(j, i), RevertTo(k, i))
  /\ Keeps(j.state, k.state) /\ Frugal(d, j.state, k.state)

\* Keeps is reflexive.
LEMMA KeepsSame ==
  ASSUME NEW s
  PROVE  Keeps(s, s)
  BY DEF Keeps

\* Keeps is transitive.
LEMMA KeepsTrans ==
  ASSUME NEW s, NEW t, NEW u, Keeps(s, t), Keeps(t, u)
  PROVE  Keeps(s, u)
  BY DEF Keeps

\* It keeps the precompile touched.
LEMMA KeepsTouched ==
  ASSUME NEW s, NEW t, Keeps(s, t), PTouched(s)
  PROVE  PTouched(t)
  BY DEF Keeps, PTouched

\* The parts of a journaled state have their types.
LEMMA JStateParts ==
  ASSUME NEW j \in JState
  PROVE  /\ j.state \in States /\ j.logs \in Nat /\ j.depth \in Int /\ j.journal \in Journals
         /\ Len(j.journal) \in Nat
         /\ j.journal # <<>> => Len(j.journal) >= 1
         /\ j = [state |-> j.state, logs |-> j.logs, depth |-> j.depth, journal |-> j.journal]
  BY DEF JState, Journals

\* Grows is reflexive.
LEMMA GrowsSame ==
  ASSUME NEW j \in JState, NEW d, Funded(d)
  PROVE  Grows(j, j, d)
  BY JStateParts, KeepsSame, AlikeSame, FrugalSame DEF Grows

\* Grows is transitive.
LEMMA GrowsTrans ==
  ASSUME NEW j \in JState, NEW k \in JState, NEW l \in JState, NEW d, Funded(d),
         Grows(j, k, d), Grows(k, l, d)
  PROVE  Grows(j, l, d)
  <1>1. /\ Len(j.journal) \in Nat /\ Len(k.journal) \in Nat /\ Len(l.journal) \in Nat
        /\ j.logs \in Nat /\ k.logs \in Nat /\ l.logs \in Nat
    BY JStateParts
  <1>2. /\ Len(j.journal) <= Len(l.journal) /\ j.logs <= l.logs
    BY <1>1 DEF Grows
  <1>3. ASSUME NEW i \in 1..(Len(j.journal) - 1)
        PROVE  Alike(d, RevertTo(j, i), RevertTo(l, i))
    <2>1. i \in 1..(Len(k.journal) - 1)
      BY <1>1 DEF Grows
    <2>2. Alike(d, RevertTo(j, i), RevertTo(k, i)) /\ Alike(d, RevertTo(k, i), RevertTo(l, i))
      BY <2>1 DEF Grows
    <2>3. QED BY <2>2, AlikeTrans
  <1>4. Keeps(j.state, l.state) /\ Frugal(d, j.state, l.state)
    <2>1. Keeps(j.state, l.state)
      BY KeepsTrans DEF Grows
    <2>2. j.state \in States /\ k.state \in States /\ l.state \in States
      BY JStateParts
    <2>3. Frugal(d, j.state, l.state)
      BY <2>2, FrugalTrans DEF Grows
    <2>4. QED BY <2>1, <2>3
  <1>5. QED BY <1>2, <1>3, <1>4 DEF Grows

\* A journaled state with another state, and with one entry more.
With(j, t) == [state |-> t, logs |-> j.logs, depth |-> j.depth, journal |-> j.journal]
Pushed(j, e) == [j.journal EXCEPT ![Len(j.journal)] = Append(@, e)]
Put(j, t, e) == [state |-> t, logs |-> j.logs, depth |-> j.depth, journal |-> Pushed(j, e)]

\* What a step from j leads to, at the same depth.
Step(j, k, d) ==
  Good(k, d) /\ Grows(j, k, d) /\ k.depth = j.depth /\ Len(k.journal) = Len(j.journal)

\* Step is reflexive.
LEMMA StepSame ==
  ASSUME NEW j, NEW d, Good(j, d)
  PROVE  Step(j, j, d)
  BY GrowsSame DEF Step, Good

\* Step is transitive.
LEMMA StepTrans ==
  ASSUME NEW j, NEW k, NEW l, NEW d, Good(j, d), Step(j, k, d), Step(k, l, d)
  PROVE  Step(j, l, d)
  BY GrowsTrans DEF Step, Good

\* A change that no comparison can see needs no entry.
LEMMA StepUnseen ==
  ASSUME NEW j, NEW d, Good(j, d), NEW t \in States, Alike(d, j.state, t), Keeps(j.state, t),
         Nice(t, d), Frugal(d, j.state, t)
  PROVE  Step(j, With(j, t), d)
  <1> DEFINE k == With(j, t)
  <1>1. /\ j \in JState /\ j.state \in States /\ j.journal \in Journals /\ j.journal # <<>>
        /\ j.logs \in Nat /\ j.depth \in Int /\ Len(j.journal) \in Nat
    BY JStateParts DEF Good
  <1>2. /\ k \in JState /\ k.state = t /\ k.journal = j.journal /\ k.logs = j.logs
        /\ k.depth = j.depth
    BY <1>1 DEF With, JState
  <1> HIDE DEF k
  <1>3. JournalFits(t, j.journal)
    BY KeepsTouched DEF Good, JournalFits, Fits
  <1>4. Good(k, d)
    BY <1>1, <1>2, <1>3 DEF Good
  <1>5. ASSUME NEW i \in 1..(Len(j.journal) - 1)
        PROVE  Alike(d, RevertTo(j, i), RevertTo(k, i))
    <2>1. Len(j.journal) - i \in 0..Len(j.journal)
      BY <1>1
    <2>2. JournalFits(j.state, j.journal)
      BY DEF Good
    <2>3. Alike(d, RevertSets(j.state, j.journal, Len(j.journal) - i),
                   RevertSets(t, j.journal, Len(j.journal) - i))
      BY <1>1, <2>1, <2>2, SetsAlike
    <2>4. QED BY <1>2, <2>3 DEF RevertTo
  <1>6. Grows(j, k, d)
    BY <1>1, <1>2, <1>5 DEF Grows
  <1>7. Step(j, k, d)
    BY <1>2, <1>4, <1>6 DEF Step
  <1>8. QED BY <1>7 DEF k

\* A change that its entry takes back.
LEMMA StepJournaled ==
  ASSUME NEW j, NEW d, Good(j, d), NEW t \in States, NEW e \in EntryType,
         Alike(d, j.state, Undo(e, t)), Keeps(j.state, t), Nice(t, d), NamesP(e) => PTouched(t),
         Frugal(d, j.state, t)
  PROVE  Step(j, Put(j, t, e), d)
  <1> DEFINE k == Put(j, t, e)
             jn == j.journal
             km == Pushed(j, e)
             N  == Len(jn)
  <1>1. /\ j \in JState /\ j.state \in States /\ jn \in Journals /\ jn # <<>>
        /\ j.logs \in Nat /\ j.depth \in Int /\ N \in Nat /\ N >= 1
        /\ km = [jn EXCEPT ![Len(jn)] = Append(@, e)]
    BY JStateParts DEF Good, Pushed
  <1>2. /\ km \in Journals /\ Len(km) = N
        /\ \A n \in 1..N : RevertSets(t, km, n) = RevertSets(Undo(e, t), jn, n)
    <2> HIDE DEF km, jn
    <2>1. QED BY <1>1, SetsPushed
  <1>3. /\ k \in JState /\ k.state = t /\ k.journal = km /\ k.logs = j.logs /\ k.depth = j.depth
    <2> HIDE DEF km
    <2>1. k = [state |-> t, logs |-> j.logs, depth |-> j.depth, journal |-> km]
      BY DEF Put, km
    <2> HIDE DEF k
    <2>2. QED BY <1>1, <1>2, <2>1 DEF JState
  <1>4. km # <<>>
    <2> HIDE DEF km
    <2>1. QED BY <1>1, <1>2
  <1>5. ASSUME NEW i \in 1..Len(km) PROVE Fits(t, km[i])
    <2>1. jn \in Seq(Seq(EntryType)) /\ i \in 1..N
      BY <1>1, <1>2 DEF Journals
    <2>2. Fits(t, jn[i])
      BY <2>1, KeepsTouched DEF Good, JournalFits, Fits
    <2>3. CASE i = N
      <3>1. km[i] = Append(jn[i], e) /\ jn[i] \in Seq(EntryType)
        BY <1>1, <2>1, <2>3
      <3>2. Len(km[i]) = Len(jn[i]) + 1 /\ km[i][Len(jn[i]) + 1] = e
            /\ \A n \in 1..Len(jn[i]) : km[i][n] = jn[i][n]
        BY <3>1
      <3> HIDE DEF km, jn
      <3>3. ASSUME NEW n \in 1..Len(km[i]), NamesP(km[i][n]) PROVE PTouched(t)
        <4>1. Len(jn[i]) \in Nat
          BY <3>1
        <4>2. CASE n = Len(jn[i]) + 1
          BY <3>2, <3>3, <4>2
        <4>3. CASE n \in 1..Len(jn[i])
          BY <2>2, <3>2, <3>3, <4>3 DEF Fits
        <4>4. QED BY <3>2, <4>1, <4>2, <4>3
      <3>4. QED BY <3>3 DEF Fits
    <2>4. CASE i # N
      <3>1. km[i] = jn[i]
        BY <1>1, <2>1, <2>4
      <3>2. QED BY <2>2, <3>1
    <2>5. QED BY <2>3, <2>4
  <1>6. JournalFits(t, km)
    BY <1>5 DEF JournalFits
  <1> HIDE DEF k, km, jn
  <1>7. Good(k, d)
    BY <1>3, <1>4, <1>6 DEF Good
  <1>8. ASSUME NEW i \in 1..(N - 1)
        PROVE  Alike(d, RevertTo(j, i), RevertTo(k, i))
    <2>1. N - i \in 1..N /\ N - i \in 0..N
      BY <1>1
    <2>2. RevertTo(k, i) = RevertSets(Undo(e, t), jn, N - i)
      BY <1>2, <1>3, <2>1 DEF RevertTo
    <2>3. RevertTo(j, i) = RevertSets(j.state, jn, N - i)
      BY DEF RevertTo, jn
    <2>4. Undo(e, t) \in States
      BY UndoAt DEF UndoneState
    <2>5. JournalFits(j.state, jn)
      BY DEF Good, jn
    <2>6. QED BY <1>1, <2>1, <2>2, <2>3, <2>4, <2>5, SetsAlike
  <1>9. Grows(j, k, d)
    BY <1>1, <1>2, <1>3, <1>8 DEF Grows, jn
  <1>10. Step(j, k, d)
    BY <1>2, <1>3, <1>7, <1>9 DEF Step, jn
  <1>11. QED BY <1>10 DEF k

-----------------------------------------------------------------------------
(* Checkpoints                                                              *)

\* checkpoint: an empty set is added, and reverting to it changes nothing.
LEMMA Opened ==
  ASSUME NEW j, NEW d, Good(j, d)
  PROVE  LET k == checkpoint(j)
         IN /\ Good(k, d) /\ Grows(j, k, d)
            /\ k.state = j.state /\ k.logs = j.logs /\ k.depth = j.depth + 1
            /\ Len(k.journal) = Len(j.journal) + 1
            /\ \A i \in 1..Len(j.journal) : RevertTo(k, i) = RevertTo(j, i)
            /\ RevertTo(k, Len(j.journal)) = j.state
  <1> DEFINE k  == checkpoint(j)
             jn == j.journal
             km == Append(jn, <<>>)
             N  == Len(jn)
  <1>1. /\ j \in JState /\ j.state \in States /\ jn \in Journals /\ jn # <<>>
        /\ j.logs \in Nat /\ j.depth \in Int /\ N \in Nat /\ N >= 1
    BY JStateParts DEF Good
  <1>2. /\ km \in Journals /\ Len(km) = N + 1
        /\ \A n \in 0..N : RevertSets(j.state, km, n + 1) = RevertSets(j.state, jn, n)
    <2> HIDE DEF jn
    <2>1. QED BY <1>1, SetsOpened
  <1>3. /\ k \in JState /\ k.state = j.state /\ k.journal = km /\ k.logs = j.logs
        /\ k.depth = j.depth + 1
    <2> HIDE DEF km
    <2>1. k = [j EXCEPT !.depth = j.depth + 1, !.journal = km]
      BY DEF checkpoint, km
    <2>2. j = [state |-> j.state, logs |-> j.logs, depth |-> j.depth, journal |-> j.journal]
      BY <1>1, JStateParts
    <2> HIDE DEF k
    <2>3. k = [state |-> j.state, logs |-> j.logs, depth |-> j.depth + 1, journal |-> km]
      BY <2>1, <2>2
    <2>4. QED BY <1>1, <1>2, <2>3 DEF JState
  <1>4. /\ km[N + 1] = <<>> /\ \A i \in 1..N : km[i] = jn[i]
    BY <1>1 DEF Journals
  <1>5. JournalFits(j.state, km)
    <2>1. ASSUME NEW i \in 1..(N + 1) PROVE Fits(j.state, km[i])
      <3>1. CASE i = N + 1
        <4>1. km[i] = <<>>
          BY <1>4, <3>1
        <4>2. Len(<<>>) = 0
          OBVIOUS
        <4> HIDE DEF km
        <4>3. QED BY <4>1, <4>2 DEF Fits
      <3>2. CASE i # N + 1
        <4>1. i \in 1..N
          BY <1>1, <3>2
        <4>2. QED BY <1>4, <4>1 DEF Good, JournalFits
      <3>3. QED BY <3>1, <3>2
    <2> HIDE DEF km
    <2>2. QED BY <1>2, <2>1 DEF JournalFits
  <1>6. km # <<>>
    <2> HIDE DEF km
    <2>1. QED BY <1>1, <1>2
  <1> HIDE DEF k, km
  <1>7. Good(k, d)
    BY <1>3, <1>5, <1>6 DEF Good
  <1>8. ASSUME NEW i \in 1..N PROVE RevertTo(k, i) = RevertTo(j, i)
    <2>1. N - i \in 0..N /\ (N + 1) - i = (N - i) + 1
      BY <1>1
    <2>2. RevertTo(k, i) = RevertSets(j.state, km, (N - i) + 1)
      BY <1>2, <1>3, <2>1 DEF RevertTo
    <2>3. RevertTo(j, i) = RevertSets(j.state, jn, N - i)
      BY DEF RevertTo
    <2>4. QED BY <1>2, <2>1, <2>2, <2>3
  <1>9. RevertTo(k, N) = j.state
    <2>1. N \in 1..N /\ N - N = 0
      BY <1>1
    <2>2. RevertTo(j, N) = RevertSets(j.state, jn, 0)
      BY <2>1 DEF RevertTo
    <2>3. RevertTo(j, N) = j.state
      BY <1>1, <2>2, RevertSetsSteps
    <2>4. QED BY <1>8, <2>1, <2>3
  <1>10. Grows(j, k, d)
    <2>1. \A i \in 1..(N - 1) : Alike(d, RevertTo(j, i), RevertTo(k, i))
      BY <1>1, <1>8, AlikeSame
    <2>2. Frugal(d, j.state, k.state)
      BY <1>1, <1>3, FrugalSame DEF Good
    <2>3. QED BY <1>1, <1>2, <1>3, <2>1, <2>2, KeepsSame DEF Grows
  <1>11. QED BY <1>1, <1>2, <1>3, <1>7, <1>8, <1>9, <1>10 DEF k

\* checkpoint_commit: only the depth changes, the sets stay.
LEMMA Committed ==
  ASSUME NEW j, NEW d, Good(j, d)
  PROVE  LET k == checkpoint_commit(j)
         IN /\ Good(k, d) /\ Grows(j, k, d)
            /\ k.state = j.state /\ k.logs = j.logs /\ k.journal = j.journal
            /\ k.depth = j.depth - 1
  <1> DEFINE k == checkpoint_commit(j)
  <1>1. j \in JState /\ j.depth \in Int /\ j.logs \in Nat /\ Len(j.journal) \in Nat
    BY JStateParts DEF Good
  <1>2. /\ k \in JState /\ k.state = j.state /\ k.logs = j.logs /\ k.journal = j.journal
        /\ k.depth = j.depth - 1
    BY <1>1 DEF checkpoint_commit, JState
  <1> HIDE DEF k
  <1>3. Good(k, d)
    BY <1>2 DEF Good
  <1>4. \A i : RevertTo(k, i) = RevertTo(j, i)
    BY <1>2 DEF RevertTo
  <1>5. Grows(j, k, d)
    <2>1. Frugal(d, j.state, k.state)
      BY <1>1, <1>2, JStateParts, FrugalSame DEF Good
    <2>2. QED BY <1>1, <1>2, <1>4, <2>1, AlikeSame, KeepsSame DEF Grows
  <1>6. QED BY <1>2, <1>3, <1>5 DEF k

\* The essence of an account is all that makes it nice.
LEMMA NiceEssence ==
  ASSUME NEW d, NEW a, NEW x, NEW y, Essence(x) = Essence(y), NiceAccount(d, a, x)
  PROVE  NiceAccount(d, a, y)
  <1>1. /\ x.info.balance = y.info.balance /\ x.info.nonce = y.info.nonce
        /\ Values(x.storage) = Values(y.storage)
        /\ x.status \intersect Marks = y.status \intersect Marks
    BY EssenceParts
  <1>2. /\ DOMAIN x.storage = DOMAIN y.storage
        /\ \A k \in DOMAIN x.storage : x.storage[k].present_value = y.storage[k].present_value
    BY <1>1, SameValues
  <1>3. /\ "Touched" \in x.status <=> "Touched" \in y.status
        /\ "SelfDestructed" \in x.status <=> "SelfDestructed" \in y.status
    BY <1>1 DEF Marks
  <1>4. QED BY <1>1, <1>2, <1>3 DEF NiceAccount

\* What is left beneath, like a nice state, is nice.
LEMMA NiceBack ==
  ASSUME NEW d, Funded(d), NEW b, NEW r, NEW s, Nice(b, d), Alike(d, b, r), Nice(s, d),
         Beneath(r, s)
  PROVE  Nice(r, d)
  <1> SUFFICES ASSUME NEW a \in DOMAIN r PROVE NiceAccount(d, a, r[a])
    BY DEF Nice
  <1>1. CASE a # P
    <2>1. a \in DOMAIN b /\ Essence(r[a]) = Essence(b[a])
      BY <1>1 DEF Alike, Restored, P
    <2>2. NiceAccount(d, a, b[a])
      BY <2>1 DEF Nice
    <2>3. QED BY <2>1, <2>2, NiceEssence
  <1>2. CASE a = P
    <2>1. a \in DOMAIN s /\ NiceAccount(d, a, s[a])
      BY DEF Nice, Beneath
    <2>2. /\ r[a].info.nonce = s[a].info.nonce /\ r[a].storage = s[a].storage
          /\ r[a].status = s[a].status
          /\ "Touched" \notin s[a].status => r[a] = s[a]
      BY <1>2 DEF Beneath
    <2>3. r[a].info.balance \in Nat
      <3>1. Bal(d, b, P) \in Nat
        BY ConstAssumption DEF Nice, NiceAccount, Bal, Funded, P
      <3>2. QED BY <1>2, <3>1 DEF Alike, SameP, Bal
    <2>4. QED BY <2>1, <2>2, <2>3 DEF NiceAccount
  <1>3. QED BY <1>1, <1>2

\* Going on to k and back again keeps what code relies on.
LEMMA KeepsBack ==
  ASSUME NEW d, NEW b, NEW s, NEW r, Keeps(b, s), Alike(d, b, r), Beneath(r, s)
  PROVE  Keeps(b, r)
  <1> SUFFICES ASSUME NEW a \in DOMAIN b
               PROVE  /\ a \in DOMAIN r
                      /\ "Touched" \in b[a].status => "Touched" \in r[a].status
                      /\ b[a].info.nonce >= 1 =>
                           /\ r[a].info.nonce >= 1
                           /\ "Created" \in r[a].status => "Created" \in b[a].status
    BY DEF Keeps
  <1>1. /\ a \in DOMAIN s
        /\ "Touched" \in b[a].status => "Touched" \in s[a].status
        /\ b[a].info.nonce >= 1 =>
             /\ s[a].info.nonce >= 1
             /\ "Created" \in s[a].status => "Created" \in b[a].status
    BY DEF Keeps
  <1>2. CASE a # P
    <2>1. a \in DOMAIN r /\ Essence(r[a]) = Essence(b[a])
      BY <1>2 DEF Alike, Restored, P
    <2>2. r[a].info.nonce = b[a].info.nonce /\ r[a].status \intersect Marks = b[a].status \intersect Marks
      BY <2>1, EssenceParts
    <2>3. "Created" \in r[a].status <=> "Created" \in s[a].status
      BY <2>1 DEF Beneath
    <2>4. QED BY <1>1, <2>1, <2>2, <2>3 DEF Marks
  <1>3. CASE a = P
    <2>1. a \in DOMAIN r /\ r[a].info.nonce = s[a].info.nonce /\ r[a].status = s[a].status
      BY <1>1, <1>3 DEF Beneath
    <2>2. QED BY <1>1, <2>1
  <1>4. QED BY <1>2, <1>3

\* A revert to a checkpoint, when b is what the state was there.
LEMMA Reverted ==
  ASSUME NEW j, NEW d, Good(j, d), NEW cp, cp.journal_i \in 1..(Len(j.journal) - 1),
         cp.log_i \in Nat, NEW b, Nice(b, d), Alike(d, b, RevertTo(j, cp.journal_i))
  PROVE  LET k == checkpoint_revert(j, cp)
         IN /\ Good(k, d) /\ k.logs = cp.log_i /\ k.depth = j.depth - 1
            /\ Len(k.journal) = cp.journal_i
            /\ Alike(d, b, k.state) /\ Beneath(k.state, j.state)
            /\ \A i \in 1..cp.journal_i : RevertTo(k, i) = RevertTo(j, i)
  <1> DEFINE k  == checkpoint_revert(j, cp)
             jn == j.journal
             c  == cp.journal_i
             N  == Len(jn)
             m  == N - c
             r  == RevertSets(j.state, jn, m)
             km == SubSeq(jn, 1, c)
  <1>1. /\ j \in JState /\ j.state \in States /\ jn \in Journals /\ jn # <<>>
        /\ j.logs \in Nat /\ j.depth \in Int /\ N \in Nat /\ c \in 0..N /\ c >= 1 /\ m \in 0..N
    BY JStateParts DEF Good
  <1>2. /\ km \in Journals /\ Len(km) = c
        /\ \A i \in 1..c : km[i] = jn[i]
        /\ \A n \in 0..c : RevertSets(r, km, n) = RevertSets(j.state, jn, m + n)
    <2> HIDE DEF c, jn
    <2>1. QED BY <1>1, SetsCut
  <1>3. r \in States
    BY <1>1, SetsType
  <1>4. k = [state |-> r, logs |-> cp.log_i, depth |-> j.depth - 1, journal |-> km]
    BY DEF checkpoint_revert
  <1>5. Beneath(r, j.state)
    BY <1>1, SetsBeneath DEF Good
  <1>6. r = RevertTo(j, c)
    BY DEF RevertTo
  <1>7. Alike(d, b, r)
    BY <1>6
  <1>8. Nice(r, d)
    <2> HIDE DEF r
    <2>1. QED BY <1>5, <1>7, NiceBack DEF Good
  <1> HIDE DEF k, jn, c, m, r, km
  <1>9. /\ k \in JState /\ k.state = r /\ k.logs = cp.log_i /\ k.depth = j.depth - 1
        /\ k.journal = km
    BY <1>1, <1>2, <1>3, <1>4 DEF JState
  <1>10. JournalFits(r, km)
    <2>1. ASSUME NEW i \in 1..c PROVE Fits(r, km[i])
      <3>1. i \in 1..N
        BY <1>1
      <3>2. Fits(j.state, jn[i])
        BY <3>1 DEF Good, JournalFits, jn
      <3>3. Fits(r, jn[i])
        BY <1>5, <3>2, BeneathTouched DEF Fits
      <3>4. QED BY <1>2, <3>3
    <2>2. QED BY <1>2, <2>1 DEF JournalFits
  <1>11. km # <<>>
    BY <1>1, <1>2
  <1>12. Good(k, d)
    BY <1>8, <1>9, <1>10, <1>11 DEF Good
  <1>13. ASSUME NEW i \in 1..c PROVE RevertTo(k, i) = RevertTo(j, i)
    <2>1. c - i \in 0..c /\ m + (c - i) = N - i
      BY <1>1 DEF m
    <2>2. RevertTo(k, i) = RevertSets(r, km, c - i)
      BY <1>2, <1>9 DEF RevertTo
    <2>3. RevertTo(j, i) = RevertSets(j.state, jn, N - i)
      BY DEF RevertTo, jn
    <2>4. QED BY <1>2, <2>1, <2>2, <2>3
  <1>14. /\ Good(k, d) /\ k.logs = cp.log_i /\ k.depth = j.depth - 1
         /\ Len(k.journal) = c
         /\ Alike(d, b, k.state) /\ Beneath(k.state, j.state)
         /\ \A i \in 1..c : RevertTo(k, i) = RevertTo(j, i)
    BY <1>2, <1>5, <1>7, <1>9, <1>12, <1>13
  <1>15. QED BY <1>14 DEF k, c

\* A subroutine that is opened, goes on to k and is taken back is no change.
LEMMA StepTakenBack ==
  ASSUME NEW j, NEW d, Good(j, d), NEW k, Good(k, d), Grows(checkpoint(j), k, d),
         k.depth = j.depth + 1
  PROVE  /\ Step(j, checkpoint_revert(k, Checkpoint(j)), d)
         /\ Alike(d, j.state, checkpoint_revert(k, Checkpoint(j)).state)
  <1> DEFINE o  == checkpoint(j)
             cp == Checkpoint(j)
             r  == checkpoint_revert(k, cp)
             N  == Len(j.journal)
  <1>1. /\ j \in JState /\ k \in JState /\ j.logs \in Nat /\ N \in Nat /\ N >= 1
        /\ j.depth \in Int /\ Len(k.journal) \in Nat
    BY JStateParts DEF Good
  <1>2. /\ Good(o, d) /\ o.state = j.state /\ Len(o.journal) = N + 1 /\ o.logs = j.logs
        /\ \A i \in 1..N : RevertTo(o, i) = RevertTo(j, i)
        /\ RevertTo(o, N) = j.state
    BY Opened
  <1>3. cp.journal_i = N /\ cp.log_i = j.logs
    BY DEF Checkpoint
  <1> HIDE DEF o, cp
  <1>4. /\ N + 1 <= Len(k.journal)
        /\ \A i \in 1..N : Alike(d, RevertTo(j, i), RevertTo(k, i))
        /\ Alike(d, j.state, RevertTo(k, N))
        /\ Keeps(j.state, k.state)
    <2>1. \A i \in 1..N : Alike(d, RevertTo(o, i), RevertTo(k, i))
      BY <1>1, <1>2 DEF Grows, o
    <2>2. N \in 1..N
      BY <1>1
    <2>3. QED BY <1>1, <1>2, <2>1, <2>2 DEF Grows, o
  <1>5. N \in 1..(Len(k.journal) - 1) /\ Nice(j.state, d)
    BY <1>1, <1>4 DEF Good
  <1>6. /\ Good(r, d) /\ r.logs = j.logs /\ r.depth = k.depth - 1 /\ Len(r.journal) = N
        /\ Alike(d, j.state, r.state) /\ Beneath(r.state, k.state)
        /\ \A i \in 1..N : RevertTo(r, i) = RevertTo(k, i)
    BY <1>1, <1>3, <1>4, <1>5, Reverted
  <1> HIDE DEF r
  <1>7. Keeps(j.state, r.state)
    BY <1>4, <1>6, KeepsBack
  <1>8. \A i \in 1..(N - 1) : Alike(d, RevertTo(j, i), RevertTo(r, i))
    BY <1>1, <1>4, <1>6
  <1>9. Frugal(d, j.state, r.state)
    <2>1. j.state \in States /\ r.state \in States /\ Funded(d)
      BY <1>6, JStateParts DEF Good
    <2>2. Frugal(d, j.state, k.state)
      BY <1>2 DEF Grows, o
    <2>3. QED BY <1>6, <2>1, <2>2, FrugalBack
  <1>10. Grows(j, r, d)
    BY <1>1, <1>6, <1>7, <1>8, <1>9 DEF Grows
  <1>11. Step(j, r, d) /\ Alike(d, j.state, r.state)
    BY <1>1, <1>6, <1>10 DEF Step
  <1>12. QED BY <1>11 DEF r, cp

\* A subroutine that is opened, goes on to k and is committed.
LEMMA GrowsCommitted ==
  ASSUME NEW j, NEW d, Good(j, d), NEW k, Good(k, d), Grows(checkpoint(j), k, d),
         k.depth = j.depth + 1
  PROVE  LET c == checkpoint_commit(k)
         IN Good(c, d) /\ Grows(j, c, d) /\ c.depth = j.depth
  <1>1. Good(checkpoint(j), d) /\ Grows(j, checkpoint(j), d)
    BY Opened
  <1>2. /\ Good(checkpoint_commit(k), d) /\ Grows(k, checkpoint_commit(k), d)
        /\ checkpoint_commit(k).depth = k.depth - 1
    BY Committed
  <1>3. /\ j \in JState /\ checkpoint(j) \in JState /\ k \in JState
        /\ checkpoint_commit(k) \in JState /\ j.depth \in Int /\ Funded(d)
    BY <1>1, <1>2, JStateParts DEF Good
  <1>4. Grows(j, k, d)
    BY <1>1, <1>3, GrowsTrans
  <1>5. Grows(j, checkpoint_commit(k), d)
    BY <1>2, <1>3, <1>4, GrowsTrans
  <1>6. QED BY <1>2, <1>3, <1>5

-----------------------------------------------------------------------------
(* The database                                                             *)

\* The database: types, and no account without a nonce has a value in its storage.
DbStorage == UNION {[D -> Int] : D \in SUBSET Key}
DbState   == {"None", "Touched", "StorageCleared", "NotExisting"}

DbOK(d) ==
  /\ d \in [Address -> [account_state : DbState, info : Info, storage : DbStorage]]
  /\ \A a \in Address :
       /\ d[a].info.nonce \in 0..MaxNonce /\ d[a].info.balance \in Nat
       /\ d[a].info.nonce = 0 =>
            /\ \A k \in DOMAIN d[a].storage : d[a].storage[k] = 0
            /\ a = coinbase => DOMAIN d[a].storage = {}

\* What DbOK says of one account.
LEMMA DbParts ==
  ASSUME NEW d, DbOK(d), NEW a \in Address
  PROVE  /\ d[a].info \in Info /\ d[a].info.balance \in Nat /\ d[a].info.nonce \in Int
         /\ d[a].info.nonce \in 0..MaxNonce
         /\ d[a].account_state \in DbState
         /\ DOMAIN d[a].storage \subseteq Key /\ d[a].storage \in [DOMAIN d[a].storage -> Int]
         /\ d[a].info.nonce = 0 => \A k \in DOMAIN d[a].storage : d[a].storage[k] = 0
         /\ d[a].info.nonce = 0 /\ a = coinbase => DOMAIN d[a].storage = {}
  <1>1. d[a] \in [account_state : DbState, info : Info, storage : DbStorage]
    BY DEF DbOK
  <1>2. d[a].info \in Info /\ d[a].account_state \in DbState /\ d[a].storage \in DbStorage
    BY <1>1
  <1>3. d[a].info.nonce \in Int
    BY <1>2 DEF Info
  <1>4. DOMAIN d[a].storage \subseteq Key /\ d[a].storage \in [DOMAIN d[a].storage -> Int]
    BY <1>2 DEF DbStorage
  <1>5. QED BY <1>2, <1>3, <1>4 DEF DbOK

\* A database in order holds no debts.
LEMMA DbFunded ==
  ASSUME NEW d, DbOK(d)
  PROVE  Funded(d)
  BY DEF DbOK, Funded

\* db_storage gives a value, zero for an account without a nonce.
LEMMA DbSlot ==
  ASSUME NEW d, DbOK(d), NEW a \in Address, NEW k
  PROVE  db_storage(d, a, k) \in Int /\ (d[a].info.nonce = 0 => db_storage(d, a, k) = 0)
  BY DbParts DEF db_storage, Present

\* An account just loaded is as the database has it.
LEMMA LoadedAccount ==
  ASSUME DbOK(db), NEW a \in Address, NEW slots \in SUBSET Key
  PROVE  /\ Loaded(a, slots) \in Account
         /\ (a = coinbase => slots = {}) => NiceAccount(db, a, Loaded(a, slots))
         /\ Loaded(a, slots).info = db[a].info
         /\ Loaded(a, slots).status \subseteq {"LoadedAsNotExisting"}
  <1> DEFINE st  == [k \in slots |-> [original_value |-> db_storage(db, a, k),
                                      present_value  |-> db_storage(db, a, k)]]
             acc == Loaded(a, slots)
  <1>1. /\ acc.info = db[a].info /\ acc.storage = st
        /\ acc.status = IF db[a].account_state = "NotExisting"
                          THEN {"LoadedAsNotExisting"} ELSE {}
        /\ acc = [info |-> acc.info, storage |-> acc.storage, status |-> acc.status]
    <2> DEFINE base == db_account(db, a)
               mark == IF db[a].account_state = "NotExisting"
                         THEN {"LoadedAsNotExisting"} ELSE {}
    <2>1. base = [info |-> db[a].info, storage |-> <<>>, status |-> mark]
      BY DEF db_account
    <2>2. acc = [base EXCEPT !.storage = st]
      BY DEF Loaded
    <2> HIDE DEF base, st, acc, mark
    <2>3. acc = [info |-> db[a].info, storage |-> st, status |-> mark]
      BY <2>1, <2>2
    <2>4. QED BY <2>3 DEF mark
  <1>2. DOMAIN st = slots /\ st \in [slots -> Slot]
    BY DbSlot DEF Slot
  <1>3. st \in Slots
    BY <1>2, SlotsType
  <1>4. db[a].info \in Info
    BY DbParts
  <1>5. \A k \in DOMAIN st : st[k].present_value = db_storage(db, a, k)
    OBVIOUS
  <1> HIDE DEF acc, st
  <1>6. acc.status \subseteq {"LoadedAsNotExisting"} /\ acc.status \in SUBSET Status
    BY <1>1 DEF Status
  <1>7. acc \in Account
    BY <1>1, <1>3, <1>4, <1>6 DEF Account
  <1>8. ASSUME a = coinbase => slots = {}
        PROVE  NiceAccount(db, a, acc)
    <2>1. acc.info.nonce \in 0..MaxNonce /\ acc.info.balance \in Nat
      BY <1>1, DbParts
    <2>2. \A k \in DOMAIN acc.storage : acc.storage[k].present_value = db_storage(db, a, k)
      BY <1>1, <1>5
    <2>3. "SelfDestructed" \notin acc.status
      BY <1>6
    <2>4. acc.info.nonce = 0 =>
            /\ db[a].info.nonce = 0
            /\ \A k \in DOMAIN acc.storage : acc.storage[k].present_value = 0
            /\ a = coinbase => DOMAIN acc.storage = {}
      BY <1>1, <1>2, <1>8, <2>2, DbSlot
    <2>5. QED BY <1>1, <2>1, <2>2, <2>3, <2>4 DEF NiceAccount
  <1>9. QED BY <1>1, <1>6, <1>7, <1>8 DEF acc

-----------------------------------------------------------------------------
(* The steps every operation is made of                                     *)

\* What an entry has to hold to take s back from t.
LEMMA TakesBack ==
  ASSUME NEW e \in EntryType, NEW s \in States, NEW t \in States,
         DOMAIN s \ {P} = (DOMAIN t \ Gone(e)) \ {P},
         \A a \in DOMAIN s \ {P} :
           /\ t[a].info.balance + Credit(e, a) = s[a].info.balance
           /\ t[a].info.nonce - Counted(e, a) = s[a].info.nonce
           /\ StatusBack(e, a, t[a].status) \intersect Marks = s[a].status \intersect Marks
           /\ Values(StorageBack(e, a, t[a].storage)) = Values(s[a].storage)
  PROVE  Restored(s, Undo(e, t))
  <1> DEFINE u == Undo(e, t)
  <1>1. UndoneState(e, t, u)
    BY UndoAt
  <1> HIDE DEF u
  <1>2. DOMAIN u = DOMAIN t \ Gone(e) /\ \A a \in DOMAIN u : UndoneAccount(e, a, t[a], u[a])
    BY <1>1 DEF UndoneState
  <1>3. ASSUME NEW a \in DOMAIN s \ {P} PROVE Essence(u[a]) = Essence(s[a])
    <2>1. a \in DOMAIN u
      BY <1>2
    <2>2. UndoneAccount(e, a, t[a], u[a])
      BY <1>2, <2>1
    <2>3. /\ u[a].info.balance = s[a].info.balance /\ u[a].info.nonce = s[a].info.nonce
          /\ Values(u[a].storage) = Values(s[a].storage)
          /\ u[a].status \intersect Marks = s[a].status \intersect Marks
      BY <2>2 DEF UndoneAccount
    <2>4. QED BY <2>3, EssenceParts
  <1>4. Restored(s, u)
    BY <1>2, <1>3 DEF Restored, P
  <1>5. QED BY <1>4 DEF u

\* An entry that pays nobody, for a change of no balance.
LEMMA StepPriceless ==
  ASSUME NEW j, NEW d, Good(j, d), NEW t \in States, NEW e \in EntryType,
         e.kind \notin {"BalanceTransfer", "AccountDestroyed"},
         Restored(j.state, Undo(e, t)), Keeps(j.state, t), Nice(t, d), Intact(j.state, t),
         \A a \in Address : Bal(d, j.state, a) = Bal(d, t, a)
  PROVE  Step(j, Put(j, t, e), d)
  <1> DEFINE s == j.state
             u == Undo(e, t)
  <1>1. s \in States /\ Funded(d) /\ ~NamesP(e)
    BY JStateParts DEF Good, NamesP
  <1>2. UndoneState(e, t, u)
    BY UndoAt
  <1> HIDE DEF u
  <1>3. /\ P \in DOMAIN s => P \in DOMAIN t
        /\ P \in DOMAIN t <=> P \in DOMAIN u
        /\ P \in DOMAIN u => u[P] = t[P]
    BY <1>1, <1>2 DEF Keeps, UndoneState, Gone
  <1>4. Bal(d, s, P) = Bal(d, t, P)
    BY ConstAssumption DEF P
  <1>5. Bal(d, t, P) = Bal(d, u, P)
    BY <1>3 DEF Bal
  <1>6. Alike(d, s, u)
    BY <1>3, <1>4, <1>5 DEF Alike, SameP, u
  <1>7. Frugal(d, s, t)
    BY <1>1, FrugalAs
  <1>8. QED BY <1>1, <1>6, <1>7, StepJournaled DEF u

\* A change of one account that keeps what code relies on.
LEMMA KeepsOne ==
  ASSUME NEW s, NEW t, NEW a, DOMAIN s \subseteq DOMAIN t,
         \A b \in DOMAIN s : b # a => t[b] = s[b],
         a \in DOMAIN s =>
           /\ "Touched" \in s[a].status => "Touched" \in t[a].status
           /\ s[a].info.nonce >= 1 =>
                t[a].info.nonce >= 1 /\ ("Created" \in t[a].status => "Created" \in s[a].status)
  PROVE  Keeps(s, t)
  <1> SUFFICES ASSUME NEW b \in DOMAIN s
               PROVE  /\ b \in DOMAIN t
                      /\ "Touched" \in s[b].status => "Touched" \in t[b].status
                      /\ s[b].info.nonce >= 1 =>
                           /\ t[b].info.nonce >= 1
                           /\ "Created" \in t[b].status => "Created" \in s[b].status
    BY DEF Keeps
  <1>1. CASE b = a
    BY <1>1
  <1>2. CASE b # a
    BY <1>2
  <1>3. QED BY <1>1, <1>2

\* A change of one account to a nice one.
LEMMA NiceOne ==
  ASSUME NEW s, NEW t, NEW a, NEW d, Nice(s, d), DOMAIN t \subseteq DOMAIN s \union {a},
         \A b \in DOMAIN t : b # a => t[b] = s[b], NiceAccount(d, a, t[a])
  PROVE  Nice(t, d)
  <1> SUFFICES ASSUME NEW b \in DOMAIN t PROVE NiceAccount(d, b, t[b])
    BY DEF Nice
  <1>1. CASE b = a
    BY <1>1
  <1>2. CASE b # a
    BY <1>2 DEF Nice
  <1>3. QED BY <1>1, <1>2

\* Loading and touching pay nobody.
LEMMA Unnamed ==
  ASSUME NEW kind \in {"AccountLoaded", "AccountTouched"}, NEW a \in Address
  PROVE  /\ Entry(kind, a) \in EntryType /\ Entry(kind, a).kind = kind
         /\ Entry(kind, a).address = a /\ ~NamesP(Entry(kind, a))
  <1>1. Entry(kind, a) \in EntryOf(kind, Address)
    BY DEF Entry, EntryOf
  <1>2. Entry(kind, a).kind = kind /\ Entry(kind, a).address = a
    BY DEF Entry
  <1>3. QED BY <1>1, <1>2 DEF EntryType, NamesP

\* An operation as a new state and an entry.
LEMMA PushIs ==
  ASSUME NEW j \in JState, NEW e
  PROVE  Push(j, e) = Put(j, j.state, e)
  <1> DEFINE p == Pushed(j, e)
  <1>1. Push(j, e) = [j EXCEPT !.journal = p]
    BY DEF Push, Pushed
  <1>2. j = [state |-> j.state, logs |-> j.logs, depth |-> j.depth, journal |-> j.journal]
    BY JStateParts
  <1> HIDE DEF p
  <1>3. [j EXCEPT !.journal = p]
          = [state |-> j.state, logs |-> j.logs, depth |-> j.depth, journal |-> p]
    BY <1>2
  <1>4. QED BY <1>1, <1>3 DEF Put, p

\* A state replaced, as the model writes it.
LEMMA WithIs ==
  ASSUME NEW j \in JState, NEW t
  PROVE  [j EXCEPT !.state = t] = With(j, t)
  <1>1. j = [state |-> j.state, logs |-> j.logs, depth |-> j.depth, journal |-> j.journal]
    BY JStateParts
  <1>2. QED BY <1>1 DEF With

\* A state replaced and an entry pushed.
LEMMA PutIs ==
  ASSUME NEW j \in JState, NEW t, NEW e
  PROVE  [Push(j, e) EXCEPT !.state = t] = Put(j, t, e)
  <1>1. Push(j, e) = [state |-> j.state, logs |-> j.logs, depth |-> j.depth,
                      journal |-> Pushed(j, e)]
    BY PushIs DEF Put
  <1>2. QED BY <1>1 DEF Put

\* What load_account leads to.
LoadLeads(j, a, k) ==
  /\ Step(j, k, db)
  /\ DOMAIN k.state = DOMAIN j.state \union {a}
  /\ \A b \in DOMAIN j.state : k.state[b] = j.state[b]
  /\ a \notin DOMAIN j.state => k.state[a] = Loaded(a, {})

\* load_account is a step that takes nothing away.
LEMMA LoadStep ==
  ASSUME NEW j, Good(j, db), DbOK(db), NEW a \in Address
  PROVE  LoadLeads(j, a, load_account(j, a))
  <1> DEFINE s   == j.state
             new == Loaded(a, {})
             t   == Over(s, [b \in {a} |-> new])
             e   == Entry("AccountLoaded", a)
             k   == load_account(j, a)
  <1>1. s \in States /\ s \in [DOMAIN s -> Account] /\ DOMAIN s \subseteq Address
        /\ j = [state |-> j.state, logs |-> j.logs, depth |-> j.depth, journal |-> j.journal]
    BY JStateParts, StatesType DEF Good
  <1>2. CASE a \in DOMAIN s
    <2>1. k = j
      BY <1>2 DEF load_account
    <2>2. QED BY <1>2, <2>1, StepSame DEF LoadLeads
  <1>3. CASE a \notin DOMAIN s
    <2>1. k = Put(j, t, e)
      <3>1. k = initial_account_load(Push(j, e), a, {})
        BY <1>3 DEF load_account
      <3>2. Push(j, e).state = s
        BY PushIs DEF Put, Good
      <3>3. initial_account_load(Push(j, e), a, {}) = [Push(j, e) EXCEPT !.state = t]
        BY <1>3, <3>2 DEF initial_account_load
      <3> HIDE DEF k, t, e
      <3>4. QED BY <3>1, <3>3, PutIs DEF Good
    <2>2. new \in Account /\ NiceAccount(db, a, new)
      BY LoadedAccount
    <2>3. DOMAIN t = DOMAIN s \union {a} /\ t[a] = new /\ \A b \in DOMAIN s : t[b] = s[b]
      BY <1>3 DEF Over
    <2> HIDE DEF new
    <2>4. t \in [DOMAIN t -> Account] /\ DOMAIN t \subseteq Address
      BY <1>1, <2>2, <2>3 DEF Over
    <2>5. t \in States
      BY <2>4, StatesType
    <2>6. e \in EntryType /\ e.kind = "AccountLoaded" /\ e.address = a /\ ~NamesP(e)
      BY Unnamed
    <2> HIDE DEF t, e, s
    <2>7. DOMAIN s \ {P} = (DOMAIN t \ Gone(e)) \ {P}
      BY <1>3, <2>3, <2>6 DEF Gone
    <2>8. ASSUME NEW b \in DOMAIN s \ {P}
          PROVE  /\ t[b].info.balance + Credit(e, b) = s[b].info.balance
                 /\ t[b].info.nonce - Counted(e, b) = s[b].info.nonce
                 /\ StatusBack(e, b, t[b].status) \intersect Marks = s[b].status \intersect Marks
                 /\ Values(StorageBack(e, b, t[b].storage)) = Values(s[b].storage)
      <3>1. t[b] = s[b] /\ s[b].info.balance \in Int /\ s[b].info.nonce \in Int
        BY <1>1, <2>3, AccountParts
      <3>2. Credit(e, b) = 0 /\ Counted(e, b) = 0 /\ StatusBack(e, b, t[b].status) = t[b].status
            /\ StorageBack(e, b, t[b].storage) = t[b].storage
        BY <2>6 DEF Credit, Counted, StatusBack, StorageBack
      <3>3. QED BY <3>1, <3>2
    <2>9. Restored(s, Undo(e, t))
      BY <1>1, <2>5, <2>6, <2>7, <2>8, TakesBack
    <2>10. Keeps(s, t)
      BY <1>3, <2>3, KeepsOne
    <2>11. Nice(t, db)
      BY <1>3, <2>2, <2>3, NiceOne DEF Good, s
    <2>12. \A b \in Address : Bal(db, s, b) = Bal(db, t, b)
      <3>1. new.info = db[a].info
        BY LoadedAccount DEF new
      <3>2. QED BY <1>3, <2>3, <3>1 DEF Bal
    <2>13. Intact(s, t)
      <3>1. "SelfDestructed" \notin new.status
        BY LoadedAccount DEF new
      <3>2. QED BY <2>3, <3>1 DEF Intact
    <2>14. Step(j, Put(j, t, e), db)
      BY <2>5, <2>6, <2>9, <2>10, <2>11, <2>12, <2>13, StepPriceless DEF s
    <2>15. Put(j, t, e).state = t
      BY DEF Put
    <2>16. QED BY <1>3, <2>1, <2>3, <2>14, <2>15 DEF LoadLeads, s, new
  <1>4. QED BY <1>2, <1>3

\* What touch leads to.
TouchLeads(j, a, k, d) ==
  /\ Step(j, k, d)
  /\ DOMAIN k.state = DOMAIN j.state
  /\ \A b \in DOMAIN j.state : b # a => k.state[b] = j.state[b]
  /\ k.state[a].info = j.state[a].info /\ k.state[a].storage = j.state[a].storage
  /\ k.state[a].status = j.state[a].status \union {"Touched"}

\* touch is a step that sets the mark and nothing else.
LEMMA TouchStep ==
  ASSUME NEW j, NEW d, Good(j, d), NEW a \in DOMAIN j.state
  PROVE  TouchLeads(j, a, touch(j, a), d)
  <1> DEFINE s   == j.state
             acc == [s[a] EXCEPT !.status = @ \union {"Touched"}]
             t   == [s EXCEPT ![a] = acc]
             e   == Entry("AccountTouched", a)
             k   == touch(j, a)
  <1>1. s \in States /\ s \in [DOMAIN s -> Account] /\ DOMAIN s \subseteq Address
        /\ j = [state |-> j.state, logs |-> j.logs, depth |-> j.depth, journal |-> j.journal]
    BY JStateParts, StatesType DEF Good
  <1>2. CASE "Touched" \in s[a].status
    <2>1. k = j
      BY <1>2 DEF touch
    <2>2. s[a].status = s[a].status \union {"Touched"}
      BY <1>2
    <2>3. QED BY <2>1, <2>2, StepSame DEF TouchLeads
  <1>3. CASE "Touched" \notin s[a].status
    <2>1. k = Put(j, t, e)
      <3> DEFINE p == Push(j, e)
      <3>1. k = [p EXCEPT !.state[a].status = @ \union {"Touched"}]
        BY <1>3 DEF touch
      <3>2. p.state = s
        BY PushIs DEF Put, Good
      <3> HIDE DEF k, e, p, s
      <3>3. [p EXCEPT !.state[a].status = @ \union {"Touched"}] = [p EXCEPT !.state = t]
        BY <3>2
      <3> HIDE DEF t
      <3>4. QED BY <3>1, <3>3, PutIs DEF Good, p
    <2>2. s[a] \in Account /\ s[a].status \union {"Touched"} \in SUBSET Status
      BY <1>1, AccountParts DEF Status
    <2>3. /\ acc \in Account /\ acc.info = s[a].info /\ acc.storage = s[a].storage
          /\ acc.status = s[a].status \union {"Touched"}
      BY <2>2, SetStatus
    <2>4. /\ t \in States /\ DOMAIN t = DOMAIN s
          /\ \A b \in DOMAIN s : t[b] = IF b = a THEN acc ELSE s[b]
      BY <1>1, <2>3, StateSet
    <2>5. e \in EntryType /\ e.kind = "AccountTouched" /\ e.address = a /\ ~NamesP(e)
      BY <1>1, Unnamed
    <2> HIDE DEF t, e, s, acc
    <2>6. DOMAIN s \ {P} = (DOMAIN t \ Gone(e)) \ {P}
      BY <2>4, <2>5 DEF Gone
    <2>7. ASSUME NEW b \in DOMAIN s \ {P}
          PROVE  /\ t[b].info.balance + Credit(e, b) = s[b].info.balance
                 /\ t[b].info.nonce - Counted(e, b) = s[b].info.nonce
                 /\ StatusBack(e, b, t[b].status) \intersect Marks = s[b].status \intersect Marks
                 /\ Values(StorageBack(e, b, t[b].storage)) = Values(s[b].storage)
      <3>1. t[b].info = s[b].info /\ s[b].info.balance \in Int /\ s[b].info.nonce \in Int
            /\ t[b].storage = s[b].storage
        BY <1>1, <2>3, <2>4, AccountParts
      <3>2. Credit(e, b) = 0 /\ Counted(e, b) = 0
            /\ StorageBack(e, b, t[b].storage) = t[b].storage
        BY <2>5 DEF Credit, Counted, StorageBack
      <3>3. StatusBack(e, b, t[b].status) = s[b].status
        BY <1>3, <2>3, <2>4, <2>5 DEF StatusBack, s
      <3>4. QED BY <3>1, <3>2, <3>3
    <2>8. Restored(s, Undo(e, t))
      BY <1>1, <2>4, <2>5, <2>6, <2>7, TakesBack
    <2>9. Keeps(s, t)
      <3>1. /\ "Touched" \in t[a].status /\ t[a].info.nonce = s[a].info.nonce
            /\ "Created" \in t[a].status => "Created" \in s[a].status
        BY <2>3, <2>4 DEF s
      <3>2. DOMAIN s \subseteq DOMAIN t /\ \A b \in DOMAIN s : b # a => t[b] = s[b]
        BY <2>4
      <3>3. a \in DOMAIN s =>
              /\ "Touched" \in s[a].status => "Touched" \in t[a].status
              /\ s[a].info.nonce >= 1 =>
                   t[a].info.nonce >= 1 /\ ("Created" \in t[a].status => "Created" \in s[a].status)
        BY <3>1
      <3>4. ASSUME NEW b \in DOMAIN s
            PROVE  /\ b \in DOMAIN t
                   /\ "Touched" \in s[b].status => "Touched" \in t[b].status
                   /\ s[b].info.nonce >= 1 =>
                        /\ t[b].info.nonce >= 1
                        /\ "Created" \in t[b].status => "Created" \in s[b].status
        <4>1. CASE b = a
          BY <3>2, <3>3, <4>1
        <4>2. CASE b # a
          BY <3>2, <4>2
        <4>3. QED BY <4>1, <4>2
      <3>5. QED BY <3>4 DEF Keeps
    <2>10. Nice(t, d)
      <3>1. NiceAccount(d, a, s[a])
        BY DEF Good, Nice, s
      <3>2. NiceAccount(d, a, t[a])
        BY <2>3, <2>4, <3>1 DEF NiceAccount, s
      <3>3. QED BY <2>4, <3>2, NiceOne DEF Good, s
    <2>11. \A b \in Address : Bal(d, s, b) = Bal(d, t, b)
      BY <2>3, <2>4 DEF Bal, s
    <2>12. Intact(s, t)
      BY <2>3, <2>4 DEF Intact, s
    <2>13. Step(j, Put(j, t, e), d)
      BY <2>4, <2>5, <2>8, <2>9, <2>10, <2>11, <2>12, StepPriceless DEF s
    <2>14. Put(j, t, e).state = t
      BY DEF Put
    <2>15. QED BY <2>1, <2>3, <2>4, <2>13, <2>14 DEF TouchLeads, s
  <1>4. QED BY <1>2, <1>3

\* Code runs at a: the account is touched and has a nonce (EIP-161).
Runs(s, a) == /\ a \in DOMAIN s \ {P}
              /\ "Touched" \in s[a].status /\ s[a].info.nonce >= 1

\* It keeps running.
LEMMA RunsOn ==
  ASSUME NEW s, NEW t, NEW a, Runs(s, a), Keeps(s, t)
  PROVE  Runs(t, a)
  BY DEF Runs, Keeps

\* One account changed, with an entry that is about it.
LEMMA AccountStep ==
  ASSUME NEW j, NEW d, Good(j, d), NEW a \in DOMAIN j.state \ {P}, NEW e \in EntryType,
         e.kind \in {"NonceChange", "CodeChange", "StorageChange"}, e.address = a,
         NEW acc \in Account, NiceAccount(d, a, acc),
         acc.info.balance = j.state[a].info.balance,
         acc.info.nonce - Counted(e, a) = j.state[a].info.nonce,
         acc.status = j.state[a].status,
         Values(StorageBack(e, a, acc.storage)) = Values(j.state[a].storage),
         j.state[a].info.nonce >= 1 => acc.info.nonce >= 1
  PROVE  LET k == Put(j, [j.state EXCEPT ![a] = acc], e)
         IN /\ Step(j, k, d) /\ DOMAIN k.state = DOMAIN j.state /\ k.state[a] = acc
            /\ \A b \in DOMAIN j.state : b # a => k.state[b] = j.state[b]
  <1> DEFINE s == j.state
             t == [s EXCEPT ![a] = acc]
  <1>1. s \in States /\ s \in [DOMAIN s -> Account] /\ DOMAIN s \subseteq Address
    BY JStateParts, StatesType DEF Good
  <1>2. /\ t \in States /\ DOMAIN t = DOMAIN s
        /\ \A b \in DOMAIN s : t[b] = IF b = a THEN acc ELSE s[b]
    BY <1>1, StateSet
  <1> HIDE DEF t
  <1>3. DOMAIN s \ {P} = (DOMAIN t \ Gone(e)) \ {P}
    BY <1>2 DEF Gone
  <1>4. ASSUME NEW b \in DOMAIN s \ {P}
        PROVE  /\ t[b].info.balance + Credit(e, b) = s[b].info.balance
               /\ t[b].info.nonce - Counted(e, b) = s[b].info.nonce
               /\ StatusBack(e, b, t[b].status) \intersect Marks = s[b].status \intersect Marks
               /\ Values(StorageBack(e, b, t[b].storage)) = Values(s[b].storage)
    <2>1. /\ s[b].info.balance \in Int /\ s[b].info.nonce \in Int
          /\ Credit(e, b) = 0 /\ StatusBack(e, b, t[b].status) = t[b].status
      BY <1>1, AccountParts DEF Credit, StatusBack
    <2>2. CASE b = a
      BY <1>2, <2>1, <2>2
    <2>3. CASE b # a
      <3>1. Counted(e, b) = 0 /\ StorageBack(e, b, t[b].storage) = t[b].storage /\ t[b] = s[b]
        BY <1>2, <2>3 DEF Counted, StorageBack
      <3>2. QED BY <2>1, <3>1
    <2>4. QED BY <2>2, <2>3
  <1>5. Restored(s, Undo(e, t))
    BY <1>1, <1>2, <1>3, <1>4, TakesBack
  <1>6. Keeps(s, t)
    <2>1. t[a] = acc
      BY <1>2
    <2>2. QED BY <1>2, <2>1 DEF Keeps
  <1>7. Nice(t, d)
    <2>1. NiceAccount(d, a, t[a])
      BY <1>2
    <2>2. QED BY <1>2, <2>1, NiceOne DEF Good
  <1>8. Intact(s, t) /\ \A b \in Address : Bal(d, s, b) = Bal(d, t, b)
    BY <1>2 DEF Intact, Bal
  <1>9. Step(j, Put(j, t, e), d)
    BY <1>2, <1>5, <1>6, <1>7, <1>8, StepPriceless
  <1>10. Put(j, t, e).state = t
    BY DEF Put
  <1>11. QED BY <1>2, <1>9, <1>10 DEF t

\* set_code is a step.
LEMMA SetCodeStep ==
  ASSUME NEW j, NEW d, Good(j, d), NEW a \in DOMAIN j.state \ {P}, NEW code \in Code
  PROVE  Step(j, set_code(j, a, code), d)
  <1> DEFINE m   == touch(j, a)
             s   == m.state
             acc == [s[a] EXCEPT !.info.code = code]
             t   == [s EXCEPT ![a] = acc]
             e   == [kind |-> "CodeChange", address |-> a, had_code |-> code]
             k   == set_code(j, a, code)
  <1>1. TouchLeads(j, a, m, d)
    BY TouchStep
  <1>2. Good(m, d) /\ a \in DOMAIN s \ {P} /\ Step(j, m, d) /\ "Touched" \in s[a].status
    BY <1>1 DEF TouchLeads, Step
  <1>3. m \in JState /\ s \in States /\ s \in [DOMAIN s -> Account] /\ DOMAIN s \subseteq Address
    BY <1>2, JStateParts, StatesType DEF Good
  <1>4. k = Put(m, t, e)
    <2> DEFINE p == Push(m, e)
    <2>1. k = [p EXCEPT !.state[a].info.code = code]
      BY DEF set_code
    <2>2. p.state = s
      BY <1>3, PushIs DEF Put
    <2> HIDE DEF k, e, p, s, m
    <2>3. [p EXCEPT !.state[a].info.code = code] = [p EXCEPT !.state = t]
      BY <2>2
    <2> HIDE DEF t
    <2>4. QED BY <1>3, <2>1, <2>3, PutIs DEF p
  <1>5. s[a] \in Account
    BY <1>2, <1>3
  <1>6. /\ acc \in Account /\ acc.info.nonce = s[a].info.nonce
        /\ acc.info.balance = s[a].info.balance
        /\ acc.storage = s[a].storage /\ acc.status = s[a].status
    BY <1>5, SetCode
  <1>7. e \in EntryType /\ e.kind = "CodeChange" /\ e.address = a
    <2>1. a \in Address \ {P}
      BY <1>2, <1>3
    <2>2. e \in [kind : {"CodeChange"}, address : Address \ {P}, had_code : Code]
      BY <2>1
    <2>3. QED BY <2>2 DEF EntryType
  <1>8. NiceAccount(d, a, acc)
    <2>1. NiceAccount(d, a, s[a])
      BY <1>2 DEF Good, Nice
    <2> HIDE DEF acc, s
    <2>2. QED BY <1>6, <2>1 DEF NiceAccount
  <1>9. s[a].info.nonce \in Int /\ Counted(e, a) = 0 /\ StorageBack(e, a, acc.storage) = acc.storage
    BY <1>5, AccountParts DEF Counted, StorageBack
  <1> HIDE DEF acc, e, m, k
  <1>10. Step(m, Put(m, t, e), d)
    <2>1. /\ acc.info.nonce - Counted(e, a) = s[a].info.nonce
          /\ Values(StorageBack(e, a, acc.storage)) = Values(s[a].storage)
      BY <1>6, <1>9
    <2>2. QED BY <1>2, <1>6, <1>7, <1>8, <2>1, AccountStep
  <1>11. QED BY <1>2, <1>4, <1>10, StepTrans DEF k

\* What inc_nonce leads to.
IncLeads(j, a, k, d) ==
  /\ Step(j, k, d)
  /\ DOMAIN k.state = DOMAIN j.state
  /\ \A b \in DOMAIN j.state : b # a => k.state[b] = j.state[b]
  /\ k.state[a].info.nonce >= 1 /\ k.state[a].info.balance = j.state[a].info.balance
  /\ k.state[a].status = j.state[a].status \union {"Touched"}

\* inc_nonce is a step, when the nonce is not at its maximum.
LEMMA IncStep ==
  ASSUME NEW j, NEW d, Good(j, d), NEW a \in DOMAIN j.state \ {P},
         j.state[a].info.nonce # MaxNonce
  PROVE  IncLeads(j, a, inc_nonce(j, a), d)
  <1> DEFINE m   == touch(j, a)
             s   == m.state
             acc == [s[a] EXCEPT !.info.nonce = @ + 1]
             t   == [s EXCEPT ![a] = acc]
             e   == Entry("NonceChange", a)
             k   == inc_nonce(j, a)
  <1>1. TouchLeads(j, a, m, d)
    BY TouchStep
  <1>2. /\ Good(m, d) /\ a \in DOMAIN s \ {P} /\ Step(j, m, d) /\ "Touched" \in s[a].status
        /\ s[a].info.nonce # MaxNonce
    BY <1>1 DEF TouchLeads, Step
  <1>3. m \in JState /\ s \in States /\ s \in [DOMAIN s -> Account] /\ DOMAIN s \subseteq Address
    BY <1>2, JStateParts, StatesType DEF Good
  <1>4. k = Put(m, t, e)
    <2> DEFINE p == Push(m, e)
    <2>1. k = [p EXCEPT !.state[a].info.nonce = @ + 1]
      BY DEF inc_nonce
    <2>2. p.state = s
      BY <1>3, PushIs DEF Put
    <2> HIDE DEF k, e, p, s, m
    <2>3. [p EXCEPT !.state[a].info.nonce = @ + 1] = [p EXCEPT !.state = t]
      BY <2>2
    <2> HIDE DEF t
    <2>4. QED BY <1>3, <2>1, <2>3, PutIs DEF p
  <1>5. s[a] \in Account /\ s[a].info.nonce \in Int /\ s[a].info.nonce + 1 \in Int
    BY <1>2, <1>3, AccountParts
  <1>6. /\ acc \in Account /\ acc.info.nonce = s[a].info.nonce + 1
        /\ acc.info.balance = s[a].info.balance
        /\ acc.storage = s[a].storage /\ acc.status = s[a].status
    BY <1>5, SetNonce
  <1>7. e \in EntryType /\ e.kind = "NonceChange" /\ e.address = a
    <2>1. a \in Address \ {P}
      BY <1>2, <1>3
    <2>2. e \in EntryOf("NonceChange", Address \ {P})
      BY <2>1 DEF Entry, EntryOf
    <2>3. e.kind = "NonceChange" /\ e.address = a
      BY DEF Entry
    <2>4. QED BY <2>2, <2>3 DEF EntryType
  <1>8. NiceAccount(d, a, acc) /\ acc.info.nonce >= 1
    <2>1. NiceAccount(d, a, s[a]) /\ s[a].info.nonce \in 0..MaxNonce
      BY <1>2 DEF Good, Nice, NiceAccount
    <2>2. MaxNonce \in Nat
      BY ConstAssumption
    <2> HIDE DEF acc, s
    <2>3. acc.info.nonce \in 1..MaxNonce
      BY <1>2, <1>6, <2>1, <2>2
    <2>4. QED BY <1>2, <1>6, <2>1, <2>2, <2>3 DEF NiceAccount
  <1>9. Counted(e, a) = 1 /\ StorageBack(e, a, acc.storage) = acc.storage
    BY <1>7 DEF Counted, StorageBack
  <1> HIDE DEF acc, e, m, k
  <1> DEFINE l == Put(m, t, e)
  <1>10. /\ Step(m, l, d) /\ DOMAIN l.state = DOMAIN m.state /\ l.state[a] = acc
         /\ \A b \in DOMAIN m.state : b # a => l.state[b] = m.state[b]
    <2>1. /\ acc.info.nonce - Counted(e, a) = s[a].info.nonce
          /\ Values(StorageBack(e, a, acc.storage)) = Values(s[a].storage)
      BY <1>5, <1>6, <1>9
    <2>2. QED BY <1>2, <1>6, <1>7, <1>8, <2>1, AccountStep
  <1> HIDE DEF l, t
  <1>11. Step(j, l, d)
    BY <1>2, <1>10, StepTrans
  <1>12. IncLeads(j, a, l, d)
    BY <1>1, <1>6, <1>8, <1>10, <1>11 DEF IncLeads, TouchLeads
  <1>13. QED BY <1>4, <1>12 DEF l, k

-----------------------------------------------------------------------------
(* Storage of a running account                                             *)

\* The entry of a storage change.
LEMMA SlotEntry ==
  ASSUME NEW a \in Address \ {P}, NEW key \in Key, NEW had \in HadValue
  PROVE  LET e == StorageEntry(a, key, had)
         IN e \in EntryType /\ e.kind = "StorageChange" /\ e.address = a /\ e.key = key
            /\ e.had_value = had
  <1> DEFINE e == StorageEntry(a, key, had)
  <1>1. e \in [kind : {"StorageChange"}, address : Address \ {P}, key : Key,
               had_value : HadValue]
    BY DEF StorageEntry
  <1>2. e.kind = "StorageChange" /\ e.address = a /\ e.key = key /\ e.had_value = had
    BY DEF StorageEntry
  <1>3. QED BY <1>1, <1>2 DEF EntryType

\* A storage step of a running account: its nonce makes any value nice.
LEMMA SlotStep ==
  ASSUME NEW j, NEW d, Good(j, d), NEW a, Runs(j.state, a), NEW e \in EntryType,
         e.kind = "StorageChange", e.address = a, NEW st \in Slots,
         Values(StorageBack(e, a, st)) = Values(j.state[a].storage)
  PROVE  LET k == Put(j, [j.state EXCEPT ![a] = [@ EXCEPT !.storage = st]], e)
         IN Step(j, k, d) /\ k.state[a].storage = st
  <1> DEFINE s   == j.state
             acc == [s[a] EXCEPT !.storage = st]
             k   == Put(j, [s EXCEPT ![a] = acc], e)
  <1>1. a \in DOMAIN s \ {P} /\ "Touched" \in s[a].status /\ s[a].info.nonce >= 1
    BY DEF Runs
  <1>2. s \in States /\ s[a] \in Account /\ s[a].info.nonce \in Int
    BY <1>1, JStateParts, StatesType, AccountParts DEF Good
  <1>3. acc \in Account /\ acc.info = s[a].info /\ acc.storage = st /\ acc.status = s[a].status
    BY <1>2, SetStorage
  <1>4. NiceAccount(d, a, s[a])
    BY <1>1 DEF Good, Nice
  <1> HIDE DEF acc
  <1>5. NiceAccount(d, a, acc)
    BY <1>1, <1>2, <1>3, <1>4 DEF NiceAccount
  <1>6. acc.info.nonce - Counted(e, a) = s[a].info.nonce
    BY <1>2, <1>3 DEF Counted
  <1>7. Step(j, k, d) /\ k.state[a] = acc
    BY <1>1, <1>3, <1>5, <1>6, AccountStep
  <1> HIDE DEF k
  <1>8. Step(j, k, d) /\ k.state[a].storage = st
    BY <1>3, <1>7
  <1>9. QED BY <1>8 DEF k, acc

\* sload is a step, after which the slot is warm.
LEMMA SLoadStep ==
  ASSUME NEW j, Good(j, db), DbOK(db), NEW a, Runs(j.state, a), NEW key \in Key
  PROVE  LET k == sload(j, a, key)
         IN Step(j, k, db) /\ key \in DOMAIN k.state[a].storage
  <1> DEFINE s     == j.state
             k     == sload(j, a, key)
             value == IF "Created" \in s[a].status THEN 0 ELSE db_storage(db, a, key)
             slot  == [original_value |-> value, present_value |-> value]
             st    == Over(s[a].storage, [l \in {key} |-> slot])
             e     == StorageEntry(a, key, <<>>)
             t     == [s EXCEPT ![a] = [@ EXCEPT !.storage = st]]
  <1>1. CASE key \in DOMAIN s[a].storage
    <2>1. k = j
      BY <1>1 DEF sload
    <2>2. QED BY <1>1, <2>1, StepSame
  <1>2. CASE key \notin DOMAIN s[a].storage
    <2>1. /\ a \in DOMAIN s \ {P} /\ s \in States /\ s[a] \in Account /\ a \in Address \ {P}
          /\ j \in JState
      BY JStateParts, StatesType DEF Good, Runs
    <2>2. k = Put(j, t, e)
      <3> DEFINE p == Push(j, e)
      <3>1. k = [p EXCEPT !.state[a].storage = Over(@, [l \in {key} |-> slot])]
        BY <1>2 DEF sload
      <3>2. p.state = s
        BY <2>1, PushIs DEF Put
      <3> HIDE DEF k, e, p, s, slot
      <3>3. [p EXCEPT !.state[a].storage = Over(@, [l \in {key} |-> slot])]
              = [p EXCEPT !.state = t]
        BY <3>2
      <3> HIDE DEF t
      <3>4. QED BY <2>1, <3>1, <3>3, PutIs DEF p
    <2>3. s[a].storage \in Slots /\ s[a].storage \in [DOMAIN s[a].storage -> Slot]
          /\ DOMAIN s[a].storage \subseteq Key
      BY <2>1, AccountParts, SlotsType
    <2>4. value \in Int
      BY <2>1, DbSlot
    <2> HIDE DEF value
    <2>5. slot \in Slot
      BY <2>4 DEF Slot
    <2> HIDE DEF slot
    <2>6. /\ DOMAIN st = DOMAIN s[a].storage \union {key} /\ st[key] = slot
          /\ \A l \in DOMAIN s[a].storage : st[l] = s[a].storage[l]
      BY <1>2 DEF Over
    <2>7. st \in [DOMAIN st -> Slot] /\ DOMAIN st \subseteq Key
      BY <2>3, <2>5, <2>6 DEF Over
    <2>8. st \in Slots
      BY <2>7, SlotsType
    <2>9. <<>> \in HadValue
      BY DEF HadValue
    <2>10. e \in EntryType /\ e.kind = "StorageChange" /\ e.address = a /\ e.key = key
          /\ e.had_value = <<>>
      BY <2>1, <2>9, SlotEntry
    <2> HIDE DEF st, e, k
    <2>11. Values(StorageBack(e, a, st)) = Values(s[a].storage)
      <3> DEFINE w == Without(st, key)
      <3>1. StorageBack(e, a, st) = w
        BY <2>10 DEF StorageBack
      <3>2. DOMAIN w = DOMAIN s[a].storage /\ \A l \in DOMAIN w : w[l] = s[a].storage[l]
        BY <1>2, <2>6 DEF Without
      <3> HIDE DEF w
      <3>3. Values(w) = Values(s[a].storage)
        BY <3>2, SameValues
      <3>4. QED BY <3>1, <3>3
    <2>12. Step(j, Put(j, t, e), db) /\ Put(j, t, e).state[a].storage = st
      BY <2>8, <2>10, <2>11, SlotStep
    <2> HIDE DEF t
    <2>13. Step(j, k, db) /\ k.state[a].storage = st
      BY <2>2, <2>12
    <2>14. key \in DOMAIN st
      BY <2>6
    <2>15. QED BY <2>13, <2>14 DEF k
  <1>3. QED BY <1>1, <1>2

\* sstore is a step.
LEMMA SStoreStep ==
  ASSUME NEW j, Good(j, db), DbOK(db), NEW a, Runs(j.state, a), NEW key \in Key, NEW new \in Int
  PROVE  Step(j, sstore(j, a, key, new), db)
  <1> DEFINE m    == sload(j, a, key)
             s    == m.state
             had  == s[a].storage[key].present_value
             st   == [s[a].storage EXCEPT ![key].present_value = new]
             e    == StorageEntry(a, key, <<had>>)
             t    == [s EXCEPT ![a] = [@ EXCEPT !.storage = st]]
             k    == sstore(j, a, key, new)
  <1>1. Step(j, m, db) /\ key \in DOMAIN s[a].storage
    BY SLoadStep
  <1>2. Good(m, db) /\ Runs(s, a) /\ m \in JState /\ s \in States
    BY <1>1, RunsOn, JStateParts DEF Step, Grows, Good
  <1>3. CASE had = new
    <2>1. k = m
      BY <1>3 DEF sstore
    <2>2. QED BY <1>1, <2>1
  <1>4. CASE had # new
    <2>1. a \in DOMAIN s \ {P} /\ s[a] \in Account /\ a \in Address \ {P}
      BY <1>2, StatesType DEF Runs
    <2>2. k = Put(m, t, e)
      <3> DEFINE p == Push(m, e)
      <3>1. k = [p EXCEPT !.state[a].storage[key].present_value = new]
        BY <1>4 DEF sstore
      <3>2. p.state = s
        BY <1>2, PushIs DEF Put
      <3> HIDE DEF k, e, p, s, had, m
      <3>3. [p EXCEPT !.state[a].storage[key].present_value = new] = [p EXCEPT !.state = t]
        BY <3>2
      <3> HIDE DEF t
      <3>4. QED BY <1>2, <3>1, <3>3, PutIs DEF p
    <2>3. s[a].storage \in Slots /\ s[a].storage \in [DOMAIN s[a].storage -> Slot]
          /\ DOMAIN s[a].storage \subseteq Key
      BY <2>1, AccountParts, SlotsType
    <2>4. s[a].storage[key] \in Slot /\ had \in Int
      BY <1>1, <2>3 DEF Slot
    <2> DEFINE slot == [s[a].storage[key] EXCEPT !.present_value = new]
    <2>5. slot \in Slot /\ slot.present_value = new
      BY <2>4 DEF Slot
    <2>6. st = [s[a].storage EXCEPT ![key] = slot]
      OBVIOUS
    <2>7. /\ DOMAIN st = DOMAIN s[a].storage /\ st \in [DOMAIN st -> Slot] /\ st[key] = slot
          /\ \A l \in DOMAIN s[a].storage : l # key => st[l] = s[a].storage[l]
      <3> HIDE DEF slot, s, st
      <3>1. QED BY <1>1, <2>3, <2>5, <2>6
    <2>8. st \in Slots
      BY <2>3, <2>7, SlotsType
    <2>9. <<had>> \in HadValue
      <3> HIDE DEF had
      <3>1. QED BY <2>4 DEF HadValue
    <2>10. e \in EntryType /\ e.kind = "StorageChange" /\ e.address = a /\ e.key = key
          /\ e.had_value = <<had>>
      <3> HIDE DEF had
      <3>1. QED BY <2>1, <2>9, SlotEntry
    <2>11. Values(StorageBack(e, a, st)) = Values(s[a].storage)
      <3> DEFINE w == [st EXCEPT ![key].present_value = had]
      <3>1. <<had>> # <<>> /\ <<had>>[1] = had
        OBVIOUS
      <3>2. StorageBack(e, a, st) = w
        <4> HIDE DEF had, e, st
        <4>1. QED BY <2>10, <3>1 DEF StorageBack
      <3>3. DOMAIN w = DOMAIN s[a].storage
            /\ \A l \in DOMAIN w : w[l].present_value = s[a].storage[l].present_value
        <4> DEFINE back == [slot EXCEPT !.present_value = had]
        <4>1. back.present_value = had
          <5> HIDE DEF slot, had
          <5>1. QED BY <2>5 DEF Slot
        <4>2. w = [st EXCEPT ![key] = back]
          <5> HIDE DEF st, had, slot
          <5>1. QED BY <2>7
        <4> HIDE DEF w, st, back
        <4>3. DOMAIN w = DOMAIN st /\ w[key] = back /\ \A l \in DOMAIN st : l # key => w[l] = st[l]
          BY <1>1, <2>7, <4>2
        <4>4. QED BY <1>1, <2>7, <4>1, <4>3
      <3> HIDE DEF w
      <3>4. Values(w) = Values(s[a].storage)
        BY <3>3, SameValues
      <3>5. QED BY <3>2, <3>4
    <2> HIDE DEF st, e, k, m
    <2>12. Step(m, Put(m, t, e), db)
      BY <1>2, <2>8, <2>10, <2>11, SlotStep
    <2>13. Step(j, k, db)
      BY <1>1, <2>2, <2>12, StepTrans
    <2>14. QED BY <2>13 DEF k
  <1>5. QED BY <1>3, <1>4

\* An entry pushed on a state replaced.
LEMMA PushWith ==
  ASSUME NEW j \in JState, NEW t \in States, NEW e
  PROVE  Push(With(j, t), e) = Put(j, t, e)
  <1> DEFINE q == With(j, t)
  <1>1. /\ q \in JState /\ q.state = t /\ q.logs = j.logs /\ q.depth = j.depth
        /\ q.journal = j.journal
    BY JStateParts DEF With, JState
  <1> HIDE DEF q
  <1>2. Push(q, e) = Put(q, t, e)
    <2>1. q \in JState /\ q.state = t
      BY <1>1
    <2>2. QED BY <2>1, PushIs
  <1>3. Put(q, t, e) = Put(j, t, e)
    <2>1. Pushed(q, e) = Pushed(j, e)
      BY <1>1 DEF Pushed
    <2>2. QED BY <1>1, <2>1 DEF Put
  <1>4. QED BY <1>2, <1>3 DEF q

\* What a payment of v from x to y is to a.
Gain(a, x, y, v) == (IF a = y THEN v ELSE 0) - (IF a = x THEN v ELSE 0)

\* The two halves of a payment.
PaidOut(s, x, v) == [s EXCEPT ![x].info.balance = @ - v]
PaidIn(s, x, v)  == [s EXCEPT ![x].info.balance = @ + v]

\* A payment between two accounts, which may be the same one.
LEMMA Payment ==
  ASSUME NEW s \in States, NEW x, NEW y, NEW v \in Int
  PROVE  LET t == PaidIn(PaidOut(s, x, v), y, v)
         IN /\ t \in States /\ DOMAIN t = DOMAIN s
            /\ \A a \in DOMAIN s :
                 /\ t[a].info.balance = s[a].info.balance + Gain(a, x, y, v)
                 /\ t[a].info.nonce = s[a].info.nonce
                 /\ t[a].status = s[a].status /\ t[a].storage = s[a].storage
                 /\ a # x /\ a # y => t[a] = s[a]
  <1> DEFINE w == -v
             r == [s EXCEPT ![x].info.balance = @ - v]
             p == [s EXCEPT ![x].info.balance = @ + w]
             t == [r EXCEPT ![y].info.balance = @ + v]
  <1>1. w \in Int /\ \A b \in Int : b - v = b + w
    OBVIOUS
  <1>2. r = p
    <2>1. CASE x \in DOMAIN s
      <3>1. s[x] \in Account /\ s[x].info.balance \in Int
        BY <2>1, StatesType, AccountParts
      <3>2. QED BY <1>1, <3>1
    <2>2. CASE x \notin DOMAIN s
      <3>1. s \in [DOMAIN s -> Account]
        BY StatesType
      <3>2. r = s /\ p = s
        BY <2>2, <3>1
      <3>3. QED BY <3>2
    <2>3. QED BY <2>1, <2>2
  <1>3. /\ p \in States /\ DOMAIN p = DOMAIN s
        /\ \A a \in DOMAIN s :
             /\ p[a] \in Account
             /\ p[a].info.balance = s[a].info.balance + (IF a = x THEN w ELSE 0)
             /\ p[a].info.nonce = s[a].info.nonce
             /\ p[a].status = s[a].status /\ p[a].storage = s[a].storage
             /\ a # x => p[a] = s[a]
    <2>1. w \in Int
      BY <1>1
    <2> HIDE DEF w, r, t
    <2>2. QED BY <2>1, OneBalance
  <1> HIDE DEF r, p
  <1>4. r \in States
    BY <1>2, <1>3
  <1>5. /\ t \in States /\ DOMAIN t = DOMAIN r
        /\ \A a \in DOMAIN r :
             /\ t[a] \in Account
             /\ t[a].info.balance = r[a].info.balance + (IF a = y THEN v ELSE 0)
             /\ t[a].info.nonce = r[a].info.nonce
             /\ t[a].status = r[a].status /\ t[a].storage = r[a].storage
             /\ a # y => t[a] = r[a]
    BY <1>4, OneBalance
  <1> HIDE DEF t
  <1>6. \A a \in DOMAIN s : s[a].info.balance \in Int
    BY StatesType, AccountParts
  <1>7. \A a \in DOMAIN s :
          t[a].info.balance = s[a].info.balance + Gain(a, x, y, v)
    BY <1>1, <1>2, <1>3, <1>5, <1>6 DEF Gain
  <1>8. QED BY <1>2, <1>3, <1>5, <1>7 DEF t, r, PaidIn, PaidOut

\* An entry that says what P was paid takes it back.
LEMMA PaidBack ==
  ASSUME NEW d, NEW e \in EntryType, NEW s \in States, NEW t \in States, DOMAIN t = DOMAIN s,
         P \in DOMAIN s => t[P].info.balance + Credit(e, P) = s[P].info.balance
  PROVE  SameP(d, s, Undo(e, t))
  <1> DEFINE u == Undo(e, t)
  <1>1. UndoneState(e, t, u)
    BY UndoAt
  <1> HIDE DEF u
  <1>2. /\ P \in DOMAIN s <=> P \in DOMAIN u
        /\ P \in DOMAIN u => u[P].info.balance = t[P].info.balance + Credit(e, P)
    BY <1>1 DEF UndoneState, UndoneAccount, Gone
  <1>3. Bal(d, s, P) = Bal(d, u, P)
    BY <1>2 DEF Bal
  <1>4. QED BY <1>2, <1>3 DEF SameP, u

\* What moving value and noting it leads to.
MoveLeads(j, from, to, value, k, d) ==
  /\ Step(j, k, d)
  /\ DOMAIN k.state = DOMAIN j.state
  /\ \A a \in DOMAIN j.state :
       /\ k.state[a].info.balance = j.state[a].info.balance + Gain(a, from, to, value)
       /\ k.state[a].info.nonce = j.state[a].info.nonce
       /\ k.state[a].status = j.state[a].status /\ k.state[a].storage = j.state[a].storage

\* Moving value between touched accounts is a step.
LEMMA MoveStep ==
  ASSUME NEW j, NEW d, Good(j, d), NEW from \in DOMAIN j.state \ {P}, NEW to \in DOMAIN j.state,
         "Touched" \in j.state[from].status, "Touched" \in j.state[to].status,
         NEW value \in Nat, value <= j.state[from].info.balance
  PROVE  MoveLeads(j, from, to, value,
                   Push(Move(j, from, to, value), TransferEntry(from, to, value)), d)
  <1> DEFINE s == j.state
             r == PaidOut(s, from, value)
             t == PaidIn(r, to, value)
             e == TransferEntry(from, to, value)
             k == Push(Move(j, from, to, value), e)
  <1>1. /\ j \in JState /\ s \in States /\ s \in [DOMAIN s -> Account] /\ DOMAIN s \subseteq Address
        /\ Funded(d) /\ value \in Int
    BY JStateParts, StatesType DEF Good
  <1>2. /\ t \in States /\ DOMAIN t = DOMAIN s
        /\ \A a \in DOMAIN s :
             /\ t[a].info.balance = s[a].info.balance + Gain(a, from, to, value)
             /\ t[a].info.nonce = s[a].info.nonce
             /\ t[a].status = s[a].status /\ t[a].storage = s[a].storage
             /\ a # from /\ a # to => t[a] = s[a]
    <2>1. s \in States /\ value \in Int
      BY <1>1
    <2> HIDE DEF s
    <2>2. QED BY <2>1, Payment
  <1>3. Move(j, from, to, value) = [j EXCEPT !.state = t]
    <2>1. Move(j, from, to, value)
            = [[j EXCEPT !.state[from].info.balance = @ - value]
                 EXCEPT !.state[to].info.balance = @ + value]
      BY DEF Move
    <2>2. [j EXCEPT !.state[from].info.balance = @ - value] = [j EXCEPT !.state = r]
      BY DEF PaidOut
    <2>3. j = [state |-> s, logs |-> j.logs, depth |-> j.depth, journal |-> j.journal]
      BY <1>1, JStateParts
    <2> HIDE DEF s, r
    <2>4. [j EXCEPT !.state = r] = [state |-> r, logs |-> j.logs, depth |-> j.depth,
                                    journal |-> j.journal]
      BY <2>3
    <2> DEFINE q == [state |-> r, logs |-> j.logs, depth |-> j.depth, journal |-> j.journal]
    <2>5. [q EXCEPT !.state[to].info.balance = @ + value]
            = [state |-> t, logs |-> j.logs, depth |-> j.depth, journal |-> j.journal]
      BY DEF PaidIn
    <2>6. [[j EXCEPT !.state = r] EXCEPT !.state[to].info.balance = @ + value]
            = [state |-> t, logs |-> j.logs, depth |-> j.depth, journal |-> j.journal]
      BY <2>4, <2>5
    <2>7. [j EXCEPT !.state = t]
            = [state |-> t, logs |-> j.logs, depth |-> j.depth, journal |-> j.journal]
      <3> HIDE DEF t
      <3>1. QED BY <2>3
    <2>8. QED BY <2>1, <2>2, <2>6, <2>7 DEF r, s
  <1> HIDE DEF t
  <1>4. k = Put(j, t, e)
    <2>1. Move(j, from, to, value) = With(j, t)
      BY <1>1, <1>3, WithIs
    <2>2. QED BY <1>1, <1>2, <2>1, PushWith
  <1>5. e \in EntryType /\ e.kind = "BalanceTransfer" /\ e.from = from /\ e.to = to
        /\ e.balance = value
    <2>1. from \in Address \ {P} /\ to \in Address
      BY <1>1
    <2>2. e \in [kind : {"BalanceTransfer"}, from : Address \ {P}, to : Address, balance : Int]
      BY <2>1 DEF TransferEntry
    <2>3. e.kind = "BalanceTransfer" /\ e.from = from /\ e.to = to /\ e.balance = value
      BY DEF TransferEntry
    <2>4. QED BY <2>2, <2>3 DEF EntryType
  <1> HIDE DEF e, k
  <1>6. DOMAIN s \ {P} = (DOMAIN t \ Gone(e)) \ {P}
    BY <1>2, <1>5 DEF Gone
  <1>7. ASSUME NEW a \in DOMAIN s
        PROVE  /\ t[a].info.balance + Credit(e, a) = s[a].info.balance
               /\ t[a].info.nonce - Counted(e, a) = s[a].info.nonce
               /\ StatusBack(e, a, t[a].status) \intersect Marks = s[a].status \intersect Marks
               /\ Values(StorageBack(e, a, t[a].storage)) = Values(s[a].storage)
    <2>1. s[a].info.balance \in Int /\ s[a].info.nonce \in Int
      BY <1>1, AccountParts
    <2>2. /\ Counted(e, a) = 0 /\ StatusBack(e, a, t[a].status) = t[a].status
          /\ StorageBack(e, a, t[a].storage) = t[a].storage
          /\ Credit(e, a) = (IF a = from THEN value ELSE 0) - (IF a = to THEN value ELSE 0)
      BY <1>5 DEF Counted, StatusBack, StorageBack, Credit
    <2>3. Gain(a, from, to, value) \in Int /\ Credit(e, a) = - Gain(a, from, to, value)
      BY <2>2 DEF Gain
    <2>4. QED BY <1>2, <2>1, <2>2, <2>3
  <1>8. Restored(s, Undo(e, t))
    BY <1>1, <1>2, <1>5, <1>6, <1>7, TakesBack
  <1>9. Keeps(s, t)
    BY <1>2 DEF Keeps
  <1>10. Nice(t, d)
    <2> SUFFICES ASSUME NEW a \in DOMAIN t PROVE NiceAccount(d, a, t[a])
      BY DEF Nice
    <2>1. NiceAccount(d, a, s[a])
      BY <1>2 DEF Good, Nice
    <2>2. CASE a = from \/ a = to
      <3>1. s[a].info.balance \in Nat /\ (a = from => value <= s[a].info.balance)
        BY <2>1 DEF NiceAccount
      <3>2. s[a].info.balance + Gain(a, from, to, value) \in Nat
        BY <3>1 DEF Gain
      <3>3. t[a].info.balance \in Nat
        BY <1>2, <3>2
      <3>4. QED BY <1>2, <2>1, <2>2, <3>3 DEF NiceAccount
    <2>3. CASE a # from /\ a # to
      BY <1>2, <2>1, <2>3
    <2>4. QED BY <2>2, <2>3
  <1>11. NamesP(e) => PTouched(t)
    BY <1>2, <1>5 DEF NamesP, PTouched
  <1>12. Alike(d, s, Undo(e, t))
    <2>1. P \in DOMAIN s => t[P].info.balance + Credit(e, P) = s[P].info.balance
      BY <1>7
    <2>2. SameP(d, s, Undo(e, t))
      BY <1>1, <1>2, <1>5, <2>1, PaidBack
    <2>3. QED BY <1>8, <2>2 DEF Alike
  <1>13. Frugal(d, s, t)
    <2>1. Intact(s, t)
      BY <1>2 DEF Intact
    <2>2. from \in Address /\ to \in Address
      BY <1>1
    <2>3. ASSUME NEW x \in Address
          PROVE  Bal(d, t, x) =
                   Bal(d, s, x) + ((IF x = to THEN value ELSE 0) - (IF x = from THEN value ELSE 0))
      <3>1. CASE x \in DOMAIN s
        BY <1>2, <3>1 DEF Bal, Gain
      <3>2. CASE x \notin DOMAIN s
        <4>1. x # to /\ x # from
          BY <3>2
        <4>2. d[x].info.balance \in Nat
          BY <1>1 DEF Funded
        <4> HIDE DEF s
        <4>3. QED BY <1>2, <3>2, <4>1, <4>2 DEF Bal
      <3>3. QED BY <3>1, <3>2
    <2> HIDE DEF s
    <2>4. QED BY <1>1, <1>2, <2>1, <2>2, <2>3, FrugalPaid
  <1>14. Step(j, Put(j, t, e), d)
    BY <1>2, <1>5, <1>9, <1>10, <1>11, <1>12, <1>13, StepJournaled
  <1>15. Put(j, t, e).state = t
    BY DEF Put
  <1>16. MoveLeads(j, from, to, value, k, d)
    BY <1>2, <1>4, <1>14, <1>15 DEF MoveLeads
  <1>17. QED BY <1>16 DEF k, e

\* transfer is a step, whether or not the balance suffices.
LEMMA TransferStep ==
  ASSUME NEW j, NEW d, Good(j, d), NEW from \in DOMAIN j.state \ {P}, NEW to \in DOMAIN j.state,
         NEW value \in Nat, value <= j.state[from].info.balance
  PROVE  Step(j, transfer(j, from, to, value), d)
  <1> DEFINE m == touch(j, from)
             n == touch(m, to)
             k == Push(Move(n, from, to, value), TransferEntry(from, to, value))
  <1>1. TouchLeads(j, from, m, d)
    BY TouchStep
  <1>2. Good(m, d) /\ to \in DOMAIN m.state /\ from \in DOMAIN m.state \ {P}
        /\ "Touched" \in m.state[from].status /\ Step(j, m, d)
        /\ value <= m.state[from].info.balance
    BY <1>1 DEF TouchLeads, Step
  <1> HIDE DEF m
  <1>3. TouchLeads(m, to, n, d)
    BY <1>2, TouchStep
  <1> HIDE DEF n
  <1>4. /\ Good(n, d) /\ to \in DOMAIN n.state /\ from \in DOMAIN n.state \ {P}
        /\ "Touched" \in n.state[from].status /\ "Touched" \in n.state[to].status
        /\ Step(m, n, d) /\ value <= n.state[from].info.balance
    BY <1>2, <1>3 DEF TouchLeads, Step
  <1>5. MoveLeads(n, from, to, value, k, d)
    BY <1>4, MoveStep
  <1>6. Step(n, k, d)
    BY <1>5 DEF MoveLeads
  <1>7. Step(j, k, d)
    BY <1>2, <1>4, <1>6, StepTrans
  <1>8. k = transfer(j, from, to, value)
    BY DEF transfer, n, m
  <1>9. QED BY <1>7, <1>8

\* What create_account_checkpoint makes of the account.
Zeros(st) == [k \in DOMAIN st |-> [original_value |-> 0, present_value |-> 0]]
FreshOf(acc) == [info |-> acc.info, storage |-> Zeros(acc.storage),
                 status |-> acc.status \union {"Created"}]

\* The account created is an account.
LEMMA FreshAccount ==
  ASSUME NEW acc \in Account
  PROVE  FreshOf(acc) \in Account
  <1>1. acc.storage \in Slots /\ DOMAIN acc.storage \subseteq Key
    BY AccountParts, SlotsType
  <1>2. DOMAIN Zeros(acc.storage) = DOMAIN acc.storage
        /\ Zeros(acc.storage) \in [DOMAIN acc.storage -> Slot]
    BY DEF Zeros, Slot
  <1>3. Zeros(acc.storage) \in Slots
    BY <1>1, <1>2, SlotsType
  <1>4. acc.info \in Info /\ acc.status \union {"Created"} \in SUBSET Status
    BY AccountParts DEF Status
  <1>5. QED BY <1>3, <1>4 DEF FreshOf, Account

\* The first part of create_account_checkpoint, which leaves no entry: an
\* account without a nonce has nothing in its storage that could be lost.
LEMMA FreshStep ==
  ASSUME NEW j, NEW d, Good(j, d), NEW a \in DOMAIN j.state \ {P}, j.state[a].info.nonce = 0
  PROVE  LET k == With(j, [j.state EXCEPT ![a] = FreshOf(@)])
         IN /\ Step(j, k, d) /\ DOMAIN k.state = DOMAIN j.state
            /\ k.state[a] = FreshOf(j.state[a])
            /\ \A b \in DOMAIN j.state : b # a => k.state[b] = j.state[b]
  <1> DEFINE s   == j.state
             acc == FreshOf(s[a])
             t   == [s EXCEPT ![a] = acc]
  <1>1. s \in States /\ s[a] \in Account
    BY JStateParts, StatesType DEF Good
  <1>2. acc \in Account
    BY <1>1, FreshAccount
  <1>3. /\ t \in States /\ DOMAIN t = DOMAIN s
        /\ \A b \in DOMAIN s : t[b] = IF b = a THEN acc ELSE s[b]
    <2> HIDE DEF acc, s
    <2>1. QED BY <1>1, <1>2, StateSet
  <1>4. /\ acc.info = s[a].info /\ acc.storage = Zeros(s[a].storage)
        /\ acc.status = s[a].status \union {"Created"}
    BY DEF FreshOf
  <1> HIDE DEF t, acc
  <1>5. NiceAccount(d, a, s[a])
    BY DEF Good, Nice
  <1>6. /\ DOMAIN acc.storage = DOMAIN s[a].storage
        /\ \A k \in DOMAIN acc.storage : acc.storage[k].present_value = s[a].storage[k].present_value
        /\ \A k \in DOMAIN acc.storage : acc.storage[k].present_value = 0
    BY <1>4, <1>5 DEF NiceAccount, Zeros
  <1>7. Essence(acc) = Essence(s[a])
    <2>1. Values(acc.storage) = Values(s[a].storage)
      BY <1>6, SameValues
    <2>2. acc.status \intersect Marks = s[a].status \intersect Marks
      BY <1>4 DEF Marks
    <2>3. QED BY <1>4, <2>1, <2>2, EssenceParts
  <1>8. Restored(s, t)
    BY <1>3, <1>7 DEF Restored
  <1>9. Keeps(s, t)
    BY <1>3, <1>4 DEF Keeps
  <1>10. NiceAccount(d, a, acc)
    BY <1>5, <1>7, NiceEssence
  <1>11. Nice(t, d)
    <2>1. NiceAccount(d, a, t[a])
      BY <1>3, <1>10
    <2>2. QED BY <1>3, <2>1, NiceOne DEF Good
  <1>12. \A b \in Address : Bal(d, s, b) = Bal(d, t, b)
    BY <1>3, <1>4 DEF Bal
  <1>13. Alike(d, s, t)
    <2>1. P \in Address
      BY ConstAssumption DEF P
    <2>2. QED BY <1>3, <1>8, <1>12, <2>1 DEF Alike, SameP
  <1>14. Frugal(d, s, t)
    <2>1. Intact(s, t)
      BY <1>3, <1>4 DEF Intact
    <2>2. QED BY <1>1, <1>3, <1>12, <2>1, FrugalAs DEF Good
  <1>15. Step(j, With(j, t), d)
    BY <1>3, <1>9, <1>11, <1>13, <1>14, StepUnseen
  <1>16. With(j, t).state = t
    BY DEF With
  <1>17. QED BY <1>3, <1>15, <1>16 DEF t, acc

\* create_account_checkpoint, past its checks, is a step to a state in which the
\* created account runs.
LEMMA CreateStep ==
  ASSUME NEW j, NEW d, Good(j, d), NEW caller \in DOMAIN j.state \ {P},
         "Touched" \in j.state[caller].status, NEW a \in DOMAIN j.state \ {P},
         j.state[a].info.nonce = 0, NEW value \in Nat, value <= j.state[caller].info.balance
  PROVE  LET k == CreateAccount(j, caller, a, value)
         IN Step(j, k, d) /\ Runs(k.state, a)
  <1> DEFINE f == [j EXCEPT
                    !.state[a].status = @ \union {"Created"},
                    !.state[a].storage =
                      [k \in DOMAIN @ |-> [original_value |-> 0, present_value |-> 0]]]
             m == touch(f, a)
             s == m.state
             acc == [s[a] EXCEPT !.info.nonce = 1]
             t == [s EXCEPT ![a] = acc]
             e == Entry("NonceChange", a)
             n == Put(m, t, e)
             k == Push(Move(n, caller, a, value), TransferEntry(caller, a, value))
  <1>1. j \in JState /\ j.state \in States /\ j.state[a] \in Account
    BY JStateParts, StatesType DEF Good
  <1>2. f = With(j, [j.state EXCEPT ![a] = FreshOf(@)])
    <2> DEFINE q  == j.state
               q1 == [q EXCEPT ![a].status = @ \union {"Created"}]
               q2 == [q1 EXCEPT ![a].storage = Zeros(q[a].storage)]
    <2>1. f = [[j EXCEPT !.state[a].status = @ \union {"Created"}]
                 EXCEPT !.state[a].storage = Zeros(q[a].storage)]
      BY DEF Zeros
    <2>2. j = [state |-> q, logs |-> j.logs, depth |-> j.depth, journal |-> j.journal]
      BY <1>1, JStateParts
    <2>3. q[a] = [info |-> q[a].info, storage |-> q[a].storage, status |-> q[a].status]
      BY <1>1 DEF Account
    <2> DEFINE z == Zeros(q[a].storage)
    <2> HIDE DEF z
    <2>4. [[j EXCEPT !.state[a].status = @ \union {"Created"}] EXCEPT !.state[a].storage = z]
            = [state |-> [[q EXCEPT ![a].status = @ \union {"Created"}] EXCEPT ![a].storage = z],
               logs |-> j.logs, depth |-> j.depth, journal |-> j.journal]
      <3> HIDE DEF f, m, s, t, n, k, q
      <3> DEFINE p  == [q EXCEPT ![a].status = @ \union {"Created"}]
                 j1 == [state |-> p, logs |-> j.logs, depth |-> j.depth, journal |-> j.journal]
      <3>1. [j EXCEPT !.state[a].status = @ \union {"Created"}] = [j EXCEPT !.state = p]
        BY DEF q
      <3>2. [j EXCEPT !.state[a].status = @ \union {"Created"}] = j1
        <4> HIDE DEF p
        <4>1. [j EXCEPT !.state = p] = j1
          BY <2>2
        <4>2. QED BY <3>1, <4>1
      <3>3. [j1 EXCEPT !.state[a].storage = z]
              = [state |-> [p EXCEPT ![a].storage = z],
                 logs |-> j.logs, depth |-> j.depth, journal |-> j.journal]
        <4> HIDE DEF p
        <4>1. QED OBVIOUS
      <3>4. QED BY <3>2, <3>3
    <2>5. [[q EXCEPT ![a].status = @ \union {"Created"}] EXCEPT ![a].storage = z]
            = [q EXCEPT ![a] = [info |-> q[a].info, storage |-> z,
                                status |-> q[a].status \union {"Created"}]]
      <3>1. a \in DOMAIN q
        OBVIOUS
      <3> HIDE DEF q, f, m, s, t, n, k
      <3> DEFINE r1 == [q[a] EXCEPT !.status = @ \union {"Created"}]
                 r2 == [r1 EXCEPT !.storage = z]
                 p1 == [q EXCEPT ![a] = r1]
      <3>2. r2 = [info |-> q[a].info, storage |-> z, status |-> q[a].status \union {"Created"}]
        <4> DEFINE i0 == q[a].info
                   s0 == q[a].storage
                   u0 == q[a].status
                   c0 == q[a]
                   v0 == u0 \union {"Created"}
        <4>1. c0 = [info |-> i0, storage |-> s0, status |-> u0]
          BY <2>3
        <4>2. r1 = [c0 EXCEPT !.status = v0]
          OBVIOUS
        <4>3. r2 = [r1 EXCEPT !.storage = z]
          OBVIOUS
        <4> HIDE DEF i0, s0, u0, c0, v0, r1, r2
        <4>4. r1 = [info |-> i0, storage |-> s0, status |-> v0]
          BY <4>1, <4>2
        <4>5. r2 = [info |-> i0, storage |-> z, status |-> v0]
          BY <4>3, <4>4
        <4>6. QED BY <4>5 DEF i0, v0, u0
      <3>3. [q EXCEPT ![a].status = @ \union {"Created"}] = p1
        OBVIOUS
      <3> HIDE DEF r1
      <3>4. [p1 EXCEPT ![a].storage = z] = [q EXCEPT ![a] = r2]
        BY <3>1
      <3> HIDE DEF r2, p1
      <3>5. QED BY <3>2, <3>3, <3>4
    <2>6. QED BY <2>1, <2>4, <2>5 DEF With, FreshOf, z
  <1> HIDE DEF f
  <1>3. /\ Step(j, f, d) /\ Good(f, d) /\ DOMAIN f.state = DOMAIN j.state
        /\ f.state[a] = FreshOf(j.state[a])
        /\ \A b \in DOMAIN j.state : b # a => f.state[b] = j.state[b]
    BY <1>2, FreshStep DEF Step
  <1>4. a \in DOMAIN f.state \ {P} /\ caller \in DOMAIN f.state \ {P}
        /\ f.state[a].info.nonce = 0 /\ "Touched" \in f.state[caller].status
        /\ value <= f.state[caller].info.balance
    BY <1>3 DEF FreshOf
  <1>5. TouchLeads(f, a, m, d)
    BY <1>3, <1>4, TouchStep
  <1> HIDE DEF m
  <1>6. /\ Step(f, m, d) /\ Good(m, d) /\ a \in DOMAIN s \ {P} /\ caller \in DOMAIN s \ {P}
        /\ s[a].info.nonce = 0 /\ "Touched" \in s[caller].status /\ "Touched" \in s[a].status
        /\ value <= s[caller].info.balance
    BY <1>4, <1>5 DEF TouchLeads, Step
  <1>7. m \in JState /\ s \in States /\ s[a] \in Account /\ a \in Address \ {P}
    BY <1>6, JStateParts, StatesType DEF Good
  <1>8. /\ acc \in Account /\ acc.info.nonce = 1 /\ acc.info.balance = s[a].info.balance
        /\ acc.storage = s[a].storage /\ acc.status = s[a].status
    <2>1. 1 \in Int
      OBVIOUS
    <2>2. QED BY <1>7, <2>1, SetNonce
  <1>9. e \in EntryType /\ e.kind = "NonceChange" /\ e.address = a
    <2>1. e \in EntryOf("NonceChange", Address \ {P})
      BY <1>7 DEF Entry, EntryOf
    <2>2. e.kind = "NonceChange" /\ e.address = a
      BY DEF Entry
    <2>3. QED BY <2>1, <2>2 DEF EntryType
  <1>10. NiceAccount(d, a, acc)
    <2>1. NiceAccount(d, a, s[a])
      BY <1>6 DEF Good, Nice
    <2>2. MaxNonce \in Nat \ {0}
      BY ConstAssumption
    <2>3. 1 \in 0..MaxNonce
      BY <2>2
    <2> HIDE DEF acc, s
    <2>4. QED BY <1>6, <1>8, <2>1, <2>3 DEF NiceAccount
  <1>11. Counted(e, a) = 1 /\ StorageBack(e, a, acc.storage) = acc.storage
    BY <1>9 DEF Counted, StorageBack
  <1> HIDE DEF acc, e
  <1>12. /\ Step(m, n, d) /\ DOMAIN n.state = DOMAIN s /\ n.state[a] = acc
         /\ \A b \in DOMAIN s : b # a => n.state[b] = s[b]
    <2>1. /\ acc.info.nonce - Counted(e, a) = s[a].info.nonce
          /\ Values(StorageBack(e, a, acc.storage)) = Values(s[a].storage)
          /\ s[a].info.nonce >= 1 => acc.info.nonce >= 1
      BY <1>6, <1>8, <1>11
    <2>2. QED BY <1>6, <1>8, <1>9, <1>10, <2>1, AccountStep
  <1>13. [Push(m, e) EXCEPT !.state = t] = n
    <2> HIDE DEF t
    <2>1. QED BY <1>7, PutIs
  <1>14. Push([m EXCEPT !.state[a].info.nonce = 1], e) = n
    <2>1. [m EXCEPT !.state[a].info.nonce = 1] = [m EXCEPT !.state = t]
      BY DEF acc
    <2>2. t \in States
      BY <1>7, <1>8, StateSet
    <2> HIDE DEF t
    <2>3. QED BY <1>7, <2>1, <2>2, WithIs, PushWith
  <1>15. /\ Good(n, d) /\ caller \in DOMAIN n.state \ {P} /\ a \in DOMAIN n.state
         /\ "Touched" \in n.state[caller].status /\ "Touched" \in n.state[a].status
         /\ n.state[a].info.nonce = 1 /\ value <= n.state[caller].info.balance
    <2> HIDE DEF s, n, t
    <2>1. Good(n, d) /\ caller \in DOMAIN n.state \ {P} /\ a \in DOMAIN n.state
      BY <1>6, <1>12 DEF Step
    <2>2. "Touched" \in n.state[a].status /\ n.state[a].info.nonce = 1
      BY <1>6, <1>8, <1>12
    <2>3. "Touched" \in n.state[caller].status
      BY <1>6, <1>12, <2>2
    <2>4. value <= n.state[caller].info.balance
      <3>1. CASE caller = a
        <4>1. n.state[a].info.balance = s[a].info.balance
          BY <1>8, <1>12
        <4>2. QED BY <1>6, <3>1, <4>1
      <3>2. CASE caller # a
        <4>1. n.state[caller] = s[caller]
          BY <1>6, <1>12, <3>2
        <4>2. QED BY <1>6, <4>1
      <3>3. QED BY <3>1, <3>2
    <2>5. QED BY <2>1, <2>2, <2>3, <2>4
  <1>16. k = CreateAccount(j, caller, a, value)
    BY <1>14 DEF CreateAccount, m, f, e
  <1> HIDE DEF n
  <1>17. MoveLeads(n, caller, a, value, k, d)
    BY <1>15, MoveStep
  <1> HIDE DEF k
  <1>18. Step(n, k, d) /\ Runs(k.state, a)
    BY <1>6, <1>15, <1>17 DEF MoveLeads, Runs
  <1>19. Step(j, k, d)
    BY <1>3, <1>6, <1>12, <1>15, <1>18, StepTrans
  <1>20. QED BY <1>16, <1>18, <1>19

\* What the state is when a has been destroyed in favour of target.
Destroyed(s, a, target, t) ==
  /\ t \in States /\ DOMAIN t = DOMAIN s
  /\ t[a].info.balance = 0 /\ t[a].info.nonce = s[a].info.nonce
  /\ t[a].storage = s[a].storage /\ t[a].status = s[a].status \union {"SelfDestructed"}
  /\ target # a =>
       /\ t[target].info.balance = s[target].info.balance + s[a].info.balance
       /\ t[target].info.nonce = s[target].info.nonce
       /\ t[target].storage = s[target].storage /\ t[target].status = s[target].status
  /\ \A b \in DOMAIN s : b # a /\ b # target => t[b] = s[b]

\* The entry that selfdestruct pushes.
DestroyedEntry(a, target, was_destroyed, had_balance) ==
  [kind |-> "AccountDestroyed", address |-> a, target |-> target,
   was_destroyed |-> was_destroyed, had_balance |-> had_balance]

\* Destroying a running account is a step.
LEMMA DestroyedStep ==
  ASSUME NEW j, NEW d, Good(j, d), NEW a, Runs(j.state, a), NEW target \in DOMAIN j.state,
         target # a => "Touched" \in j.state[target].status, NEW t,
         Destroyed(j.state, a, target, t), burnt'
  PROVE  LET e == DestroyedEntry(a, target, "SelfDestructed" \in j.state[a].status,
                                 j.state[a].info.balance)
         IN Step(j, Put(j, t, e), d)
  <1> DEFINE s   == j.state
             was == "SelfDestructed" \in s[a].status
             had == s[a].info.balance
             e   == DestroyedEntry(a, target, was, had)
  <1>1. /\ s \in States /\ s \in [DOMAIN s -> Account] /\ DOMAIN s \subseteq Address
        /\ a \in DOMAIN s \ {P} /\ s[a] \in Account /\ s[target] \in Account
        /\ "Touched" \in s[a].status /\ s[a].info.nonce >= 1
    BY JStateParts, StatesType DEF Good, Runs
  <1>2. had \in Int /\ s[target].info.balance \in Int
    BY <1>1, AccountParts
  <1>3. t \in States /\ DOMAIN t = DOMAIN s
    BY DEF Destroyed
  <1>4. e \in EntryType
    <2>1. was \in BOOLEAN
      OBVIOUS
    <2>2. a \in Address \ {P} /\ target \in Address
      BY <1>1
    <2> HIDE DEF was, had
    <2>3. e \in [kind : {"AccountDestroyed"}, address : Address \ {P}, target : Address,
                 was_destroyed : BOOLEAN, had_balance : Int]
      BY <1>2, <2>1, <2>2 DEF DestroyedEntry
    <2> HIDE DEF e
    <2>4. QED BY <2>3 DEF EntryType
  <1>5. /\ e.kind = "AccountDestroyed" /\ e.address = a /\ e.target = target
        /\ e.had_balance = had
    BY DEF DestroyedEntry
  <1>6. e.was_destroyed <=> was
    BY DEF DestroyedEntry
  <1> HIDE DEF e
  <1>7. DOMAIN s \ {P} = (DOMAIN t \ Gone(e)) \ {P}
    BY <1>3, <1>5 DEF Gone
  <1>8. ASSUME NEW b \in DOMAIN s
        PROVE  /\ t[b].info.balance + Credit(e, b) = s[b].info.balance
               /\ t[b].info.nonce - Counted(e, b) = s[b].info.nonce
               /\ StatusBack(e, b, t[b].status) \intersect Marks = s[b].status \intersect Marks
               /\ Values(StorageBack(e, b, t[b].storage)) = Values(s[b].storage)
    <2>1. s[b].info.balance \in Int /\ s[b].info.nonce \in Int
      BY <1>1, AccountParts
    <2>2. /\ Counted(e, b) = 0 /\ StorageBack(e, b, t[b].storage) = t[b].storage
          /\ Credit(e, b) = (IF b = a THEN had ELSE 0)
                              - (IF b = target /\ b # a THEN had ELSE 0)
      BY <1>5 DEF Counted, StorageBack, Credit
    <2>3. CASE b = a
      <3>1. /\ t[b].info.balance = 0 /\ t[b].info.nonce = s[b].info.nonce
            /\ t[b].storage = s[b].storage
            /\ t[b].status = s[b].status \union {"SelfDestructed"}
        BY <2>3 DEF Destroyed
      <3>2. Credit(e, b) = s[b].info.balance
        BY <1>2, <2>2, <2>3
      <3>3. StatusBack(e, b, t[b].status)
              = IF was THEN t[b].status \union {"SelfDestructed"}
                       ELSE t[b].status \ {"SelfDestructed"}
        BY <1>5, <1>6, <2>3 DEF StatusBack
      <3>4. StatusBack(e, b, t[b].status) \intersect Marks = s[b].status \intersect Marks
        <4>1. CASE was
          BY <2>3, <3>1, <3>3, <4>1
        <4>2. CASE ~was
          BY <2>3, <3>1, <3>3, <4>2
        <4>3. QED BY <4>1, <4>2
      <3>5. Values(StorageBack(e, b, t[b].storage)) = Values(s[b].storage)
        BY <2>2, <3>1
      <3> HIDE DEF s, had, was
      <3>6. t[b].info.balance + Credit(e, b) = s[b].info.balance
        BY <2>1, <3>1, <3>2
      <3>7. t[b].info.nonce - Counted(e, b) = s[b].info.nonce
        BY <2>1, <2>2, <3>1
      <3>8. QED BY <3>4, <3>5, <3>6, <3>7
    <2>4. CASE b # a
      <3>1. StatusBack(e, b, t[b].status) = t[b].status
        BY <1>5, <2>4 DEF StatusBack
      <3>2. CASE b = target
        <4>1. /\ t[b].info.balance = s[b].info.balance + had
              /\ t[b].info.nonce = s[b].info.nonce
              /\ t[b].storage = s[b].storage /\ t[b].status = s[b].status
          BY <2>4, <3>2 DEF Destroyed
        <4>2. Credit(e, b) = -had
          BY <1>2, <2>2, <2>4, <3>2
        <4> HIDE DEF had
        <4>3. QED BY <1>2, <2>1, <2>2, <3>1, <4>1, <4>2
      <3>3. CASE b # target
        <4>1. t[b] = s[b]
          BY <2>4, <3>3 DEF Destroyed
        <4>2. Credit(e, b) = 0
          BY <2>2, <2>4, <3>3
        <4>3. QED BY <2>1, <2>2, <3>1, <4>1, <4>2
      <3>4. QED BY <3>2, <3>3
    <2>5. QED BY <2>3, <2>4
  <1>9. Restored(s, Undo(e, t))
    BY <1>1, <1>3, <1>4, <1>7, <1>8, TakesBack
  <1>10. ASSUME NEW b \in DOMAIN s
         PROVE  /\ t[b].info.nonce = s[b].info.nonce
                /\ s[b].status \subseteq t[b].status
                /\ "Created" \in t[b].status => "Created" \in s[b].status
                /\ b # a /\ b # target => t[b] = s[b]
    <2>1. CASE b = a
      BY <2>1 DEF Destroyed
    <2>2. CASE b # a /\ b = target
      BY <2>2 DEF Destroyed
    <2>3. CASE b # a /\ b # target
      BY <2>3 DEF Destroyed
    <2>4. QED BY <2>1, <2>2, <2>3
  <1>11. Keeps(s, t)
    BY <1>3, <1>10 DEF Keeps
  <1>12. Nice(t, d)
    <2> SUFFICES ASSUME NEW b \in DOMAIN t PROVE NiceAccount(d, b, t[b])
      BY DEF Nice
    <2>1. NiceAccount(d, b, s[b])
      BY <1>3 DEF Good, Nice
    <2>2. CASE b # a /\ b # target
      <3>1. t[b] = s[b]
        BY <1>3, <1>10, <2>2
      <3>2. QED BY <2>1, <3>1
    <2>3. CASE b = a \/ b = target
      <3>1. "Touched" \in t[b].status
        BY <1>1, <1>3, <1>10, <2>3
      <3>2. t[b].info.nonce = s[b].info.nonce /\ t[b].storage = s[b].storage
        BY <1>3, <1>10, <2>3 DEF Destroyed
      <3>3. t[b].info.balance \in Nat
        <4>1. s[a].info.balance \in Nat /\ s[b].info.balance \in Nat
          BY <1>1, <2>1 DEF Good, Nice, NiceAccount
        <4>2. t[b].info.balance = 0 \/ t[b].info.balance = s[b].info.balance + s[a].info.balance
          BY <2>3 DEF Destroyed
        <4>3. QED BY <4>1, <4>2
      <3>4. QED BY <2>1, <3>1, <3>2, <3>3 DEF NiceAccount
    <2>4. QED BY <2>2, <2>3
  <1>13. NamesP(e) => PTouched(t)
    <2>1. ASSUME NamesP(e) PROVE PTouched(t)
      <3>1. target = P
        BY <1>5, <2>1 DEF NamesP
      <3>2. P \in DOMAIN s /\ "Touched" \in s[P].status
        BY <1>1, <3>1
      <3>3. QED BY <1>3, <1>10, <3>2 DEF PTouched
    <2>2. QED BY <2>1
  <1>14. Alike(d, s, Undo(e, t))
    <2>1. P \in DOMAIN s => t[P].info.balance + Credit(e, P) = s[P].info.balance
      BY <1>8
    <2>2. SameP(d, s, Undo(e, t))
      BY <1>1, <1>3, <1>4, <2>1, PaidBack
    <2>3. QED BY <1>9, <2>2 DEF Alike
  <1>15. Wealth(d, t) <= Wealth(d, s)
    <2>1. Funded(d) /\ a \in Address /\ target \in Address
      BY <1>1 DEF Good
    <2>2. had \in Nat /\ a \in DOMAIN s
      BY <1>1 DEF Good, Nice, NiceAccount
    <2>3. \A b \in DOMAIN s : s[b].info.balance \in Int
      BY <1>1, AccountParts
    <2>4. \A b \in Address : d[b].info.balance \in Int
      BY <2>1 DEF Funded
    <2>5. Wealth(d, s) \in Int
      BY <1>1, <2>1, WealthType
    <2>6. CASE target = a
      <3>1. \A b \in Address : b # a => Bal(d, t, b) = Bal(d, s, b)
        BY <1>3, <1>10, <2>6 DEF Bal
      <3>2. Bal(d, t, a) = 0 /\ Bal(d, s, a) = had
        BY <1>3, <2>2 DEF Bal, Destroyed
      <3>3. Wealth(d, t) = Wealth(d, s) + (Bal(d, t, a) - Bal(d, s, a))
        BY <1>1, <1>3, <2>1, <3>1, WealthOne
      <3>4. QED BY <2>2, <2>5, <3>2, <3>3
    <2>7. CASE target # a
      <3>1. ASSUME NEW x \in Address
            PROVE  Bal(d, t, x) =
                     Bal(d, s, x) + ((IF x = target THEN had ELSE 0) - (IF x = a THEN had ELSE 0))
        <4>1. CASE x = a
          BY <1>3, <2>2, <2>7, <4>1 DEF Bal, Destroyed
        <4>2. CASE x = target
          <5>1. t[x].info.balance = s[x].info.balance + had
            BY <2>7, <4>2 DEF Destroyed
          <5>2. x \in DOMAIN s /\ s[x].info.balance \in Int
            BY <2>3, <4>2
          <5> HIDE DEF s, had
          <5>3. QED BY <1>2, <1>3, <2>7, <4>2, <5>1, <5>2 DEF Bal
        <4>3. CASE x # a /\ x # target
          <5>1. Bal(d, t, x) = Bal(d, s, x)
            BY <1>3, <1>10, <4>3 DEF Bal
          <5>2. Bal(d, s, x) \in Int
            BY <2>3, <2>4 DEF Bal
          <5>3. QED BY <4>3, <5>1, <5>2
        <4>4. QED BY <4>1, <4>2, <4>3
      <3>2. s \in States /\ t \in States /\ had \in Int
        BY <1>1, <1>2, <1>3
      <3> HIDE DEF s, had
      <3>3. Wealth(d, t) = Wealth(d, s)
        BY <2>1, <3>1, <3>2, WealthPaid
      <3>4. QED BY <2>5, <3>3
    <2>8. QED BY <2>6, <2>7
  <1>16. Frugal(d, s, t)
    BY <1>15 DEF Frugal
  <1>17. Step(j, Put(j, t, e), d)
    BY <1>3, <1>4, <1>11, <1>12, <1>13, <1>14, <1>16, StepJournaled
  <1>18. QED BY <1>17 DEF e

\* touch, as a change of the state that is entered in the journal.
TouchedIn(s, a) ==
  IF "Touched" \in s[a].status THEN s ELSE [s EXCEPT ![a].status = @ \union {"Touched"}]

\* touch of the code is that change.
LEMMA TouchIs ==
  ASSUME NEW j \in JState, NEW a
  PROVE  touch(j, a) = IF "Touched" \in j.state[a].status THEN j
                       ELSE Put(j, TouchedIn(j.state, a), Entry("AccountTouched", a))
  <1>1. CASE "Touched" \in j.state[a].status
    BY <1>1 DEF touch
  <1>2. CASE "Touched" \notin j.state[a].status
    <2> DEFINE e == Entry("AccountTouched", a)
               p == Push(j, e)
               k == touch(j, a)
               s == j.state
               t == [s EXCEPT ![a].status = @ \union {"Touched"}]
    <2>1. k = [p EXCEPT !.state[a].status = @ \union {"Touched"}]
      BY <1>2 DEF touch
    <2>2. p.state = s
      BY PushIs DEF Put
    <2>3. t = TouchedIn(s, a)
      BY <1>2 DEF TouchedIn
    <2> HIDE DEF k, e, p, s
    <2>4. [p EXCEPT !.state[a].status = @ \union {"Touched"}] = [p EXCEPT !.state = t]
      BY <2>2
    <2> HIDE DEF t
    <2>5. k = Put(j, t, e)
      BY <2>1, <2>4, PutIs DEF p
    <2>6. QED BY <1>2, <2>3, <2>5 DEF k, e, s
  <1>3. QED BY <1>1, <1>2

\* Touching leaves the same journal over a state where a has the same mark.
LEMMA TouchWith ==
  ASSUME NEW j \in JState, NEW q \in States, NEW a,
         "Touched" \in q[a].status <=> "Touched" \in j.state[a].status
  PROVE  touch(With(j, q), a) = With(touch(j, a), TouchedIn(q, a))
  <1> DEFINE w == With(j, q)
             e == Entry("AccountTouched", a)
  <1>1. /\ w \in JState /\ w.state = q /\ w.logs = j.logs /\ w.depth = j.depth
        /\ w.journal = j.journal
    BY JStateParts DEF With, JState
  <1> HIDE DEF w
  <1>2. touch(w, a) = IF "Touched" \in q[a].status THEN w ELSE Put(w, TouchedIn(q, a), e)
    BY <1>1, TouchIs
  <1>3. CASE "Touched" \in q[a].status
    <2>1. touch(j, a) = j /\ touch(w, a) = w /\ TouchedIn(q, a) = q
      BY <1>2, <1>3, TouchIs DEF TouchedIn
    <2>2. QED BY <2>1 DEF w
  <1>4. CASE "Touched" \notin q[a].status
    <2>1. /\ touch(j, a) = Put(j, TouchedIn(j.state, a), e)
          /\ touch(w, a) = Put(w, TouchedIn(q, a), e)
      BY <1>2, <1>4, TouchIs
    <2>2. Put(w, TouchedIn(q, a), e) = With(Put(j, TouchedIn(j.state, a), e), TouchedIn(q, a))
      BY <1>1 DEF Put, With, Pushed
    <2>3. QED BY <2>1, <2>2 DEF w
  <1>5. QED BY <1>3, <1>4

\* A journaled state with its state replaced.
LEMMA WithType ==
  ASSUME NEW j \in JState, NEW t \in States
  PROVE  /\ With(j, t) \in JState /\ With(j, t).state = t
         /\ With(j, t).journal = j.journal /\ With(j, t).logs = j.logs
         /\ With(j, t).depth = j.depth
         /\ \A u : With(With(j, t), u) = With(j, u)
  BY JStateParts DEF With, JState

\* SELFDESTRUCT
LEMMA SelfDestructStep ==
  ASSUME NEW j, Good(j, db), DbOK(db), NEW a, Runs(j.state, a), NEW target \in Address, burnt'
  PROVE  Step(j, selfdestruct(j, a, target), db)
  <1> DEFINE m   == load_account(j, target)
             s   == m.state
             had == s[a].info.balance
             st  == s[a].status \union {"SelfDestructed"}
             e   == DestroyedEntry(a, target, "SelfDestructed" \in s[a].status, had)
             emptied == [m EXCEPT !.state[a].info.balance = 0,
                                  !.state[a].status = @ \union {"SelfDestructed"}]
             k   == selfdestruct(j, a, target)
  <1>1. /\ Step(j, m, db) /\ Good(m, db) /\ target \in DOMAIN s /\ Runs(s, a)
    <2>1. LoadLeads(j, target, m)
      BY LoadStep
    <2> HIDE DEF m
    <2>2. QED BY <2>1, RunsOn DEF LoadLeads, Step, Grows
  <1>2. k = Push(IF a = target THEN emptied
                 ELSE [touch(emptied, target) EXCEPT !.state[target].info.balance = @ + had], e)
    BY DEF selfdestruct, DestroyedEntry
  <1> HIDE DEF m, k
  <1>3. /\ m \in JState /\ s \in States /\ a \in DOMAIN s \ {P} /\ s[a] \in Account
        /\ s[target] \in Account /\ had \in Int /\ st \subseteq Status
    BY <1>1, JStateParts, StatesType, AccountParts DEF Good, Runs, Status
  <1> DEFINE c == [s[a] EXCEPT !.info.balance = 0]
             b == [c EXCEPT !.status = st]
             q == [s EXCEPT ![a] = b]
  <1>4. /\ b \in Account /\ b.info.balance = 0 /\ b.info.nonce = s[a].info.nonce
        /\ b.storage = s[a].storage /\ b.status = st
    <2>1. /\ c \in Account /\ c.info.balance = 0 /\ c.info.nonce = s[a].info.nonce
          /\ c.storage = s[a].storage
      <3>1. 0 \in Int
        OBVIOUS
      <3>2. QED BY <1>3, <3>1, SetBalance
    <2> HIDE DEF c, st
    <2>2. QED BY <1>3, <2>1, SetStatus
  <1>5. /\ q \in States /\ DOMAIN q = DOMAIN s
        /\ \A x \in DOMAIN s : q[x] = IF x = a THEN b ELSE s[x]
    <2> HIDE DEF b
    <2>1. QED BY <1>3, <1>4, StateSet
  <1>6. emptied = With(m, q)
    <2> DEFINE q1 == [s EXCEPT ![a].info.balance = 0]
               m1 == With(m, q1)
    <2>1. emptied = [[m EXCEPT !.state[a].info.balance = 0] EXCEPT !.state[a].status = st]
      OBVIOUS
    <2>2. q1 = [s EXCEPT ![a] = c] /\ q1 \in States
      <3>1. q1 = [s EXCEPT ![a] = c]
        OBVIOUS
      <3>2. c \in Account
        <4>1. 0 \in Int
          OBVIOUS
        <4>2. QED BY <1>3, <4>1, SetBalance
      <3> HIDE DEF c
      <3>3. [s EXCEPT ![a] = c] \in States
        BY <1>3, <3>2, StateSet
      <3>4. QED BY <3>1, <3>3
    <2>3. [m EXCEPT !.state[a].info.balance = 0] = m1
      <3>1. [m EXCEPT !.state[a].info.balance = 0] = [m EXCEPT !.state = q1]
        OBVIOUS
      <3> HIDE DEF q1, s
      <3>2. [m EXCEPT !.state = q1] = m1
        BY <1>3, WithIs
      <3>3. QED BY <3>1, <3>2
    <2>4. [q1 EXCEPT ![a].status = st] = q
      <3> DEFINE p == [s EXCEPT ![a] = c]
      <3>1. a \in DOMAIN s
        BY <1>3
      <3> HIDE DEF s, st, c
      <3>2. [p EXCEPT ![a].status = st] = [s EXCEPT ![a] = [c EXCEPT !.status = st]]
        BY <3>1
      <3>3. QED BY <2>2, <3>2
    <2> HIDE DEF q1, q, st, s
    <2>5. m1 \in JState /\ m1.state = q1 /\ With(m1, q) = With(m, q)
      BY <1>3, <2>2, WithType
    <2> HIDE DEF m1
    <2>6. [m1 EXCEPT !.state[a].status = st] = With(m1, q)
      <3>1. [m1 EXCEPT !.state[a].status = st] = [m1 EXCEPT !.state = [q1 EXCEPT ![a].status = st]]
        BY <2>5
      <3>2. [m1 EXCEPT !.state[a].status = st] = [m1 EXCEPT !.state = q]
        BY <2>4, <3>1
      <3>3. QED BY <2>5, <3>2, WithIs
    <2>7. QED BY <2>1, <2>3, <2>5, <2>6
  <1> HIDE DEF q, b, emptied
  <1>7. CASE a = target
    <2>1. k = Put(m, q, e)
      <3> HIDE DEF e
      <3>1. k = Push(With(m, q), e)
        BY <1>2, <1>6, <1>7
      <3>2. QED BY <1>3, <1>5, <3>1, PushWith
    <2>2. Destroyed(s, a, target, q)
      BY <1>3, <1>4, <1>5, <1>7 DEF Destroyed
    <2>3. Step(m, Put(m, q, e), db)
      BY <1>1, <1>7, <2>2, DestroyedStep
    <2>4. QED BY <1>1, <2>1, <2>3, StepTrans DEF k
  <1>8. CASE a # target
    <2> DEFINE n == touch(m, target)
               q2 == TouchedIn(q, target)
               t  == [q2 EXCEPT ![target].info.balance = @ + had]
    <2>1. /\ Step(m, n, db) /\ Good(n, db) /\ n \in JState /\ DOMAIN n.state = DOMAIN s
          /\ \A x \in DOMAIN s : x # target => n.state[x] = s[x]
          /\ n.state[target].info = s[target].info /\ n.state[target].storage = s[target].storage
          /\ n.state[target].status = s[target].status \union {"Touched"}
      <3>1. TouchLeads(m, target, n, db)
        BY <1>1, TouchStep
      <3> HIDE DEF n, s
      <3>2. QED BY <3>1, SMTT(40) DEF TouchLeads, Step, Good, s
    <2>2. q[target] = s[target]
      BY <1>1, <1>5, <1>8
    <2>3. /\ q2 \in States /\ DOMAIN q2 = DOMAIN s
          /\ \A x \in DOMAIN s : x # target => q2[x] = q[x]
          /\ q2[target].info = s[target].info /\ q2[target].storage = s[target].storage
          /\ q2[target].status = s[target].status \union {"Touched"}
      <3>1. CASE "Touched" \in q[target].status
        <4>1. q2 = q /\ s[target].status = s[target].status \union {"Touched"}
          BY <2>2, <3>1 DEF TouchedIn
        <4>2. QED BY <1>5, <2>2, <4>1
      <3>2. CASE "Touched" \notin q[target].status
        <4> DEFINE f  == [q[target] EXCEPT !.status = @ \union {"Touched"}]
                   qf == [q EXCEPT ![target] = f]
        <4>1. q2 = qf
          BY <3>2 DEF TouchedIn
        <4>2. /\ f \in Account /\ f.info = s[target].info /\ f.storage = s[target].storage
              /\ f.status = s[target].status \union {"Touched"}
          <5>1. s[target].status \union {"Touched"} \in SUBSET Status
            BY <1>3, AccountParts DEF Status
          <5>2. q[target] \in Account /\ q[target] = s[target]
            BY <1>3, <2>2
          <5> HIDE DEF q, q2, t, n
          <5>3. QED BY <5>1, <5>2, SetStatus
        <4> HIDE DEF f
        <4>3. /\ qf \in States /\ DOMAIN qf = DOMAIN q
              /\ \A x \in DOMAIN q : qf[x] = IF x = target THEN f ELSE q[x]
          BY <1>5, <4>2, StateSet
        <4> HIDE DEF q2, qf
        <4>4. QED BY <1>1, <1>5, <4>1, <4>2, <4>3
      <3>3. QED BY <3>1, <3>2
    <2>4. touch(emptied, target) = With(n, q2)
      <3>1. "Touched" \in q[target].status <=> "Touched" \in m.state[target].status
        BY <2>2
      <3>2. QED BY <1>3, <1>5, <1>6, <3>1, TouchWith
    <2> HIDE DEF q2
    <2> DEFINE g == [q2[target] EXCEPT !.info.balance = @ + had]
    <2>5. /\ g \in Account /\ g.info.balance = s[target].info.balance + had
          /\ g.info.nonce = s[target].info.nonce /\ g.storage = s[target].storage
          /\ g.status = s[target].status \union {"Touched"}
      <3>1. q2[target] \in Account
        BY <1>1, <2>3, StatesType
      <3>2. q2[target].info.balance + had \in Int
        BY <1>3, <3>1, AccountParts
      <3> HIDE DEF had
      <3>3. /\ g \in Account /\ g.info.balance = q2[target].info.balance + had
            /\ g.info.nonce = q2[target].info.nonce
            /\ g.storage = q2[target].storage /\ g.status = q2[target].status
        BY <3>1, <3>2, SetBalance
      <3>4. QED BY <2>3, <3>3
    <2>6. t = [q2 EXCEPT ![target] = g]
      <3> HIDE DEF had
      <3>1. QED OBVIOUS
    <2> DEFINE tg == [q2 EXCEPT ![target] = g]
    <2>7. /\ tg \in States /\ DOMAIN tg = DOMAIN s
          /\ \A x \in DOMAIN s : tg[x] = IF x = target THEN g ELSE q2[x]
      <3> HIDE DEF g
      <3>1. QED BY <2>3, <2>5, StateSet
    <2>8. k = Put(n, tg, e)
      <3> DEFINE w == With(n, q2)
                 v == q2[target].info.balance + had
      <3>1. k = Push([w EXCEPT !.state[target].info.balance = @ + had], e)
        <4> HIDE DEF w, e, n, had
        <4>1. QED BY <1>2, <1>8, <2>4 DEF w
      <3>2. w \in JState /\ w.state = q2 /\ With(w, tg) = With(n, tg)
        <4> HIDE DEF tg, n
        <4>1. QED BY <2>1, <2>3, WithType
      <3> HIDE DEF w, had, s
      <3>3. [w EXCEPT !.state[target].info.balance = @ + had]
              = [w EXCEPT !.state[target].info.balance = v]
        BY <3>2
      <3>4. [q2 EXCEPT ![target].info.balance = v] = tg
        BY <2>6
      <3> HIDE DEF v, tg, e, n
      <3>5. [w EXCEPT !.state[target].info.balance = v] = With(n, tg)
        <4>1. [w EXCEPT !.state[target].info.balance = v]
                = [w EXCEPT !.state = [q2 EXCEPT ![target].info.balance = v]]
          BY <3>2
        <4>2. [w EXCEPT !.state[target].info.balance = v] = [w EXCEPT !.state = tg]
          BY <3>4, <4>1
        <4>3. [w EXCEPT !.state = tg] = With(w, tg)
          BY <3>2, WithIs
        <4>4. QED BY <3>2, <4>2, <4>3
      <3>6. QED BY <2>1, <2>7, <3>1, <3>3, <3>5, PushWith
    <2> HIDE DEF t, tg, g, n
    <2>9. Destroyed(n.state, a, target, tg)
      <3>1. /\ tg[a].info.balance = 0 /\ tg[a].info.nonce = n.state[a].info.nonce
            /\ tg[a].storage = n.state[a].storage
            /\ tg[a].status = n.state[a].status \union {"SelfDestructed"}
        <4>1. tg[a] = b /\ n.state[a] = s[a]
          BY <1>3, <1>5, <1>8, <2>1, <2>3, <2>7
        <4>2. QED BY <1>4, <4>1
      <3>2. n.state[a] = s[a]
        BY <1>3, <1>8, <2>1
      <3>3. /\ tg[target].info.balance = n.state[target].info.balance + n.state[a].info.balance
            /\ tg[target].info.nonce = n.state[target].info.nonce
            /\ tg[target].storage = n.state[target].storage
            /\ tg[target].status = n.state[target].status
        BY <1>1, <2>1, <2>5, <2>7, <3>2
      <3>4. ASSUME NEW x \in DOMAIN s, x # a, x # target PROVE tg[x] = n.state[x]
        BY <1>5, <2>1, <2>3, <2>7, <3>4
      <3>5. QED BY <2>1, <2>7, <3>1, <3>3, <3>4 DEF Destroyed
    <2>10. /\ Runs(n.state, a) /\ target \in DOMAIN n.state
           /\ "Touched" \in n.state[target].status
      BY <1>1, <2>1, RunsOn DEF Step, Grows
    <2>11. e = DestroyedEntry(a, target, "SelfDestructed" \in n.state[a].status,
                              n.state[a].info.balance)
      BY <1>3, <1>8, <2>1
    <2>12. Step(n, Put(n, tg, e), db)
      <3> HIDE DEF e
      <3>1. QED BY <2>1, <2>9, <2>10, <2>11, DestroyedStep
    <2>13. QED BY <1>1, <2>1, <2>8, <2>12, StepTrans DEF k
  <1>9. QED BY <1>7, <1>8

-----------------------------------------------------------------------------
(* Subroutines                                                              *)

\* What a step from j leads to when it may leave sets of the journal behind.
Leads(j, k, d) == Good(k, d) /\ Grows(j, k, d) /\ k.depth = j.depth

\* A step is a special case.
LEMMA StepLeads ==
  ASSUME NEW j, NEW k, NEW d, Step(j, k, d)
  PROVE  Leads(j, k, d)
  BY DEF Step, Leads

\* Leads is transitive.
LEMMA LeadsTrans ==
  ASSUME NEW j, NEW k, NEW l, NEW d, Good(j, d), Leads(j, k, d), Leads(k, l, d)
  PROVE  Leads(j, l, d)
  BY GrowsTrans DEF Leads, Good

\* call_inner
LEMMA CallLeads ==
  ASSUME NEW j, Good(j, db), DbOK(db), NEW contract \in Address,
         NEW from \in DOMAIN j.state \ {P}, NEW to \in DOMAIN j.state \union {contract},
         NEW value \in Nat, NEW precompile_ok
  PROVE  Leads(j, call_inner(j, contract, from, to, value, precompile_ok).js, db)
  <1> DEFINE loaded == load_account(j, contract)
             cp     == Checkpoint(loaded)
             opened == checkpoint(loaded)
             asked  == touch(opened, from)
             paying == IF value = 0 THEN touch(opened, to) ELSE opened
             moved  == transfer(paying, from, to, value)
             k      == call_inner(j, contract, from, to, value, precompile_ok).js
  <1>1. \/ k = loaded
        \/ k = checkpoint_revert(asked, cp)
        \/ /\ ~(opened.state[from].info.balance < value)
           /\ k = checkpoint_revert(moved, cp) \/ k = checkpoint_commit(moved)
    <2> HIDE DEF loaded, cp, opened, asked, paying, moved
    <2>1. k = IF j.depth > CALL_STACK_LIMIT THEN loaded
              ELSE IF opened.state[from].info.balance < value THEN checkpoint_revert(asked, cp)
              ELSE IF contract = PRECOMPILE3 /\ ~precompile_ok THEN checkpoint_revert(moved, cp)
              ELSE checkpoint_commit(moved)
      BY DEF call_inner, loaded, cp, opened, asked, paying, moved
    <2> HIDE DEF k
    <2>2. QED BY <2>1
  <1>2. /\ Step(j, loaded, db) /\ Good(loaded, db)
        /\ DOMAIN loaded.state = DOMAIN j.state \union {contract}
    BY LoadStep DEF LoadLeads, Step
  <1> HIDE DEF k, loaded
  <1>3. /\ Good(opened, db) /\ Grows(loaded, opened, db) /\ opened.state = loaded.state
        /\ opened.depth = loaded.depth + 1
    BY <1>2, Opened
  <1> HIDE DEF opened
  <1>4. from \in DOMAIN opened.state \ {P} /\ to \in DOMAIN opened.state
    BY <1>2, <1>3
  <1>5. Step(opened, asked, db)
    BY <1>3, <1>4, TouchStep DEF TouchLeads
  <1>6. /\ Step(opened, paying, db) /\ DOMAIN paying.state = DOMAIN opened.state
        /\ paying.state[from].info = opened.state[from].info
    <2>1. CASE value = 0
      <3>1. TouchLeads(opened, to, touch(opened, to), db)
        BY <1>3, <1>4, TouchStep
      <3>2. QED BY <1>4, <2>1, <3>1 DEF TouchLeads
    <2>2. CASE value # 0
      BY <1>3, <2>2, StepSame
    <2>3. QED BY <2>1, <2>2
  <1> HIDE DEF asked, paying
  <1>7. ASSUME ~(opened.state[from].info.balance < value)
        PROVE  Step(paying, moved, db)
    <2>1. opened.state[from].info.balance \in Nat
      BY <1>3, <1>4 DEF Good, Nice, NiceAccount
    <2>2. value <= paying.state[from].info.balance
      BY <1>6, <1>7, <2>1
    <2>3. QED BY <1>4, <1>6, <2>2, TransferStep DEF Step
  <1> HIDE DEF moved
  <1>8. ~(opened.state[from].info.balance < value) => Step(opened, moved, db)
    BY <1>3, <1>6, <1>7, StepTrans
  <1>9. ASSUME NEW m, Step(opened, m, db)
        PROVE  /\ Leads(loaded, checkpoint_revert(m, cp), db)
               /\ Leads(loaded, checkpoint_commit(m), db)
    <2>1. /\ Good(m, db) /\ m.depth = loaded.depth + 1 /\ Grows(checkpoint(loaded), m, db)
      BY <1>3, <1>9 DEF Step, opened
    <2>2. Step(loaded, checkpoint_revert(m, cp), db)
      BY <1>2, <2>1, StepTakenBack
    <2>3. Leads(loaded, checkpoint_commit(m), db)
      BY <1>2, <2>1, GrowsCommitted DEF Leads
    <2> HIDE DEF cp
    <2>4. QED BY <2>2, <2>3, StepLeads
  <1> HIDE DEF cp
  <1>10. Leads(loaded, k, db)
    <2>1. Leads(loaded, loaded, db)
      BY <1>2, StepSame, StepLeads
    <2>2. QED BY <1>1, <1>5, <1>8, <1>9, <2>1
  <1>11. Leads(j, k, db)
    BY <1>2, <1>10, StepLeads, LeadsTrans
  <1>12. QED BY <1>11 DEF k

\* What create_inner leads to when it starts init code in the frame f.
Enters(j, caller, k, f) ==
  /\ Good(k, db) /\ Grows(j, k, db) /\ k.depth = j.depth + 1
  /\ f = [address |-> f.address, checkpoint |-> f.checkpoint, before |-> f.before]
  /\ f.checkpoint = [log_i |-> f.checkpoint.log_i, journal_i |-> f.checkpoint.journal_i]
  /\ f.checkpoint.journal_i = Len(j.journal) /\ Len(k.journal) = Len(j.journal) + 1
  /\ f.checkpoint.log_i \in Nat /\ j.logs <= f.checkpoint.log_i /\ f.checkpoint.log_i <= k.logs
  /\ f.before \in States /\ Nice(f.before, db)
  /\ Alike(db, f.before, RevertTo(k, f.checkpoint.journal_i))
  /\ Keeps(j.state, f.before) /\ Keeps(f.before, k.state)
  /\ Frugal(db, j.state, f.before)
  /\ Runs(k.state, f.address)
  /\ \A b \in DOMAIN f.before :
       /\ "Created" \in f.before[b].status =>
            b \in DOMAIN j.state /\ "Created" \in j.state[b].status
       /\ "Touched" \in f.before[b].status /\ b # caller =>
            b \in DOMAIN j.state /\ j.state[b] = f.before[b]
       /\ b = caller => f.before[b].info.nonce >= 1

\* create_inner, up to the init code
LEMMA CreateLeads ==
  ASSUME NEW j, Good(j, db), DbOK(db), NEW caller \in DOMAIN j.state \ {P}, NEW value \in Nat,
         NEW scheme
  PROVE  LET ret == create_inner(j, caller, value, scheme)
         IN \/ ret.init = <<>> /\ Leads(j, ret.js, db)
            \/ \E f : ret.init = <<f>> /\ Enters(j, caller, ret.js, f)
  <1> DEFINE a      == CreatedAddress(j, caller, scheme)
             named  == inc_nonce(j, caller)
             loaded == load_account(named, a)
             opened == checkpoint(loaded)
             cp     == Checkpoint(loaded)
             made   == CreateAccount(opened, caller, a, value)
             ret    == create_inner(j, caller, value, scheme)
             f      == [address |-> a, checkpoint |-> cp, before |-> loaded.state]
  <1>1. j \in JState /\ j.state[caller].info.nonce \in 0..MaxNonce /\ caller \in Address
        /\ Len(j.journal) \in Nat /\ Len(j.journal) >= 1
    BY JStateParts, StatesType DEF Good, Nice, NiceAccount
  <1>2. a \in Address
    BY <1>1, ConstAssumption DEF CreatedAddress
  <1>3. \/ ret.init = <<>> /\ ret.js = j
        \/ /\ j.state[caller].info.nonce # MaxNonce
           /\ ret.init = <<>> /\ ret.js = checkpoint_revert(opened, cp)
        \/ /\ j.state[caller].info.nonce # MaxNonce
           /\ ~check_account_collision(loaded.state[a], a)
           /\ ~(j.state[caller].info.balance < value)
           /\ ret.init = <<f>> /\ ret.js = made
    <2> HIDE DEF a, named, loaded, opened, cp, made
    <2> DEFINE over(k, r) == [js |-> k, result |-> r, init |-> <<>>]
    <2>1. ret = IF j.depth > CALL_STACK_LIMIT \/ j.state[caller].info.balance < value
                  THEN over(j, "fail")
                ELSE IF j.state[caller].info.nonce = MaxNonce THEN over(j, "ok")
                ELSE IF check_account_collision(loaded.state[a], a)
                  THEN over(checkpoint_revert(opened, cp), "fail")
                ELSE [js |-> made, result |-> "ok", init |-> <<f>>]
      BY DEF create_inner, a, named, loaded, opened, cp, made
    <2> HIDE DEF ret, f
    <2>2. QED BY <2>1
  <1> HIDE DEF ret, a
  <1>4. CASE ret.init = <<>> /\ ret.js = j
    BY <1>4, StepSame, StepLeads DEF ret
  <1>5. ASSUME j.state[caller].info.nonce # MaxNonce
        PROVE  /\ Step(j, loaded, db) /\ Good(loaded, db) /\ a \in DOMAIN loaded.state
               /\ caller \in DOMAIN loaded.state \ {P}
               /\ "Touched" \in loaded.state[caller].status
               /\ loaded.state[caller].info.balance = j.state[caller].info.balance
               /\ Good(opened, db) /\ Grows(loaded, opened, db) /\ opened.state = loaded.state
               /\ opened.logs = loaded.logs /\ opened.depth = loaded.depth + 1
               /\ Len(opened.journal) = Len(loaded.journal) + 1
               /\ RevertTo(opened, Len(loaded.journal)) = loaded.state
               /\ \A b \in DOMAIN loaded.state :
                    /\ "Created" \in loaded.state[b].status =>
                         b \in DOMAIN j.state /\ "Created" \in j.state[b].status
                    /\ "Touched" \in loaded.state[b].status /\ b # caller =>
                         b \in DOMAIN j.state /\ j.state[b] = loaded.state[b]
                    /\ b = caller => loaded.state[b].info.nonce >= 1
    <2>1. IncLeads(j, caller, named, db)
      BY <1>5, IncStep
    <2> HIDE DEF named
    <2>2. /\ Step(j, named, db) /\ Good(named, db) /\ caller \in DOMAIN named.state \ {P}
          /\ "Touched" \in named.state[caller].status
          /\ named.state[caller].info.balance = j.state[caller].info.balance
      BY <2>1 DEF IncLeads, Step
    <2>3. LoadLeads(named, a, loaded)
      BY <1>2, <2>2, LoadStep
    <2> HIDE DEF loaded
    <2>4. /\ Step(named, loaded, db) /\ Good(loaded, db) /\ a \in DOMAIN loaded.state
          /\ caller \in DOMAIN loaded.state \ {P}
          /\ "Touched" \in loaded.state[caller].status
          /\ loaded.state[caller].info.balance = j.state[caller].info.balance
      BY <2>2, <2>3 DEF LoadLeads, Step
    <2>5. Step(j, loaded, db)
      BY <2>2, <2>4, StepTrans
    <2>6. ASSUME NEW b \in DOMAIN loaded.state
          PROVE  /\ "Created" \in loaded.state[b].status =>
                      b \in DOMAIN j.state /\ "Created" \in j.state[b].status
                 /\ "Touched" \in loaded.state[b].status /\ b # caller =>
                      b \in DOMAIN j.state /\ j.state[b] = loaded.state[b]
                 /\ b = caller => loaded.state[b].info.nonce >= 1
      <3>1. CASE b = caller
        <4>1. loaded.state[b] = named.state[b]
          BY <2>2, <2>3, <3>1 DEF LoadLeads
        <4>2. /\ named.state[b].info.nonce >= 1
              /\ named.state[b].status = j.state[b].status \union {"Touched"}
          BY <2>1, <3>1 DEF IncLeads
        <4>3. QED BY <3>1, <4>1, <4>2
      <3>2. CASE b # caller /\ b \in DOMAIN j.state
        <4>1. b \in DOMAIN named.state /\ named.state[b] = j.state[b]
          BY <2>1, <3>2 DEF IncLeads
        <4>2. loaded.state[b] = j.state[b]
          BY <2>3, <4>1 DEF LoadLeads
        <4>3. QED BY <3>2, <4>2
      <3>3. CASE b # caller /\ b \notin DOMAIN j.state
        <4>1. b = a /\ loaded.state[b] = Loaded(b, {})
          BY <2>1, <2>3, <3>3 DEF IncLeads, LoadLeads
        <4>2. Loaded(b, {}).status \subseteq {"LoadedAsNotExisting"}
          <5>1. {} \in SUBSET Key
            OBVIOUS
          <5>2. QED BY <1>2, <4>1, <5>1, LoadedAccount
        <4>3. QED BY <3>3, <4>1, <4>2
      <3>4. QED BY <3>1, <3>2, <3>3
    <2>7. QED BY <2>4, <2>5, <2>6, Opened
  <1>6. CASE /\ j.state[caller].info.nonce # MaxNonce
             /\ ret.init = <<>> /\ ret.js = checkpoint_revert(opened, cp)
    <2> HIDE DEF loaded
    <2>1. Good(loaded, db) /\ Good(opened, db) /\ Step(j, loaded, db)
          /\ opened.depth = loaded.depth + 1
      BY <1>5, <1>6
    <2>2. Grows(checkpoint(loaded), opened, db)
      BY <2>1, GrowsSame DEF Good
    <2>3. Step(loaded, checkpoint_revert(opened, cp), db)
      <3> HIDE DEF opened
      <3>1. QED BY <2>1, <2>2, StepTakenBack
    <2> HIDE DEF opened, cp
    <2>4. Leads(j, ret.js, db)
      BY <1>6, <2>1, <2>3, StepTrans, StepLeads
    <2>5. QED BY <1>6, <2>4 DEF ret
  <1>7. CASE /\ j.state[caller].info.nonce # MaxNonce
             /\ ~check_account_collision(loaded.state[a], a)
             /\ ~(j.state[caller].info.balance < value)
             /\ ret.init = <<f>> /\ ret.js = made
    <2>1. f.address = a /\ f.checkpoint = cp /\ f.before = loaded.state
          /\ f = [address |-> f.address, checkpoint |-> f.checkpoint, before |-> f.before]
          /\ cp = [log_i |-> loaded.logs, journal_i |-> Len(loaded.journal)]
      BY DEF Checkpoint
    <2> HIDE DEF loaded, opened, f, cp
    <2>2. a # P /\ loaded.state[a].info.nonce = 0
      <3> HIDE DEF made
      <3>1. QED BY <1>7 DEF check_account_collision, P
    <2>3. /\ Step(j, loaded, db) /\ Good(loaded, db) /\ Good(opened, db)
          /\ Grows(loaded, opened, db) /\ opened.state = loaded.state
          /\ opened.depth = loaded.depth + 1 /\ opened.logs = loaded.logs
          /\ Len(opened.journal) = Len(loaded.journal) + 1
          /\ RevertTo(opened, Len(loaded.journal)) = loaded.state
          /\ a \in DOMAIN opened.state \ {P} /\ opened.state[a].info.nonce = 0
          /\ caller \in DOMAIN opened.state \ {P}
          /\ "Touched" \in opened.state[caller].status
          /\ value <= opened.state[caller].info.balance
      <3>1. j.state[caller].info.balance \in Nat
        BY DEF Good, Nice, NiceAccount
      <3>2. value <= j.state[caller].info.balance
        BY <1>7, <3>1
      <3>3. QED BY <1>5, <1>7, <2>2, <3>2
    <2>4. Step(opened, made, db) /\ Runs(made.state, a)
      BY <2>3, CreateStep
    <2> HIDE DEF made
    <2>5. /\ Good(made, db) /\ Grows(opened, made, db) /\ made.depth = j.depth + 1
          /\ Len(loaded.journal) = Len(j.journal) /\ Len(made.journal) = Len(j.journal) + 1
      BY <2>3, <2>4 DEF Step
    <2>6. Grows(j, made, db)
      <3>1. Grows(j, loaded, db) /\ Grows(loaded, opened, db) /\ Grows(opened, made, db)
        BY <2>3, <2>4 DEF Step
      <3>2. /\ j \in JState /\ loaded \in JState /\ opened \in JState /\ made \in JState
            /\ Funded(db)
        BY <2>3, <2>5 DEF Good
      <3>3. Grows(loaded, made, db)
        BY <3>1, <3>2, GrowsTrans
      <3>4. QED BY <3>1, <3>2, <3>3, GrowsTrans
    <2>7. Alike(db, loaded.state, RevertTo(made, Len(j.journal)))
      <3>1. Len(j.journal) \in 1..(Len(opened.journal) - 1)
        BY <1>1, <2>3, <2>5
      <3>2. Alike(db, RevertTo(opened, Len(j.journal)), RevertTo(made, Len(j.journal)))
        BY <2>5, <3>1 DEF Grows
      <3>3. QED BY <2>3, <2>5, <3>2
    <2>8. /\ loaded.logs \in Nat /\ j.logs <= loaded.logs /\ loaded.logs <= made.logs
          /\ loaded.state \in States /\ Nice(loaded.state, db)
          /\ Keeps(j.state, loaded.state) /\ Keeps(loaded.state, made.state)
          /\ Frugal(db, j.state, loaded.state)
      <3>1. Good(loaded, db) /\ Grows(j, loaded, db) /\ Grows(opened, made, db)
        BY <2>3, <2>5 DEF Step
      <3>2. loaded.logs \in Nat /\ loaded.state \in States /\ Nice(loaded.state, db)
        BY <3>1, JStateParts DEF Good
      <3>3. QED BY <2>3, <3>1, <3>2 DEF Grows
    <2>9. \A b \in DOMAIN loaded.state :
             /\ "Created" \in loaded.state[b].status =>
                  b \in DOMAIN j.state /\ "Created" \in j.state[b].status
             /\ "Touched" \in loaded.state[b].status /\ b # caller =>
                  b \in DOMAIN j.state /\ j.state[b] = loaded.state[b]
             /\ b = caller => loaded.state[b].info.nonce >= 1
      BY <1>5, <1>7
    <2>10. cp.log_i = loaded.logs /\ cp.journal_i = Len(j.journal)
          /\ cp = [log_i |-> cp.log_i, journal_i |-> cp.journal_i]
      BY <2>1, <2>5
    <2>11. Enters(j, caller, made, f)
      BY <2>1, <2>4, <2>5, <2>6, <2>7, <2>8, <2>10, <2>9 DEF Enters
    <2>12. QED BY <1>7, <2>11 DEF ret
  <1>8. QED BY <1>3, <1>4, <1>6, <1>7

-----------------------------------------------------------------------------
(* Transactions                                                             *)

\* LOG writes no account.
LEMMA LogStep ==
  ASSUME NEW j, NEW d, Good(j, d)
  PROVE  Step(j, [j EXCEPT !.logs = @ + 1], d)
  <1> DEFINE k == [j EXCEPT !.logs = @ + 1]
  <1>1. /\ j \in JState /\ j.logs \in Nat
        /\ j = [state |-> j.state, logs |-> j.logs, depth |-> j.depth, journal |-> j.journal]
    BY JStateParts DEF Good
  <1>2. k \in JState /\ k.state = j.state /\ k.journal = j.journal /\ k.depth = j.depth
        /\ k.logs = j.logs + 1
    BY <1>1 DEF JState
  <1> HIDE DEF k
  <1>3. Good(k, d)
    BY <1>2 DEF Good
  <1>4. \A i : RevertTo(k, i) = RevertTo(j, i)
    BY <1>2 DEF RevertTo
  <1>5. Grows(j, k, d)
    <2>1. Len(j.journal) <= Len(k.journal) /\ j.logs <= k.logs /\ j.state \in States
      BY <1>1, <1>2, JStateParts
    <2>2. Frugal(d, j.state, k.state)
      BY <1>2, <2>1, FrugalSame DEF Good
    <2>3. QED BY <1>2, <1>4, <2>1, <2>2, AlikeSame, KeepsSame DEF Grows
  <1>6. QED BY <1>2, <1>3, <1>5 DEF Step, k

\* The empty sequence is the empty function.
LEMMA EmptyFunction ==
  ASSUME NEW s, s = <<>>
  PROVE  s \in [{} -> Account] /\ s \in [{} -> Slot]
  <1>1. s \in Seq(Account) /\ s \in Seq(Slot) /\ Len(s) = 0
    OBVIOUS
  <1>2. 1..0 = {}
    OBVIOUS
  <1>3. s \in [1..0 -> Account] /\ s \in [1..0 -> Slot]
    BY <1>1
  <1>4. QED BY <1>2, <1>3

\* The journaled state between transactions is good, whatever the database.
LEMMA NoJournalGood ==
  ASSUME NEW d, Funded(d)
  PROVE  /\ Good(NoJournal, d) /\ NoJournal.depth = 0 /\ DOMAIN NoJournal.state = {}
         /\ NoJournal.state \in States
         /\ NoJournal.journal = << <<>> >> /\ NoJournal.logs = 0
  <1>1. /\ NoJournal.state = <<>> /\ NoJournal.logs = 0 /\ NoJournal.depth = 0
        /\ NoJournal.journal = << <<>> >>
        /\ NoJournal = [state |-> NoJournal.state, logs |-> NoJournal.logs,
                        depth |-> NoJournal.depth, journal |-> NoJournal.journal]
    BY DEF NoJournal
  <1>2. NoJournal.state \in [{} -> Account]
    BY <1>1, EmptyFunction
  <1>3. NoJournal.state \in States /\ DOMAIN NoJournal.state = {}
    <2> HIDE DEF NoJournal
    <2>1. DOMAIN NoJournal.state = {}
      BY <1>2
    <2>2. QED BY <1>2, <2>1, StatesType
  <1>4. << <<>> >> \in Journals /\ << <<>> >> # <<>> /\ Len(<< <<>> >>) = 1
        /\ << <<>> >>[1] = <<>>
    BY DEF Journals
  <1>5. NoJournal \in JState
    <2>1. NoJournal.state \in States /\ NoJournal.logs \in Nat /\ NoJournal.depth \in Int
          /\ NoJournal.journal \in Journals
      BY <1>1, <1>4, <1>3
    <2> HIDE DEF NoJournal
    <2>2. QED BY <1>1, <2>1 DEF JState
  <1>6. Nice(NoJournal.state, d)
    BY <1>3 DEF Nice
  <1>7. JournalFits(NoJournal.state, NoJournal.journal)
    <2>1. ASSUME NEW i \in 1..1 PROVE Fits(NoJournal.state, << <<>> >>[i])
      <3>1. << <<>> >>[i] = <<>> /\ Len(<<>>) = 0
        BY <1>4
      <3>2. QED BY <3>1 DEF Fits
    <2>2. QED BY <1>1, <1>4, <2>1 DEF JournalFits
  <1>8. QED BY <1>1, <1>4, <1>5, <1>6, <1>7, <1>3 DEF Good

\* A state without transfers in its journal may be replaced by another.
LEMMA Replaced ==
  ASSUME NEW j, NEW d, Good(j, d), NEW t \in States, Nice(t, d),
         PTouched(j.state) => PTouched(t)
  PROVE  Good(With(j, t), d)
  <1>1. /\ With(j, t) \in JState /\ With(j, t).state = t /\ With(j, t).journal = j.journal
    BY WithType DEF Good
  <1>2. JournalFits(t, j.journal)
    BY DEF Good, JournalFits, Fits
  <1>3. QED BY <1>1, <1>2 DEF Good

\* Accounts that were loaded, and nothing else.
Fresh(s) == \A b \in DOMAIN s : s[b].status \subseteq {"LoadedAsNotExisting"}

\* Nothing is marked as destroyed.
Unmarked(s) == \A b \in DOMAIN s : "SelfDestructed" \notin s[b].status

\* Where nothing is newly marked, nothing is marked.
LEMMA UnmarkedOn ==
  ASSUME NEW s, NEW t, Unmarked(s), Intact(s, t)
  PROVE  Unmarked(t)
  BY DEF Unmarked, Intact

\* The state in which Prepare leaves the accounts.
First(s, caller) ==
  \A b \in DOMAIN s : /\ "Created" \notin s[b].status
                      /\ "Touched" \in s[b].status => b = caller

\* Over of accounts: the first state wins.
LEMMA OverOf ==
  ASSUME NEW s \in States, NEW D \in SUBSET Address, NEW g \in [D -> Account],
         NEW t, t = Over(s, g)
  PROVE  /\ t \in States /\ DOMAIN t = DOMAIN s \union D
         /\ \A b \in DOMAIN t : t[b] = IF b \in DOMAIN s THEN s[b] ELSE g[b]
  BY StatesType DEF Over

\* Accounts loaded before the transaction starts leave no entry.
Bare(j, D, g) ==
  /\ g \in [D -> Account]
  /\ \A b \in D : /\ b \notin DOMAIN j.state => NiceAccount(db, b, g[b])
                 /\ g[b].status \subseteq {"LoadedAsNotExisting"}

\* What loading accounts before the transaction leads to.
Warmed(j, D, k) ==
  /\ Good(k, db) /\ Fresh(k.state) /\ DOMAIN k.state = DOMAIN j.state \union D
  /\ k.depth = j.depth

\* Such a loading leaves a good state.
LEMMA WarmUp ==
  ASSUME NEW j, Good(j, db), Fresh(j.state), NEW D \in SUBSET Address,
         NEW g, Bare(j, D, g)
  PROVE  Warmed(j, D, [j EXCEPT !.state = Over(@, g)])
  <1> DEFINE s == j.state
             t == Over(s, g)
             k == [j EXCEPT !.state = Over(@, g)]
  <1>1. j \in JState /\ s \in States /\ Nice(s, db) /\ g \in [D -> Account]
    BY JStateParts DEF Good, Bare
  <1>2. /\ t \in States /\ DOMAIN t = DOMAIN s \union D
        /\ \A b \in DOMAIN t : t[b] = IF b \in DOMAIN s THEN s[b] ELSE g[b]
    <2> HIDE DEF s, k
    <2>1. s \in States /\ D \in SUBSET Address
      BY <1>1
    <2>2. QED BY <1>1, <2>1, OverOf
  <1>3. k = With(j, t)
    <2> HIDE DEF t
    <2>1. k = [j EXCEPT !.state = t]
      BY DEF t
    <2> HIDE DEF k
    <2>2. QED BY <1>1, <2>1, WithIs
  <1> HIDE DEF t, k
  <1>4. Nice(t, db)
    BY <1>1, <1>2 DEF Nice, Bare
  <1>5. PTouched(s) => PTouched(t)
    BY <1>2 DEF PTouched
  <1>6. Fresh(t)
    BY <1>2 DEF Fresh, Bare
  <1>7. Good(With(j, t), db)
    BY <1>2, <1>4, <1>5, Replaced
  <1>8. /\ With(j, t).state = t /\ With(j, t).journal = j.journal
        /\ With(j, t).logs = j.logs /\ With(j, t).depth = j.depth
    BY <1>1, <1>2, WithType
  <1>9. Warmed(j, D, k)
    BY <1>2, <1>3, <1>6, <1>7, <1>8 DEF Warmed
  <1>10. QED BY <1>9 DEF k

\* What Prepare leads to.
Prepared(j, caller) ==
  /\ Good(j, db) /\ j.depth = 0 /\ caller \in DOMAIN j.state \ {P}
  /\ Wealth(db, j.state) = Wealth(db, NoJournal.state) - Prepaid /\ Unmarked(j.state)
  /\ First(j.state, caller) /\ "Touched" \in j.state[caller].status

\* What Prepare leads to, for every sender.
LEMMA PrepareLeads ==
  ASSUME DbOK(db), NEW caller \in TxCaller, Prepaid <= db[caller].info.balance
  PROVE  Prepared(Prepare(caller), caller)
  <1> DEFINE bare == [b \in {coinbase} |-> Loaded(coinbase, {})]
             list == [a \in DOMAIN AccessList |-> Loaded(a, AccessList[a])]
             start  == initial_account_load(NoJournal, coinbase, {})
             warm   == [start EXCEPT !.state = Over(@, list)]
             loaded == load_account(warm, caller)
             s == loaded.state
             c == [s[caller] EXCEPT !.info.balance = @ - Prepaid]
             b == [c EXCEPT !.status = @ \union {"Touched"}]
             t == [s EXCEPT ![caller] = b]
             k == Prepare(caller)
  <1>1. /\ coinbase \in Address /\ caller \in Address \ {P} /\ Prepaid \in Nat /\ Prepaid \in Int
        /\ DOMAIN AccessList \in SUBSET Address
        /\ \A a \in DOMAIN AccessList : AccessList[a] \in SUBSET Key
    BY ConstAssumption DEF P
  <1>2. /\ Funded(db) /\ Good(NoJournal, db) /\ DOMAIN NoJournal.state = {}
        /\ NoJournal.state \in States /\ NoJournal.depth = 0
    BY DbFunded, NoJournalGood
  <1>3. /\ Good(start, db) /\ Fresh(start.state) /\ DOMAIN start.state = {coinbase}
        /\ start.depth = 0
    <2>1. start = [NoJournal EXCEPT !.state = Over(@, [b_1 \in {coinbase} |-> Loaded(coinbase, {})])]
      <3>1. coinbase \notin DOMAIN NoJournal.state
        BY <1>2
      <3>2. start = [NoJournal EXCEPT !.state = Over(@, [b_1 \in {coinbase} |-> Loaded(coinbase, {})])]
        BY <3>1 DEF initial_account_load
      <3>3. QED BY <3>2
    <2>2. /\ Loaded(coinbase, {}) \in Account /\ NiceAccount(db, coinbase, Loaded(coinbase, {}))
          /\ Loaded(coinbase, {}).status \subseteq {"LoadedAsNotExisting"}
      <3>1. {} \in SUBSET Key
        OBVIOUS
      <3>2. QED BY <1>1, <3>1, LoadedAccount
    <2>3. Bare(NoJournal, {coinbase}, bare)
      BY <2>2 DEF Bare
    <2>4. Fresh(NoJournal.state) /\ {coinbase} \in SUBSET Address
      BY <1>2, <1>1 DEF Fresh
    <2>5. start = [NoJournal EXCEPT !.state = Over(@, bare)]
      BY <2>1
    <2> HIDE DEF start, bare
    <2>6. Warmed(NoJournal, {coinbase}, start)
      BY <1>2, <2>3, <2>4, <2>5, WarmUp
    <2>7. QED BY <1>2, <2>6 DEF Warmed
  <1> HIDE DEF start
  <1>4. /\ Good(warm, db) /\ Fresh(warm.state) /\ warm.depth = 0
    <2>1. ASSUME NEW a \in DOMAIN AccessList
          PROVE  /\ list[a] \in Account
                 /\ a \notin DOMAIN start.state => NiceAccount(db, a, list[a])
                 /\ list[a].status \subseteq {"LoadedAsNotExisting"}
      <3>1. a \in Address /\ AccessList[a] \in SUBSET Key /\ list[a] = Loaded(a, AccessList[a])
        BY <1>1
      <3>2. /\ Loaded(a, AccessList[a]) \in Account
            /\ a # coinbase => NiceAccount(db, a, Loaded(a, AccessList[a]))
            /\ Loaded(a, AccessList[a]).status \subseteq {"LoadedAsNotExisting"}
        BY <3>1, LoadedAccount
      <3> HIDE DEF list
      <3>3. QED BY <1>3, <3>1, <3>2
    <2>2. list \in [DOMAIN AccessList -> Account]
      <3>1. DOMAIN list = DOMAIN AccessList /\ list = [a \in DOMAIN AccessList |-> list[a]]
        OBVIOUS
      <3> HIDE DEF list
      <3>2. QED BY <2>1, <3>1
    <2>3. Bare(start, DOMAIN AccessList, list)
      BY <2>1, <2>2 DEF Bare
    <2> HIDE DEF list
    <2>4. Warmed(start, DOMAIN AccessList, warm)
      BY <1>1, <1>3, <2>3, WarmUp DEF warm
    <2>5. QED BY <1>3, <2>4 DEF Warmed
  <1> HIDE DEF warm
  <1>5. LoadLeads(warm, caller, loaded)
    BY <1>1, <1>4, LoadStep
  <1> HIDE DEF loaded
  <1>6. /\ Good(loaded, db) /\ loaded.depth = 0 /\ caller \in DOMAIN s \ {P}
    BY <1>1, <1>4, <1>5 DEF LoadLeads, Step
  <1>7. Fresh(s)
    <2>1. ASSUME NEW x \in DOMAIN s
          PROVE  s[x].status \subseteq {"LoadedAsNotExisting"}
      <3>1. CASE x \in DOMAIN warm.state
        BY <1>4, <1>5, <3>1 DEF LoadLeads, Fresh
      <3>2. CASE x \notin DOMAIN warm.state
        <4>1. x = caller /\ s[x] = Loaded(caller, {})
          BY <1>5, <3>2 DEF LoadLeads
        <4>2. Loaded(caller, {}).status \subseteq {"LoadedAsNotExisting"}
          <5>1. {} \in SUBSET Key
            OBVIOUS
          <5>2. QED BY <1>1, <5>1, LoadedAccount
        <4> HIDE DEF s
        <4>3. QED BY <4>1, <4>2
      <3>3. QED BY <3>1, <3>2
    <2>2. QED BY <2>1 DEF Fresh
  <1>8. loaded \in JState /\ s \in States /\ s[caller] \in Account
    BY <1>6, JStateParts, StatesType DEF Good
  <1>9. /\ b \in Account /\ b.info.nonce = s[caller].info.nonce
        /\ b.info.balance = s[caller].info.balance - Prepaid
        /\ b.storage = s[caller].storage /\ b.status = s[caller].status \union {"Touched"}
    <2>1. s[caller].info.balance - Prepaid \in Int
      BY <1>1, <1>8, AccountParts
    <2>2. /\ c \in Account /\ c.info.nonce = s[caller].info.nonce
          /\ c.info.balance = s[caller].info.balance - Prepaid
          /\ c.storage = s[caller].storage /\ c.status = s[caller].status
      BY <1>8, <2>1, SetBalance
    <2> HIDE DEF c
    <2>3. c.status \union {"Touched"} \in SUBSET Status
      BY <2>2, AccountParts DEF Status
    <2>4. QED BY <2>2, <2>3, SetStatus
  <1>10. /\ t \in States /\ DOMAIN t = DOMAIN s
        /\ \A x \in DOMAIN s : t[x] = IF x = caller THEN b ELSE s[x]
    <2> HIDE DEF b
    <2>1. QED BY <1>8, <1>9, StateSet
  <1>11. k = With(loaded, t)
    <2> DEFINE v  == s[caller].info.balance - Prepaid
               u  == s[caller].status \union {"Touched"}
               q1 == [s EXCEPT ![caller].info.balance = v]
               m1 == With(loaded, q1)
    <2>1. k = [[loaded EXCEPT !.state[caller].info.balance = v] EXCEPT !.state[caller].status = u]
      BY DEF Prepare, loaded, warm, start
    <2>2. c = [s[caller] EXCEPT !.info.balance = v]
      OBVIOUS
    <2>3. c \in Account /\ c.status = s[caller].status
      <3>1. v \in Int
        BY <1>1, <1>8, AccountParts
      <3> DEFINE x == s[caller]
      <3>2. x \in Account /\ c = [x EXCEPT !.info.balance = v]
        BY <1>8, <2>2
      <3>3. c.status = x.status /\ c \in Account
        <4> HIDE DEF v, c, x
        <4>1. QED BY <3>1, <3>2, SetBalance
      <3>4. QED BY <3>3
    <2>4. b = [c EXCEPT !.status = u]
      <3> HIDE DEF c
      <3>1. QED BY <2>3
    <2> HIDE DEF k, c, v, u
    <2>5. q1 = [s EXCEPT ![caller] = c]
      BY <2>2
    <2>6. q1 \in States
      BY <1>8, <2>3, <2>5, StateSet
    <2>7. [loaded EXCEPT !.state[caller].info.balance = v] = m1
      <3>1. [loaded EXCEPT !.state[caller].info.balance = v] = [loaded EXCEPT !.state = q1]
        OBVIOUS
      <3> HIDE DEF q1, s
      <3>2. [loaded EXCEPT !.state = q1] = m1
        BY <1>8, WithIs
      <3>3. QED BY <3>1, <3>2
    <2>8. [q1 EXCEPT ![caller].status = u] = t
      <3> DEFINE p == [s EXCEPT ![caller] = c]
      <3>1. caller \in DOMAIN s
        BY <1>6
      <3> HIDE DEF s, b
      <3>2. [p EXCEPT ![caller].status = u] = [s EXCEPT ![caller] = [c EXCEPT !.status = u]]
        BY <3>1
      <3>3. QED BY <2>4, <2>5, <3>2
    <2> HIDE DEF q1, t, s
    <2>9. m1 \in JState /\ m1.state = q1 /\ With(m1, t) = With(loaded, t)
      BY <1>8, <2>6, WithType
    <2> HIDE DEF m1
    <2>10. [m1 EXCEPT !.state[caller].status = u] = With(m1, t)
      <3>1. [m1 EXCEPT !.state[caller].status = u]
              = [m1 EXCEPT !.state = [q1 EXCEPT ![caller].status = u]]
        BY <2>9
      <3>2. [m1 EXCEPT !.state[caller].status = u] = [m1 EXCEPT !.state = t]
        BY <2>8, <3>1
      <3>3. QED BY <2>9, <3>2, WithIs
    <2>11. QED BY <2>1, <2>7, <2>9, <2>10
  <1> HIDE DEF k, b, t
  <1>12. \A x \in DOMAIN s : s[x].info.balance = db[x].info.balance
    <2>1. \A x \in DOMAIN s : NiceAccount(db, x, s[x]) /\ "Touched" \notin s[x].status
      BY <1>6, <1>7 DEF Good, Nice, Fresh
    <2>2. QED BY <2>1 DEF NiceAccount
  <1>13. b.info.balance \in Nat /\ s[caller].info.balance \in Nat
    <2>1. db[caller].info.balance \in Nat
      BY <1>2, <1>1 DEF Funded
    <2>2. s[caller].info.balance = db[caller].info.balance
      BY <1>6, <1>12
    <2> HIDE DEF s
    <2>3. QED BY <1>1, <1>9, <2>1, <2>2
  <1>14. Nice(t, db)
    <2>1. NiceAccount(db, caller, s[caller])
      BY <1>6 DEF Good, Nice
    <2>2. NiceAccount(db, caller, t[caller])
      BY <1>6, <1>9, <1>10, <1>13, <2>1 DEF NiceAccount
    <2>3. QED BY <1>6, <1>10, <2>2, NiceOne DEF Good
  <1>15. First(t, caller) /\ Unmarked(t)
    <2>1. "Created" \notin b.status /\ "SelfDestructed" \notin b.status
      BY <1>6, <1>7, <1>9 DEF Fresh
    <2>2. QED BY <1>7, <1>10, <2>1 DEF First, Unmarked, Fresh
  <1>16. Wealth(db, t) = Wealth(db, NoJournal.state) - Prepaid
    <2>1. Wealth(db, s) = Wealth(db, NoJournal.state)
      <3>1. \A x \in Address : Bal(db, s, x) = Bal(db, NoJournal.state, x)
        BY <1>2, <1>12 DEF Bal
      <3> HIDE DEF s
      <3>2. QED BY <1>2, <1>8, <3>1, WealthSame
    <2>2. \A x \in Address : x # caller => Bal(db, t, x) = Bal(db, s, x)
      BY <1>10 DEF Bal
    <2>3. Bal(db, t, caller) = b.info.balance /\ Bal(db, s, caller) = s[caller].info.balance
      BY <1>6, <1>10 DEF Bal
    <2>4. Wealth(db, s) \in Int
      BY <1>2, <1>8, WealthType
    <2>5. Wealth(db, t) = Wealth(db, s) + (Bal(db, t, caller) - Bal(db, s, caller))
      <3>1. caller \in Address /\ s \in States /\ t \in States
        BY <1>1, <1>8, <1>10
      <3> HIDE DEF s
      <3>2. QED BY <1>2, <2>2, <3>1, WealthOne
    <2> HIDE DEF s
    <2>6. QED BY <1>1, <1>9, <1>13, <2>1, <2>3, <2>4, <2>5
  <1>17. Good(k, db) /\ k.state = t /\ k.depth = 0
    <2>1. PTouched(s) => PTouched(t)
      BY <1>6, <1>10 DEF PTouched
    <2>2. Good(With(loaded, t), db)
      BY <1>6, <1>10, <1>14, <2>1, Replaced
    <2>3. QED BY <1>6, <1>8, <1>10, <1>11, <2>2, WithType
  <1>18. Prepared(k, caller)
    BY <1>6, <1>9, <1>10, <1>15, <1>17, <1>16 DEF Prepared
  <1>19. QED BY <1>18 DEF k

-----------------------------------------------------------------------------
(* The end of a transaction                                                 *)

\* An account of the database, and the conditions DbOK sets it.
DbRecord == [account_state : DbState, info : Info, storage : DbStorage]

DbFit(a, x) ==
  /\ x \in DbRecord /\ x.info.nonce \in 0..MaxNonce /\ x.info.balance \in Nat
  /\ x.info.nonce = 0 => /\ \A k \in DOMAIN x.storage : x.storage[k] = 0
                         /\ a = coinbase => DOMAIN x.storage = {}

\* DbOK, account by account.
LEMMA DbFits ==
  ASSUME NEW d
  PROVE  DbOK(d) <=> d \in [Address -> DbRecord] /\ \A a \in Address : DbFit(a, d[a])
  BY DEF DbOK, DbFit, DbRecord

\* The storage of the database is a function from a set of keys to values.
LEMMA DbStorageType ==
  ASSUME NEW s
  PROVE  s \in DbStorage <=> DOMAIN s \subseteq Key /\ s \in [DOMAIN s -> Int]
  BY DEF DbStorage

\* new_not_existing fits.
LEMMA NotExistingFits ==
  ASSUME NEW a
  PROVE  DbFit(a, new_not_existing)
  <1> DEFINE x  == new_not_existing
             st == <<>>
  <1>1. /\ x = [account_state |-> "NotExisting",
                info |-> [balance |-> 0, nonce |-> 0, code |-> "empty"], storage |-> st]
    BY DEF new_not_existing, DbAccount, DefaultInfo
  <1>2. st \in [{} -> Int]
    <2>1. st \in Seq(Int) /\ Len(st) = 0 /\ 1..0 = {}
      OBVIOUS
    <2> HIDE DEF st
    <2>2. st \in [1..0 -> Int]
      BY <2>1
    <2>3. QED BY <2>1, <2>2
  <1> HIDE DEF st, x
  <1>3. DOMAIN st = {} /\ st \in DbStorage
    <2>1. DOMAIN st = {}
      BY <1>2
    <2>2. QED BY <1>2, <2>1, DbStorageType
  <1>4. [balance |-> 0, nonce |-> 0, code |-> "empty"] \in Info
    BY DEF Info, Code
  <1>5. x \in DbRecord /\ x.info.nonce = 0 /\ x.info.balance = 0 /\ x.storage = st
    BY <1>1, <1>3, <1>4 DEF DbRecord, DbState
  <1>6. 0 \in 0..MaxNonce
    BY ConstAssumption
  <1>7. DbFit(a, x)
    BY <1>3, <1>5, <1>6 DEF DbFit
  <1>8. QED BY <1>7 DEF x

\* What commit writes of an account.
LEMMA WrittenIs ==
  ASSUME NEW old, NEW acc, "SelfDestructed" \notin acc.status
  PROVE  LET w       == Written(old, acc)
             kept    == IF "Created" \in acc.status THEN <<>> ELSE old.storage
         IN /\ w = [account_state |-> w.account_state, info |-> w.info, storage |-> w.storage]
            /\ w.account_state \in DbState
            /\ w.info = acc.info
            /\ w.storage = Over(Values(acc.storage), kept)
  BY DEF Written, DbAccount, DbState, Values

\* Over of storages is a storage over both domains.
LEMMA OverStorage ==
  ASSUME NEW f \in DbStorage, NEW g \in DbStorage
  PROVE  Over(f, g) \in DbStorage /\ DOMAIN Over(f, g) = DOMAIN f \union DOMAIN g
  BY DbStorageType DEF Over

\* The first function of Over wins.
LEMMA OverAt ==
  ASSUME NEW f, NEW g, NEW k, k \in DOMAIN f \/ k \in DOMAIN g
  PROVE  Over(f, g)[k] = IF k \in DOMAIN f THEN f[k] ELSE g[k]
  BY DEF Over

\* The empty sequence is the empty storage.
LEMMA EmptyStorage ==
  ASSUME NEW s, s = <<>>
  PROVE  s \in [{} -> Int]
  <1>1. s \in Seq(Int) /\ Len(s) = 0
    OBVIOUS
  <1>2. 1..0 = {}
    OBVIOUS
  <1>3. s \in [1..0 -> Int]
    BY <1>1
  <1>4. QED BY <1>2, <1>3

\* What commit writes of a nice account fits the database.
LEMMA WrittenFits ==
  ASSUME NEW d, DbOK(d), NEW a \in Address, NEW acc \in Account, NiceAccount(d, a, acc)
  PROVE  DbFit(a, Written(d[a], acc))
  <1>1. CASE "SelfDestructed" \in acc.status
    BY <1>1, NotExistingFits DEF Written
  <1>2. CASE "SelfDestructed" \notin acc.status
    <2> DEFINE w    == Written(d[a], acc)
               none == <<>>
               kept == IF "Created" \in acc.status THEN none ELSE d[a].storage
               vals == Values(acc.storage)
    <2>1. /\ w = [account_state |-> w.account_state, info |-> w.info, storage |-> w.storage]
          /\ w.account_state \in DbState /\ w.info = acc.info /\ w.storage = Over(vals, kept)
      BY <1>2, WrittenIs
    <2>2. none \in [{} -> Int]
      BY EmptyStorage
    <2> HIDE DEF none, w
    <2>3. DOMAIN none = {} /\ none \in DbStorage
      <3>1. DOMAIN none = {}
        BY <2>2
      <3>2. QED BY <2>2, <3>1, DbStorageType
    <2>4. d[a].storage \in DbStorage
      BY DbFits DEF DbFit, DbRecord
    <2>5. kept \in DbStorage
      BY <2>3, <2>4
    <2>6. /\ vals \in DbStorage /\ DOMAIN vals = DOMAIN acc.storage
          /\ \A k \in DOMAIN vals : vals[k] = acc.storage[k].present_value
      <3>1. DOMAIN acc.storage \subseteq Key /\ acc.storage \in [DOMAIN acc.storage -> Slot]
        BY AccountParts, SlotsType
      <3>2. vals \in [DOMAIN acc.storage -> Int] /\ DOMAIN vals = DOMAIN acc.storage
        BY <3>1 DEF Values, Slot
      <3>3. \A k \in DOMAIN vals : vals[k] = acc.storage[k].present_value
        BY DEF Values
      <3> HIDE DEF vals
      <3>4. QED BY <3>1, <3>2, <3>3, DbStorageType
    <2>7. kept = none \/ kept = d[a].storage
      OBVIOUS
    <2> HIDE DEF kept, vals
    <2>8. /\ w.storage \in DbStorage /\ DOMAIN w.storage = DOMAIN vals \union DOMAIN kept
          /\ \A k \in DOMAIN w.storage : w.storage[k] = IF k \in DOMAIN vals THEN vals[k]
                                                                          ELSE kept[k]
      <3>1. w.storage \in DbStorage /\ DOMAIN w.storage = DOMAIN vals \union DOMAIN kept
        BY <2>1, <2>5, <2>6, OverStorage
      <3>2. ASSUME NEW k \in DOMAIN w.storage
            PROVE  w.storage[k] = IF k \in DOMAIN vals THEN vals[k] ELSE kept[k]
        BY <2>1, <3>1, OverAt
      <3>3. QED BY <3>1, <3>2
    <2>9. w \in DbRecord /\ w.info.nonce \in 0..MaxNonce /\ w.info.balance \in Nat
      <3>1. acc.info \in Info
        BY AccountParts
      <3>2. QED BY <2>1, <2>8, <3>1 DEF DbRecord, NiceAccount
    <2>10. ASSUME w.info.nonce = 0
           PROVE  /\ \A k \in DOMAIN w.storage : w.storage[k] = 0
                  /\ a = coinbase => DOMAIN w.storage = {}
      <3>1. /\ \A k \in DOMAIN acc.storage : acc.storage[k].present_value = 0
            /\ a = coinbase => DOMAIN acc.storage = {}
            /\ d[a].info.nonce = 0
        BY <2>1, <2>10 DEF NiceAccount
      <3>2. /\ \A k \in DOMAIN d[a].storage : d[a].storage[k] = 0
            /\ a = coinbase => DOMAIN d[a].storage = {}
        BY <3>1, DbFits DEF DbFit
      <3>3. \A k \in DOMAIN kept : kept[k] = 0
        BY <2>3, <2>7, <3>2
      <3>4. a = coinbase => DOMAIN kept = {}
        BY <2>3, <2>7, <3>2
      <3>5. QED BY <2>6, <2>8, <3>1, <3>3, <3>4
    <2>11. DbFit(a, w)
      BY <2>9, <2>10 DEF DbFit
    <2>12. QED BY <2>11 DEF w
  <1>3. QED BY <1>1, <1>2

\* commit keeps the database in order.
LEMMA CommitFits ==
  ASSUME NEW d, DbOK(d), NEW t \in States, Nice(t, d)
  PROVE  DbOK(commit(d, t))
  <1> DEFINE e == commit(d, t)
  <1>1. ASSUME NEW a \in Address PROVE DbFit(a, e[a])
    <2>1. e[a] = IF a \in DOMAIN t /\ "Touched" \in t[a].status THEN Written(d[a], t[a]) ELSE d[a]
      BY DEF commit
    <2> HIDE DEF e
    <2>2. CASE a \in DOMAIN t /\ "Touched" \in t[a].status
      <3>1. t[a] \in Account /\ NiceAccount(d, a, t[a])
        BY <2>2, StatesType DEF Nice
      <3>2. DbFit(a, Written(d[a], t[a]))
        BY <3>1, WrittenFits
      <3>3. QED BY <2>1, <2>2, <3>2
    <2>3. CASE ~(a \in DOMAIN t /\ "Touched" \in t[a].status)
      <3>1. DbFit(a, d[a])
        BY DbFits
      <3>2. QED BY <2>1, <2>3, <3>1
    <2>4. QED BY <2>2, <2>3
  <1>2. DOMAIN e = Address /\ e = [a \in Address |-> e[a]]
    BY DEF commit
  <1> HIDE DEF e
  <1>3. e \in [Address -> DbRecord]
    BY <1>1, <1>2 DEF DbFit
  <1>4. DbOK(e)
    BY <1>1, <1>3, DbFits
  <1>5. QED BY <1>4 DEF e

\* The coinbase of a transaction that does not load it.
CoinbaseOf(s) == IF coinbase \in DOMAIN s THEN s[coinbase] ELSE Loaded(coinbase, {})

\* Settled touches the coinbase, loading it if need be, and changes nothing else.
LEMMA SettledIs ==
  ASSUME NEW j, Good(j, db), DbOK(db)
  PROVE  LET s == j.state
             t == Settled(j)
         IN /\ t \in States /\ Nice(t, db) /\ DOMAIN t = DOMAIN s \union {coinbase}
            /\ \A a \in DOMAIN s : a # coinbase => t[a] = s[a]
            /\ t[coinbase].info = CoinbaseOf(s).info
            /\ t[coinbase].storage = CoinbaseOf(s).storage
            /\ t[coinbase].status = CoinbaseOf(s).status \union {"Touched"}
  <1> DEFINE m == load_account(j, coinbase)
             k == touch(m, coinbase)
  <1>1. coinbase \in Address
    BY ConstAssumption
  <1>2. LoadLeads(j, coinbase, m)
    BY <1>1, LoadStep
  <1>3. k.state = Settled(j)
    BY DEF Settled
  <1> HIDE DEF m
  <1>4. /\ Good(m, db) /\ DOMAIN m.state = DOMAIN j.state \union {coinbase}
        /\ m.state[coinbase] = CoinbaseOf(j.state)
        /\ \A a \in DOMAIN j.state : m.state[a] = j.state[a]
    BY <1>2 DEF LoadLeads, Step, CoinbaseOf
  <1>5. TouchLeads(m, coinbase, k, db)
    BY <1>4, TouchStep
  <1> HIDE DEF k
  <1>6. k.state \in States /\ Nice(k.state, db)
    BY <1>5, JStateParts DEF TouchLeads, Step, Good
  <1>7. /\ DOMAIN k.state = DOMAIN m.state
        /\ \A a \in DOMAIN m.state : a # coinbase => k.state[a] = m.state[a]
        /\ k.state[coinbase].info = m.state[coinbase].info
        /\ k.state[coinbase].storage = m.state[coinbase].storage
        /\ k.state[coinbase].status = m.state[coinbase].status \union {"Touched"}
    BY <1>5 DEF TouchLeads
  <1>8. QED BY <1>3, <1>4, <1>6, <1>7

\* The end of a transaction keeps the database in order.
LEMMA FinalizeFits ==
  ASSUME NEW j, Good(j, db), DbOK(db)
  PROVE  DbOK(commit(db, Settled(j)))
  BY SettledIs, CommitFits

\* commit makes no value, and loses only that of accounts marked as destroyed.
LEMMA CommitWealth ==
  ASSUME NEW d, DbOK(d), NEW t \in States, Nice(t, d)
  PROVE  /\ Wealth(commit(d, t), NoJournal.state) <= Wealth(d, t)
         /\ Unmarked(t) => Wealth(commit(d, t), NoJournal.state) = Wealth(d, t)
  <1> DEFINE e == commit(d, t)
             n == NoJournal.state
  <1>1. DbOK(e) /\ Funded(e) /\ Funded(d) /\ n \in States /\ DOMAIN n = {}
    BY CommitFits, DbFunded, NoJournalGood
  <1>2. ASSUME NEW a \in Address
        PROVE  /\ Bal(e, n, a) <= Bal(d, t, a)
               /\ Unmarked(t) => Bal(e, n, a) = Bal(d, t, a)
    <2>1. e[a] = IF a \in DOMAIN t /\ "Touched" \in t[a].status THEN Written(d[a], t[a]) ELSE d[a]
      BY DEF commit
    <2>2. Bal(e, n, a) = e[a].info.balance
      BY <1>1 DEF Bal
    <2>3. d[a].info.balance \in Nat
      BY <1>1 DEF Funded
    <2> HIDE DEF e, n
    <2>4. CASE a \in DOMAIN t
      <3>1. NiceAccount(d, a, t[a]) /\ Bal(d, t, a) = t[a].info.balance
        BY <2>4 DEF Nice, Bal
      <3>2. t[a].info.balance \in Nat
        BY <3>1 DEF NiceAccount
      <3>3. CASE "Touched" \notin t[a].status
        <4>1. t[a].info.balance = d[a].info.balance
          BY <3>1, <3>3 DEF NiceAccount
        <4>2. QED BY <2>1, <2>2, <2>3, <3>1, <3>3, <4>1
      <3>4. CASE "Touched" \in t[a].status /\ "SelfDestructed" \in t[a].status
        <4>1. e[a] = new_not_existing
          BY <2>1, <2>4, <3>4 DEF Written
        <4>2. e[a].info.balance = 0
          BY <4>1 DEF new_not_existing, DbAccount, DefaultInfo
        <4>3. ~Unmarked(t)
          BY <2>4, <3>4 DEF Unmarked
        <4>4. QED BY <2>2, <3>1, <3>2, <4>2, <4>3
      <3>5. CASE "Touched" \in t[a].status /\ "SelfDestructed" \notin t[a].status
        <4>1. Written(d[a], t[a]).info = t[a].info
          BY <3>5, WrittenIs
        <4>2. e[a].info.balance = t[a].info.balance
          BY <2>1, <2>4, <3>5, <4>1
        <4>3. QED BY <2>2, <3>1, <3>2, <4>2
      <3>6. QED BY <3>3, <3>4, <3>5
    <2>5. CASE a \notin DOMAIN t
      BY <2>1, <2>2, <2>3, <2>5 DEF Bal
    <2>6. QED BY <2>4, <2>5
  <1> HIDE DEF e, n
  <1>3. Wealth(e, n) <= Wealth(d, t)
    BY <1>1, <1>2, WealthLess
  <1>4. Unmarked(t) => Wealth(e, n) = Wealth(d, t)
    BY <1>1, <1>2, WealthSame
  <1>5. QED BY <1>3, <1>4 DEF e, n

\* The end of a transaction makes no value, and loses only what destroyed
\* accounts held.
LEMMA FinalizeWealth ==
  ASSUME NEW j, Good(j, db), DbOK(db)
  PROVE  LET d == commit(db, Settled(j))
         IN /\ Wealth(d, NoJournal.state) <= Wealth(db, j.state)
            /\ Unmarked(j.state) => Wealth(d, NoJournal.state) = Wealth(db, j.state)
  <1> DEFINE s == j.state
             t == Settled(j)
  <1>1. /\ t \in States /\ Nice(t, db) /\ DOMAIN t = DOMAIN s \union {coinbase}
        /\ \A a \in DOMAIN s : a # coinbase => t[a] = s[a]
        /\ t[coinbase].info = CoinbaseOf(s).info
        /\ t[coinbase].status = CoinbaseOf(s).status \union {"Touched"}
    BY SettledIs
  <1>2. Funded(db) /\ s \in States
    BY JStateParts DEF Good
  <1>3. /\ Loaded(coinbase, {}).info = db[coinbase].info
        /\ Loaded(coinbase, {}).status \subseteq {"LoadedAsNotExisting"}
    <2>1. coinbase \in Address /\ {} \in SUBSET Key
      BY ConstAssumption
    <2>2. QED BY <2>1, LoadedAccount
  <1> HIDE DEF t
  <1>4. \A a \in Address : Bal(db, s, a) = Bal(db, t, a)
    BY <1>1, <1>3 DEF Bal, CoinbaseOf
  <1>5. Wealth(db, s) = Wealth(db, t)
    BY <1>1, <1>2, <1>4, WealthSame
  <1>6. Unmarked(s) => Unmarked(t)
    BY <1>1, <1>3 DEF Unmarked, CoinbaseOf
  <1>7. QED BY <1>1, <1>5, <1>6, CommitWealth DEF t

-----------------------------------------------------------------------------
(* The inductive invariant                                                  *)

\* The types of frames.
FrameType == [address : Address, checkpoint : [log_i : Nat, journal_i : Nat], before : States]

\* The frame f can be reverted: its checkpoint leads back to the state it was
\* entered in, and nothing that it relies on was undone since.
FrameOK(j, f, d) ==
  /\ f.checkpoint.journal_i \in 1..(Len(j.journal) - 1)
  /\ f.checkpoint.log_i <= j.logs
  /\ Nice(f.before, d)
  /\ Alike(d, f.before, RevertTo(j, f.checkpoint.journal_i))
  /\ Keeps(f.before, j.state)
  /\ Runs(j.state, f.address)

\* g was running when f was entered.
Below(g, f) ==
  /\ g.checkpoint.journal_i < f.checkpoint.journal_i
  /\ g.checkpoint.log_i <= f.checkpoint.log_i
  /\ Keeps(g.before, f.before) /\ Runs(f.before, g.address)

\* Every frame can be reverted, and each was running when a later one was entered.
Stack(j, fs, d) ==
  /\ fs \in Seq(FrameType)
  /\ \A i \in 1..Len(fs) : FrameOK(j, fs[i], d)
  /\ \A i \in 1..Len(fs) : \A h \in 1..(i - 1) : Below(fs[h], fs[i])

\* What a transaction has done before its init code starts.
Outermost(s) ==
  \A a \in DOMAIN s : /\ "Created" \notin s[a].status
                      /\ "Touched" \in s[a].status => s[a].info.nonce >= 1

\* The invariant of the journaled state j, the database d and the frames fs.
Sound(j, d, fs) ==
  /\ Good(j, d) /\ DbOK(d)
  /\ j.depth = Len(fs) /\ Stack(j, fs, d)
  /\ fs = <<>> => j = NoJournal
  /\ fs # <<>> => Outermost(fs[1].before)

\* What n transactions leave of the supply in s: nothing is missing but what
\* they prepaid, unless b, which says that something was destroyed.
Solvent(d, s, n, b) ==
  /\ Wealth(d, s) + n * Prepaid <= Supply
  /\ ~b => Wealth(d, s) + n * Prepaid = Supply /\ Unmarked(s)

\* It is so now, and was when each frame was entered.
Solvency(j, d, fs, n, b) ==
  /\ n \in Nat /\ Solvent(d, j.state, n, b)
  /\ \A i \in 1..Len(fs) : Solvent(d, fs[i].before, n, b)

\* The inductive invariant.
IInv == Sound(js, db, frames) /\ Solvency(js, db, frames, txs, burnt)

\* The parts of a frame have their types.
LEMMA FrameParts ==
  ASSUME NEW f \in FrameType
  PROVE  /\ f.address \in Address /\ f.before \in States
         /\ f.checkpoint.journal_i \in Nat /\ f.checkpoint.log_i \in Nat
  BY DEF FrameType

\* A journal that grows keeps the stack.
LEMMA StackOn ==
  ASSUME NEW j \in JState, NEW k \in JState, NEW d, NEW fs, Stack(j, fs, d), Grows(j, k, d)
  PROVE  Stack(k, fs, d)
  <1>1. ASSUME NEW i \in 1..Len(fs) PROVE FrameOK(k, fs[i], d)
    <2> DEFINE f == fs[i]
               c == f.checkpoint.journal_i
    <2>1. FrameOK(j, f, d)
      BY DEF Stack
    <2>2. f.checkpoint.log_i \in Nat
      <3>1. f \in FrameType
        BY DEF Stack
      <3> HIDE DEF f
      <3>2. QED BY <3>1, FrameParts
    <2> HIDE DEF f
    <2>3. /\ Len(j.journal) \in Nat /\ Len(k.journal) \in Nat /\ j.logs \in Nat /\ k.logs \in Nat
      BY JStateParts
    <2>4. c \in 1..(Len(k.journal) - 1) /\ f.checkpoint.log_i <= k.logs
      <3> DEFINE m == Len(j.journal)
                 n == Len(k.journal)
      <3>1. c \in 1..(m - 1) /\ f.checkpoint.log_i <= j.logs
        BY <2>1 DEF FrameOK
      <3>2. m <= n /\ j.logs <= k.logs
        BY DEF Grows
      <3>3. m \in Nat /\ n \in Nat
        BY <2>3
      <3> HIDE DEF m, n, c
      <3>4. c \in 1..(n - 1)
        BY <3>1, <3>2, <3>3
      <3>5. f.checkpoint.log_i <= k.logs
        BY <2>2, <2>3, <3>1, <3>2
      <3>6. QED BY <3>4, <3>5 DEF n
    <2>5. Alike(d, f.before, RevertTo(k, c))
      <3>1. Alike(d, f.before, RevertTo(j, c)) /\ Alike(d, RevertTo(j, c), RevertTo(k, c))
        BY <2>1 DEF FrameOK, Grows
      <3>2. QED BY <3>1, AlikeTrans
    <2>6. Keeps(f.before, k.state) /\ Runs(k.state, f.address)
      BY <2>1, KeepsTrans, RunsOn DEF FrameOK, Grows
    <2>7. FrameOK(k, f, d)
      BY <2>1, <2>4, <2>5, <2>6 DEF FrameOK
    <2>8. QED BY <2>7 DEF f
  <1>2. QED BY <1>1 DEF Stack

\* A sequence without its last element.
LEMMA FrontIs ==
  ASSUME NEW S, NEW s \in Seq(S), s # <<>>
  PROVE  /\ Front(s) \in Seq(S) /\ Len(Front(s)) = Len(s) - 1 /\ Len(s) \in Nat /\ Len(s) >= 1
         /\ \A i \in 1..(Len(s) - 1) : Front(s)[i] = s[i]
         /\ Len(s) = 1 => Front(s) = <<>>
  <1>1. Len(s) \in Nat /\ Len(s) >= 1 /\ Len(s) - 1 \in 0..Len(s)
    BY EmptySeq
  <1> DEFINE n == Len(s) - 1
             t == SubSeq(s, 1, n)
  <1>2. t \in Seq(S) /\ Len(t) = n /\ \A i \in 1..n : t[i] = s[i]
    <2>1. n \in Nat /\ \A i \in 1..n : s[i] \in S
      BY <1>1
    <2> HIDE DEF n
    <2>2. /\ 1 \in Int /\ n \in Int /\ n - 1 + 1 = n /\ (1 <= n \/ n = 0)
          /\ \A i \in 1..n : 1 + i - 1 = i
      BY <2>1
    <2>3. /\ t \in Seq(S) /\ Len(t) = IF 1 <= n THEN n - 1 + 1 ELSE 0
          /\ \A i \in 1..(n - 1 + 1) : t[i] = s[1 + i - 1]
      BY <2>1, <2>2, SubSeqProperties
    <2>4. QED BY <2>1, <2>2, <2>3
  <1>3. Front(s) = t
    BY DEF Front
  <1> HIDE DEF t
  <1>4. Len(s) = 1 => t = <<>>
    BY <1>2, EmptySeq
  <1>5. QED BY <1>1, <1>2, <1>3, <1>4

\* The last frame, and the stack below it.
LEMMA StackEnds ==
  ASSUME NEW j, NEW d, NEW fs, Stack(j, fs, d), fs # <<>>
  PROVE  /\ Stack(j, Front(fs), d)
         /\ Len(Front(fs)) = Len(fs) - 1 /\ Len(fs) \in Nat /\ Len(fs) >= 1
         /\ \A i \in 1..(Len(fs) - 1) : Front(fs)[i] = fs[i]
         /\ Len(fs) = 1 => Front(fs) = <<>>
         /\ FrameOK(j, fs[Len(fs)], d) /\ fs[Len(fs)] \in FrameType
         /\ \A h \in 1..(Len(fs) - 1) : Below(fs[h], fs[Len(fs)])
  <1>1. fs \in Seq(FrameType)
    BY DEF Stack
  <1>2. /\ Front(fs) \in Seq(FrameType) /\ Len(Front(fs)) = Len(fs) - 1
        /\ Len(fs) \in Nat /\ Len(fs) >= 1
        /\ \A i \in 1..(Len(fs) - 1) : Front(fs)[i] = fs[i]
        /\ Len(fs) = 1 => Front(fs) = <<>>
    BY <1>1, FrontIs
  <1>3. Stack(j, Front(fs), d)
    <2>1. ASSUME NEW i \in 1..Len(Front(fs))
          PROVE  FrameOK(j, Front(fs)[i], d) /\ \A h \in 1..(i - 1) : Below(Front(fs)[h], Front(fs)[i])
      <3>1. i \in 1..Len(fs) /\ Front(fs)[i] = fs[i]
            /\ \A h \in 1..(i - 1) : Front(fs)[h] = fs[h]
        BY <1>2
      <3>2. QED BY <3>1 DEF Stack
    <2>2. QED BY <1>2, <2>1 DEF Stack
  <1>4. Len(fs) \in 1..Len(fs)
    BY <1>2
  <1>5. fs[Len(fs)] \in FrameType
    BY <1>1, <1>4
  <1>6. QED BY <1>2, <1>3, <1>4, <1>5 DEF Stack

\* The steps of the invariant, one for each way a handler ends.
LEMMA SoundOn ==
  ASSUME NEW j, NEW k, NEW d, NEW fs, Sound(j, d, fs), fs # <<>>, Leads(j, k, d)
  PROVE  Sound(k, d, fs)
  BY StackOn DEF Sound, Leads, Good

\* Between transactions: no frames and no journal.
LEMMA SoundIdle ==
  ASSUME NEW d, DbOK(d), NEW fs, fs = <<>>
  PROVE  Sound(NoJournal, d, fs)
  <1>1. Len(fs) = 0 /\ fs \in Seq(FrameType)
    OBVIOUS
  <1>2. Stack(NoJournal, fs, d)
    BY <1>1 DEF Stack
  <1>3. QED BY <1>1, <1>2, DbFunded, NoJournalGood DEF Sound

\* A subroutine that is committed: its frame goes, its entries stay.
LEMMA SoundLeave ==
  ASSUME NEW j, NEW k, NEW d, NEW fs, Sound(j, d, fs), Len(fs) > 1, fs # <<>>,
         Good(k, d), Grows(j, k, d), k.depth = j.depth - 1
  PROVE  Sound(k, d, Front(fs))
  <1>1. Stack(k, fs, d)
    BY StackOn DEF Sound, Good
  <1>2. /\ Stack(k, Front(fs), d) /\ Len(Front(fs)) = Len(fs) - 1 /\ Len(fs) \in Nat
        /\ Front(fs)[1] = fs[1]
    <2>1. Stack(k, Front(fs), d)
      BY <1>1, StackEnds
    <2>2. Len(Front(fs)) = Len(fs) - 1 /\ Len(fs) \in Nat
      BY <1>1, StackEnds
    <2>3. fs \in Seq(FrameType) /\ 1 \in 1..(Len(fs) - 1)
      BY <1>1, <2>2 DEF Stack
    <2>4. Front(fs)[1] = fs[1]
      BY <2>3, FrontIs
    <2>5. QED BY <2>1, <2>2, <2>4
  <1>3. Front(fs) # <<>>
    BY <1>2
  <1>4. QED BY <1>2, <1>3 DEF Sound

\* A subroutine that is entered: one frame more.
LEMMA SoundEnter ==
  ASSUME NEW j, Good(j, db), DbOK(db), NEW fs, j.depth = Len(fs), Stack(j, fs, db),
         NEW c, NEW k, NEW f, Enters(j, c, k, f),
         fs # <<>> => Outermost(fs[1].before), fs = <<>> => Outermost(f.before)
  PROVE  Sound(k, db, fs \o <<f>>)
  <1> DEFINE gs == fs \o <<f>>
             n  == Len(fs)
  <1>1. Good(k, db) /\ j \in JState /\ k \in JState /\ k.depth = j.depth + 1
    BY DEF Enters, Good
  <1>2. /\ Len(j.journal) \in Nat /\ Len(j.journal) >= 1 /\ j.logs \in Nat /\ k.logs \in Nat
    BY <1>1, JStateParts DEF Good
  <1>3. Stack(k, fs, db)
    BY <1>1, StackOn DEF Enters
  <1>4. f \in FrameType
    <2>1. Runs(k.state, f.address) /\ k.state \in States
      BY <1>1, JStateParts DEF Enters
    <2>2. f.address \in Address
      BY <2>1, StatesType DEF Runs
    <2>3. f.checkpoint \in [log_i : Nat, journal_i : Nat]
      BY <1>2 DEF Enters
    <2>4. f.before \in States /\ f = [address |-> f.address, checkpoint |-> f.checkpoint,
                                      before |-> f.before]
      BY DEF Enters
    <2>5. QED BY <2>2, <2>3, <2>4 DEF FrameType
  <1>5. fs \in Seq(FrameType) /\ n \in Nat
    BY <1>3 DEF Stack
  <1>6. <<f>> \in Seq(FrameType) /\ Len(<<f>>) = 1 /\ <<f>>[1] = f
    BY <1>4
  <1>7. /\ gs \in Seq(FrameType) /\ Len(gs) = n + 1
        /\ \A i \in 1..n : gs[i] = fs[i]
        /\ gs[n + 1] = f
    <2> DEFINE u == <<f>>
    <2>1. u \in Seq(FrameType) /\ Len(u) = 1 /\ u[1] = f
      BY <1>6
    <2> HIDE DEF u
    <2>2. /\ fs \o u \in Seq(FrameType) /\ Len(fs \o u) = n + 1
          /\ \A i \in 1..(n + 1) : (fs \o u)[i] = IF i <= n THEN fs[i] ELSE u[i - n]
      BY <1>5, <2>1, ConcatProperties
    <2>3. QED BY <1>5, <2>1, <2>2 DEF u
  <1> HIDE DEF gs
  <1>8. FrameOK(k, f, db)
    <2>1. f.checkpoint.journal_i \in 1..(Len(k.journal) - 1)
      BY <1>2 DEF Enters
    <2>2. QED BY <2>1 DEF Enters, FrameOK
  <1>9. ASSUME NEW h \in 1..n PROVE Below(fs[h], f)
    <2>1. FrameOK(j, fs[h], db) /\ fs[h] \in FrameType
      BY <1>5 DEF Stack
    <2>2. /\ fs[h].checkpoint.journal_i \in 1..(Len(j.journal) - 1)
          /\ fs[h].checkpoint.log_i <= j.logs /\ fs[h].checkpoint.log_i \in Nat
          /\ Keeps(fs[h].before, j.state) /\ Runs(j.state, fs[h].address)
      BY <2>1, FrameParts DEF FrameOK
    <2>3. /\ f.checkpoint.journal_i = Len(j.journal)
          /\ j.logs <= f.checkpoint.log_i /\ f.checkpoint.log_i \in Nat
          /\ Keeps(j.state, f.before)
      BY DEF Enters
    <2>4. Keeps(fs[h].before, f.before) /\ Runs(f.before, fs[h].address)
      BY <2>2, <2>3, KeepsTrans, RunsOn
    <2>5. /\ fs[h].checkpoint.journal_i < f.checkpoint.journal_i
          /\ fs[h].checkpoint.log_i <= f.checkpoint.log_i
      BY <1>2, <2>2, <2>3
    <2>6. QED BY <2>4, <2>5 DEF Below
  <1>10. ASSUME NEW i \in 1..(n + 1)
         PROVE  FrameOK(k, gs[i], db) /\ \A h \in 1..(i - 1) : Below(gs[h], gs[i])
    <2>1. CASE i = n + 1
      <3>1. gs[i] = f /\ \A h \in 1..(i - 1) : h \in 1..n /\ gs[h] = fs[h]
        BY <1>5, <1>7, <2>1
      <3>2. QED BY <1>8, <1>9, <3>1
    <2>2. CASE i # n + 1
      <3>1. i \in 1..n /\ gs[i] = fs[i] /\ \A h \in 1..(i - 1) : gs[h] = fs[h]
        BY <1>5, <1>7, <2>2
      <3>2. QED BY <1>3, <3>1 DEF Stack
    <2>3. QED BY <2>1, <2>2
  <1>11. Stack(k, gs, db)
    BY <1>7, <1>10 DEF Stack
  <1>12. Outermost(gs[1].before)
    <2>1. CASE fs = <<>>
      <3>1. n = 0
        BY <2>1
      <3>2. gs[1] = f
        BY <1>7, <3>1
      <3>3. QED BY <2>1, <3>2
    <2>2. CASE fs # <<>>
      <3>1. 1 \in 1..n
        BY <1>5, <2>2, EmptySeq
      <3>2. QED BY <1>7, <2>2, <3>1
    <2>3. QED BY <2>1, <2>2
  <1>13. gs # <<>> /\ k.depth = Len(gs)
    BY <1>1, <1>5, <1>7
  <1>14. Sound(k, db, gs)
    BY <1>1, <1>11, <1>12, <1>13 DEF Sound
  <1>15. QED BY <1>14 DEF gs

\* Failing takes everything back that was done since the frame was entered.
LEMMA TakenBack ==
  ASSUME NEW j, NEW d, NEW fs, Sound(j, d, fs), fs # <<>>
  PROVE  LET f == fs[Len(fs)]
             k == checkpoint_revert(j, f.checkpoint)
         IN /\ Good(k, d) /\ k.depth = j.depth - 1 /\ k.logs = f.checkpoint.log_i
            /\ Len(k.journal) = f.checkpoint.journal_i
            /\ \A i \in 1..f.checkpoint.journal_i : RevertTo(k, i) = RevertTo(j, i)
            /\ Alike(d, f.before, k.state) /\ Keeps(f.before, k.state)
            /\ Beneath(k.state, j.state)
  <1> DEFINE f == fs[Len(fs)]
             cp == f.checkpoint
             b == f.before
             k == checkpoint_revert(j, cp)
  <1>1. Good(j, d) /\ FrameOK(j, f, d) /\ f \in FrameType
    BY StackEnds DEF Sound
  <1> HIDE DEF f
  <1>2. /\ cp.journal_i \in 1..(Len(j.journal) - 1) /\ cp.log_i \in Nat
        /\ Nice(b, d) /\ Alike(d, b, RevertTo(j, cp.journal_i)) /\ Keeps(b, j.state)
    BY <1>1, FrameParts DEF FrameOK
  <1> HIDE DEF cp, b, k
  <1>3. /\ Good(k, d) /\ k.logs = cp.log_i /\ k.depth = j.depth - 1
        /\ Len(k.journal) = cp.journal_i
        /\ Alike(d, b, k.state) /\ Beneath(k.state, j.state)
        /\ \A i \in 1..cp.journal_i : RevertTo(k, i) = RevertTo(j, i)
    BY <1>1, <1>2, Reverted DEF k
  <1>4. Keeps(b, k.state)
    BY <1>2, <1>3, KeepsBack
  <1>5. QED BY <1>3, <1>4 DEF f, cp, b, k

\* A subroutine that fails: its frame and its entries go.
LEMMA SoundBack ==
  ASSUME NEW j, NEW d, NEW fs, Sound(j, d, fs), fs # <<>>, Len(fs) > 1
  PROVE  Sound(checkpoint_revert(j, fs[Len(fs)].checkpoint), d, Front(fs))
  <1> DEFINE f  == fs[Len(fs)]
             k  == checkpoint_revert(j, f.checkpoint)
             gs == Front(fs)
  <1>1. /\ Good(k, d) /\ k.depth = j.depth - 1 /\ k.logs = f.checkpoint.log_i
        /\ Len(k.journal) = f.checkpoint.journal_i
        /\ \A i \in 1..f.checkpoint.journal_i : RevertTo(k, i) = RevertTo(j, i)
        /\ Keeps(f.before, k.state)
    BY TakenBack
  <1> HIDE DEF k
  <1>2. /\ Stack(j, gs, d) /\ Len(gs) = Len(fs) - 1 /\ Len(fs) \in Nat
        /\ \A i \in 1..Len(gs) : gs[i] = fs[i] /\ Below(gs[i], f)
        /\ f \in FrameType
    BY StackEnds DEF Sound
  <1> HIDE DEF f, gs
  <1>3. ASSUME NEW i \in 1..Len(gs) PROVE FrameOK(k, gs[i], d)
    <2> DEFINE g == gs[i]
    <2>1. FrameOK(j, g, d) /\ Below(g, f) /\ g \in FrameType
      BY <1>2 DEF Stack
    <2> HIDE DEF g
    <2>2. /\ g.checkpoint.journal_i \in Nat /\ g.checkpoint.log_i \in Nat
          /\ f.checkpoint.journal_i \in Nat /\ f.checkpoint.log_i \in Nat
          /\ g.checkpoint.journal_i >= 1
      BY <1>2, <2>1, FrameParts DEF FrameOK
    <2>3. /\ g.checkpoint.journal_i \in 1..(Len(k.journal) - 1)
          /\ g.checkpoint.journal_i \in 1..f.checkpoint.journal_i
          /\ g.checkpoint.log_i <= k.logs
      BY <1>1, <2>1, <2>2 DEF Below
    <2>4. Alike(d, g.before, RevertTo(k, g.checkpoint.journal_i))
      BY <1>1, <2>1, <2>3 DEF FrameOK
    <2>5. Keeps(g.before, k.state) /\ Runs(k.state, g.address)
      BY <1>1, <2>1, KeepsTrans, RunsOn DEF Below
    <2>6. FrameOK(k, g, d)
      BY <2>1, <2>3, <2>4, <2>5 DEF FrameOK
    <2>7. QED BY <2>6 DEF g
  <1>4. Stack(k, gs, d)
    BY <1>2, <1>3 DEF Stack
  <1>5. gs # <<>> /\ gs[1] = fs[1] /\ k.depth = Len(gs)
    BY <1>1, <1>2 DEF Sound
  <1>6. Sound(k, d, gs)
    BY <1>1, <1>4, <1>5 DEF Sound
  <1>7. QED BY <1>6 DEF k, gs, f

\* What Genesis holds is an integer, and a sum over all addresses.
LEMMA SupplyIs ==
  /\ Supply \in Int
  /\ Supply = Sum([a \in Address |-> IF a \in DOMAIN Genesis THEN Genesis[a] ELSE 0], Address)
  <1> DEFINE f == [a \in Address |-> IF a \in DOMAIN Genesis THEN Genesis[a] ELSE 0]
  <1>1. Ints(f, Address) /\ DOMAIN f = Address /\ IsFiniteSet(Address)
    BY ConstAssumption DEF Ints
  <1>2. Supply = SumFunction(f)
    BY DEF Supply
  <1> HIDE DEF f
  <1>3. SumFunction(f) = Sum(f, Address)
    BY <1>1, SumFunctionIs
  <1>4. Sum(f, Address) \in Int
    BY <1>1, SumType
  <1>5. QED BY <1>2, <1>3, <1>4 DEF f

\* One transaction more prepays once more.
LEMMA PrepaidSum ==
  ASSUME NEW n \in Nat
  PROVE  /\ n * Prepaid \in Int /\ Prepaid \in Nat
         /\ (n + 1) * Prepaid = n * Prepaid + Prepaid
  <1>1. Prepaid \in Nat
    BY ConstAssumption
  <1>2. QED BY <1>1

\* A frugal step leads from solvent states to solvent states.
LEMMA SolventOn ==
  ASSUME NEW d, Funded(d), NEW s \in States, NEW t \in States, NEW n \in Nat,
         Solvent(d, s, n, burnt), Frugal(d, s, t), burnt => burnt'
  PROVE  Solvent(d, t, n, burnt')
  <1> DEFINE p == n * Prepaid
  <1>1. /\ Wealth(d, s) \in Int /\ Wealth(d, t) \in Int /\ Supply \in Int /\ p \in Int
    <2>1. Wealth(d, s) \in Int /\ Wealth(d, t) \in Int
      BY WealthType
    <2>2. QED BY <2>1, SupplyIs, PrepaidSum
  <1>2. /\ Wealth(d, s) + p <= Supply
        /\ ~burnt => Wealth(d, s) + p = Supply /\ Unmarked(s)
    BY DEF Solvent
  <1> HIDE DEF p
  <1>3. Wealth(d, t) + p <= Supply
    BY <1>1, <1>2 DEF Frugal
  <1>4. ASSUME ~burnt'
        PROVE  Wealth(d, t) + p = Supply /\ Unmarked(t)
    <2>1. Wealth(d, s) + p = Supply /\ Unmarked(s)
      BY <1>2, <1>4
    <2>2. Wealth(d, t) = Wealth(d, s) /\ Intact(s, t)
      BY <1>4 DEF Frugal
    <2>3. QED BY <2>1, <2>2, UnmarkedOn
  <1>5. QED BY <1>3, <1>4 DEF Solvent, p

\* A frugal step of a subroutine keeps all frames solvent.
LEMMA SolvencyOn ==
  ASSUME NEW j, NEW k \in JState, NEW d, NEW fs, NEW n, Solvency(j, d, fs, n, burnt),
         Good(j, d), Grows(j, k, d), burnt => burnt'
  PROVE  Solvency(k, d, fs, n, burnt')
  <1>1. Funded(d) /\ j.state \in States /\ k.state \in States /\ n \in Nat
    BY JStateParts DEF Good, Solvency
  <1>2. Solvent(d, k.state, n, burnt')
    BY <1>1, SolventOn DEF Solvency, Grows
  <1>3. \A i \in 1..Len(fs) : Solvent(d, fs[i].before, n, burnt')
    BY DEF Solvency, Solvent
  <1>4. QED BY <1>1, <1>2, <1>3 DEF Solvency

\* Without its last frame the stack is solvent.
LEMMA SolvencyFront ==
  ASSUME NEW j, NEW d, NEW fs \in Seq(FrameType), fs # <<>>, NEW n, NEW b,
         \A i \in 1..Len(fs) : Solvent(d, fs[i].before, n, b), n \in Nat,
         Solvent(d, j.state, n, b)
  PROVE  Solvency(j, d, Front(fs), n, b)
  <1>1. /\ Len(Front(fs)) = Len(fs) - 1 /\ Len(fs) \in Nat
        /\ \A i \in 1..(Len(fs) - 1) : Front(fs)[i] = fs[i]
    BY FrontIs
  <1>2. ASSUME NEW i \in 1..Len(Front(fs)) PROVE Solvent(d, Front(fs)[i].before, n, b)
    <2>1. i \in 1..Len(fs) /\ Front(fs)[i] = fs[i]
      BY <1>1
    <2>2. QED BY <2>1
  <1>3. QED BY <1>2 DEF Solvency

\* With the frame of a subroutine that is entered the stack is solvent.
LEMMA SolvencyEnter ==
  ASSUME NEW j, Good(j, db), NEW fs \in Seq(FrameType), NEW n, Solvency(j, db, fs, n, burnt),
         burnt' = burnt, NEW c, NEW k, NEW f, Enters(j, c, k, f)
  PROVE  Solvency(k, db, fs \o <<f>>, n, burnt')
  <1> DEFINE gs == fs \o <<f>>
             m  == Len(fs)
  <1>1. k \in JState /\ Grows(j, k, db) /\ Frugal(db, j.state, f.before) /\ f.before \in States
    BY DEF Enters, Good
  <1>2. Solvency(k, db, fs, n, burnt')
    BY <1>1, SolvencyOn
  <1>3. Solvent(db, f.before, n, burnt')
    <2>1. Funded(db) /\ j.state \in States /\ n \in Nat
      BY JStateParts DEF Good, Solvency
    <2>2. QED BY <1>1, <2>1, SolventOn DEF Solvency
  <1>4. /\ Len(gs) = m + 1 /\ \A i \in 1..m : gs[i] = fs[i]
        /\ gs[m + 1] = f /\ m \in Nat
    OBVIOUS
  <1> HIDE DEF gs, m
  <1>5. ASSUME NEW i \in 1..(m + 1) PROVE Solvent(db, gs[i].before, n, burnt')
    <2>1. CASE i = m + 1
      BY <1>3, <1>4, <2>1
    <2>2. CASE i # m + 1
      <3>1. i \in 1..m
        BY <1>4, <2>2
      <3>2. QED BY <1>2, <1>4, <3>1 DEF Solvency, m
    <2>3. QED BY <2>1, <2>2
  <1>6. Solvency(k, db, gs, n, burnt')
    BY <1>2, <1>4, <1>5 DEF Solvency
  <1>7. QED BY <1>6 DEF gs

\* What failing leaves is what was there when the frame was entered.
LEMMA SolventBack ==
  ASSUME NEW j, NEW d, NEW fs, Sound(j, d, fs), fs # <<>>, NEW n, NEW b,
         Solvency(j, d, fs, n, b)
  PROVE  LET k == checkpoint_revert(j, fs[Len(fs)].checkpoint)
         IN Solvent(d, k.state, n, b)
  <1> DEFINE f == fs[Len(fs)]
             s == f.before
             k == checkpoint_revert(j, f.checkpoint)
             t == k.state
  <1>1. Good(k, d) /\ Alike(d, s, t) /\ Beneath(t, j.state)
    BY TakenBack
  <1> HIDE DEF k
  <1>2. f \in FrameType /\ Len(fs) \in 1..Len(fs)
    <2>1. f \in FrameType
      BY StackEnds DEF Sound
    <2>2. Len(fs) \in Nat /\ Len(fs) >= 1
      BY StackEnds DEF Sound
    <2> DEFINE m == Len(fs)
    <2>3. m \in Nat /\ m >= 1
      BY <2>2
    <2> HIDE DEF m, f
    <2>4. m \in 1..m
      BY <2>3
    <2>5. QED BY <2>1, <2>4 DEF m
  <1>3. Solvent(d, s, n, b) /\ Solvent(d, j.state, n, b)
    BY <1>2 DEF Solvency
  <1> HIDE DEF f
  <1>4. s \in States /\ t \in States /\ Funded(d)
    BY <1>1, <1>2, FrameParts, JStateParts DEF Good
  <1> HIDE DEF s, t
  <1>5. Wealth(d, s) = Wealth(d, t)
    <2>1. \A a \in Address : Bal(d, s, a) = Bal(d, t, a)
      BY <1>1, AlikeBal
    <2>2. QED BY <1>4, <2>1, WealthSame
  <1>6. ASSUME Unmarked(s), Unmarked(j.state), NEW a \in DOMAIN t
        PROVE  "SelfDestructed" \notin t[a].status
    <2>1. CASE a = P
      <3>1. a \in DOMAIN j.state /\ t[a].status = j.state[a].status
        BY <1>1, <2>1 DEF Beneath
      <3>2. QED BY <1>6, <3>1 DEF Unmarked
    <2>2. CASE a # P
      <3>1. a \in DOMAIN s /\ Essence(t[a]) = Essence(s[a])
        BY <1>1, <2>2 DEF Alike, Restored, P
      <3>2. t[a].status \intersect Marks = s[a].status \intersect Marks
        BY <3>1, EssenceParts
      <3>3. QED BY <1>6, <3>1, <3>2 DEF Marks, Unmarked
    <2>3. QED BY <2>1, <2>2
  <1>7. Unmarked(s) /\ Unmarked(j.state) => Unmarked(t)
    BY <1>6 DEF Unmarked
  <1>8. Solvent(d, t, n, b)
    BY <1>3, <1>5, <1>7 DEF Solvent
  <1>9. QED BY <1>8 DEF t, k, f

\* What finalize commits is solvent.
LEMMA SolventSettled ==
  ASSUME NEW j, Good(j, db), DbOK(db), NEW n \in Nat, NEW b, Solvent(db, j.state, n, b)
  PROVE  Solvent(commit(db, Settled(j)), NoJournal.state, n, b)
  <1> DEFINE d == commit(db, Settled(j))
             o == NoJournal.state
             p == n * Prepaid
  <1>1. /\ Wealth(d, o) <= Wealth(db, j.state)
        /\ Unmarked(j.state) => Wealth(d, o) = Wealth(db, j.state)
    BY FinalizeWealth
  <1>2. Funded(d) /\ Funded(db) /\ j.state \in States
    BY FinalizeFits, DbFunded, JStateParts DEF Good
  <1> HIDE DEF d
  <1>3. o \in States /\ Unmarked(o)
    BY <1>2, NoJournalGood DEF Unmarked
  <1> HIDE DEF o
  <1>4. Wealth(d, o) \in Int /\ Wealth(db, j.state) \in Int /\ p \in Int /\ Supply \in Int
    <2>1. Wealth(d, o) \in Int /\ Wealth(db, j.state) \in Int
      BY <1>2, <1>3, WealthType
    <2>2. QED BY <2>1, SupplyIs, PrepaidSum
  <1>5. /\ Wealth(db, j.state) + p <= Supply
        /\ ~b => Wealth(db, j.state) + p = Supply /\ Unmarked(j.state)
    BY DEF Solvent
  <1> HIDE DEF p
  <1>6. Wealth(d, o) + p <= Supply /\ (~b => Wealth(d, o) + p = Supply)
    BY <1>1, <1>4, <1>5
  <1>7. Solvent(d, o, n, b)
    BY <1>3, <1>6 DEF Solvent, p
  <1>8. QED BY <1>7 DEF d, o

\* Genesis is sound: empty journaled state, no frames.
LEMMA InitSound == Init => IInv
  <1> SUFFICES ASSUME Init PROVE IInv
    OBVIOUS
  <1> DEFINE base(a) == IF a \in DOMAIN Genesis
                          THEN DbAccount("None", [DefaultInfo EXCEPT !.balance = Genesis[a]], <<>>)
                          ELSE new_not_existing
  <1>1. js = NoJournal /\ frames = <<>> /\ db = [a \in Address |-> base(a)]
    BY DEF Init
  <1>2. ASSUME NEW a \in Address PROVE DbFit(a, base(a))
    <2>1. CASE a \in DOMAIN Genesis
      <3> DEFINE st == <<>>
                 x  == DbAccount("None", [DefaultInfo EXCEPT !.balance = Genesis[a]], st)
      <3>1. st \in [{} -> Int]
        BY EmptyStorage
      <3> HIDE DEF st
      <3>2. DOMAIN st = {} /\ st \in DbStorage
        <4>1. DOMAIN st = {}
          BY <3>1
        <4>2. QED BY <3>1, <4>1, DbStorageType
      <3>3. Genesis[a] \in Nat
        BY <2>1, ConstAssumption
      <3>4. x = [account_state |-> "None",
                 info |-> [balance |-> Genesis[a], nonce |-> 0, code |-> "empty"], storage |-> st]
        BY DEF DbAccount, DefaultInfo
      <3>5. [balance |-> Genesis[a], nonce |-> 0, code |-> "empty"] \in Info
        BY <3>3 DEF Info, Code
      <3> HIDE DEF x
      <3>6. x \in DbRecord /\ x.info.nonce = 0 /\ x.info.balance \in Nat /\ x.storage = st
        BY <3>2, <3>3, <3>4, <3>5 DEF DbRecord, DbState
      <3>7. 0 \in 0..MaxNonce
        BY ConstAssumption
      <3>8. DbFit(a, x)
        BY <3>2, <3>6, <3>7 DEF DbFit
      <3>9. QED BY <2>1, <3>8 DEF x, st
    <2>2. CASE a \notin DOMAIN Genesis
      BY <2>2, NotExistingFits
    <2>3. QED BY <2>1, <2>2
  <1>3. \A a \in Address :
          base(a).info.balance = IF a \in DOMAIN Genesis THEN Genesis[a] ELSE 0
    BY DEF DbAccount, DefaultInfo, new_not_existing
  <1> HIDE DEF base
  <1>4. db \in [Address -> DbRecord]
    BY <1>1, <1>2 DEF DbFit
  <1>5. DbOK(db)
    BY <1>1, <1>2, <1>4, DbFits
  <1>6. Sound(js, db, frames)
    BY <1>1, <1>5, SoundIdle
  <1>7. Wealth(db, js.state) = Supply
    <2>1. DOMAIN js.state = {}
      BY <1>1, <1>5, DbFunded, NoJournalGood
    <2>2. \A a \in Address :
            Bal(db, js.state, a) = IF a \in DOMAIN Genesis THEN Genesis[a] ELSE 0
      BY <1>1, <1>3, <2>1 DEF Bal
    <2>3. QED BY <2>2, SupplyIs DEF Wealth
  <1>8. Solvency(js, db, frames, txs, burnt)
    <2>1. txs = 0 /\ Len(frames) = 0
      BY <1>1 DEF Init
    <2>2. Unmarked(js.state)
      BY <1>1, <1>5, DbFunded, NoJournalGood DEF Unmarked
    <2>3. 0 * Prepaid = 0 /\ Supply \in Int
      BY SupplyIs, ConstAssumption
    <2>4. Wealth(db, js.state) + txs * Prepaid = Supply
      BY <1>7, <2>1, <2>3
    <2>5. Solvent(db, js.state, txs, burnt)
      BY <2>2, <2>3, <2>4 DEF Solvent
    <2>6. QED BY <2>1, <2>5 DEF Solvency
  <1>9. QED BY <1>6, <1>8 DEF IInv

\* What holds between transactions.
LEMMA IdleFrames ==
  ASSUME IInv, Idle
  PROVE  /\ frames = <<>> /\ DbOK(db)
         /\ txs \in Nat /\ Solvent(db, NoJournal.state, txs, burnt)
  <1>1. /\ js = NoJournal /\ js.depth = Len(frames) /\ frames \in Seq(FrameType) /\ DbOK(db)
        /\ txs \in Nat /\ Solvent(db, js.state, txs, burnt)
    BY DEF IInv, Sound, Solvency, Stack, Idle
  <1>2. Len(frames) = 0
    BY <1>1, DbFunded, NoJournalGood
  <1>3. QED BY <1>1, <1>2, EmptySeq

\* The next transaction has paid for its gas.
LEMMA PreparedSolvent ==
  ASSUME NEW j, NEW a, Prepared(j, a), DbOK(db), NEW n \in Nat, NEW b,
         Solvent(db, NoJournal.state, n, b)
  PROVE  Solvent(db, j.state, n + 1, b)
  <1> DEFINE s == j.state
             o == NoJournal.state
             p == n * Prepaid
             q == (n + 1) * Prepaid
  <1>1. /\ Wealth(db, s) = Wealth(db, o) - Prepaid /\ Unmarked(s) /\ Good(j, db)
    BY DEF Prepared
  <1>2. p \in Int /\ Prepaid \in Int /\ q = p + Prepaid /\ Supply \in Int
    BY PrepaidSum, SupplyIs
  <1>3. Wealth(db, o) \in Int
    BY DbFunded, NoJournalGood, WealthType
  <1>4. Wealth(db, o) + p <= Supply /\ (~b => Wealth(db, o) + p = Supply)
    BY DEF Solvent
  <1> HIDE DEF p, q, o
  <1>5. Wealth(db, s) + q <= Supply /\ (~b => Wealth(db, s) + q = Supply)
    BY <1>1, <1>2, <1>3, <1>4
  <1>6. QED BY <1>1, <1>5 DEF Solvent, q

\* The transaction ends: its journal is gone and the database holds its state.
LEMMA Finalized ==
  ASSUME DbOK(db), NEW j, Good(j, db), Finalize(j), frames' = <<>>,
         txs' \in Nat, Solvent(db, j.state, txs', burnt')
  PROVE  IInv'
  <1>1. js' = NoJournal /\ DbOK(db') /\ db' = commit(db, Settled(j))
    BY FinalizeFits DEF Finalize
  <1>2. Sound(js', db', frames')
    BY <1>1, SoundIdle
  <1>3. Solvent(db', js'.state, txs', burnt')
    BY <1>1, SolventSettled
  <1>4. Len(frames') = 0
    OBVIOUS
  <1>5. Solvency(js', db', frames', txs', burnt')
    BY <1>3, <1>4 DEF Solvency
  <1>6. QED BY <1>2, <1>5 DEF IInv

\* What a step leads to is as solvent as what it came from.
LEMMA LeadsSolvent ==
  ASSUME NEW j, Good(j, db), NEW k, Leads(j, k, db), burnt' = burnt, NEW n \in Nat,
         Solvent(db, j.state, n, burnt')
  PROVE  Solvent(db, k.state, n, burnt')
  <1>1. Good(k, db) /\ Frugal(db, j.state, k.state) /\ Funded(db)
    BY DEF Leads, Grows, Good
  <1>2. j.state \in States /\ k.state \in States
    BY <1>1, JStateParts DEF Good
  <1>3. Solvent(db, j.state, n, burnt)
    OBVIOUS
  <1>4. QED BY <1>1, <1>2, <1>3, SolventOn

\* A transaction to an account counts the nonce of its sender.
LEMMA Numbered ==
  ASSUME NEW j, NEW a, Prepared(j, a), DbOK(db), NEW w, w \in 1..MaxNonce
  PROVE  LET k == [j EXCEPT !.state[a].info.nonce = w]
         IN /\ Good(k, db) /\ a \in DOMAIN k.state \ {P}
            /\ \A n, z : Solvent(db, j.state, n, z) => Solvent(db, k.state, n, z)
  <1> DEFINE s == j.state
             c == s[a]
             b == [c EXCEPT !.info.nonce = w]
             t == [s EXCEPT ![a] = b]
             k == [j EXCEPT !.state[a].info.nonce = w]
  <1>1. /\ j \in JState /\ s \in States /\ a \in DOMAIN s \ {P} /\ c \in Account
        /\ "Touched" \in c.status /\ NiceAccount(db, a, c) /\ Good(j, db)
    BY JStateParts, StatesType DEF Prepared, Good, Nice
  <1>2. w \in Int /\ w \in 0..MaxNonce /\ w >= 1
    BY ConstAssumption
  <1>3. k = [j EXCEPT !.state = t]
    OBVIOUS
  <1> HIDE DEF k, c
  <1>4. /\ b \in Account /\ b.info.nonce = w /\ b.storage = c.storage /\ b.status = c.status
        /\ b.info.balance = c.info.balance
    BY <1>1, <1>2, SetNonce
  <1> HIDE DEF b
  <1>5. /\ t \in States /\ DOMAIN t = DOMAIN s
        /\ \A x \in DOMAIN s : t[x] = IF x = a THEN b ELSE s[x]
    BY <1>1, <1>4, StateSet
  <1> HIDE DEF t
  <1>6. k = With(j, t)
    BY <1>1, <1>3, WithIs
  <1>7. NiceAccount(db, a, b)
    BY <1>1, <1>2, <1>4 DEF NiceAccount
  <1>8. Nice(t, db)
    <2>1. NiceAccount(db, a, t[a])
      BY <1>1, <1>5, <1>7
    <2>2. QED BY <1>1, <1>5, <2>1, NiceOne DEF Good
  <1>9. PTouched(s) => PTouched(t)
    BY <1>1, <1>5 DEF PTouched
  <1>10. Good(With(j, t), db)
    BY <1>1, <1>5, <1>8, <1>9, Replaced
  <1>11. With(j, t).state = t
    BY <1>1, <1>5, WithType
  <1>12. Good(k, db) /\ a \in DOMAIN k.state \ {P}
    BY <1>1, <1>5, <1>6, <1>10, <1>11
  <1>13. Wealth(db, s) = Wealth(db, t)
    <2>1. \A x \in Address : Bal(db, s, x) = Bal(db, t, x)
      BY <1>4, <1>5 DEF Bal, c
    <2>2. Funded(db)
      BY DbFunded
    <2>3. QED BY <1>1, <2>1, <2>2, WealthSame
  <1>14. Unmarked(s) => Unmarked(t)
    BY <1>4, <1>5 DEF Unmarked, c
  <1>15. k.state = t
    BY <1>6, <1>11
  <1>16. ASSUME NEW n, NEW z, Solvent(db, s, n, z) PROVE Solvent(db, k.state, n, z)
    BY <1>13, <1>14, <1>15, <1>16 DEF Solvent
  <1>17. QED BY <1>12, <1>16 DEF k

\* Who passes the validation can pay for gas.
LEMMA ValidPays ==
  ASSUME DbOK(db), NEW caller \in TxCaller, NEW value \in Paid, Valid(caller, value)
  PROVE  Prepaid <= db[caller].info.balance
  <1>1. caller \in Address /\ value \in Nat /\ Prepaid \in Nat
    BY ConstAssumption
  <1>2. db[caller].info.balance \in Nat
    BY <1>1, DbParts
  <1>3. db[caller].info.balance >= Prepaid + value
    BY DEF Valid
  <1>4. QED BY <1>1, <1>2, <1>3

\* A transaction that calls keeps the invariant.
LEMMA TransactCallSound ==
  ASSUME IInv, NEW caller \in TxCaller, NEW value \in Paid, NEW to \in Named,
         NEW precompile_ok, TransactCall(caller, to, value, precompile_ok)
  PROVE  IInv'
  <1> DEFINE j == Prepare(caller)
             n == j.state[caller].info.nonce
             w == IF n = MaxNonce THEN n ELSE n + 1
             k == [j EXCEPT !.state[caller].info.nonce = w]
             ret == call_inner(k, to, caller, to, value, precompile_ok)
  <1>1. /\ frames = <<>> /\ DbOK(db) /\ txs \in Nat
        /\ Solvent(db, NoJournal.state, txs, burnt)
    BY IdleFrames DEF TransactCall
  <1>2. Prepared(j, caller)
    <2>1. Valid(caller, value)
      BY DEF TransactCall
    <2>2. Prepaid <= db[caller].info.balance
      BY <1>1, <2>1, ValidPays
    <2>3. QED BY <1>1, <2>2, PrepareLeads
  <1>3. Finalize(ret.js) /\ frames' = frames /\ txs' = txs + 1 /\ burnt' = burnt
    BY DEF TransactCall
  <1> HIDE DEF j
  <1>4. n \in 0..MaxNonce /\ MaxNonce \in Nat \ {0}
    BY <1>2, ConstAssumption DEF Prepared, Good, Nice, NiceAccount
  <1>5. w \in 1..MaxNonce
    BY <1>4
  <1> HIDE DEF w
  <1>6. Solvent(db, j.state, txs', burnt') /\ txs' \in Nat
    <2>1. Solvent(db, j.state, txs + 1, burnt)
      BY <1>1, <1>2, PreparedSolvent
    <2>2. QED BY <1>1, <1>3, <2>1
  <1>7. /\ Good(k, db) /\ caller \in DOMAIN k.state \ {P}
        /\ Solvent(db, k.state, txs', burnt')
    BY <1>1, <1>2, <1>5, <1>6, Numbered
  <1> HIDE DEF k
  <1>8. to \in Address /\ value \in Nat
    BY ConstAssumption
  <1>9. Leads(k, ret.js, db)
    BY <1>1, <1>7, <1>8, CallLeads
  <1> HIDE DEF ret
  <1>10. Solvent(db, ret.js.state, txs', burnt')
    BY <1>1, <1>3, <1>7, <1>9, <1>6, LeadsSolvent
  <1>11. QED BY <1>1, <1>3, <1>9, <1>10, <1>6, Finalized DEF Leads

\* A transaction that creates keeps the invariant.
LEMMA TransactCreateSound ==
  ASSUME IInv, NEW caller \in TxCaller, NEW value \in Paid, TransactCreate(caller, value)
  PROVE  IInv'
  <1> DEFINE j == Prepare(caller)
             ret == create_inner(j, caller, value, "Create")
  <1>1. /\ frames = <<>> /\ DbOK(db) /\ txs \in Nat
        /\ Solvent(db, NoJournal.state, txs, burnt)
    BY IdleFrames DEF TransactCreate
  <1>2. Prepared(j, caller)
    <2>1. Valid(caller, value)
      BY DEF TransactCreate
    <2>2. Prepaid <= db[caller].info.balance
      BY <1>1, <2>1, ValidPays
    <2>3. QED BY <1>1, <2>2, PrepareLeads
  <1>3. /\ frames' = ret.init /\ txs' = txs + 1 /\ burnt' = burnt
        /\ IF ret.init = <<>> THEN Finalize(ret.js) ELSE js' = ret.js /\ db' = db
    BY DEF TransactCreate
  <1> HIDE DEF j
  <1>4. Solvent(db, j.state, txs', burnt') /\ txs' \in Nat
    <2>1. Solvent(db, j.state, txs + 1, burnt)
      BY <1>1, <1>2, PreparedSolvent
    <2>2. QED BY <1>1, <1>3, <2>1
  <1>5. value \in Nat
    BY ConstAssumption
  <1>6. \/ ret.init = <<>> /\ Leads(j, ret.js, db)
        \/ \E f : ret.init = <<f>> /\ Enters(j, caller, ret.js, f)
    BY <1>1, <1>2, <1>5, CreateLeads DEF Prepared
  <1> HIDE DEF ret
  <1>7. CASE ret.init = <<>> /\ Leads(j, ret.js, db)
    <2>1. Good(j, db)
      BY <1>2 DEF Prepared
    <2>2. Solvent(db, ret.js.state, txs', burnt')
      BY <1>3, <1>7, <1>4, <2>1, LeadsSolvent
    <2>3. QED BY <1>1, <1>3, <1>7, <1>4, <2>2, Finalized DEF Leads
  <1>8. ASSUME NEW f, ret.init = <<f>>, Enters(j, caller, ret.js, f)
        PROVE  IInv'
    <2>1. js' = ret.js /\ db' = db /\ frames' = <<f>>
      BY <1>3, <1>8
    <2>2. Outermost(f.before)
      <3>1. ASSUME NEW b \in DOMAIN f.before
            PROVE  /\ "Created" \notin f.before[b].status
                   /\ "Touched" \in f.before[b].status => f.before[b].info.nonce >= 1
        <4>1. "Created" \notin f.before[b].status
          BY <1>2, <1>8 DEF Enters, Prepared, First
        <4>2. CASE b = caller
          BY <1>8, <4>1, <4>2 DEF Enters
        <4>3. CASE b # caller
          BY <1>2, <1>8, <4>1, <4>3 DEF Enters, Prepared, First
        <4>4. QED BY <4>2, <4>3
      <3>2. QED BY <3>1 DEF Outermost
    <2>3. j.depth = Len(<<>>) /\ Stack(j, <<>>, db) /\ Good(j, db)
      <3>1. Len(<<>>) = 0 /\ <<>> \in Seq(FrameType)
        OBVIOUS
      <3>2. QED BY <1>2, <3>1 DEF Prepared, Stack
    <2>4. Sound(ret.js, db, <<>> \o <<f>>)
      BY <1>1, <1>8, <2>2, <2>3, SoundEnter
    <2>5. <<>> \o <<f>> = <<f>>
      OBVIOUS
    <2>6. Solvency(ret.js, db, <<>> \o <<f>>, txs', burnt')
      <3>1. Good(j, db) /\ <<>> \in Seq(FrameType) /\ Len(<<>>) = 0
        BY <1>2 DEF Prepared
      <3>2. Solvency(j, db, <<>>, txs', burnt)
        BY <1>3, <1>4, <3>1 DEF Solvency
      <3>3. QED BY <1>3, <1>8, <3>1, <3>2, SolvencyEnter
    <2>7. QED BY <2>1, <2>4, <2>5, <2>6 DEF IInv
  <1>9. QED BY <1>6, <1>7, <1>8

\* What opcodes find.
LEMMA TopRuns ==
  ASSUME IInv, frames # <<>>
  PROVE  /\ Good(js, db) /\ DbOK(db) /\ Runs(js.state, Top.address)
         /\ Top.address \in Address \ {P}
  <1>1. Good(js, db) /\ DbOK(db) /\ Stack(js, frames, db)
    BY DEF IInv, Sound
  <1>2. FrameOK(js, Top, db)
    BY <1>1, StackEnds DEF Top, Depth
  <1>3. Runs(js.state, Top.address) /\ js.state \in States
    BY <1>1, <1>2, JStateParts DEF FrameOK, Good
  <1>4. QED BY <1>1, <1>3, StatesType DEF Runs

\* An opcode that stays in its frame keeps the invariant when it leads there.
LEMMA OpcodeSound ==
  ASSUME IInv, frames # <<>>, Leads(js, js', db), UNCHANGED <<db, frames, txs, burnt>>
  PROVE  IInv'
  <1>1. Sound(js, db, frames) /\ Solvency(js, db, frames, txs, burnt)
    BY DEF IInv
  <1>2. Sound(js', db, frames)
    BY <1>1, SoundOn
  <1>3. Good(js, db) /\ js' \in JState /\ Grows(js, js', db)
    BY <1>1 DEF Sound, Leads, Good
  <1>4. Solvency(js', db, frames, txs, burnt')
    BY <1>1, <1>3, SolvencyOn
  <1>5. QED BY <1>2, <1>4 DEF IInv

\* BALANCE, EXTCODE* keep the invariant.
LEMMA LoadSound ==
  ASSUME IInv, NEW a \in Named, Load(a)
  PROVE  IInv'
  <1>1. frames # <<>> /\ js' = load_account(js, a) /\ UNCHANGED <<db, frames, txs, burnt>>
    BY DEF Load, Opcode
  <1>2. a \in Address
    BY ConstAssumption
  <1>3. Leads(js, js', db)
    BY <1>1, <1>2, TopRuns, LoadStep, StepLeads DEF LoadLeads
  <1>4. QED BY <1>1, <1>3, OpcodeSound

\* LOG keeps the invariant.
LEMMA LogSound ==
  ASSUME IInv, log
  PROVE  IInv'
  <1>1. frames # <<>> /\ js' = [js EXCEPT !.logs = @ + 1] /\ UNCHANGED <<db, frames, txs, burnt>>
    BY DEF log, Opcode
  <1>2. Step(js, [js EXCEPT !.logs = @ + 1], db)
    BY <1>1, TopRuns, LogStep
  <1>3. Leads(js, js', db)
    BY <1>1, <1>2, StepLeads
  <1>4. QED BY <1>1, <1>3, OpcodeSound

\* SSTORE keeps the invariant.
LEMMA SStoreSound ==
  ASSUME IInv, NEW k \in Key, NEW v \in 0..1, SStore(k, v)
  PROVE  IInv'
  <1>1. frames # <<>> /\ js' = sstore(js, Top.address, k, v) /\ UNCHANGED <<db, frames, txs, burnt>>
    BY DEF SStore, Opcode
  <1>2. Leads(js, js', db)
    BY <1>1, TopRuns, SStoreStep, StepLeads
  <1>3. QED BY <1>1, <1>2, OpcodeSound

\* SLOAD keeps the invariant.
LEMMA SLoadSound ==
  ASSUME IInv, NEW k \in Key, SLoad(k)
  PROVE  IInv'
  <1>1. frames # <<>> /\ js' = sload(js, Top.address, k) /\ UNCHANGED <<db, frames, txs, burnt>>
    BY DEF SLoad, Opcode
  <1>2. Leads(js, js', db)
    BY <1>1, TopRuns, SLoadStep, StepLeads
  <1>3. QED BY <1>1, <1>2, OpcodeSound

\* CALL, CALLCODE, DELEGATECALL and STATICCALL keep the invariant.
LEMMA CallSound ==
  ASSUME IInv, NEW contract \in Named, NEW scheme, NEW value \in Paid, NEW precompile_ok,
         Call(contract, scheme, value, precompile_ok)
  PROVE  IInv'
  <1> DEFINE a   == Top.address
             to  == IF scheme = "Call" THEN contract ELSE a
             m   == load_account(js, contract)
             ret == call_inner(m, contract, a, to, value, precompile_ok)
  <1>1. frames # <<>> /\ js' = ret.js /\ UNCHANGED <<db, frames, txs, burnt>>
    BY DEF Call, Opcode
  <1>2. contract \in Address /\ value \in Nat
    BY ConstAssumption
  <1>3. Good(js, db) /\ DbOK(db) /\ Runs(js.state, a)
    BY <1>1, TopRuns
  <1>4. LoadLeads(js, contract, m)
    BY <1>2, <1>3, LoadStep
  <1> HIDE DEF m
  <1>5. Step(js, m, db) /\ Good(m, db) /\ Runs(m.state, a)
    BY <1>3, <1>4, RunsOn DEF LoadLeads, Step, Grows
  <1>6. a \in DOMAIN m.state \ {P} /\ to \in DOMAIN m.state \union {contract}
    BY <1>5 DEF Runs
  <1> HIDE DEF to, a
  <1>7. Leads(m, ret.js, db)
    BY <1>2, <1>3, <1>5, <1>6, CallLeads
  <1> HIDE DEF ret
  <1>8. Leads(js, js', db)
    BY <1>1, <1>3, <1>5, <1>7, StepLeads, LeadsTrans
  <1>9. QED BY <1>1, <1>8, OpcodeSound

\* CREATE and CREATE2 keep the invariant.
LEMMA CreateSound ==
  ASSUME IInv, NEW value \in Paid, NEW scheme, Create(value, scheme)
  PROVE  IInv'
  <1> DEFINE a   == Top.address
             ret == create_inner(js, a, value, scheme)
  <1>1. /\ frames # <<>> /\ js' = ret.js /\ frames' = frames \o ret.init /\ db' = db
        /\ txs' = txs /\ burnt' = burnt
    BY DEF Create, Opcode
  <1>2. Good(js, db) /\ DbOK(db) /\ a \in DOMAIN js.state \ {P} /\ value \in Nat
    BY <1>1, TopRuns, ConstAssumption DEF Runs
  <1>3. \/ ret.init = <<>> /\ Leads(js, ret.js, db)
        \/ \E f : ret.init = <<f>> /\ Enters(js, a, ret.js, f)
    BY <1>2, CreateLeads
  <1> HIDE DEF ret, a
  <1>4. CASE ret.init = <<>> /\ Leads(js, ret.js, db)
    <2>1. frames \in Seq(FrameType)
      BY DEF IInv, Sound, Stack
    <2>2. frames' = frames
      BY <1>1, <1>4, <2>1
    <2>3. QED BY <1>1, <1>4, <2>2, OpcodeSound
  <1>5. ASSUME NEW f, ret.init = <<f>>, Enters(js, a, ret.js, f)
        PROVE  IInv'
    <2>1. js.depth = Len(frames) /\ Stack(js, frames, db) /\ Outermost(frames[1].before)
      BY <1>1 DEF IInv, Sound
    <2>2. Sound(ret.js, db, frames \o <<f>>)
      BY <1>1, <1>2, <1>5, <2>1, SoundEnter
    <2>3. Solvency(ret.js, db, frames \o <<f>>, txs, burnt')
      <3>1. frames \in Seq(FrameType) /\ Solvency(js, db, frames, txs, burnt)
        BY <2>1 DEF IInv, Stack
      <3>2. QED BY <1>1, <1>2, <1>5, <3>1, SolvencyEnter
    <2>4. QED BY <1>1, <1>5, <2>2, <2>3 DEF IInv
  <1>6. QED BY <1>3, <1>4, <1>5

\* The end of a subroutine, which may be the end of the transaction.
LEMMA LeaveSound ==
  ASSUME IInv, frames # <<>>, NEW k, NEW r, Leave(k, r), Good(k, db),
         Len(frames) > 1 => Sound(k, db, Front(frames)),
         Solvent(db, k.state, txs, burnt'),
         burnt => burnt'
  PROVE  IInv'
  <1> DEFINE n == Len(frames)
  <1>1. /\ IF n = 1 THEN Finalize(k) ELSE js' = k /\ db' = db
        /\ frames' = Front(frames) /\ txs' = txs
    BY DEF Leave, Depth
  <1>2. DbOK(db) /\ n \in Nat /\ n >= 1 /\ (n = 1 => Front(frames) = <<>>)
    BY StackEnds DEF IInv, Sound
  <1>3. /\ txs \in Nat /\ frames \in Seq(FrameType)
        /\ \A i \in 1..n : Solvent(db, frames[i].before, txs, burnt')
    BY DEF IInv, Sound, Stack, Solvency, Solvent
  <1>4. Solvency(k, db, Front(frames), txs, burnt')
    BY <1>3, SolvencyFront
  <1>5. CASE n = 1
    BY <1>1, <1>2, <1>3, <1>5, Finalized
  <1>6. CASE n # 1
    <2>1. js' = k /\ db' = db /\ frames' = Front(frames) /\ txs' = txs
      BY <1>1, <1>6
    <2>2. n > 1
      <3> HIDE DEF n
      <3>1. QED BY <1>2, <1>6
    <2>3. Sound(k, db, Front(frames))
      BY <2>2
    <2>4. QED BY <1>4, <2>1, <2>3 DEF IInv
  <1>7. QED BY <1>5, <1>6

\* Code is set, at the depth of the caller.
LEMMA CodeSound ==
  ASSUME IInv, frames # <<>>, NEW m, Step(js, m, db), NEW code \in Code, NEW r,
         Leave(set_code(checkpoint_commit(m), Top.address, code), r), burnt => burnt'
  PROVE  IInv'
  <1> DEFINE a == Top.address
             c == checkpoint_commit(m)
             k == set_code(c, a, code)
  <1>1. Good(js, db) /\ Runs(js.state, a) /\ Good(m, db) /\ Runs(m.state, a)
    BY TopRuns, RunsOn DEF Step, Grows
  <1>2. Good(c, db) /\ Grows(m, c, db) /\ c.state = m.state /\ c.depth = js.depth - 1
    BY <1>1, Committed DEF Step
  <1> HIDE DEF c
  <1>3. Step(c, k, db)
    BY <1>1, <1>2, SetCodeStep DEF Runs
  <1>4. Leave(k, r)
    BY DEF c
  <1> HIDE DEF k
  <1>5. /\ Good(k, db) /\ k.depth = js.depth - 1 /\ Grows(js, m, db) /\ Grows(c, k, db)
    BY <1>2, <1>3 DEF Step
  <1>6. Grows(js, k, db)
    <2>1. js \in JState /\ m \in JState /\ c \in JState /\ k \in JState
          /\ Funded(db)
      BY <1>1, <1>2, <1>5 DEF Good
    <2>2. Grows(js, c, db)
      BY <1>2, <1>5, <2>1, GrowsTrans
    <2>3. QED BY <1>5, <2>1, <2>2, GrowsTrans
  <1>7. Len(frames) > 1 => Sound(k, db, Front(frames))
    BY <1>5, <1>6, SoundLeave DEF IInv
  <1>8. Solvent(db, k.state, txs, burnt')
    <2>1. Solvency(js, db, frames, txs, burnt) /\ k \in JState
      BY <1>5 DEF IInv, Good
    <2>2. Solvency(k, db, frames, txs, burnt')
      BY <1>1, <1>6, <2>1, SolvencyOn
    <2>3. QED BY <2>2 DEF Solvency
  <1>9. QED BY <1>4, <1>5, <1>7, <1>8, LeaveSound

\* The successful end of init code keeps the invariant.
LEMMA ReturnOkSound ==
  ASSUME IInv, NEW code \in Code, ReturnOk(code)
  PROVE  IInv'
  <1>1. /\ frames # <<>> /\ burnt' = burnt
        /\ Leave(set_code(checkpoint_commit(js), Top.address, code), "ok")
    BY DEF ReturnOk
  <1>2. Step(js, js, db)
    BY <1>1, TopRuns, StepSame
  <1>3. QED BY <1>1, <1>2, CodeSound

\* SELFDESTRUCT keeps the invariant.
LEMMA SelfDestructSound ==
  ASSUME IInv, NEW target \in Named, SelfDestruct(target)
  PROVE  IInv'
  <1> DEFINE m == selfdestruct(js, Top.address, target)
  <1>1. /\ frames # <<>> /\ burnt'
        /\ Leave(set_code(checkpoint_commit(m), Top.address, "empty"), "ok")
    BY DEF SelfDestruct
  <1>2. target \in Address /\ "empty" \in Code
    BY ConstAssumption DEF Code
  <1>3. Step(js, m, db)
    BY <1>1, <1>2, TopRuns, SelfDestructStep
  <1> HIDE DEF m
  <1>4. QED BY <1>1, <1>2, <1>3, CodeSound

\* The failing end of init code keeps the invariant.
LEMMA ReturnFailSound ==
  ASSUME IInv, ReturnFail
  PROVE  IInv'
  <1> DEFINE k == checkpoint_revert(js, Top.checkpoint)
  <1>1. frames # <<>> /\ Leave(k, "fail") /\ burnt' = burnt
    BY DEF ReturnFail
  <1>2. Good(k, db)
    BY <1>1, TakenBack DEF IInv, Top, Depth
  <1>3. Len(frames) > 1 => Sound(k, db, Front(frames))
    BY <1>1, SoundBack DEF IInv, Top, Depth
  <1>4. Solvent(db, k.state, txs, burnt)
    BY <1>1, SolventBack DEF IInv, Top, Depth
  <1> HIDE DEF k
  <1>5. QED BY <1>1, <1>2, <1>3, <1>4, LeaveSound

\* Every step keeps the invariant.
LEMMA NextSound == IInv /\ [Next]_vars => IInv'
  <1> SUFFICES ASSUME IInv, [Next]_vars PROVE IInv'
    OBVIOUS
  <1>1. CASE Next
    BY <1>1, TransactCallSound, TransactCreateSound, LoadSound, SelfDestructSound, LogSound,
       SLoadSound, SStoreSound, CallSound, CreateSound, ReturnOkSound, ReturnFailSound DEF Next
  <1>2. CASE UNCHANGED vars
    BY <1>2 DEF vars, IInv
  <1>3. QED BY <1>1, <1>2

\* The inductive invariant holds in every behaviour of the journaled state: every
\* checkpoint on the stack can be reverted to, for every number of accounts, keys,
\* frames and transactions, and the database is never left out of order.
THEOREM Soundness == Spec => []IInv
  BY InitSound, NextSound, PTL DEF Spec

-----------------------------------------------------------------------------
(* The properties                                                           *)

\* The checkpoints of the stack nest, with as many sets of the journal.
LEMMA NestOfSound == IInv => CheckpointsNest
  <1> SUFFICES ASSUME IInv PROVE CheckpointsNest
    OBVIOUS
  <1>1. /\ Good(js, db) /\ js.depth = Depth /\ Stack(js, frames, db)
    BY DEF IInv, Sound, Depth
  <1>2. ASSUME NEW i \in 1..Depth
        PROVE  LET cp == frames[i].checkpoint IN
               /\ cp.journal_i < Len(js.journal) /\ cp.log_i <= js.logs
               /\ i > 1 => /\ frames[i - 1].checkpoint.journal_i < cp.journal_i
                           /\ frames[i - 1].checkpoint.log_i <= cp.log_i
    <2>1. FrameOK(js, frames[i], db) /\ Len(js.journal) \in Nat
      BY <1>1, JStateParts DEF Stack, Depth, Good
    <2>2. /\ frames[i].checkpoint.journal_i < Len(js.journal)
          /\ frames[i].checkpoint.log_i <= js.logs
      BY <2>1 DEF FrameOK
    <2>3. ASSUME i > 1 PROVE Below(frames[i - 1], frames[i])
      <3>1. i \in 1..Len(frames) /\ i - 1 \in 1..(i - 1)
        BY <2>3 DEF Depth
      <3>2. QED BY <1>1, <3>1 DEF Stack
    <2>4. QED BY <2>2, <2>3 DEF Below
  <1>3. QED BY <1>1, <1>2 DEF CheckpointsNest

\* An account that differs from the database is touched.
LEMMA ChangedOfSound == IInv => ChangedIsTouched
  <1> SUFFICES ASSUME IInv PROVE ChangedIsTouched
    OBVIOUS
  <1>1. ASSUME NEW a \in DOMAIN js.state PROVE NiceAccount(db, a, js.state[a])
    BY DEF IInv, Sound, Good, Nice
  <1>2. QED BY <1>1 DEF NiceAccount, ChangedIsTouched

\* JournalIsSound: the journal has a set for every checkpoint, checkpoints nest, and
\* what finalize would drop as untouched is as the database has it
\* (journaled_state.rs:86, 352, 383).
THEOREM JournalSound == Spec => []JournalIsSound
  <1>1. IInv => JournalIsSound
    BY NestOfSound, ChangedOfSound DEF JournalIsSound
  <1>2. QED BY <1>1, Soundness, PTL

\* The state that a transaction without init code would settle.
Alone(s) == [NoJournal EXCEPT !.state = s]

\* Such a state is good.
LEMMA AloneGood ==
  ASSUME NEW s \in States, NEW d, Nice(s, d), Funded(d)
  PROVE  Good(Alone(s), d) /\ Alone(s).state = s
  <1>1. Good(NoJournal, d) /\ NoJournal \in JState /\ ~PTouched(NoJournal.state)
    BY NoJournalGood DEF Good, PTouched
  <1> DEFINE n == NoJournal
  <1>2. n \in JState
    BY <1>1
  <1>3. Alone(s) = [n EXCEPT !.state = s]
    BY DEF Alone
  <1> HIDE DEF n
  <1>4. Alone(s) = With(n, s)
    BY <1>2, <1>3, WithIs
  <1>5. Good(With(n, s), d) /\ With(n, s).state = s
    BY <1>1, <1>2, Replaced, WithType DEF n
  <1>6. QED BY <1>4, <1>5

\* What commit writes tells like accounts apart only if one was created over
\* slots of the database.
LEMMA WrittenLike ==
  ASSUME NEW d, DbOK(d), NEW a \in Address, NEW x, NEW y, Essence(x) = Essence(y),
         "Created" \notin y.status,
         "Created" \in x.status => DOMAIN d[a].storage = {}
  PROVE  LET v == Written(d[a], x)
             w == Written(d[a], y)
         IN /\ v.info.balance = w.info.balance /\ v.info.nonce = w.info.nonce
            /\ v.storage = w.storage
  <1> DEFINE v == Written(d[a], x)
             w == Written(d[a], y)
  <1>1. /\ x.info.balance = y.info.balance /\ x.info.nonce = y.info.nonce
        /\ Values(x.storage) = Values(y.storage)
        /\ x.status \intersect Marks = y.status \intersect Marks
    BY EssenceParts
  <1>2. "SelfDestructed" \in x.status <=> "SelfDestructed" \in y.status
    BY <1>1 DEF Marks
  <1>3. CASE "SelfDestructed" \in x.status
    BY <1>2, <1>3 DEF Written
  <1>4. CASE "SelfDestructed" \notin x.status
    <2> DEFINE none == <<>>
               old  == d[a].storage
    <2>1. /\ v.info = x.info
          /\ v.storage = Over(Values(x.storage), IF "Created" \in x.status THEN none ELSE old)
      BY <1>4, WrittenIs
    <2>2. w.info = y.info /\ w.storage = Over(Values(y.storage), old)
      <3>1. "SelfDestructed" \notin y.status
        BY <1>2, <1>4
      <3>2. w.storage = Over(Values(y.storage), IF "Created" \in y.status THEN none ELSE old)
            /\ w.info = y.info
        BY <3>1, WrittenIs
      <3> HIDE DEF w, none, old
      <3>3. QED BY <3>2
    <2>3. "Created" \in x.status => none = old
      <3>1. none \in [{} -> Int]
        BY EmptyStorage
      <3>2. old \in [DOMAIN old -> Int]
        BY DbParts
      <3> HIDE DEF none
      <3>3. ASSUME DOMAIN old = {} PROVE none = old
        BY <3>1, <3>2, <3>3
      <3>4. QED BY <3>3
    <2> HIDE DEF v, w, none, old
    <2>4. v.storage = w.storage
      BY <1>1, <2>1, <2>2, <2>3
    <2>5. QED BY <1>1, <2>1, <2>2, <2>4 DEF v, w
  <1>5. QED BY <1>3, <1>4

\* Settling like states of which one was left as it was entered.
LEMMA SettledLike ==
  ASSUME DbOK(db), NEW b \in States, Nice(b, db), Outermost(b),
         NEW j, Good(j, db), Restored(b, j.state), Keeps(b, j.state)
  PROVE  LET t == Settled(j)
             u == Settled(Alone(b))
         IN /\ DOMAIN t \ {P} = DOMAIN u \ {P}
            /\ \A a \in DOMAIN u \ {P} :
                 /\ Essence(t[a]) = Essence(u[a])
                 /\ "Created" \notin u[a].status
                 /\ "Created" \in t[a].status /\ "Touched" \in u[a].status =>
                      DOMAIN db[a].storage = {}
  <1> DEFINE r == j.state
             t == Settled(j)
             u == Settled(Alone(b))
  <1>1. Good(Alone(b), db) /\ Alone(b).state = b
    BY DbFunded, AloneGood
  <1>2. /\ DOMAIN t = DOMAIN r \union {coinbase}
        /\ \A a \in DOMAIN r : a # coinbase => t[a] = r[a]
        /\ t[coinbase].info = CoinbaseOf(r).info /\ t[coinbase].storage = CoinbaseOf(r).storage
        /\ t[coinbase].status = CoinbaseOf(r).status \union {"Touched"}
    BY SettledIs
  <1>3. /\ DOMAIN u = DOMAIN b \union {coinbase}
        /\ \A a \in DOMAIN b : a # coinbase => u[a] = b[a]
        /\ u[coinbase].info = CoinbaseOf(b).info /\ u[coinbase].storage = CoinbaseOf(b).storage
        /\ u[coinbase].status = CoinbaseOf(b).status \union {"Touched"}
    BY <1>1, SettledIs
  <1> HIDE DEF t, u, r
  <1>4. /\ DOMAIN r \ {P} = DOMAIN b \ {P}
        /\ \A a \in DOMAIN b \ {P} : Essence(r[a]) = Essence(b[a])
        /\ Keeps(b, r)
    BY DEF Restored, r, P
  <1>5. DOMAIN t \ {P} = DOMAIN u \ {P}
    BY <1>2, <1>3, <1>4
  <1>6. Loaded(coinbase, {}).status \subseteq {"LoadedAsNotExisting"}
    <2>1. {} \in SUBSET Key /\ coinbase \in Address
      BY ConstAssumption
    <2>2. QED BY <2>1, LoadedAccount
  <1>7. ASSUME NEW a \in DOMAIN b \ {P}, "Created" \in r[a].status
        PROVE  b[a].info.nonce = 0 /\ "Touched" \notin b[a].status
    <2>1. "Created" \notin b[a].status
      BY DEF Outermost
    <2>2. ~(b[a].info.nonce >= 1)
      BY <1>4, <1>7, <2>1 DEF Keeps
    <2>3. b[a].info.nonce \in 0..MaxNonce /\ MaxNonce \in Nat
      BY ConstAssumption DEF Nice, NiceAccount
    <2>4. QED BY <2>2, <2>3 DEF Outermost
  <1>8. ASSUME NEW a \in DOMAIN u \ {P}
        PROVE  /\ Essence(t[a]) = Essence(u[a])
               /\ "Created" \notin u[a].status
               /\ "Created" \in t[a].status /\ "Touched" \in u[a].status =>
                    DOMAIN db[a].storage = {}
    <2>1. CASE a # coinbase
      <3>1. a \in DOMAIN b \ {P} /\ a \in DOMAIN r /\ u[a] = b[a] /\ t[a] = r[a]
        BY <1>2, <1>3, <1>4, <2>1
      <3>2. Essence(t[a]) = Essence(u[a]) /\ "Created" \notin u[a].status
        BY <1>4, <3>1 DEF Outermost
      <3>3. ~("Created" \in t[a].status /\ "Touched" \in u[a].status)
        BY <1>7, <3>1
      <3>4. QED BY <3>2, <3>3
    <2>2. CASE a = coinbase /\ a \in DOMAIN b
      <3>1. a \in DOMAIN b \ {P} /\ a \in DOMAIN r /\ CoinbaseOf(b) = b[a] /\ CoinbaseOf(r) = r[a]
        BY <1>4, <2>2 DEF CoinbaseOf
      <3>2. Essence(r[a]) = Essence(b[a])
        BY <1>4, <3>1
      <3>3. /\ t[a].info = r[a].info /\ t[a].storage = r[a].storage
            /\ t[a].status = r[a].status \union {"Touched"}
            /\ u[a].info = b[a].info /\ u[a].storage = b[a].storage
            /\ u[a].status = b[a].status \union {"Touched"}
        BY <1>2, <1>3, <2>2, <3>1
      <3>4. Essence(t[a]) = Essence(u[a])
        <4>1. /\ r[a].info.balance = b[a].info.balance /\ r[a].info.nonce = b[a].info.nonce
              /\ Values(r[a].storage) = Values(b[a].storage)
              /\ r[a].status \intersect Marks = b[a].status \intersect Marks
          BY <3>2, EssenceParts
        <4>2. /\ t[a].info.balance = u[a].info.balance /\ t[a].info.nonce = u[a].info.nonce
              /\ Values(t[a].storage) = Values(u[a].storage)
          BY <3>3, <4>1
        <4>3. t[a].status \intersect Marks = u[a].status \intersect Marks
          BY <3>3, <4>1
        <4>4. QED BY <4>2, <4>3, EssenceParts
      <3>5. "Created" \notin u[a].status
        BY <3>1, <3>3 DEF Outermost
      <3>6. ASSUME "Created" \in t[a].status PROVE DOMAIN db[a].storage = {}
        <4>1. "Created" \in r[a].status
          BY <3>3, <3>6
        <4>2. b[a].info.nonce = 0
          BY <1>7, <3>1, <4>1
        <4>3. db[a].info.nonce = 0
          BY <3>1, <4>2 DEF Nice, NiceAccount
        <4>4. a \in Address
          BY <3>1, StatesType
        <4>5. QED BY <2>2, <4>3, <4>4, DbParts
      <3>7. QED BY <3>4, <3>5, <3>6
    <2>3. CASE a = coinbase /\ a \notin DOMAIN b
      <3>1. a \notin DOMAIN r
        BY <1>4, <2>3
      <3>2. CoinbaseOf(b) = Loaded(coinbase, {}) /\ CoinbaseOf(r) = Loaded(coinbase, {})
        BY <2>3, <3>1 DEF CoinbaseOf
      <3>3. /\ t[a].info = u[a].info /\ t[a].storage = u[a].storage /\ t[a].status = u[a].status
            /\ "Created" \notin t[a].status
        BY <1>2, <1>3, <1>6, <2>3, <3>2
      <3>4. Essence(t[a]) = Essence(u[a])
        BY <3>3 DEF Essence
      <3>5. QED BY <3>3, <3>4
    <2>4. QED BY <2>1, <2>2, <2>3
  <1>9. QED BY <1>5, <1>8 DEF t, u

\* The body of RevertRestores.
Restores ==
  ReturnFail =>
    IF Depth > 1 THEN Restored(Top.before, js'.state)
    ELSE \A a \in Address \ {PRECOMPILE3} :
           LET old == commit(db, Settled([NoJournal EXCEPT !.state = Top.before]))[a]
           IN /\ db'[a].info.balance = old.info.balance
              /\ db'[a].info.nonce = old.info.nonce
              /\ db'[a].storage = old.storage

\* The failing end of init code restores.
LEMMA FailRestores ==
  ASSUME IInv, ReturnFail
  PROVE  Restores
  <1> DEFINE f == Top
             k == checkpoint_revert(js, f.checkpoint)
             b == f.before
  <1>1. /\ frames # <<>> /\ DbOK(db) /\ Len(frames) \in Nat /\ Len(frames) >= 1
        /\ Len(frames) = 1 => db' = commit(db, Settled(k))
        /\ Len(frames) # 1 => js' = k
    <2>1. frames # <<>> /\ Leave(k, "fail")
      BY DEF ReturnFail
    <2>2. DbOK(db) /\ Len(frames) \in Nat /\ Len(frames) >= 1
      BY <2>1, StackEnds DEF IInv, Sound
    <2> HIDE DEF k
    <2>3. QED BY <2>1, <2>2 DEF Leave, Finalize, Depth
  <1>2. (Len(frames) = 1 /\ ~(Len(frames) > 1)) \/ (Len(frames) # 1 /\ Len(frames) > 1)
    <2> DEFINE n == Len(frames)
    <2>1. n \in Nat /\ n >= 1
      BY <1>1
    <2> HIDE DEF n
    <2>2. (n = 1 /\ ~(n > 1)) \/ (n # 1 /\ n > 1)
      BY <2>1
    <2>3. QED BY <2>2 DEF n
  <1>3. /\ Len(frames) = 1 => db' = commit(db, Settled(k))
        /\ Len(frames) # 1 => js' = k
    BY <1>1
  <1>4. f \in FrameType /\ FrameOK(js, f, db) /\ f = frames[Len(frames)]
    BY <1>1, StackEnds DEF IInv, Sound, Top, Depth
  <1>5. Good(k, db) /\ Restored(b, k.state) /\ Keeps(b, k.state)
    BY <1>1, <1>4, TakenBack DEF IInv, Alike
  <1>6. b \in States /\ Nice(b, db)
    BY <1>4, FrameParts DEF FrameOK
  <1>7. CASE Len(frames) > 1
    <2> HIDE DEF k, b, f
    <2>1. Len(frames) # 1
      BY <1>2, <1>7
    <2>2. js' = k
      BY <1>3, <2>1
    <2>3. Restored(b, js'.state)
      BY <1>5, <2>2
    <2>4. Restored(Top.before, js'.state)
      BY <2>3 DEF b, f
    <2>5. QED BY <1>7, <2>4 DEF Restores, Depth
  <1>8. CASE ~(Len(frames) > 1)
    <2> HIDE DEF k, b, f
    <2>1. Len(frames) = 1
      BY <1>2, <1>8
    <2>2. Len(frames) = 1 /\ db' = commit(db, Settled(k))
      BY <1>3, <2>1
    <2>3. b = frames[1].before
      BY <1>4, <2>1 DEF b
    <2>4. Outermost(b)
      BY <1>1, <2>3 DEF IInv, Sound
    <2> DEFINE t == Settled(k)
               u == Settled(Alone(b))
    <2> HIDE DEF k, b
    <2>5. /\ DOMAIN t \ {P} = DOMAIN u \ {P}
          /\ \A a \in DOMAIN u \ {P} :
               /\ Essence(t[a]) = Essence(u[a])
               /\ "Created" \notin u[a].status
               /\ "Created" \in t[a].status /\ "Touched" \in u[a].status =>
                    DOMAIN db[a].storage = {}
      BY <1>1, <1>5, <1>6, <2>4, SettledLike
    <2> HIDE DEF t, u
    <2>6. ASSUME NEW a \in Address \ {P}
          PROVE  LET new == commit(db, t)[a]
                     old == commit(db, u)[a]
                 IN /\ new.info.balance = old.info.balance /\ new.info.nonce = old.info.nonce
                    /\ new.storage = old.storage
      <3>1. /\ commit(db, t)[a] = IF a \in DOMAIN t /\ "Touched" \in t[a].status
                                    THEN Written(db[a], t[a]) ELSE db[a]
            /\ commit(db, u)[a] = IF a \in DOMAIN u /\ "Touched" \in u[a].status
                                    THEN Written(db[a], u[a]) ELSE db[a]
        BY DEF commit
      <3>2. a \in DOMAIN t <=> a \in DOMAIN u
        BY <2>5
      <3>3. CASE a \in DOMAIN u
        <4>1. /\ Essence(t[a]) = Essence(u[a])
              /\ "Created" \notin u[a].status
              /\ "Created" \in t[a].status /\ "Touched" \in u[a].status =>
                   DOMAIN db[a].storage = {}
          BY <2>5, <3>3
        <4>2. "Touched" \in t[a].status <=> "Touched" \in u[a].status
          BY <4>1, EssenceParts DEF Marks
        <4>3. CASE "Touched" \in u[a].status
          <5>1. LET v == Written(db[a], t[a])
                    w == Written(db[a], u[a])
                IN /\ v.info.balance = w.info.balance /\ v.info.nonce = w.info.nonce
                   /\ v.storage = w.storage
            BY <1>1, <4>1, <4>3, WrittenLike
          <5>2. QED BY <3>1, <3>2, <3>3, <4>2, <4>3, <5>1
        <4>4. CASE "Touched" \notin u[a].status
          BY <3>1, <4>2, <4>4
        <4>5. QED BY <4>3, <4>4
      <3>4. CASE a \notin DOMAIN u
        BY <3>1, <3>2, <3>4
      <3>5. QED BY <3>3, <3>4
    <2>7. u = Settled([NoJournal EXCEPT !.state = Top.before]) /\ t = Settled(k)
      BY DEF u, t, Alone, b, f
    <2>8. QED BY <1>8, <2>2, <2>6, <2>7 DEF Restores, Depth, P
  <1>9. QED BY <1>7, <1>8

\* RevertRestores: when init code fails, checkpoint_revert leads back to the state
\* the frame was entered in, and at the outermost frame the database is what it
\* would be had the frame never run (journaled_state.rs:383, interpreter failing).
THEOREM RevertSound == Spec => RevertRestores
  <1>1. IInv /\ [Next]_vars => [Restores]_vars
    BY FailRestores DEF Restores
  <1>2. QED BY <1>1, Soundness, PTL DEF Spec, RevertRestores, Restores

\* The balances of the accounts, over which NoValueCreated sums, are the wealth.
LEMMA NoValueOfSound == IInv => NoValueCreated
  <1> SUFFICES ASSUME IInv PROVE NoValueCreated
    OBVIOUS
  <1> DEFINE f == [a \in Address |-> Balance(a)]
             p == txs * Prepaid
  <1>1. /\ DbOK(db) /\ Good(js, db) /\ Funded(db) /\ js.state \in States
        /\ Solvent(db, js.state, txs, burnt)
    BY JStateParts DEF IInv, Sound, Solvency, Good
  <1>2. \A a \in Address : Balance(a) = Bal(db, js.state, a)
    BY DEF Balance, Bal
  <1>3. SumFunction(f) = Wealth(db, js.state)
    <2>1. DOMAIN f = Address
      OBVIOUS
    <2>2. Wealth(db, js.state) = Sum(f, Address)
      BY <1>2 DEF Wealth
    <2> HIDE DEF f
    <2>3. QED BY <2>1, <2>2, SumFunctionIs
  <1> HIDE DEF f
  <1>4. ASSUME NEW a \in Address PROVE Balance(a) >= 0
    <2>1. CASE a \in DOMAIN js.state
      BY <1>1, <2>1 DEF Balance, Good, Nice, NiceAccount
    <2>2. CASE a \notin DOMAIN js.state
      BY <1>1, <2>2 DEF Balance, Funded
    <2>3. QED BY <2>1, <2>2
  <1>5. /\ SumFunction(f) + p <= Supply
        /\ ~burnt => SumFunction(f) + p = Supply
    BY <1>1, <1>3 DEF Solvent
  <1>6. QED BY <1>4, <1>5 DEF NoValueCreated, f, p

\* NoValueCreated: however subroutines nest, fail and destroy accounts, and however
\* many transactions run, no value is made out of nothing: the balances and what
\* the transactions prepaid sum up to at most what Genesis held, and to exactly
\* that as long as nothing was destroyed (journaled_state.rs:206, 298, 383, 466).
THEOREM NoValue == Spec => []NoValueCreated
  BY NoValueOfSound, Soundness, PTL
=============================================================================
