------------------------------ MODULE FiniteSums ------------------------------
(***************************************************************************)
(* Least members, and sums over finite sets.  A fold of the community      *)
(* modules is a recursive function on the subsets of a set; what it        *)
(* computes is shown by a least counterexample, in the size of a subset.   *)
(* SumOf is the fold of an amount that is a function, so that facts about  *)
(* it can be cited for any amounts.                                        *)
(***************************************************************************)
EXTENDS Integers, FiniteSetsExt, Functions, FiniteSetTheorems, WellFoundedInduction, TLAPS

Pick(T) == CHOOSE x \in T : TRUE

\* f adds up w over the subsets of S, one picked member at a time.
Summing(f, w, S) ==
    f = [T \in SUBSET S |-> IF T = {} THEN 0 ELSE w[Pick(T)] + f[T \ {Pick(T)}]]

SumOf(w, S) == (CHOOSE f : Summing(f, w, S))[S]

\* A set of numbers has its least.
LEMMA LeastIn ==
    ASSUME NEW S \in SUBSET Nat, S # {}
    PROVE  \E x \in S : \A y \in S : x <= y
<1> DEFINE R == OpToRel(<, Nat)
<1>1. IsWellFoundedOn(R, Nat)
  BY NatLessThanWellFounded
<1>2. \A x, y \in Nat : x < y => <<x, y>> \in R
  BY DEF OpToRel
<1> HIDE DEF R
<1>3. PICK x \in S : \A y \in S : <<y, x>> \notin R
  BY <1>1, WFMin
<1>4. \A y \in S : x <= y
  <2> SUFFICES ASSUME NEW y \in S PROVE x <= y
    OBVIOUS
  <2>1. x \in Nat /\ y \in Nat
    OBVIOUS
  <2>2. ~(y < x)
    BY <1>2, <1>3, <2>1
  <2> QED  BY <2>1, <2>2
<1> QED  BY <1>4

\* A family of finite sets, if not empty, has a smallest member.
LEMMA SmallestIn ==
    ASSUME NEW F, F # {}, \A T \in F : IsFiniteSet(T)
    PROVE  \E T \in F : \A U \in F : Cardinality(T) <= Cardinality(U)
<1> DEFINE sizes == {Cardinality(T) : T \in F}
<1>1. sizes \in SUBSET Nat /\ sizes # {}
  BY FS_CardinalityType
<1>2. PICK n \in sizes : \A m \in sizes : n <= m
  BY <1>1, LeastIn
<1> QED  BY <1>2

\* Taking a member away makes a finite set smaller.
LEMMA SmallerWithout ==
    ASSUME NEW T, IsFiniteSet(T), NEW x \in T
    PROVE  /\ IsFiniteSet(T \ {x}) /\ Cardinality(T \ {x}) < Cardinality(T)
           /\ Cardinality(T) \in Nat /\ Cardinality(T \ {x}) \in Nat
           /\ Cardinality(T \ {x}) = Cardinality(T) - 1
<1>1. IsFiniteSet(T \ {x}) /\ Cardinality(T \ {x}) = Cardinality(T) - 1
  BY FS_RemoveElement
<1>2. Cardinality(T) \in Nat /\ Cardinality(T \ {x}) \in Nat
  BY <1>1, FS_CardinalityType
<1> QED  BY <1>1, <1>2

\* What is picked from a set is in it.
LEMMA PickIn == ASSUME NEW T, T # {} PROVE Pick(T) \in T
  BY DEF Pick

\* Every finite set can be added up.
LEMMA SummingExists ==
    ASSUME NEW w, NEW S, IsFiniteSet(S)
    PROVE  \E f : Summing(f, w, S)
<1> DEFINE Small(n) == {T \in SUBSET S : Cardinality(T) <= n}
           Adds(f, n) == f = [T \in Small(n) |-> IF T = {} THEN 0 ELSE w[Pick(T)] + f[T \ {Pick(T)}]]
           Bad == {n \in Nat : \A f : ~Adds(f, n)}
<1>1. \A T \in SUBSET S : IsFiniteSet(T) /\ Cardinality(T) \in Nat /\ Cardinality(T) <= Cardinality(S)
  BY FS_Subset, FS_CardinalityType
<1>2. Bad = {}
  <2> SUFFICES ASSUME Bad # {} PROVE FALSE
    OBVIOUS
  <2>1. PICK n \in Bad : \A m \in Bad : n <= m
    BY LeastIn
  <2>2. n \in Nat /\ \A f : ~Adds(f, n)
    OBVIOUS
  <2>3. CASE n = 0
    <3>1. \A T \in Small(n) : T = {}
      BY <1>1, <2>3, FS_EmptySet
    <3>2. Adds([T \in Small(n) |-> 0], n)
      BY <3>1
    <3> QED  BY <2>2, <3>2
  <2>4. CASE n > 0
    <3>1. n - 1 \in Nat /\ ~(n <= n - 1)
      BY <2>2, <2>4
    <3>2. PICK g : Adds(g, n - 1)
      <4>1. n - 1 \notin Bad
        <5> HIDE DEF Bad
        <5> QED  BY <2>1, <3>1
      <4> HIDE DEF Adds
      <4> QED  BY <3>1, <4>1
    <3> DEFINE h == [T \in Small(n) |-> IF T = {} THEN 0 ELSE w[Pick(T)] + g[T \ {Pick(T)}]]
    <3>3. ASSUME NEW T \in Small(n), T # {}
          PROVE  T \ {Pick(T)} \in Small(n - 1) /\ T \ {Pick(T)} \in Small(n)
      <4>1. T \in SUBSET S /\ IsFiniteSet(T) /\ Pick(T) \in T /\ Cardinality(T) <= n
        BY <1>1, <3>3, PickIn
      <4>2. T \ {Pick(T)} \in SUBSET S
            /\ Cardinality(T \ {Pick(T)}) \in Nat /\ Cardinality(T) \in Nat
            /\ Cardinality(T \ {Pick(T)}) < Cardinality(T)
        BY <4>1, SmallerWithout
      <4> QED  BY <2>2, <4>1, <4>2
    <3>4. \A T \in Small(n - 1) : T \in Small(n)
      BY <1>1, <2>2
    <3>5. ASSUME NEW T \in Small(n - 1) PROVE g[T] = h[T]
      <4>1. g[T] = IF T = {} THEN 0 ELSE w[Pick(T)] + g[T \ {Pick(T)}]
        BY <3>2
      <4> QED  BY <3>4, <4>1
    <3>6. \A T \in Small(n) : T # {} => g[T \ {Pick(T)}] = h[T \ {Pick(T)}]
      BY <3>3, <3>5
    <3>7. h = [T \in Small(n) |-> IF T = {} THEN 0 ELSE w[Pick(T)] + h[T \ {Pick(T)}]]
      <4> DEFINE k == [T \in Small(n) |-> IF T = {} THEN 0 ELSE w[Pick(T)] + h[T \ {Pick(T)}]]
      <4>1. \A T \in Small(n) : h[T] = k[T]
        BY <3>6
      <4>2. h = k
        <5> HIDE DEF Small
        <5> QED  BY <4>1
      <4> QED  BY <4>2
    <3>8. Adds(h, n)
      <4> HIDE DEF h
      <4> QED  BY <3>7
    <3> QED  BY <2>2, <3>8
  <2> QED  BY <2>2, <2>3, <2>4
<1>3. Small(Cardinality(S)) = SUBSET S /\ Cardinality(S) \in Nat
  BY <1>1, FS_CardinalityType
<1>4. PICK f : Adds(f, Cardinality(S))
  <2> HIDE DEF Adds
  <2> QED  BY <1>2, <1>3
<1> QED  BY <1>3, <1>4 DEF Summing

\* What adding up is, one subset at a time.
LEMMA SummingStep ==
    ASSUME NEW f, NEW w, NEW S, Summing(f, w, S)
    PROVE  /\ f[{}] = 0
           /\ \A T \in SUBSET S : T # {} => f[T] = w[Pick(T)] + f[T \ {Pick(T)}]
  BY DEF Summing

\* Sums of integers are integers.
LEMMA SummingInt ==
    ASSUME NEW f, NEW w, NEW S, IsFiniteSet(S), Summing(f, w, S), \A i \in S : w[i] \in Int
    PROVE  \A T \in SUBSET S : f[T] \in Int
<1> DEFINE Bad == {T \in SUBSET S : f[T] \notin Int}
<1> SUFFICES ASSUME Bad # {} PROVE FALSE
  OBVIOUS
<1>1. \A T \in Bad : IsFiniteSet(T)
  BY FS_Subset
<1>2. PICK T \in Bad : \A U \in Bad : Cardinality(T) <= Cardinality(U)
  BY <1>1, SmallestIn
<1>3. T # {} /\ f[T] = w[Pick(T)] + f[T \ {Pick(T)}]
  <2>1. f[{}] = 0 /\ T \in SUBSET S /\ f[T] \notin Int
    BY SummingStep
  <2>2. T # {}
    BY <2>1
  <2> QED  BY <2>1, <2>2, SummingStep
<1>4. Pick(T) \in T /\ IsFiniteSet(T)
  BY <1>1, <1>3, PickIn
<1>5. T \ {Pick(T)} \notin Bad
  BY <1>2, <1>4, SmallerWithout
<1> QED  BY <1>3, <1>4, <1>5

\* It does not matter which member is added last.
LEMMA SummingSplit ==
    ASSUME NEW f, NEW w, NEW S, IsFiniteSet(S), Summing(f, w, S), \A i \in S : w[i] \in Int
    PROVE  \A T \in SUBSET S : \A k \in T : f[T] = w[k] + f[T \ {k}]
<1> DEFINE Bad == {T \in SUBSET S : \E k \in T : f[T] # w[k] + f[T \ {k}]}
<1> SUFFICES ASSUME Bad # {} PROVE FALSE
  OBVIOUS
<1>1. \A T \in Bad : IsFiniteSet(T)
  BY FS_Subset
<1>2. PICK T \in Bad : \A U \in Bad : Cardinality(T) <= Cardinality(U)
  BY <1>1, SmallestIn
<1>3. PICK k \in T : f[T] # w[k] + f[T \ {k}]
  OBVIOUS
<1> DEFINE c == Pick(T)
<1>4. c \in T /\ f[T] = w[c] + f[T \ {c}]
  BY SummingStep, PickIn
<1> HIDE DEF c
<1>5. c # k
  BY <1>3, <1>4
<1>6. T \ {c} \notin Bad /\ T \ {k} \notin Bad
  <2> HIDE DEF Bad
  <2> QED  BY <1>1, <1>2, <1>4, SmallerWithout
<1>7. f[T \ {c}] = w[k] + f[(T \ {c}) \ {k}] /\ f[T \ {k}] = w[c] + f[(T \ {k}) \ {c}]
  BY <1>4, <1>5, <1>6
<1>8. (T \ {c}) \ {k} = (T \ {k}) \ {c}
  OBVIOUS
<1> DEFINE x == f[(T \ {k}) \ {c}]
<1>9. w[c] \in Int /\ w[k] \in Int /\ x \in Int
  BY <1>4, SummingInt
<1>10. f[T] = w[c] + (w[k] + x) /\ f[T \ {k}] = w[c] + x
  BY <1>4, <1>7, <1>8
<1> HIDE DEF x
<1> QED  BY <1>3, <1>9, <1>10

\* Amounts that agree add up to the same.
LEMMA SummingAgree ==
    ASSUME NEW f, NEW w, NEW S, IsFiniteSet(S), Summing(f, w, S),
           NEW g, NEW v, NEW R, Summing(g, v, R)
    PROVE  \A T \in SUBSET (S \cap R) : (\A i \in T : w[i] = v[i]) => f[T] = g[T]
<1> DEFINE Bad == {T \in SUBSET (S \cap R) : (\A i \in T : w[i] = v[i]) /\ f[T] # g[T]}
<1> SUFFICES ASSUME Bad # {} PROVE FALSE
  OBVIOUS
<1>1. \A T \in Bad : IsFiniteSet(T)
  BY FS_Subset
<1>2. PICK T \in Bad : \A U \in Bad : Cardinality(T) <= Cardinality(U)
  BY <1>1, SmallestIn
<1>3. f[{}] = 0 /\ g[{}] = 0
  BY SummingStep
<1>4. T # {} /\ T \in SUBSET S /\ T \in SUBSET R
  BY <1>3
<1>5. f[T] = w[Pick(T)] + f[T \ {Pick(T)}] /\ g[T] = v[Pick(T)] + g[T \ {Pick(T)}]
  BY <1>4, SummingStep
<1>6. Pick(T) \in T
  BY <1>4, PickIn
<1>7. T \ {Pick(T)} \notin Bad
  BY <1>1, <1>2, <1>6, SmallerWithout
<1> QED  BY <1>5, <1>6, <1>7

\* The sum of a finite set of integers is one.
LEMMA SumInt ==
    ASSUME NEW w, NEW S, IsFiniteSet(S), \A i \in S : w[i] \in Int
    PROVE  SumOf(w, S) \in Int
<1> DEFINE f == CHOOSE f : Summing(f, w, S)
<1>1. Summing(f, w, S)
  BY SummingExists
<1> HIDE DEF f
<1>2. f[S] \in Int
  BY <1>1, SummingInt
<1> QED  BY <1>2 DEF SumOf, f

\* Nothing adds up to nothing.
LEMMA SumNone == ASSUME NEW w PROVE SumOf(w, {}) = 0
<1> DEFINE f == CHOOSE f : Summing(f, w, {})
<1>1. Summing(f, w, {})
  BY SummingExists, FS_EmptySet
<1> HIDE DEF f
<1>2. f[{}] = 0
  BY <1>1, SummingStep
<1> QED  BY <1>2 DEF SumOf, f

\* Another member adds its amount.
LEMMA SumAdd ==
    ASSUME NEW w, NEW v, NEW S, IsFiniteSet(S), NEW k, k \notin S,
           \A i \in S : v[i] = w[i], \A i \in S \cup {k} : w[i] \in Int
    PROVE  SumOf(w, S \cup {k}) = w[k] + SumOf(v, S)
<1> DEFINE T == S \cup {k}
           f == CHOOSE f : Summing(f, w, T)
           g == CHOOSE g : Summing(g, v, S)
<1>1. IsFiniteSet(T)
  BY FS_AddElement
<1>2. Summing(f, w, T)
  BY <1>1, SummingExists
<1>3. Summing(g, v, S)
  BY SummingExists
<1>4. f[T] = SumOf(w, T) /\ g[S] = SumOf(v, S)
  BY DEF SumOf
<1> HIDE DEF f, g
<1>5. f[T] = w[k] + f[T \ {k}]
  BY <1>1, <1>2, SummingSplit
<1>6. T \ {k} = S
  OBVIOUS
<1>7. g[S] = f[S]
  <2>1. S \in SUBSET (S \cap T)
    OBVIOUS
  <2> HIDE DEF T
  <2> QED  BY <1>2, <1>3, <2>1, SummingAgree
<1> QED  BY <1>4, <1>5, <1>6, <1>7

\* The sum of one amount more.
LEMMA SumNext ==
    ASSUME NEW w, NEW v, NEW n \in Nat, \A i \in 1..n : v[i] = w[i],
           \A i \in 1..(n + 1) : w[i] \in Int
    PROVE  SumOf(w, 1..(n + 1)) = w[n + 1] + SumOf(v, 1..n)
<1>1. 1..(n + 1) = (1..n) \cup {n + 1} /\ n + 1 \notin 1..n
  OBVIOUS
<1>2. IsFiniteSet(1..n)
  BY FS_Interval
<1>3. \A i \in (1..n) \cup {n + 1} : w[i] \in Int
  BY <1>1
<1>4. ASSUME NEW k, k = n + 1, NEW S, S = 1..n PROVE SumOf(w, S \cup {k}) = w[k] + SumOf(v, S)
  <2>1. IsFiniteSet(S) /\ k \notin S
    BY <1>1, <1>2, <1>4
  <2>2. \A i \in S : v[i] = w[i]
    BY <1>4
  <2>3. \A i \in S \cup {k} : w[i] \in Int
    BY <1>3, <1>4
  <2> QED  BY <2>1, <2>2, <2>3, SumAdd
<1> QED  BY <1>1, <1>4

\* Sums stay in a set of numbers that is closed under addition.
LEMMA SummingIn ==
    ASSUME NEW f, NEW w, NEW S, IsFiniteSet(S), Summing(f, w, S),
           NEW R, 0 \in R, \A a, b \in R : a + b \in R, \A i \in S : w[i] \in R
    PROVE  \A T \in SUBSET S : f[T] \in R
<1> DEFINE Bad == {T \in SUBSET S : f[T] \notin R}
<1> SUFFICES ASSUME Bad # {} PROVE FALSE
  OBVIOUS
<1>1. \A T \in Bad : IsFiniteSet(T)
  BY FS_Subset
<1>2. PICK T \in Bad : \A U \in Bad : Cardinality(T) <= Cardinality(U)
  BY <1>1, SmallestIn
<1>3. T # {} /\ f[T] = w[Pick(T)] + f[T \ {Pick(T)}]
  <2>1. f[{}] = 0 /\ T \in SUBSET S /\ f[T] \notin R
    BY SummingStep
  <2>2. T # {}
    BY <2>1
  <2> QED  BY <2>1, <2>2, SummingStep
<1>4. Pick(T) \in T /\ IsFiniteSet(T)
  BY <1>1, <1>3, PickIn
<1>5. T \ {Pick(T)} \notin Bad
  <2>1. /\ Cardinality(T \ {Pick(T)}) < Cardinality(T)
        /\ Cardinality(T) \in Nat /\ Cardinality(T \ {Pick(T)}) \in Nat
    BY <1>4, SmallerWithout
  <2>2. ~(Cardinality(T) <= Cardinality(T \ {Pick(T)}))
    BY <2>1
  <2> HIDE DEF Bad
  <2> QED  BY <1>2, <2>2
<1>6. w[Pick(T)] \in R /\ f[T \ {Pick(T)}] \in R /\ f[T] \notin R
  BY <1>4, <1>5
<1> QED  BY <1>3, <1>6

\* The sum of natural numbers is one.
LEMMA SumNat ==
    ASSUME NEW w, NEW S, IsFiniteSet(S), \A i \in S : w[i] \in Nat
    PROVE  SumOf(w, S) \in Nat
<1> DEFINE f == CHOOSE f : Summing(f, w, S)
<1>1. Summing(f, w, S)
  BY SummingExists
<1> HIDE DEF f
<1>2. 0 \in Nat /\ \A a, b \in Nat : a + b \in Nat
  OBVIOUS
<1>3. f[S] \in Nat
  BY <1>1, <1>2, SummingIn, ZenonT(30)
<1> QED  BY <1>3 DEF SumOf, f

\* The community's sum of a function is this sum.
LEMMA SumIs ==
    ASSUME NEW w, NEW S
    PROVE  SumFunctionOnSet(w, S) = SumOf(w, S)
BY DEF SumFunctionOnSet, FoldFunctionOnSet, MapThenFoldSet, SumOf, Summing, Pick

\* Equal amounts have equal sums.
LEMMA SumAgree ==
    ASSUME NEW w, NEW v, NEW S, IsFiniteSet(S), \A i \in S : w[i] = v[i]
    PROVE  SumOf(w, S) = SumOf(v, S)
<1> DEFINE f == CHOOSE f : Summing(f, w, S)
           g == CHOOSE g : Summing(g, v, S)
<1>1. Summing(f, w, S)
  BY SummingExists
<1>2. Summing(g, v, S)
  BY SummingExists
<1>3. f[S] = SumOf(w, S) /\ g[S] = SumOf(v, S)
  BY DEF SumOf
<1> HIDE DEF f, g
<1>4. S \in SUBSET (S \cap S)
  OBVIOUS
<1>5. f[S] = g[S]
  BY <1>1, <1>2, <1>4, SummingAgree
<1> QED  BY <1>3, <1>5

\* A sum over two sets apart is the sum of their sums.
LEMMA SumSplit ==
    ASSUME NEW w, NEW A, NEW B, IsFiniteSet(A), IsFiniteSet(B), A \cap B = {},
           \A i \in A \cup B : w[i] \in Int
    PROVE  SumOf(w, A \cup B) = SumOf(w, A) + SumOf(w, B)
<1> DEFINE Bad == {T \in SUBSET B : SumOf(w, A \cup T) # SumOf(w, A) + SumOf(w, T)}
<1> SUFFICES ASSUME Bad # {} PROVE FALSE
  OBVIOUS
<1>1. \A T \in Bad : IsFiniteSet(T)
  BY FS_Subset
<1>2. PICK T \in Bad : \A U \in Bad : Cardinality(T) <= Cardinality(U)
  BY <1>1, SmallestIn
<1>3. T \in SUBSET B /\ IsFiniteSet(T) /\ SumOf(w, A \cup T) # SumOf(w, A) + SumOf(w, T)
  BY <1>1
<1>4. SumOf(w, A) \in Int
  <2>1. \A i \in A : w[i] \in Int
    OBVIOUS
  <2> QED  BY <2>1, SumInt
<1>5. CASE T = {}
  <2>1. SumOf(w, A \cup T) = SumOf(w, A) /\ SumOf(w, T) = 0
    <3>1. A \cup T = A
      BY <1>5
    <3> QED  BY <1>5, <3>1, SumNone
  <2>2. SumOf(w, A) + 0 = SumOf(w, A)
    BY <1>4
  <2> QED  BY <1>3, <2>1, <2>2
<1>6. CASE T # {}
  <2> DEFINE x == Pick(T)
             U == T \ {x}
             V == A \cup U
  <2>1. x \in T /\ x \notin A /\ w[x] \in Int
    BY <1>3, <1>6, PickIn
  <2> HIDE DEF x
  <2>2. IsFiniteSet(U) /\ U \in SUBSET B /\ IsFiniteSet(V)
    BY <1>3, <2>1, SmallerWithout, FS_Union
  <2>3. U \notin Bad
    <3>1. /\ Cardinality(U) < Cardinality(T) /\ Cardinality(U) \in Nat /\ Cardinality(T) \in Nat
      BY <1>3, <2>1, SmallerWithout
    <3> HIDE DEF Bad
    <3> QED  BY <1>2, <3>1
  <2>4. SumOf(w, V) = SumOf(w, A) + SumOf(w, U)
    BY <2>2, <2>3
  <2>5. x \notin V /\ x \notin U /\ (\A i \in V \cup {x} : w[i] \in Int) /\ \A i \in U \cup {x} : w[i] \in Int
    BY <1>3, <2>1
  <2>6. V \cup {x} = A \cup T /\ U \cup {x} = T
    BY <2>1
  <2>7. SumOf(w, U) \in Int
    <3>1. \A i \in U : w[i] \in Int
      BY <2>5
    <3> QED  BY <2>2, <3>1, SumInt
  <2> HIDE DEF U, V
  <2>8. SumOf(w, V \cup {x}) = w[x] + SumOf(w, V)
    BY <2>2, <2>5, SumAdd
  <2>9. SumOf(w, U \cup {x}) = w[x] + SumOf(w, U)
    BY <2>2, <2>5, SumAdd
  <2>10. \A a, b, c \in Int : c + (a + b) = a + (c + b)
    OBVIOUS
  <2>11. w[x] + (SumOf(w, A) + SumOf(w, U)) = SumOf(w, A) + (w[x] + SumOf(w, U))
    BY <1>4, <2>1, <2>7, <2>10
  <2>12. SumOf(w, A \cup T) = w[x] + (SumOf(w, A) + SumOf(w, U))
    BY <2>4, <2>6, <2>8
  <2>13. SumOf(w, T) = w[x] + SumOf(w, U)
    BY <2>6, <2>9
  <2> QED  BY <1>3, <2>11, <2>12, <2>13
<1> QED  BY <1>5, <1>6

\* Amounts that are no smaller add up to no less.
LEMMA SumGrows ==
    ASSUME NEW w, NEW v, NEW S, IsFiniteSet(S), \A i \in S : w[i] \in Int /\ v[i] \in Int /\ w[i] <= v[i]
    PROVE  SumOf(w, S) <= SumOf(v, S)
<1> DEFINE Bad == {T \in SUBSET S : ~(SumOf(w, T) <= SumOf(v, T))}
<1> SUFFICES ASSUME Bad # {} PROVE FALSE
  OBVIOUS
<1>1. \A T \in Bad : IsFiniteSet(T)
  BY FS_Subset
<1>2. PICK T \in Bad : \A U \in Bad : Cardinality(T) <= Cardinality(U)
  BY <1>1, SmallestIn
<1>3. T \in SUBSET S /\ IsFiniteSet(T) /\ ~(SumOf(w, T) <= SumOf(v, T))
  BY <1>1
<1>4. T # {}
  BY <1>3, SumNone
<1> DEFINE x == Pick(T)
           U == T \ {x}
<1>5. x \in T /\ w[x] \in Int /\ v[x] \in Int /\ w[x] <= v[x]
  BY <1>3, <1>4, PickIn
<1> HIDE DEF x
<1>6. IsFiniteSet(U) /\ U \in SUBSET S /\ x \notin U /\ U \cup {x} = T
  BY <1>3, <1>5, SmallerWithout
<1>7. SumOf(w, U) <= SumOf(v, U)
  <2>1. Cardinality(U) < Cardinality(T) /\ Cardinality(U) \in Nat /\ Cardinality(T) \in Nat
    BY <1>3, <1>5, SmallerWithout
  <2>2. U \notin Bad
    <3> HIDE DEF Bad
    <3> QED  BY <1>2, <2>1
  <2> QED  BY <1>6, <2>2
<1> HIDE DEF U
<1>8. SumOf(w, U) \in Int /\ SumOf(v, U) \in Int
  <2>1. (\A i \in U : w[i] \in Int) /\ (\A i \in U : v[i] \in Int)
    BY <1>6
  <2> QED  BY <1>6, <2>1, SumInt
<1>9. \A i \in U \cup {x} : w[i] \in Int /\ v[i] \in Int
  BY <1>5, <1>6
<1>10. SumOf(w, U \cup {x}) = w[x] + SumOf(w, U)
  BY <1>6, <1>9, SumAdd
<1>11. SumOf(v, U \cup {x}) = v[x] + SumOf(v, U)
  BY <1>6, <1>9, SumAdd
<1>12. w[x] + SumOf(w, U) <= v[x] + SumOf(v, U)
  BY <1>5, <1>7, <1>8
<1> QED  BY <1>3, <1>6, <1>10, <1>11, <1>12

\* The same amount for each adds up to as many times the amount.
LEMMA SumOfSame ==
    ASSUME NEW w, NEW S, IsFiniteSet(S), NEW b \in Int, \A i \in S : w[i] = b
    PROVE  SumOf(w, S) = b * Cardinality(S)
<1> DEFINE Bad == {T \in SUBSET S : SumOf(w, T) # b * Cardinality(T)}
<1> SUFFICES ASSUME Bad # {} PROVE FALSE
  OBVIOUS
<1>1. \A T \in Bad : IsFiniteSet(T)
  BY FS_Subset
<1>2. PICK T \in Bad : \A U \in Bad : Cardinality(T) <= Cardinality(U)
  BY <1>1, SmallestIn
<1>3. T \in SUBSET S /\ IsFiniteSet(T) /\ SumOf(w, T) # b * Cardinality(T)
  BY <1>1
<1>4. T # {}
  BY <1>3, SumNone, FS_EmptySet
<1> DEFINE x == Pick(T)
           U == T \ {x}
<1>5. x \in T /\ w[x] = b
  BY <1>3, <1>4, PickIn
<1> HIDE DEF x
<1>6. IsFiniteSet(U) /\ U \in SUBSET S /\ x \notin U /\ U \cup {x} = T
  BY <1>3, <1>5, SmallerWithout
<1>7. /\ Cardinality(U) < Cardinality(T) /\ Cardinality(U) \in Nat /\ Cardinality(T) \in Nat
      /\ Cardinality(U) = Cardinality(T) - 1
  BY <1>3, <1>5, SmallerWithout
<1>8. SumOf(w, U) = b * Cardinality(U)
  <2>1. U \notin Bad
    <3> HIDE DEF Bad
    <3> QED  BY <1>2, <1>7
  <2> QED  BY <1>6, <2>1
<1> HIDE DEF U
<1>9. \A i \in U \cup {x} : w[i] \in Int
  BY <1>5, <1>6
<1>10. SumOf(w, U \cup {x}) = w[x] + SumOf(w, U)
  BY <1>6, <1>9, SumAdd
<1>11. \A m \in Nat, n \in Nat : m = n - 1 => b + b * m = b * n
  OBVIOUS
<1> QED  BY <1>3, <1>5, <1>6, <1>7, <1>8, <1>10, <1>11, ZenonT(30)

\* The members of a set, counted by what label they have, are its members.
LEMMA SumOfCounts ==
    ASSUME NEW S, IsFiniteSet(S), NEW L, IsFiniteSet(L), NEW label, \A i \in S : label[i] \in L,
           NEW count, \A x \in L : count[x] = Cardinality({i \in S : label[i] = x})
    PROVE  SumOf(count, L) = Cardinality(S)
<1> DEFINE Of(T) == {i \in S : label[i] \in T}
           Bad == {T \in SUBSET L : SumOf(count, T) # Cardinality(Of(T))}
<1>1. Of(L) = S
  OBVIOUS
<1> SUFFICES ASSUME Bad # {} PROVE FALSE
  BY <1>1
<1>2. \A T \in Bad : IsFiniteSet(T)
  BY FS_Subset
<1>3. PICK T \in Bad : \A U \in Bad : Cardinality(T) <= Cardinality(U)
  BY <1>2, SmallestIn
<1>4. T \in SUBSET L /\ IsFiniteSet(T) /\ SumOf(count, T) # Cardinality(Of(T))
  BY <1>2
<1>5. CASE T = {}
  <2>1. Of(T) = {} /\ SumOf(count, T) = 0
    BY <1>5, SumNone
  <2> QED  BY <1>4, <2>1, FS_EmptySet
<1>6. CASE T # {}
  <2> DEFINE x == Pick(T)
             U == T \ {x}
             A == Of(U)
             B == {i \in S : label[i] = x}
  <2>1. x \in T
    BY <1>6, PickIn
  <2> HIDE DEF x
  <2>2. IsFiniteSet(U) /\ U \in SUBSET L /\ U \notin Bad
    <3>1. /\ IsFiniteSet(U) /\ Cardinality(U) < Cardinality(T)
          /\ Cardinality(U) \in Nat /\ Cardinality(T) \in Nat
      BY <1>4, <2>1, SmallerWithout
    <3> HIDE DEF Bad
    <3> QED  BY <1>3, <1>4, <3>1
  <2>3. SumOf(count, U) = Cardinality(A)
    BY <2>2
  <2>4. Of(T) = A \cup B /\ A \cap B = {} /\ A \subseteq S /\ B \subseteq S
    BY <2>1
  <2>5. IsFiniteSet(A) /\ IsFiniteSet(B)
    BY <2>4, FS_Subset
  <2>6. \A i \in L : count[i] \in Int
    <3> SUFFICES ASSUME NEW y \in L PROVE count[y] \in Int
      OBVIOUS
    <3> DEFINE C == {i \in S : label[i] = y}
    <3>1. C \in SUBSET S
      OBVIOUS
    <3> HIDE DEF C
    <3>2. IsFiniteSet(C)
      BY <3>1, FS_Subset
    <3>3. Cardinality(C) \in Nat
      BY <3>2, FS_CardinalityType
    <3> QED  BY <3>3 DEF C
  <2>7. Cardinality(Of(T)) = Cardinality(A) + Cardinality(B)
    <3> HIDE DEF A, B, Of
    <3>1. Cardinality(A \cup B) = Cardinality(A) + Cardinality(B) - Cardinality(A \cap B)
      BY <2>5, FS_Union
    <3>2. Cardinality(A \cap B) = 0
      BY <2>4, FS_EmptySet
    <3>3. Cardinality(A) \in Nat /\ Cardinality(B) \in Nat
      BY <2>5, FS_CardinalityType
    <3> QED  BY <2>4, <3>1, <3>2, <3>3
  <2>8. SumOf(count, T) = count[x] + SumOf(count, U)
    <3>1. x \notin U /\ U \cup {x} = T /\ \A i \in U \cup {x} : count[i] \in Int
      BY <1>4, <2>1, <2>6
    <3> HIDE DEF U
    <3>2. SumOf(count, U \cup {x}) = count[x] + SumOf(count, U)
      BY <2>2, <3>1, SumAdd
    <3> QED  BY <3>1, <3>2
  <2>9. count[x] = Cardinality(B) /\ Cardinality(A) \in Nat /\ Cardinality(B) \in Nat
    BY <1>4, <2>1, <2>5, FS_CardinalityType
  <2> HIDE DEF A, B, Of
  <2> QED  BY <1>4, <2>3, <2>7, <2>8, <2>9
<1> QED  BY <1>5, <1>6

\* The maximum of a set is the member that no member exceeds.
LEMMA MaxIs ==
    ASSUME NEW S, S \subseteq Int, NEW m \in S, \A y \in S : m >= y
    PROVE  Max(S) = m
<1> DEFINE Greatest(k) == \A y \in S : k >= y
<1>1. \A k \in S : Greatest(k) => k = m
  <2> SUFFICES ASSUME NEW k \in S, Greatest(k) PROVE k = m
    OBVIOUS
  <2>1. k >= m /\ m >= k /\ k \in Int /\ m \in Int
    OBVIOUS
  <2> QED  BY <2>1
<1>2. Greatest(m) /\ Max(S) = CHOOSE k \in S : Greatest(k)
  BY DEF Max
<1> HIDE DEF Greatest
<1> QED  BY <1>1, <1>2

\* The minimum likewise.
LEMMA MinIs ==
    ASSUME NEW S, S \subseteq Int, NEW m \in S, \A y \in S : m <= y
    PROVE  Min(S) = m
<1> DEFINE Least(k) == \A y \in S : k <= y
<1>1. \A k \in S : Least(k) => k = m
  <2> SUFFICES ASSUME NEW k \in S, Least(k) PROVE k = m
    OBVIOUS
  <2>1. k >= m /\ m >= k /\ k \in Int /\ m \in Int
    OBVIOUS
  <2> QED  BY <2>1
<1>2. Least(m) /\ Min(S) = CHOOSE k \in S : Least(k)
  BY DEF Min
<1> HIDE DEF Least
<1> QED  BY <1>1, <1>2

\* A finite set of integers, if not empty, has its greatest.
LEMMA MaxOf ==
    ASSUME NEW S, IsFiniteSet(S), S \subseteq Int, S # {}
    PROVE  Max(S) \in S /\ \A y \in S : Max(S) >= y
<1> DEFINE Bad == {T \in SUBSET S : T # {} /\ ~ \E m \in T : \A y \in T : m >= y}
<1>1. Bad = {}
  <2> SUFFICES ASSUME Bad # {} PROVE FALSE
    OBVIOUS
  <2>1. \A T \in Bad : IsFiniteSet(T)
    BY FS_Subset
  <2>2. PICK T \in Bad : \A U \in Bad : Cardinality(T) <= Cardinality(U)
    BY <2>1, SmallestIn
  <2>3. T \in SUBSET S /\ T # {} /\ ~ \E m \in T : \A y \in T : m >= y
    OBVIOUS
  <2>4. PICK x \in T : TRUE
    BY <2>3
  <2> DEFINE U == T \ {x}
  <2>5. U \notin Bad
    <3>1. /\ Cardinality(U) < Cardinality(T) /\ Cardinality(U) \in Nat /\ Cardinality(T) \in Nat
      BY <2>1, SmallerWithout
    <3> HIDE DEF Bad
    <3> QED  BY <2>2, <3>1
  <2>6. U \in SUBSET S /\ U # {}
    <3>1. U = {} => \A y \in T : x >= y
      BY <2>3
    <3> QED  BY <2>3, <3>1
  <2>7. PICK m \in U : \A y \in U : m >= y
    BY <2>5, <2>6
  <2>8. \A y \in T : y = x \/ m >= y
    BY <2>7
  <2>9. m \in T /\ m \in Int /\ x \in Int /\ \A y \in T : y \in Int
    BY <2>3
  <2>10. CASE m >= x
    BY <2>3, <2>8, <2>9, <2>10
  <2>11. CASE x > m
    <3>1. \A y \in T : x >= y
      BY <2>8, <2>9, <2>11
    <3> QED  BY <2>3, <3>1
  <2> QED  BY <2>9, <2>10, <2>11
<1>2. PICK m \in S : \A y \in S : m >= y
  BY <1>1
<1>3. Max(S) = m
  BY <1>2, MaxIs
<1> QED  BY <1>2, <1>3

\* What a function takes on a finite set is finite.
LEMMA ImageFinite ==
    ASSUME NEW S, IsFiniteSet(S), NEW f
    PROVE  IsFiniteSet({f[x] : x \in S})
<1> DEFINE T == {f[x] : x \in S}
           g == [x \in S |-> f[x]]
<1>1. g \in [S -> T] /\ \A y \in T : \E x \in S : g[x] = y
  OBVIOUS
<1> HIDE DEF g, T
<1>2. g \in Surjection(S, T)
  BY <1>1 DEF Surjection
<1>3. IsFiniteSet(T)
  BY <1>2, FS_Surjection
<1> QED  BY <1>3 DEF T

\* Two sets of numbers, each no higher than the other, have the same maximum.
LEMMA MaxSame ==
    ASSUME NEW S, IsFiniteSet(S), S \subseteq Int, S # {},
           NEW T, IsFiniteSet(T), T \subseteq Int, T # {},
           \A x \in S : \E y \in T : y >= x,
           \A y \in T : \E x \in S : x >= y
    PROVE  Max(S) = Max(T)
<1>1. Max(S) \in S /\ \A y \in S : Max(S) >= y
  BY MaxOf
<1>2. Max(T) \in T /\ \A y \in T : Max(T) >= y
  BY MaxOf
<1> DEFINE m == Max(S)
           n == Max(T)
<1> HIDE DEF m, n
<1>3. m \in Int /\ n \in Int
  BY <1>1, <1>2 DEF m, n
<1>4. n >= m
  <2>1. PICK y \in T : y >= m
    BY <1>1 DEF m
  <2>2. y \in Int /\ n >= y
    BY <1>2 DEF n
  <2> QED  BY <1>3, <2>1, <2>2
<1>5. m >= n
  <2>1. PICK x \in S : x >= n
    BY <1>2 DEF n
  <2>2. x \in Int /\ m >= x
    BY <1>1 DEF m
  <2> QED  BY <1>3, <2>1, <2>2
<1>6. m = n
  BY <1>3, <1>4, <1>5
<1> QED  BY <1>6 DEF m, n
=============================================================================
