--------------------------- MODULE Reports_proofs ---------------------------
(***************************************************************************)
(* What the reports compute, for any rows: sums over finite sets, finite   *)
(* sets in order, and the numbers of Reports that must agree.  Induction   *)
(* is over sets of numbers and of subsets, by the well-founded orders of   *)
(* the library.                                                            *)
(***************************************************************************)
EXTENDS Reports, FiniteSetTheorems, TLAPS

\* Induction on numbers, with the set of those it holds for.
LEMMA Induction ==
    ASSUME NEW T, 0 \in T, \A n \in Nat : n \in T => n + 1 \in T
    PROVE  Nat \subseteq T
<1> DEFINE C == Nat \ T
<1> SUFFICES ASSUME C # {} PROVE FALSE
  OBVIOUS
<1>1. PICK x \in C : \A y \in C : ~(<<y, x>> \in OpToRel(<, Nat))
  <2> HIDE DEF C
  <2> DEFINE R == OpToRel(<, Nat)
  <2>1. IsWellFoundedOn(R, Nat)
    BY NatLessThanWellFounded
  <2>2. C \subseteq Nat
    BY DEF C
  <2> HIDE DEF R
  <2>3. \E x \in C : \A y \in C : ~(<<y, x>> \in R)
    BY <2>1, <2>2, WFMin
  <2> QED
    BY <2>3 DEF R
<1>2. \A y \in C : ~(y < x)
  BY <1>1 DEF OpToRel
<1>3. x \in Nat /\ x # 0
  OBVIOUS
<1>4. x - 1 \in Nat /\ x - 1 < x /\ (x - 1) + 1 = x
  BY <1>3
<1>5. x - 1 \in T
  BY <1>2, <1>4
<1> QED
  BY <1>4, <1>5

\* Induction on the subsets of a finite set, one element at a time.
LEMMA FiniteInduction ==
    ASSUME NEW S, IsFiniteSet(S), NEW T, {} \in T,
           \A s \in SUBSET S : \A x \in S \ s : s \in T => s \cup {x} \in T
    PROVE  S \in T
<1> DEFINE C == {n \in Nat : \A s \in SUBSET S : Cardinality(s) = n => s \in T}
<1>1. \A s \in SUBSET S : IsFiniteSet(s) /\ Cardinality(s) \in Nat
  BY FS_Subset, FS_CardinalityType
<1>2. 0 \in C
  BY <1>1, FS_EmptySet
<1>3. ASSUME NEW n \in Nat, n \in C
      PROVE  n + 1 \in C
  <2> SUFFICES ASSUME NEW s \in SUBSET S, Cardinality(s) = n + 1
               PROVE  s \in T
    OBVIOUS
  <2>0. s # {}
    <3>1. Cardinality({}) = 0
      BY FS_EmptySet
    <3> QED
      BY <3>1
  <2>1. PICK x : x \in s
    BY <2>0
  <2>2. s \ {x} \in SUBSET S /\ Cardinality(s \ {x}) = n
    <3>1. IsFiniteSet(s)
      BY <1>1
    <3>2. Cardinality(s \ {x}) = Cardinality(s) - 1
      BY <2>1, <3>1, FS_RemoveElement
    <3> QED
      BY <3>2
  <2>3. s \ {x} \in T
    BY <1>3, <2>2
  <2>4. s = (s \ {x}) \cup {x} /\ x \in S \ (s \ {x})
    BY <2>1
  <2> HIDE DEF C
  <2>5. (s \ {x}) \cup {x} \in T
    BY <2>2, <2>3, <2>4
  <2> QED
    BY <2>4, <2>5
<1>4. Cardinality(S) \in C
  <2> HIDE DEF C
  <2> QED
    BY <1>1, <1>2, <1>3, Induction
<1> QED
  BY <1>4

----------------------------------------------------------------------------
(* Sums. *)

\* The fold takes Some(s) first.  A function on the subsets of S is the sum of
\* f over them if it satisfies the recursion of the fold.
Some(s) == CHOOSE x \in s : TRUE
IsSum(h, f, S) ==
    h = [s \in SUBSET S |-> IF s = {} THEN 0 ELSE f[Some(s)] + h[s \ {Some(s)}]]

\* The sum is the fold's value at the whole set.
LEMMA SumIs ==
    ASSUME NEW f, NEW S
    PROVE  SumFunctionOnSet(f, S) = (CHOOSE h : IsSum(h, f, S))[S]
  BY DEF SumFunctionOnSet, FoldFunctionOnSet, MapThenFoldSet, IsSum, Some

\* The fold takes an element of the set.
LEMMA SomeIn == ASSUME NEW s, s # {} PROVE Some(s) \in s
  BY DEF Some

\* The recursion of the fold has a solution.
LEMMA SumExists ==
    ASSUME NEW f, NEW S, IsFiniteSet(S), \A x \in S : f[x] \in Nat
    PROVE  \E h : IsSum(h, f, S) /\ h \in [SUBSET S -> Nat]
<1> DEFINE Small(n) == {s \in SUBSET S : Cardinality(s) <= n}
           Step(h, s) == IF s = {} THEN 0 ELSE f[Some(s)] + h[s \ {Some(s)}]
           T == {n \in Nat : \E h \in [Small(n) -> Nat] : \A s \in Small(n) : h[s] = Step(h, s)}
<1>1. \A s \in SUBSET S : IsFiniteSet(s) /\ Cardinality(s) \in Nat /\ Cardinality(s) <= Cardinality(S)
  BY FS_Subset, FS_CardinalityType
<1>2. \A s \in SUBSET S : s # {} =>
        /\ Some(s) \in s /\ s \ {Some(s)} \in SUBSET S
        /\ Cardinality(s \ {Some(s)}) = Cardinality(s) - 1
  BY <1>1, SomeIn, FS_RemoveElement
<1>3. \A s \in SUBSET S : s # {} => Cardinality(s) # 0
  BY <1>1, FS_EmptySet
<1>4. 0 \in T
  <2> DEFINE h == [s \in Small(0) |-> 0]
  <2>1. \A s \in Small(0) : s = {}
    BY <1>1, <1>3
  <2>2. h \in [Small(0) -> Nat] /\ \A s \in Small(0) : h[s] = Step(h, s)
    BY <2>1
  <2> QED
    BY <2>2
<1>5. ASSUME NEW n \in Nat, n \in T
      PROVE  n + 1 \in T
  <2>1. PICK g \in [Small(n) -> Nat] : \A s \in Small(n) : g[s] = Step(g, s)
    BY <1>5
  <2> DEFINE h == [s \in Small(n + 1) |-> IF s \in Small(n) THEN g[s] ELSE Step(g, s)]
  <2>2. \A s \in Small(n + 1) : s # {} => s \ {Some(s)} \in Small(n)
    BY <1>1, <1>2
  <2>3. \A s \in Small(n) : s \in Small(n + 1)
    BY <1>1
  <2>4. \A s \in Small(n + 1) : h[s] = Step(g, s)
    BY <2>1
  <2>5. \A s \in Small(n + 1) : s # {} => h[s \ {Some(s)}] = g[s \ {Some(s)}]
    BY <2>2, <2>3
  <2>6. \A s \in Small(n + 1) : h[s] = Step(h, s)
    BY <2>4, <2>5
  <2>7. \A s \in Small(n + 1) : h[s] \in Nat
    <3> SUFFICES ASSUME NEW s \in Small(n + 1) PROVE h[s] \in Nat
      OBVIOUS
    <3>1. CASE s = {}
      BY <2>4, <3>1
    <3>2. CASE s # {}
      <4>1. f[Some(s)] \in Nat
        BY <1>2, <3>2
      <4>2. g[s \ {Some(s)}] \in Nat
        BY <2>2, <3>2
      <4> QED
        BY <2>4, <3>2, <4>1, <4>2
    <3> QED
      BY <3>1, <3>2
  <2>8. h \in [Small(n + 1) -> Nat]
    BY <2>7
  <2> HIDE DEF h, Small, Step
  <2>9. \E m \in [Small(n + 1) -> Nat] : \A s \in Small(n + 1) : m[s] = Step(m, s)
    BY <2>6, <2>8
  <2> QED
    BY <2>9
<1>6. Cardinality(S) \in T
  <2> HIDE DEF T
  <2> QED
    BY <1>1, <1>4, <1>5, Induction
<1>7. PICK h \in [Small(Cardinality(S)) -> Nat] : \A s \in Small(Cardinality(S)) : h[s] = Step(h, s)
  BY <1>6
<1>8. Small(Cardinality(S)) = SUBSET S
  BY <1>1
<1>9. h \in [SUBSET S -> Nat] /\ \A s \in SUBSET S : h[s] = Step(h, s)
  BY <1>7, <1>8
<1>10. h = [s \in SUBSET S |-> Step(h, s)]
  BY <1>9
<1> QED
  BY <1>9, <1>10 DEF IsSum

\* Two solutions agree where the functions summed do.
LEMMA SumUnique ==
    ASSUME NEW f, NEW g, NEW h, NEW k, NEW S, NEW T, IsSum(h, f, S), IsSum(k, g, T),
           NEW U \in SUBSET (S \cap T), IsFiniteSet(U), \A x \in U : f[x] = g[x]
    PROVE  h[U] = k[U]
<1> DEFINE C == {n \in Nat : \A s \in SUBSET U : Cardinality(s) = n => h[s] = k[s]}
<1>1. \A s \in SUBSET U : IsFiniteSet(s) /\ Cardinality(s) \in Nat
  BY FS_Subset, FS_CardinalityType
<1>2. \A s \in SUBSET U : s # {} =>
        /\ Some(s) \in s /\ s \ {Some(s)} \in SUBSET U
        /\ Cardinality(s \ {Some(s)}) = Cardinality(s) - 1
  BY <1>1, SomeIn, FS_RemoveElement
<1>3. \A s \in SUBSET U : s # {} => Cardinality(s) # 0
  BY <1>1, FS_EmptySet
<1>4. \A s \in SUBSET U :
        /\ h[s] = IF s = {} THEN 0 ELSE f[Some(s)] + h[s \ {Some(s)}]
        /\ k[s] = IF s = {} THEN 0 ELSE g[Some(s)] + k[s \ {Some(s)}]
  <2>1. \A s \in SUBSET U : s \in SUBSET S /\ s \in SUBSET T
    OBVIOUS
  <2> QED
    BY <2>1 DEF IsSum
<1>5. 0 \in C
  BY <1>3, <1>4
<1>6. ASSUME NEW n \in Nat, n \in C
      PROVE  n + 1 \in C
  <2> SUFFICES ASSUME NEW s \in SUBSET U, Cardinality(s) = n + 1
               PROVE  h[s] = k[s]
    OBVIOUS
  <2>1. s # {}
    BY FS_EmptySet
  <2>2. h[s \ {Some(s)}] = k[s \ {Some(s)}]
    BY <1>2, <1>6, <2>1
  <2>3. f[Some(s)] = g[Some(s)]
    BY <1>2, <2>1
  <2> QED
    BY <1>4, <2>1, <2>2, <2>3
<1>7. Cardinality(U) \in C
  <2> HIDE DEF C
  <2> QED
    BY <1>1, <1>5, <1>6, Induction
<1> QED
  BY <1>7

\* Any function that satisfies the recursion of the fold gives the sum.
LEMMA SumBy ==
    ASSUME NEW f, NEW g, NEW h, NEW S, NEW U \in SUBSET S, IsFiniteSet(S), IsSum(h, f, S),
           \A x \in S : f[x] \in Nat, \A x \in U : g[x] = f[x]
    PROVE  SumFunctionOnSet(g, U) = h[U]
<1> DEFINE k == CHOOSE k : IsSum(k, g, U)
<1>1. IsFiniteSet(U)
  BY FS_Subset
<1>2. IsSum(k, g, U)
  <2>1. \E m : IsSum(m, g, U)
    BY <1>1, SumExists
  <2> QED
    BY <2>1
<1>3. SumFunctionOnSet(g, U) = k[U]
  BY SumIs
<1> HIDE DEF k
<1>4. k[U] = h[U]
  BY <1>1, <1>2, SumUnique
<1> QED
  BY <1>3, <1>4

\* Sums of numbers are numbers.
LEMMA SumType ==
    ASSUME NEW f, NEW S, IsFiniteSet(S), \A x \in S : f[x] \in Nat
    PROVE  SumFunctionOnSet(f, S) \in Nat
<1>1. PICK h : IsSum(h, f, S) /\ h \in [SUBSET S -> Nat]
  BY SumExists
<1>2. SumFunctionOnSet(f, S) = h[S]
  BY <1>1, SumBy
<1> QED
  BY <1>1, <1>2

\* Functions that agree on a set have one sum over it.
LEMMA SumAgree ==
    ASSUME NEW f, NEW g, NEW S, IsFiniteSet(S), \A x \in S : f[x] \in Nat /\ g[x] = f[x]
    PROVE  SumFunctionOnSet(g, S) = SumFunctionOnSet(f, S)
<1>1. PICK h : IsSum(h, f, S)
  BY SumExists
<1> QED
  BY <1>1, SumBy

\* Nothing sums up to 0.
LEMMA SumEmpty == ASSUME NEW f PROVE SumFunctionOnSet(f, {}) = 0
<1>1. IsFiniteSet({})
  BY FS_EmptySet
<1>2. PICK h : IsSum(h, f, {})
  BY <1>1, SumExists
<1>3. h[{}] = 0
  BY <1>2 DEF IsSum
<1> QED
  BY <1>1, <1>2, <1>3, SumBy

\* The element the fold takes first.
LEMMA SumFirst ==
    ASSUME NEW f, NEW S, IsFiniteSet(S), S # {}, \A x \in S : f[x] \in Nat
    PROVE  SumFunctionOnSet(f, S) = f[Some(S)] + SumFunctionOnSet(f, S \ {Some(S)})
<1>1. PICK h : IsSum(h, f, S)
  BY SumExists
<1>2. h[S] = f[Some(S)] + h[S \ {Some(S)}]
  BY <1>1 DEF IsSum
<1>3. SumFunctionOnSet(f, S) = h[S] /\ SumFunctionOnSet(f, S \ {Some(S)}) = h[S \ {Some(S)}]
  BY <1>1, SumBy
<1> QED
  BY <1>2, <1>3

\* Any element can be taken out of a sum, not the fold's only.
LEMMA SumRemove ==
    ASSUME NEW f, NEW S, IsFiniteSet(S), NEW x \in S, \A y \in S : f[y] \in Nat
    PROVE  SumFunctionOnSet(f, S) = f[x] + SumFunctionOnSet(f, S \ {x})
<1> DEFINE Sum(s) == SumFunctionOnSet(f, s)
           C == {n \in Nat : \A s \in SUBSET S : \A y \in s :
                    Cardinality(s) = n => Sum(s) = f[y] + Sum(s \ {y})}
<1>1. \A s \in SUBSET S : IsFiniteSet(s) /\ Cardinality(s) \in Nat /\ Sum(s) \in Nat
  BY FS_Subset, FS_CardinalityType, SumType
<1>2. \A s \in SUBSET S : \A y \in s : Cardinality(s \ {y}) = Cardinality(s) - 1
  BY <1>1, FS_RemoveElement
<1>3. 0 \in C
  BY <1>1, FS_EmptySet
<1>4. ASSUME NEW n \in Nat, n \in C
      PROVE  n + 1 \in C
  <2> SUFFICES ASSUME NEW s \in SUBSET S, NEW y \in s, Cardinality(s) = n + 1
               PROVE  Sum(s) = f[y] + Sum(s \ {y})
    OBVIOUS
  <2> DEFINE c == Some(s)
  <2>1. c \in s /\ Sum(s) = f[c] + Sum(s \ {c})
    BY <1>1, SomeIn, SumFirst
  <2> HIDE DEF c, Sum
  <2>2. CASE y = c
    BY <2>1, <2>2
  <2>3. CASE y # c
    <3>1. Cardinality(s \ {c}) = n /\ Cardinality(s \ {y}) = n
      BY <1>2, <2>1
    <3>2. Sum(s \ {c}) = f[y] + Sum((s \ {c}) \ {y})
      BY <1>4, <2>3, <3>1
    <3>3. Sum(s \ {y}) = f[c] + Sum((s \ {y}) \ {c})
      BY <1>4, <2>1, <2>3, <3>1
    <3>4. (s \ {c}) \ {y} = (s \ {y}) \ {c}
      OBVIOUS
    <3>5. f[c] \in Nat /\ f[y] \in Nat /\ Sum((s \ {y}) \ {c}) \in Nat
      BY <1>1, <2>1
    <3> QED
      BY <2>1, <3>2, <3>3, <3>4, <3>5
  <2> QED
    BY <2>2, <2>3
<1>5. Cardinality(S) \in C
  <2> HIDE DEF C
  <2> QED
    BY <1>1, <1>3, <1>4, Induction
<1> QED
  BY <1>5

\* Sums are of what they are over, and an element more adds its value.
LEMMA SumAdd ==
    ASSUME NEW f, NEW S, IsFiniteSet(S), NEW x, x \notin S, \A y \in S \cup {x} : f[y] \in Nat
    PROVE  SumFunctionOnSet(f, S \cup {x}) = f[x] + SumFunctionOnSet(f, S)
<1>1. IsFiniteSet(S \cup {x}) /\ (S \cup {x}) \ {x} = S
  BY FS_AddElement
<1> QED
  BY <1>1, SumRemove

\* Zeros sum up to 0.
LEMMA SumZero ==
    ASSUME NEW f, NEW S, IsFiniteSet(S), \A x \in S : f[x] = 0
    PROVE  SumFunctionOnSet(f, S) = 0
<1> DEFINE T == {s \in SUBSET S : SumFunctionOnSet(f, s) = 0}
<1>1. {} \in T
  BY SumEmpty
<1>2. ASSUME NEW s \in SUBSET S, NEW x \in S \ s, s \in T
      PROVE  s \cup {x} \in T
  <2>1. IsFiniteSet(s)
    BY FS_Subset
  <2>2. SumFunctionOnSet(f, s \cup {x}) = f[x] + SumFunctionOnSet(f, s)
    BY <2>1, SumAdd
  <2> QED
    BY <1>2, <2>2
<1>3. S \in T
  <2> HIDE DEF T
  <2> QED
    BY <1>1, <1>2, FiniteInduction
<1> QED
  BY <1>3

\* The elements of S with a key.
Keyed(S, key, q) == {x \in S : key[x] = q}

\* Summed key by key, the sums are those of all.
LEMMA SumByKey ==
    ASSUME NEW f, NEW S, NEW K, NEW key, NEW g, IsFiniteSet(S), IsFiniteSet(K),
           \A x \in S : f[x] \in Nat /\ key[x] \in K,
           \A q \in K : g[q] = SumFunctionOnSet(f, Keyed(S, key, q))
    PROVE  SumFunctionOnSet(g, K) = SumFunctionOnSet(f, S)
<1> DEFINE Of(s, q) == {x \in s : key[x] = q}
           Sum(s) == SumFunctionOnSet(f, s)
           By(s) == [q \in K |-> Sum(Of(s, q))]
           T == {s \in SUBSET S : SumFunctionOnSet(By(s), K) = Sum(s)}
<1>1. \A s \in SUBSET S : /\ IsFiniteSet(s)
                          /\ \A q \in K : IsFiniteSet(Of(s, q)) /\ Sum(Of(s, q)) \in Nat
  <2> SUFFICES ASSUME NEW s \in SUBSET S
               PROVE  IsFiniteSet(s) /\ \A q \in K : IsFiniteSet(Of(s, q)) /\ Sum(Of(s, q)) \in Nat
    OBVIOUS
  <2>1. IsFiniteSet(s)
    BY FS_Subset
  <2>2. \A q \in K : IsFiniteSet(Of(s, q)) /\ Of(s, q) \in SUBSET S
    BY <2>1, FS_Subset
  <2> QED
    BY <2>1, <2>2, SumType
<1>2. {} \in T
  <2>1. \A q \in K : By({})[q] = 0
    <3>1. \A q \in K : Of({}, q) = {}
      OBVIOUS
    <3> QED
      BY <3>1, SumEmpty
  <2>2. SumFunctionOnSet(By({}), K) = 0
    <3> HIDE DEF By
    <3> QED
      BY <2>1, SumZero
  <2> QED
    BY <2>2, SumEmpty
<1>3. ASSUME NEW s \in SUBSET S, NEW x \in S \ s, s \in T
      PROVE  s \cup {x} \in T
  <2> DEFINE u == s \cup {x}
             q == key[x]
             b == By(s)
             c == By(u)
  <2>1. q \in K /\ f[x] \in Nat /\ IsFiniteSet(s) /\ u \in SUBSET S
    BY <1>1
  <2>2. Sum(u) = f[x] + Sum(s)
    BY <2>1, SumAdd
  <2>3. \A p \in K : b[p] \in Nat /\ c[p] \in Nat
    BY <1>1
  <2>4. \A p \in K \ {q} : c[p] = b[p]
    <3>1. \A p \in K \ {q} : Of(u, p) = Of(s, p)
      OBVIOUS
    <3> QED
      BY <3>1
  <2>5. c[q] = f[x] + b[q]
    <3>1. Of(u, q) = Of(s, q) \cup {x} /\ x \notin Of(s, q) /\ Of(s, q) \in SUBSET S
      OBVIOUS
    <3>2. IsFiniteSet(Of(s, q))
      BY <1>1, <2>1
    <3> HIDE DEF Of
    <3>3. \A y \in Of(s, q) \cup {x} : f[y] \in Nat
      BY <3>1
    <3>4. Sum(Of(u, q)) = f[x] + Sum(Of(s, q))
      BY <3>1, <3>2, <3>3, SumAdd
    <3> QED
      BY <2>1, <3>4
  <2> HIDE DEF b, c, q, u, Sum
  <2>6. SumFunctionOnSet(c, K) = c[q] + SumFunctionOnSet(c, K \ {q})
    BY <2>1, <2>3, SumRemove
  <2>7. SumFunctionOnSet(b, K) = b[q] + SumFunctionOnSet(b, K \ {q})
    BY <2>1, <2>3, SumRemove
  <2>8. SumFunctionOnSet(c, K \ {q}) = SumFunctionOnSet(b, K \ {q})
    <3>1. IsFiniteSet(K \ {q})
      BY FS_RemoveElement
    <3> QED
      BY <2>3, <2>4, <3>1, SumAgree
  <2>9. SumFunctionOnSet(b, K \ {q}) \in Nat
    <3>1. IsFiniteSet(K \ {q})
      BY FS_RemoveElement
    <3> QED
      BY <2>3, <3>1, SumType
  <2>10. SumFunctionOnSet(b, K) = Sum(s)
    BY <1>3 DEF b
  <2>11. SumFunctionOnSet(c, K) = Sum(u)
    BY <2>1, <2>2, <2>3, <2>5, <2>6, <2>7, <2>8, <2>9, <2>10
  <2> QED
    BY <2>1, <2>11 DEF c, u
<1>4. S \in T
  <2> HIDE DEF T
  <2> QED
    BY <1>2, <1>3, FiniteInduction
<1>5. \A q \in K : By(S)[q] \in Nat /\ g[q] = By(S)[q]
  BY <1>1 DEF Keyed
<1>6. SumFunctionOnSet(g, K) = SumFunctionOnSet(By(S), K)
  <2> HIDE DEF By
  <2> QED
    BY <1>5, SumAgree
<1> QED
  BY <1>4, <1>6

----------------------------------------------------------------------------
(* Orders. *)

\* R orders S.
Orders(R, S) ==
    /\ \A x, y \in S : x # y => <<x, y>> \in R \/ <<y, x>> \in R
    /\ \A x, y, z \in S : <<x, y>> \in R /\ <<y, z>> \in R => <<x, z>> \in R

\* A finite set has a last element.
LEMMA LastExists ==
    ASSUME NEW S, NEW R, IsFiniteSet(S), S # {}, Orders(R, S)
    PROVE  \E x \in S : \A y \in S \ {x} : <<y, x>> \in R
<1> DEFINE IsLast(x, s) == \A y \in s \ {x} : <<y, x>> \in R
           T == {s \in SUBSET S : s # {} => \E x \in s : IsLast(x, s)}
<1>1. {} \in T
  OBVIOUS
<1>2. ASSUME NEW s \in SUBSET S, NEW z \in S \ s, s \in T
      PROVE  s \cup {z} \in T
  <2>1. CASE s = {}
    <3>1. IsLast(z, s \cup {z})
      BY <2>1
    <3> QED
      BY <3>1
  <2>2. CASE s # {}
    <3>1. PICK x \in s : IsLast(x, s)
      BY <1>2, <2>2
    <3>2. CASE <<x, z>> \in R
      <4>1. IsLast(z, s \cup {z})
        BY <3>1, <3>2 DEF Orders
      <4> QED
        BY <4>1
    <3>3. CASE <<z, x>> \in R
      <4>1. IsLast(x, s \cup {z})
        BY <3>1, <3>3
      <4> QED
        BY <4>1
    <3> QED
      BY <3>2, <3>3 DEF Orders
  <2> QED
    BY <2>1, <2>2
<1>3. S \in T
  <2> HIDE DEF T
  <2> QED
    BY <1>1, <1>2, FiniteInduction
<1> QED
  BY <1>3

\* A finite set can be put in order.
LEMMA SortExists ==
    ASSUME NEW S, NEW R, IsFiniteSet(S), Orders(R, S)
    PROVE  \E s \in [1 .. Cardinality(S) -> S] : \A i, j \in DOMAIN s : i < j => <<s[i], s[j]>> \in R
<1> DEFINE InOrder(s, n) == \A i, j \in 1 .. n : i < j => <<s[i], s[j]>> \in R
           C == {n \in Nat : \A U \in SUBSET S : Cardinality(U) = n =>
                     \E s \in [1 .. n -> U] : InOrder(s, n)}
<1>1. \A U \in SUBSET S : IsFiniteSet(U) /\ Cardinality(U) \in Nat
  BY FS_Subset, FS_CardinalityType
<1>2. 0 \in C
  <2> SUFFICES ASSUME NEW U \in SUBSET S PROVE \E s \in [1 .. 0 -> U] : InOrder(s, 0)
    OBVIOUS
  <2> DEFINE e == [i \in 1 .. 0 |-> i]
  <2>1. e \in [1 .. 0 -> U] /\ InOrder(e, 0)
    OBVIOUS
  <2> QED
    BY <2>1
<1>3. ASSUME NEW n \in Nat, n \in C
      PROVE  n + 1 \in C
  <2> SUFFICES ASSUME NEW U \in SUBSET S, Cardinality(U) = n + 1
               PROVE  \E s \in [1 .. n + 1 -> U] : InOrder(s, n + 1)
    OBVIOUS
  <2>1. U # {}
    <3>1. Cardinality({}) = 0
      BY FS_EmptySet
    <3> QED
      BY <3>1
  <2>2. PICK x \in U : \A y \in U \ {x} : <<y, x>> \in R
    <3>1. IsFiniteSet(U) /\ Orders(R, U)
      BY <1>1 DEF Orders
    <3> QED
      BY <2>1, <3>1, LastExists
  <2>3. U \ {x} \in SUBSET S /\ Cardinality(U \ {x}) = n
    <3>1. IsFiniteSet(U)
      BY <1>1
    <3>2. Cardinality(U \ {x}) = Cardinality(U) - 1
      BY <2>2, <3>1, FS_RemoveElement
    <3> QED
      BY <3>2
  <2>4. PICK t \in [1 .. n -> U \ {x}] : InOrder(t, n)
    BY <1>3, <2>3
  <2> DEFINE s == [i \in 1 .. n + 1 |-> IF i = n + 1 THEN x ELSE t[i]]
  <2>5. \A i \in 1 .. n + 1 : i = n + 1 \/ i \in 1 .. n
    OBVIOUS
  <2>6. s \in [1 .. n + 1 -> U]
    BY <2>4, <2>5
  <2>7. InOrder(s, n + 1)
    <3> SUFFICES ASSUME NEW i \in 1 .. n + 1, NEW j \in 1 .. n + 1, i < j
                 PROVE  <<s[i], s[j]>> \in R
      OBVIOUS
    <3>1. i \in 1 .. n /\ s[i] = t[i]
      OBVIOUS
    <3>2. CASE j = n + 1
      BY <2>2, <2>4, <3>1, <3>2
    <3>3. CASE j # n + 1
      <4>1. j \in 1 .. n /\ s[j] = t[j]
        BY <3>3
      <4> QED
        BY <2>4, <3>1, <4>1
    <3> QED
      BY <3>2, <3>3
  <2> QED
    BY <2>6, <2>7
<1>4. Cardinality(S) \in C
  <2> HIDE DEF C
  <2> QED
    BY <1>1, <1>2, <1>3, Induction
<1>5. PICK s \in [1 .. Cardinality(S) -> S] : InOrder(s, Cardinality(S))
  BY <1>4
<1>6. DOMAIN s = 1 .. Cardinality(S)
  OBVIOUS
<1> QED
  BY <1>5, <1>6

\* As many different elements as S has are all of S.
LEMMA SortedOnto ==
    ASSUME NEW S, IsFiniteSet(S), NEW s \in [1 .. Cardinality(S) -> S],
           \A i, j \in 1 .. Cardinality(S) : i < j => s[i] # s[j]
    PROVE  \A x \in S : \E i \in 1 .. Cardinality(S) : s[i] = x
<1> DEFINE n == Cardinality(S)
<1>1. n \in Nat
  BY FS_CardinalityType
<1>2. IsFiniteSet(1 .. n) /\ Cardinality(1 .. n) = n
  BY <1>1, FS_Interval
<1>3. s \in Injection(1 .. n, S)
  BY <1>1 DEF Injection, IsInjective
<1>4. s \in Surjection(1 .. n, S)
  BY <1>2, <1>3, FS_Injection
<1> QED
  BY <1>4 DEF Surjection

----------------------------------------------------------------------------
(* Rows. *)

\* The columns summed.
Columns == {"impressions", "clicks"}

\* A row counts whole numbers, and names a platform.
LEMMA RowFacts ==
    ASSUME NEW rows \in SUBSET AdMetric, NEW m \in rows
    PROVE  /\ m.ad \in Nat /\ m.date \in Nat /\ m.platform \in Platforms
           /\ m.impressions \in Nat /\ m.clicks \in Nat
           /\ \A column \in Columns : m[column] \in Nat
  BY DEF AdMetric, Columns

\* Totals of rows are numbers.
LEMMA TotalType ==
    ASSUME NEW rows \in SUBSET AdMetric, IsFiniteSet(rows), NEW column \in Columns
    PROVE  Total(rows, column) \in Nat
<1> DEFINE f == [m \in rows |-> m[column]]
<1>1. \A m \in rows : f[m] \in Nat
  BY RowFacts
<1>2. Total(rows, column) = SumFunctionOnSet(f, rows)
  BY DEF Total, SumFunction
<1> QED
  BY <1>1, <1>2, SumType

\* The total of rows is the sum of the totals of those with each key.
LEMMA TotalByKey ==
    ASSUME NEW rows \in SUBSET AdMetric, IsFiniteSet(rows), NEW column \in Columns,
           NEW K, IsFiniteSet(K), NEW key, \A m \in rows : key[m] \in K
    PROVE  SumFunction([q \in K |-> Total(Keyed(rows, key, q), column)]) = Total(rows, column)
<1> DEFINE f == [m \in rows |-> m[column]]
           Of(q) == Keyed(rows, key, q)
           g == [q \in K |-> Total(Of(q), column)]
<1>1. \A m \in rows : f[m] \in Nat
  BY RowFacts
<1>2. Total(rows, column) = SumFunctionOnSet(f, rows)
  BY DEF Total, SumFunction
<1>3. ASSUME NEW q \in K
      PROVE  g[q] = SumFunctionOnSet(f, Of(q))
  <2> DEFINE h == [m \in Of(q) |-> m[column]]
  <2>1. IsFiniteSet(Of(q))
    BY FS_Subset DEF Keyed
  <2>2. \A m \in Of(q) : f[m] \in Nat /\ h[m] = f[m]
    BY <1>1 DEF Keyed
  <2>3. g[q] = SumFunctionOnSet(h, Of(q))
    BY DEF Total, SumFunction
  <2> HIDE DEF f, h, Of
  <2> QED
    BY <2>1, <2>2, <2>3, SumAgree
<1>4. SumFunction(g) = SumFunctionOnSet(g, K)
  BY DEF SumFunction
<1>5. SumFunctionOnSet(g, K) = SumFunctionOnSet(f, rows)
  <2> HIDE DEF f, g
  <2>1. \A q \in K : g[q] = SumFunctionOnSet(f, Keyed(rows, key, q))
    BY <1>3
  <2> QED
    BY <1>1, <2>1, SumByKey
<1> QED
  BY <1>2, <1>4, <1>5

\* The numbers of a card are those of all the ad's rows.
LEMMA DetailTotals ==
    ASSUME NEW rows \in SUBSET AdMetric, IsFiniteSet(rows), NEW a
    PROVE  /\ AdDetail(a, rows).impressions = Total({m \in rows : m.ad = a}, "impressions")
           /\ AdDetail(a, rows).clicks = Total({m \in rows : m.ad = a}, "clicks")
           /\ AdDetail(a, rows).platforms = {m.platform : m \in {n \in rows : n.ad = a}}
<1> DEFINE Of(p) == {m \in rows : m.ad = a /\ m.platform = p}
           platforms == {p \in Platforms : Of(p) # {}}
           mine == {m \in rows : m.ad = a}
           key == [m \in mine |-> m.platform]
<1>1. IsFiniteSet(mine) /\ mine \in SUBSET AdMetric
  BY FS_Subset
<1>2. IsFiniteSet(platforms)
  BY ReportsAssumption, FS_Subset
<1>3. \A m \in mine : key[m] \in platforms
  BY RowFacts
<1>4. \A p : Of(p) = Keyed(mine, key, p)
  BY DEF Keyed
<1>5. ASSUME NEW column \in Columns
      PROVE  SumFunction([p \in platforms |-> Total(Of(p), column)]) = Total(mine, column)
  <2>1. [p \in platforms |-> Total(Of(p), column)]
          = [p \in platforms |-> Total(Keyed(mine, key, p), column)]
    BY <1>4
  <2> HIDE DEF mine, key, platforms, Of
  <2> QED
    BY <1>1, <1>2, <1>3, <2>1, TotalByKey
<1>6. platforms = {m.platform : m \in mine}
  BY RowFacts
<1>7. "impressions" \in Columns /\ "clicks" \in Columns
  BY DEF Columns
<1>8. AdDetail(a, rows) =
        [platforms |-> platforms,
         impressions |-> SumFunction([p \in platforms |-> Total(Of(p), "impressions")]),
         clicks |-> SumFunction([p \in platforms |-> Total(Of(p), "clicks")])]
  BY DEF AdDetail
<1> QED
  BY <1>5, <1>6, <1>7, <1>8

\* The dates of rows are finitely many.
LEMMA DatesFinite ==
    ASSUME NEW rows \in SUBSET AdMetric, IsFiniteSet(rows)
    PROVE  IsFiniteSet({m.date : m \in rows}) /\ {m.date : m \in rows} \subseteq Nat
<1> DEFINE dates == {m.date : m \in rows}
           f == [m \in rows |-> m.date]
<1>1. f \in Surjection(rows, dates)
  BY DEF Surjection
<1> QED
  BY <1>1, FS_Surjection, RowFacts

\* The weeks are the dates of the rows, each once and in order.
LEMMA WeeksFacts ==
    ASSUME NEW rows \in SUBSET AdMetric, IsFiniteSet(rows)
    PROVE  /\ \E n \in Nat : DOMAIN Weeks(rows) = 1 .. n
           /\ \A i \in DOMAIN Weeks(rows) : \E m \in rows : Weeks(rows)[i] = m.date
           /\ \A i, j \in DOMAIN Weeks(rows) : i < j => Weeks(rows)[i] < Weeks(rows)[j]
           /\ \A m \in rows : \E i \in DOMAIN Weeks(rows) : Weeks(rows)[i] = m.date
<1> DEFINE dates == {m.date : m \in rows}
           R == {p \in dates \X dates : p[1] < p[2]}
           n == Cardinality(dates)
           InOrder(s) == \A i, j \in DOMAIN s : i < j => s[i] < s[j]
<1>1. IsFiniteSet(dates) /\ dates \subseteq Nat /\ n \in Nat
  BY DatesFinite, FS_CardinalityType
<1>2. Orders(R, dates)
  <2>1. \A x, y \in dates : <<x, y>> \in R <=> x < y
    OBVIOUS
  <2> HIDE DEF R, dates
  <2>2. \A x, y, z \in dates : x < y /\ y < z => x < z
    BY <1>1
  <2>3. \A x, y \in dates : x # y => x < y \/ y < x
    BY <1>1
  <2> QED
    BY <2>1, <2>2, <2>3 DEF Orders
<1>3. \E s \in [1 .. n -> dates] : InOrder(s)
  <2> HIDE DEF dates
  <2>1. PICK s \in [1 .. n -> dates] : \A i, j \in DOMAIN s : i < j => <<s[i], s[j]>> \in R
    BY <1>1, <1>2, SortExists
  <2>2. InOrder(s)
    BY <2>1
  <2> QED
    BY <2>2
<1> DEFINE w == Weeks(rows)
<1>4. w = CHOOSE s \in [1 .. n -> dates] : InOrder(s)
  BY DEF Weeks, Sorted
<1>5. w \in [1 .. n -> dates] /\ InOrder(w)
  <2> HIDE DEF dates, n, w, InOrder
  <2> QED
    BY <1>3, <1>4
<1>6. \A x \in dates : \E i \in 1 .. n : w[i] = x
  <2> HIDE DEF dates, w, n
  <2>1. \A i, j \in 1 .. n : i < j => w[i] < w[j] /\ w[i] \in Nat /\ w[j] \in Nat
    BY <1>1, <1>5
  <2>2. \A i, j \in 1 .. n : i < j => w[i] # w[j]
    BY <2>1
  <2> USE DEF n
  <2> QED
    BY <1>1, <1>5, <2>2, SortedOnto
<1> HIDE DEF w, n
<1> QED
  BY <1>1, <1>5, <1>6 DEF w

\* The date range leaves no row out.
LEMMA WholePeriod ==
    ASSUME NEW rows \in SUBSET AdMetric, IsFiniteSet(rows), rows # {}
    PROVE  InPeriod(rows, DateRange(rows)) = rows
<1> DEFINE dates == {m.date : m \in rows}
           Up == {p \in dates \X dates : p[1] < p[2]}
           Down == {p \in dates \X dates : p[2] < p[1]}
<1>1. IsFiniteSet(dates) /\ dates \subseteq Nat /\ dates # {}
  BY DatesFinite
<1>2. \A x, y \in dates : (<<x, y>> \in Up <=> x < y) /\ (<<x, y>> \in Down <=> y < x)
  OBVIOUS
<1> HIDE DEF dates, Up, Down
<1>3. Orders(Up, dates) /\ Orders(Down, dates)
  <2>1. \A x, y, z \in dates : x < y /\ y < z => x < z
    BY <1>1
  <2>2. \A x, y \in dates : x # y => x < y \/ y < x
    BY <1>1
  <2> QED
    BY <1>2, <2>1, <2>2 DEF Orders
<1>4. \E x \in dates : \A y \in dates : x >= y
  <2>1. PICK x \in dates : \A y \in dates \ {x} : <<y, x>> \in Up
    BY <1>1, <1>3, LastExists
  <2>2. \A y \in dates : y = x \/ y < x
    BY <1>2, <2>1
  <2> QED
    BY <1>1, <2>2
<1>5. \E x \in dates : \A y \in dates : x <= y
  <2>1. PICK x \in dates : \A y \in dates \ {x} : <<y, x>> \in Down
    BY <1>1, <1>3, LastExists
  <2>2. \A y \in dates : y = x \/ x < y
    BY <1>2, <2>1
  <2> QED
    BY <1>1, <2>2
<1>6. \A y \in dates : Min(dates) <= y /\ y <= Max(dates)
  <2>1. Max(dates) \in dates /\ \A y \in dates : Max(dates) >= y
    BY <1>4 DEF Max
  <2>2. Min(dates) \in dates /\ \A y \in dates : Min(dates) <= y
    BY <1>5 DEF Min
  <2> QED
    BY <1>1, <2>1, <2>2
<1>7. DateRange(rows) = <<Min(dates), Max(dates)>>
  BY DEF DateRange, dates
<1>8. \A m \in rows : m.date \in dates
  BY DEF dates
<1> QED
  BY <1>6, <1>7, <1>8 DEF InPeriod

\* The chart's impressions are those of all rows.
LEMMA ChartTotals ==
    ASSUME NEW rows \in SUBSET AdMetric, IsFiniteSet(rows)
    PROVE  SumFunction([p \in Platforms |-> SumFunction(WeeklySummary(rows).series[p])])
             = Total(rows, "impressions")
<1> DEFINE weeks == Weeks(rows)
           Of(p) == {m \in rows : m.platform = p}
           Sold(p, w) == Total({m \in rows : m.platform = p /\ m.date = w}, "impressions")
           key == [m \in rows |-> CHOOSE i \in DOMAIN weeks : weeks[i] = m.date]
           platform == [m \in rows |-> m.platform]
<1>1. "impressions" \in Columns
  BY DEF Columns
<1>2. IsFiniteSet(DOMAIN weeks)
  <2>1. PICK n \in Nat : DOMAIN weeks = 1 .. n
    BY WeeksFacts
  <2> HIDE DEF weeks
  <2> QED
    BY <2>1, FS_Interval
<1>3. \A m \in rows : key[m] \in DOMAIN weeks /\ weeks[key[m]] = m.date
  BY WeeksFacts
<1>4. \A i, j \in DOMAIN weeks : weeks[i] = weeks[j] => i = j
  <2>1. PICK n \in Nat : DOMAIN weeks = 1 .. n
    BY WeeksFacts
  <2>2. \A i \in DOMAIN weeks : weeks[i] \in Nat
    BY WeeksFacts, RowFacts
  <2>3. \A i, j \in DOMAIN weeks : i < j => weeks[i] < weeks[j]
    BY WeeksFacts
  <2> HIDE DEF weeks
  <2> QED
    BY <2>1, <2>2, <2>3
<1>5. ASSUME NEW p \in Platforms
      PROVE  SumFunction(WeeklySummary(rows).series[p]) = Total(Of(p), "impressions")
  <2>1. WeeklySummary(rows).series[p] = [i \in DOMAIN weeks |-> Sold(p, weeks[i])]
    BY DEF WeeklySummary
  <2>2. \A i \in DOMAIN weeks :
          Keyed(Of(p), key, i) = {m \in rows : m.platform = p /\ m.date = weeks[i]}
    <3> HIDE DEF weeks, key
    <3> QED
      BY <1>3, <1>4 DEF Keyed
  <2>3. WeeklySummary(rows).series[p]
          = [i \in DOMAIN weeks |-> Total(Keyed(Of(p), key, i), "impressions")]
    BY <2>1, <2>2
  <2>4. Of(p) \in SUBSET AdMetric /\ IsFiniteSet(Of(p)) /\ \A m \in Of(p) : key[m] \in DOMAIN weeks
    BY <1>3, FS_Subset
  <2> HIDE DEF weeks, key, Of
  <2> QED
    BY <1>1, <1>2, <2>3, <2>4, TotalByKey
<1>6. \A p \in Platforms : Of(p) = Keyed(rows, platform, p)
  BY DEF Keyed
<1>7. [p \in Platforms |-> SumFunction(WeeklySummary(rows).series[p])]
        = [p \in Platforms |-> Total(Keyed(rows, platform, p), "impressions")]
  BY <1>5, <1>6
<1>8. \A m \in rows : platform[m] \in Platforms
  BY RowFacts
<1> HIDE DEF platform
<1> QED
  BY <1>1, <1>7, <1>8, ReportsAssumption, TotalByKey

\* So are the impressions of the cards.
LEMMA CardTotals ==
    ASSUME NEW rows \in SUBSET AdMetric, IsFiniteSet(rows),
           NEW ads, IsFiniteSet(ads), \A m \in rows : m.ad \in ads
    PROVE  SumFunction([a \in ads |-> AdDetail(a, rows).impressions]) = Total(rows, "impressions")
<1> DEFINE key == [m \in rows |-> m.ad]
<1>1. "impressions" \in Columns
  BY DEF Columns
<1>2. \A a : {m \in rows : m.ad = a} = Keyed(rows, key, a)
  BY DEF Keyed
<1>3. [a \in ads |-> AdDetail(a, rows).impressions]
        = [a \in ads |-> Total(Keyed(rows, key, a), "impressions")]
  BY <1>2, DetailTotals
<1>4. \A m \in rows : key[m] \in ads
  OBVIOUS
<1> HIDE DEF key
<1> QED
  BY <1>1, <1>3, <1>4, TotalByKey

\* A line of the heatmap marks the platforms of its ad.
LEMMA HeatmapLine ==
    ASSUME NEW rows \in SUBSET AdMetric, IsFiniteSet(rows),
           NEW ads, \A m \in rows : m.ad \in ads, NEW a \in ads
    PROVE  /\ Coverage(ads, rows).weeks = WeeklySummary(rows).weeks
           /\ UNION {Coverage(ads, rows).cells[a][i] : i \in DOMAIN Coverage(ads, rows).weeks}
                = AdDetail(a, rows).platforms
<1> DEFINE weeks == Weeks(rows)
           Cell(w) == {m.platform : m \in {n \in rows : n.ad = a /\ n.date = w}}
<1>1. Placed(ads, rows) = rows
  BY DEF Placed
<1>2. Coverage(ads, rows).weeks = weeks /\ WeeklySummary(rows).weeks = weeks
  BY DEF Coverage, WeeklySummary
<1>3. \A i \in DOMAIN weeks : Coverage(ads, rows).cells[a][i] = Cell(weeks[i])
  BY <1>1 DEF Coverage
<1>4. \A m \in rows : \E i \in DOMAIN weeks : weeks[i] = m.date
  BY WeeksFacts
<1> HIDE DEF weeks
<1>5. UNION {Cell(weeks[i]) : i \in DOMAIN weeks} = {m.platform : m \in {n \in rows : n.ad = a}}
  BY <1>4
<1>6. AdDetail(a, rows).platforms = {m.platform : m \in {n \in rows : n.ad = a}}
  BY DetailTotals
<1> QED
  BY <1>2, <1>3, <1>5, <1>6

----------------------------------------------------------------------------
(* The ranking. *)

\* Click rates, as numerator and denominator.
Fractions == Nat \X (Nat \ {0})

\* Not to be higher is an order of fractions.
LEMMA NotHigherOrders ==
    ASSUME NEW x \in Fractions, NEW y \in Fractions, NEW z \in Fractions
    PROVE  /\ ~Higher(x, y) /\ ~Higher(y, z) => ~Higher(x, z)
           /\ Higher(x, y) => ~Higher(y, x)
<1> DEFINE a == x[1] b == x[2] c == y[1] d == y[2] e == z[1] f == z[2]
<1>1. a \in Nat /\ b \in Nat /\ c \in Nat /\ d \in Nat /\ e \in Nat /\ f \in Nat /\ d > 0
  BY DEF Fractions
<1>2. /\ Higher(x, y) <=> a * d > c * b
      /\ Higher(y, z) <=> c * f > e * d
      /\ Higher(x, z) <=> a * f > e * b
      /\ Higher(y, x) <=> c * b > a * d
  BY DEF Higher
<1> HIDE DEF a, b, c, d, e, f
<1>3. a * d \in Nat /\ c * b \in Nat /\ c * f \in Nat /\ e * d \in Nat /\ a * f \in Nat /\ e * b \in Nat
  BY <1>1
<1>4. ASSUME a * d <= c * b, c * f <= e * d
      PROVE  a * f <= e * b
  <2>1. (a * d) * f <= (c * b) * f
    BY <1>1, <1>3, <1>4
  <2>2. (c * f) * b <= (e * d) * b
    BY <1>1, <1>3, <1>4
  <2>3. (a * d) * f = d * (a * f) /\ (c * b) * f = (c * f) * b /\ (e * d) * b = d * (e * b)
    BY <1>1
  <2>4. d * (a * f) <= d * (e * b)
    BY <1>1, <1>3, <2>1, <2>2, <2>3
  <2> QED
    BY <1>1, <1>3, <2>4
<1> QED
  BY <1>2, <1>3, <1>4

\* An ad's whole numbers, as the page takes them from its card.
WholeOf(a, rows) ==
    [ad |-> a, impressions |-> AdDetail(a, rows).impressions, clicks |-> AdDetail(a, rows).clicks]

\* An ad's numbers are the totals of its rows, and its click rate a fraction.
LEMMA WholeFacts ==
    ASSUME NEW rows \in SUBSET AdMetric, IsFiniteSet(rows), NEW a
    PROVE  /\ WholeOf(a, rows).ad = a
           /\ WholeOf(a, rows) = [ad |-> a,
                                  impressions |-> Total({m \in rows : m.ad = a}, "impressions"),
                                  clicks |-> Total({m \in rows : m.ad = a}, "clicks")]
           /\ Ctr(WholeOf(a, rows)) \in Fractions
<1> DEFINE mine == {m \in rows : m.ad = a}
<1>1. mine \in SUBSET AdMetric /\ IsFiniteSet(mine)
  BY FS_Subset
<1>2. Total(mine, "impressions") \in Nat /\ Total(mine, "clicks") \in Nat
  BY <1>1, TotalType DEF Columns
<1>3. /\ WholeOf(a, rows).impressions = Total(mine, "impressions")
      /\ WholeOf(a, rows).clicks = Total(mine, "clicks")
  BY DetailTotals DEF WholeOf
<1>4. Ctr(WholeOf(a, rows)) \in Fractions
  <2> DEFINE t == WholeOf(a, rows)
  <2>1. t.impressions \in Nat /\ t.clicks \in Nat
    BY <1>2, <1>3
  <2> HIDE DEF t
  <2>2. Ctr(t) \in Fractions
    BY <2>1 DEF Ctr, Fractions
  <2> QED
    BY <2>2 DEF t
<1> QED
  BY <1>4, DetailTotals DEF WholeOf

\* The ads that have rows are finitely many.
LEMMA ShownFinite ==
    ASSUME NEW rows \in SUBSET AdMetric, IsFiniteSet(rows)
    PROVE  /\ IsFiniteSet({m.ad : m \in rows}) /\ {m.ad : m \in rows} \subseteq Nat
           /\ IsFiniteSet({WholeOf(a, rows) : a \in {m.ad : m \in rows}})
<1> DEFINE shown == {m.ad : m \in rows}
           f == [m \in rows |-> m.ad]
           totals == {WholeOf(a, rows) : a \in shown}
           g == [a \in shown |-> WholeOf(a, rows)]
<1>1. f \in Surjection(rows, shown)
  BY DEF Surjection
<1>2. IsFiniteSet(shown)
  BY <1>1, FS_Surjection
<1>3. g \in Surjection(shown, totals)
  BY DEF Surjection
<1>4. IsFiniteSet(totals)
  BY <1>2, <1>3, FS_Surjection
<1> QED
  BY <1>2, <1>4, RowFacts

\* RanksBefore orders the ads.
LEMMA RanksOrders ==
    ASSUME NEW rows \in SUBSET AdMetric, IsFiniteSet(rows), NEW R,
           NEW totals, totals = {WholeOf(a, rows) : a \in {m.ad : m \in rows}},
           \A t, u \in totals : <<t, u>> \in R <=> RanksBefore(t, u)
    PROVE  /\ Orders(R, totals)
           /\ \A t, u \in totals : RanksBefore(t, u) => ~Higher(Ctr(u), Ctr(t)) /\ t.ad # u.ad
<1>1. \A t \in totals : t.ad \in Nat /\ t = WholeOf(t.ad, rows) /\ Ctr(t) \in Fractions
  <2> SUFFICES ASSUME NEW t \in totals
               PROVE  t.ad \in Nat /\ t = WholeOf(t.ad, rows) /\ Ctr(t) \in Fractions
    OBVIOUS
  <2>1. PICK m \in rows : t = WholeOf(m.ad, rows)
    OBVIOUS
  <2>2. t.ad = m.ad
    BY <2>1, WholeFacts
  <2>3. Ctr(t) \in Fractions
    BY <2>1, WholeFacts
  <2> QED
    BY <2>1, <2>2, <2>3, RowFacts
<1>2. ASSUME NEW t \in totals, NEW u \in totals, RanksBefore(t, u)
      PROVE  ~Higher(Ctr(u), Ctr(t)) /\ t.ad # u.ad
  <2>1. CASE Higher(Ctr(t), Ctr(u))
    <3>1. ~Higher(Ctr(u), Ctr(t))
      BY <1>1, <2>1, NotHigherOrders
    <3>2. t.ad # u.ad
      BY <1>1, <2>1, <3>1
    <3> QED
      BY <3>1, <3>2
  <2>2. CASE ~Higher(Ctr(t), Ctr(u))
    BY <1>1, <1>2, <2>2 DEF RanksBefore
  <2> QED
    BY <2>1, <2>2
<1>3. ASSUME NEW t \in totals, NEW u \in totals, t # u
      PROVE  RanksBefore(t, u) \/ RanksBefore(u, t)
  <2>1. t.ad < u.ad \/ u.ad < t.ad
    BY <1>1, <1>3
  <2> QED
    BY <2>1 DEF RanksBefore
<1>4. ASSUME NEW t \in totals, NEW u \in totals, NEW v \in totals,
             RanksBefore(t, u), RanksBefore(u, v)
      PROVE  RanksBefore(t, v)
  <2> DEFINE x == Ctr(t) y == Ctr(u) z == Ctr(v)
  <2>1. x \in Fractions /\ y \in Fractions /\ z \in Fractions
    BY <1>1
  <2>2. ~Higher(y, x) /\ ~Higher(z, y)
    BY <1>2, <1>4
  <2>3. /\ Higher(x, y) \/ t.ad < u.ad
        /\ Higher(y, z) \/ u.ad < v.ad
    BY <1>4 DEF RanksBefore
  <2>4. RanksBefore(t, v) <=> Higher(x, z) \/ (~Higher(z, x) /\ t.ad < v.ad)
    BY DEF RanksBefore
  <2> HIDE DEF x, y, z
  <2>5. ~Higher(z, x)
    BY <2>1, <2>2, NotHigherOrders
  <2>6. ~Higher(x, z) => ~Higher(x, y) /\ ~Higher(y, z)
    BY <2>1, <2>2, NotHigherOrders
  <2>7. t.ad < u.ad /\ u.ad < v.ad => t.ad < v.ad
    BY <1>1
  <2> QED
    BY <2>3, <2>4, <2>5, <2>6, <2>7
<1>5. Orders(R, totals)
  BY <1>3, <1>4 DEF Orders
<1> QED
  BY <1>2, <1>5

\* Over all dates, the ranking holds each of its ads with its whole numbers,
\* in order, and leaves one out only for TopN others that it does not beat.
LEMMA RankingFacts ==
    ASSUME NEW rows \in SUBSET AdMetric, IsFiniteSet(rows), NEW period, InPeriod(rows, period) = rows,
           NEW ads, \A m \in rows : m.ad \in ads
    PROVE  LET ranked == RankAds(ads, rows, period)
               places == DOMAIN ranked
           IN  /\ \A i \in places : /\ ranked[i].ad \in {m.ad : m \in rows}
                                     /\ ranked[i] = WholeOf(ranked[i].ad, rows)
               /\ \A i, j \in places : i < j => ranked[i].ad # ranked[j].ad
                                             /\ ~Higher(Ctr(ranked[j]), Ctr(ranked[i]))
               /\ \A a \in {m.ad : m \in rows} \ {ranked[i].ad : i \in places} :
                      /\ Len(ranked) = TopN
                      /\ \A i \in places : ~Higher(Ctr(WholeOf(a, rows)), Ctr(ranked[i]))
<1> DEFINE shown == {m.ad : m \in rows}
           totals == {WholeOf(a, rows) : a \in shown}
           R == {p \in totals \X totals : RanksBefore(p[1], p[2])}
           n == Cardinality(totals)
           InOrder(s) == \A i, j \in DOMAIN s : i < j => RanksBefore(s[i], s[j])
           full == CHOOSE s \in [1 .. n -> totals] : InOrder(s)
           k == IF n < TopN THEN n ELSE TopN
           ranked == RankAds(ads, rows, period)
<1>1. IsFiniteSet(totals) /\ n \in Nat
  BY ShownFinite, FS_CardinalityType
<1>2. \A t, u \in totals : <<t, u>> \in R <=> RanksBefore(t, u)
  OBVIOUS
<1>3. /\ Orders(R, totals)
      /\ \A t, u \in totals : RanksBefore(t, u) => ~Higher(Ctr(u), Ctr(t)) /\ t.ad # u.ad
  <2> HIDE DEF R
  <2> QED
    BY <1>2, RanksOrders
<1>4. \A t \in totals : t = WholeOf(t.ad, rows) /\ t.ad \in shown
  <2> SUFFICES ASSUME NEW t \in totals
               PROVE  t = WholeOf(t.ad, rows) /\ t.ad \in shown
    OBVIOUS
  <2>1. PICK a \in shown : t = WholeOf(a, rows)
    OBVIOUS
  <2>2. t.ad = a
    BY <2>1, WholeFacts
  <2> QED
    BY <2>1, <2>2
<1>5. \A a \in shown : WholeOf(a, rows) \in totals /\ WholeOf(a, rows).ad = a
  BY WholeFacts
<1>6. full \in [1 .. n -> totals] /\ InOrder(full)
  <2> HIDE DEF R, totals, full
  <2>1. PICK s \in [1 .. n -> totals] : \A i, j \in DOMAIN s : i < j => <<s[i], s[j]>> \in R
    BY <1>1, <1>3, SortExists
  <2>2. InOrder(s)
    BY <1>2, <2>1
  <2> QED
    BY <2>1, <2>2 DEF full
<1>7. ranked = SubSeq(full, 1, k)
  <2> DEFINE Numbers(r, a) == [ad |-> a, impressions |-> Total({m \in r : m.ad = a}, "impressions"),
                               clicks |-> Total({m \in r : m.ad = a}, "clicks")]
             Of(r) == {Numbers(r, a) : a \in {m.ad : m \in r} \cap ads}
             First(s) == SubSeq(s, 1, IF Len(s) < TopN THEN Len(s) ELSE TopN)
             Put(t) == First(Sorted(t, RanksBefore))
  <2>1. ranked = Put(Of(InPeriod(rows, period)))
    BY DEF RankAds
  <2>2. Of(rows) = totals
    <3>1. \A a \in shown : Numbers(rows, a) = WholeOf(a, rows)
      BY WholeFacts
    <3>2. shown \cap ads = shown
      OBVIOUS
    <3> HIDE DEF Numbers
    <3> QED
      BY <3>1, <3>2
  <2>3. Sorted(totals, RanksBefore) = full
    BY DEF Sorted
  <2>4. Len(full) = n
    BY <1>1, <1>6
  <2>5. First(full) = SubSeq(full, 1, k)
    <3> HIDE DEF full, n
    <3> QED
      BY <2>4
  <2>6. Put(totals) = First(full)
    <3> HIDE DEF full, First
    <3> QED
      BY <2>3
  <2> HIDE DEF Put, Of, full, k, ranked
  <2> QED
    BY <2>1, <2>2, <2>5, <2>6
<1> HIDE DEF full, totals, R
<1>8. \A x \in totals : \E i \in 1 .. n : full[i] = x
  <2>1. \A i, j \in 1 .. n : i < j => full[i] # full[j]
    BY <1>3, <1>6
  <2> QED
    BY <1>1, <1>6, <2>1, SortedOnto
<1>9. k \in Nat /\ k <= n /\ (k = TopN \/ k = n)
  BY <1>1, ReportsAssumption
<1> HIDE DEF n, k, ranked
<1>10. /\ DOMAIN ranked = 1 .. k /\ Len(ranked) = k
       /\ \A i \in 1 .. k : i \in 1 .. n /\ ranked[i] = full[i]
  <2>1. full \in Seq(totals) /\ Len(full) = n
    BY <1>1, <1>6
  <2> QED
    BY <1>1, <1>7, <1>9, <2>1
<1>11. \A i, j \in 1 .. n : i < j => /\ ~Higher(Ctr(full[j]), Ctr(full[i]))
                                    /\ full[i].ad # full[j].ad
  BY <1>3, <1>6
<1>12. \A i \in 1 .. k : ranked[i].ad \in shown /\ ranked[i] = WholeOf(ranked[i].ad, rows)
  BY <1>4, <1>6, <1>10
<1>13. \A i, j \in 1 .. k : i < j => ranked[i].ad # ranked[j].ad
                                  /\ ~Higher(Ctr(ranked[j]), Ctr(ranked[i]))
  BY <1>10, <1>11
<1>14. ASSUME NEW a \in shown \ {ranked[i].ad : i \in 1 .. k}
       PROVE  /\ Len(ranked) = TopN
              /\ \A i \in 1 .. k : ~Higher(Ctr(WholeOf(a, rows)), Ctr(ranked[i]))
  <2>1. PICK j \in 1 .. n : full[j] = WholeOf(a, rows)
    BY <1>5, <1>8
  <2>2. j \notin 1 .. k
    <3>1. full[j].ad = a
      BY <1>5, <2>1
    <3> QED
      BY <1>10, <3>1
  <2>3. k < j /\ k # n
    BY <1>1, <1>9, <2>2
  <2>4. \A i \in 1 .. k : i < j
    BY <1>1, <1>9, <2>3
  <2> QED
    BY <1>9, <1>10, <1>11, <2>1, <2>3, <2>4
<1> QED
  BY <1>10, <1>12, <1>13, <1>14 DEF ranked
=============================================================================
