--------------------------- MODULE ReadQueriesProofs ---------------------------
(***************************************************************************)
(* Theorems about the read-only tools, for every set of scenarios and any  *)
(* number of changes by others.                                            *)
(***************************************************************************)
EXTENDS ReadQueries, PaginationProofs, FiniteSetTheorems, SequenceTheorems

-----------------------------------------------------------------------------
(* Sums and maxima of the values of a function: a fold that takes one       *)
(* element of a set after the other is well defined on a finite set.        *)

\* A non-empty set of numbers has a least one.
LEMMA LeastNumber ==
  ASSUME NEW I \in SUBSET Nat, I # {}
  PROVE  \E i \in I : \A j \in I : i <= j
<1> DEFINE R == {ss \in Nat \X Nat : ss[1] < ss[2]}
<1>1. IsWellFoundedOn(R, Nat)
  BY NatLessThanWellFounded DEF OpToRel
<1>2. \A i, j \in Nat : <<j, i>> \notin R => i <= j
  OBVIOUS
<1> HIDE DEF R
<1>3. PICK i \in I : \A j \in I : <<j, i>> \notin R
  BY <1>1, WFMin
<1> QED
  BY <1>2, <1>3

\* What zero has and the next number keeps, every number has.
LEMMA NumbersFromZero ==
  ASSUME NEW P \in SUBSET Nat, 0 \in P, \A n \in P : n + 1 \in P
  PROVE  P = Nat
<1> SUFFICES ASSUME Nat \ P # {} PROVE FALSE
  OBVIOUS
<1>1. PICK n \in Nat \ P : \A j \in Nat \ P : n <= j
  BY LeastNumber
<1>2. n - 1 \in Nat /\ n - 1 \in P
  BY <1>1
<1> QED
  BY <1>1, <1>2

\* The element that a fold takes next.
Next1(t) == CHOOSE x \in t : TRUE
Rest(t) == t \ {Next1(t)}

LEMMA RestIsSmaller ==
  ASSUME NEW S, IsFiniteSet(S), NEW t \in SUBSET S, t # {}
  PROVE  /\ Next1(t) \in t /\ Rest(t) \in SUBSET S
         /\ Cardinality(t) \in Nat /\ Cardinality(Rest(t)) \in Nat
         /\ Cardinality(Rest(t)) = Cardinality(t) - 1
<1>1. Next1(t) \in t
  BY DEF Next1
<1>2. IsFiniteSet(t)
  BY FS_Subset
<1> QED
  BY <1>1, <1>2, FS_RemoveElement, FS_CardinalityType DEF Rest

\* What the empty set has, and a set has if all those with one element less do,
\* every subset of a finite set has.
LEMMA SetByRemovals ==
  ASSUME NEW S, IsFiniteSet(S), NEW P \in SUBSET SUBSET S, {} \in P,
         \A t \in SUBSET S : t # {} /\ (\A x \in t : t \ {x} \in P) => t \in P
  PROVE  P = SUBSET S
<1> DEFINE N == {n \in Nat : \A t \in SUBSET S : Cardinality(t) <= n => t \in P}
<1>1. \A t \in SUBSET S : IsFiniteSet(t) /\ Cardinality(t) \in Nat
  BY FS_Subset, FS_CardinalityType
<1>2. 0 \in N
  <2>1. \A t \in SUBSET S : Cardinality(t) <= 0 => t = {}
    BY <1>1, FS_EmptySet
  <2>. QED
    BY <2>1
<1>3. ASSUME NEW n \in N PROVE n + 1 \in N
  <2>1. ASSUME NEW t \in SUBSET S, Cardinality(t) <= n + 1, t # {} PROVE t \in P
    <3>1. ASSUME NEW x \in t PROVE t \ {x} \in P
      <4>1. Cardinality(t \ {x}) = Cardinality(t) - 1
        BY <1>1, FS_RemoveElement
      <4>2. Cardinality(t \ {x}) <= n /\ t \ {x} \in SUBSET S
        BY <1>1, <2>1, <4>1
      <4>. QED
        BY <4>2
    <3>. QED
      BY <2>1, <3>1
  <2>2. ASSUME NEW t \in SUBSET S, Cardinality(t) <= n + 1 PROVE t \in P
    BY <2>1, <2>2
  <2>. QED
    BY <2>2
<1>4. N = Nat
  <2> HIDE DEF N
  <2>1. N \in SUBSET Nat
    BY DEF N
  <2>. QED
    BY <1>2, <1>3, <2>1, NumbersFromZero
<1>5. ASSUME NEW t \in SUBSET S PROVE t \in P
  <2>1. Cardinality(t) \in N
    BY <1>1, <1>4
  <2>. QED
    BY <2>1, <1>1
<1> QED
  BY <1>5

\* It is enough to take away one of them.
LEMMA SetByElements ==
  ASSUME NEW S, IsFiniteSet(S), NEW P \in SUBSET SUBSET S, {} \in P,
         \A t \in SUBSET S : t # {} /\ Rest(t) \in P => t \in P
  PROVE  P = SUBSET S
<1>1. ASSUME NEW t \in SUBSET S, t # {}, \A x \in t : t \ {x} \in P
      PROVE  t \in P
  BY <1>1, RestIsSmaller DEF Rest
<1> QED
  BY <1>1, SetByRemovals

\* A fold by h of the subsets of S.
FoldsBy(S, h, g) ==
  \A t \in SUBSET S : g[t] = IF t = {} THEN 0 ELSE h[<<t, g[Rest(t)]>>]

\* There is a function that a fold's definition asks for.
LEMMA FoldExists ==
  ASSUME NEW S, IsFiniteSet(S), NEW h \in [(SUBSET S) \X Nat -> Nat]
  PROVE  \E g \in [SUBSET S -> Nat] : FoldsBy(S, h, g)
<1> DEFINE Upto(n) == {t \in SUBSET S : Cardinality(t) <= n}
           Folds(n, g) ==
             \A t \in Upto(n) : g[t] = IF t = {} THEN 0 ELSE h[<<t, g[Rest(t)]>>]
           N == {n \in Nat : \E g \in [Upto(n) -> Nat] : Folds(n, g)}
<1>1. \A t \in SUBSET S : IsFiniteSet(t) /\ Cardinality(t) \in Nat
  BY FS_Subset, FS_CardinalityType
<1>2. 0 \in N
  <2>1. \A t \in Upto(0) : t = {}
    BY <1>1, FS_EmptySet
  <2>2. [t \in Upto(0) |-> 0] \in [Upto(0) -> Nat]
    OBVIOUS
  <2>3. Folds(0, [t \in Upto(0) |-> 0])
    BY <2>1
  <2>. QED
    BY <2>2, <2>3
<1>3. ASSUME NEW n \in N PROVE n + 1 \in N
  <2>1. PICK g \in [Upto(n) -> Nat] : Folds(n, g)
    BY <1>3
  <2> DEFINE k == [t \in Upto(n + 1) |-> IF t = {} THEN 0 ELSE h[<<t, g[Rest(t)]>>]]
  <2>2. \A t \in Upto(n + 1) : t # {} => Rest(t) \in Upto(n)
    BY RestIsSmaller, <1>1
  <2>3. Upto(n) \subseteq Upto(n + 1)
    BY <1>1
  <2>4. \A t \in Upto(n) : k[t] = g[t]
    BY <2>1, <2>3
  <2>5. k \in [Upto(n + 1) -> Nat]
    <3>1. ASSUME NEW t \in Upto(n + 1), t # {} PROVE h[<<t, g[Rest(t)]>>] \in Nat
      <4>1. g[Rest(t)] \in Nat
        BY <2>1, <2>2, <3>1
      <4>. QED
        BY <4>1
    <3>. QED
      BY <3>1
  <2>6. Folds(n + 1, k)
    BY <2>2, <2>4
  <2> HIDE DEF k, Folds, Upto
  <2>. QED
    BY <2>5, <2>6
<1>4. N = Nat
  <2>1. N \in SUBSET Nat
    OBVIOUS
  <2> HIDE DEF N
  <2>. QED
    BY <1>2, <1>3, <2>1, NumbersFromZero
<1>5. Cardinality(S) \in N
  BY <1>1, <1>4
<1>6. Upto(Cardinality(S)) = SUBSET S
  BY FS_Subset, <1>1
<1> QED
  BY <1>5, <1>6 DEF FoldsBy

\* And only one.
LEMMA FoldUnique ==
  ASSUME NEW S, IsFiniteSet(S), NEW a, NEW b,
         \A t \in SUBSET S : (t # {} => a[Rest(t)] = b[Rest(t)]) => a[t] = b[t]
  PROVE  \A t \in SUBSET S : a[t] = b[t]
<1> DEFINE P == {t \in SUBSET S : a[t] = b[t]}
<1>1. {} \in P /\ \A t \in SUBSET S : t # {} /\ Rest(t) \in P => t \in P
  OBVIOUS
<1>2. P \in SUBSET SUBSET S
  OBVIOUS
<1> HIDE DEF P
<1>3. P = SUBSET S
  BY <1>1, <1>2, SetByElements
<1> QED
  BY <1>3 DEF P

\* The sums of the values on the subsets of the domain.
SumsOf(f, g) ==
  \A t \in SUBSET DOMAIN f : g[t] = IF t = {} THEN 0 ELSE f[Next1(t)] + g[Rest(t)]

LEMMA SumIsFold ==
  ASSUME NEW S, IsFiniteSet(S), NEW f \in [S -> Nat]
  PROVE  \E g \in [SUBSET S -> Nat] : SumsOf(f, g) /\ SumOf(f) = g[S]
<1> DEFINE Recursive(g) ==
             g = [t \in SUBSET S |->
                    IF t = {} THEN 0
                    ELSE LET x == CHOOSE x \in t : TRUE IN f[x] + g[t \ {x}]]
           h == [p \in (SUBSET S) \X Nat |->
                   IF p[1] = {} THEN 0 ELSE f[Next1(p[1])] + p[2]]
<1>1. \A t \in SUBSET S : t # {} => Next1(t) \in S
  BY DEF Next1
<1>2. h \in [(SUBSET S) \X Nat -> Nat]
  BY <1>1
<1>3. PICK g \in [SUBSET S -> Nat] : FoldsBy(S, h, g)
  <2> HIDE DEF h
  <2>. QED
    BY <1>2, FoldExists
<1>4. \A t \in SUBSET S : g[t] = IF t = {} THEN 0 ELSE f[Next1(t)] + g[Rest(t)]
  <2>1. \A t \in SUBSET S : t # {} => Rest(t) \in SUBSET S
    BY DEF Rest
  <2>2. \A t \in SUBSET S : t # {} =>
          h[<<t, g[Rest(t)]>>] = f[Next1(t)] + g[Rest(t)]
    BY <2>1
  <2>. QED
    BY <1>3, <2>2 DEF FoldsBy
<1>5. Recursive(g)
  BY <1>4 DEF Rest, Next1
<1>6. SumOf(f) = (CHOOSE k : Recursive(k))[S]
  BY DEF SumOf, FoldFunction, FoldFunctionOnSet, MapThenFoldSet
<1>7. PICK k : k = (CHOOSE a : Recursive(a)) /\ Recursive(k)
  <2> HIDE DEF Recursive
  <2>. QED
    BY <1>5
<1>8. \A t \in SUBSET S : k[t] = IF t = {} THEN 0 ELSE f[Next1(t)] + k[Rest(t)]
  BY <1>7 DEF Rest, Next1
<1>9. \A t \in SUBSET S : (t # {} => k[Rest(t)] = g[Rest(t)]) => k[t] = g[t]
  BY <1>4, <1>8
<1>10. \A t \in SUBSET S : k[t] = g[t]
  BY <1>9, FoldUnique
<1> QED
  BY <1>4, <1>6, <1>7, <1>10 DEF SumsOf

LEMMA SumIsNumber ==
  ASSUME NEW S, IsFiniteSet(S), NEW f \in [S -> Nat]
  PROVE  SumOf(f) \in Nat
<1>1. \E g \in [SUBSET S -> Nat] : SumsOf(f, g) /\ SumOf(f) = g[S]
  BY SumIsFold
<1>2. PICK g \in [SUBSET S -> Nat] : SumsOf(f, g) /\ SumOf(f) = g[S]
  BY <1>1
<1>3. S \in SUBSET S
  OBVIOUS
<1>. QED
  BY <1>2, <1>3

\* The maxima of the values on the subsets of the domain.
MaximaOf(f, g) ==
  \A t \in SUBSET DOMAIN f :
    g[t] = IF t = {} THEN 0 ELSE QuantityMax(f[Next1(t)], g[Rest(t)])

LEMMA MaxIsFold ==
  ASSUME NEW S, IsFiniteSet(S), NEW f \in [S -> Nat]
  PROVE  \E g \in [SUBSET S -> Nat] : MaximaOf(f, g) /\ Largest(f) = g[S]
<1> DEFINE Recursive(g) ==
             g = [t \in SUBSET S |->
                    IF t = {} THEN 0
                    ELSE LET x == CHOOSE x \in t : TRUE IN QuantityMax(f[x], g[t \ {x}])]
           h == [p \in (SUBSET S) \X Nat |->
                   IF p[1] = {} THEN 0 ELSE QuantityMax(f[Next1(p[1])], p[2])]
<1>1. \A t \in SUBSET S : t # {} => Next1(t) \in S
  BY DEF Next1
<1>2. h \in [(SUBSET S) \X Nat -> Nat]
  BY <1>1 DEF QuantityMax
<1>3. PICK g \in [SUBSET S -> Nat] : FoldsBy(S, h, g)
  <2> HIDE DEF h
  <2>. QED
    BY <1>2, FoldExists
<1>4. \A t \in SUBSET S : g[t] = IF t = {} THEN 0 ELSE QuantityMax(f[Next1(t)], g[Rest(t)])
  <2>1. \A t \in SUBSET S : t # {} => Rest(t) \in SUBSET S
    BY DEF Rest
  <2>2. \A t \in SUBSET S : t # {} =>
          h[<<t, g[Rest(t)]>>] = QuantityMax(f[Next1(t)], g[Rest(t)])
    BY <2>1
  <2>. QED
    BY <1>3, <2>2 DEF FoldsBy
<1>5. Recursive(g)
  BY <1>4 DEF Rest, Next1
<1>6. Largest(f) = (CHOOSE k : Recursive(k))[S]
  BY DEF Largest, FoldFunction, FoldFunctionOnSet, MapThenFoldSet
<1>7. PICK k : k = (CHOOSE a : Recursive(a)) /\ Recursive(k)
  <2> HIDE DEF Recursive
  <2>. QED
    BY <1>5
<1>8. \A t \in SUBSET S : k[t] = IF t = {} THEN 0 ELSE QuantityMax(f[Next1(t)], k[Rest(t)])
  BY <1>7 DEF Rest, Next1
<1>9. \A t \in SUBSET S : (t # {} => k[Rest(t)] = g[Rest(t)]) => k[t] = g[t]
  BY <1>4, <1>8
<1>10. \A t \in SUBSET S : k[t] = g[t]
  BY <1>9, FoldUnique
<1>11. S \in SUBSET S
  OBVIOUS
<1> QED
  BY <1>4, <1>6, <1>7, <1>10, <1>11 DEF MaximaOf

\* The largest value, or zero.
LEMMA LargestIs ==
  ASSUME NEW S, IsFiniteSet(S), NEW f \in [S -> Nat]
  PROVE  /\ Largest(f) \in Nat
         /\ \A x \in S : f[x] <= Largest(f)
         /\ Largest(f) = 0 \/ \E x \in S : Largest(f) = f[x]
<1>1. PICK g \in [SUBSET S -> Nat] : MaximaOf(f, g) /\ Largest(f) = g[S]
  BY MaxIsFold
<1> DEFINE Bounds(t) == \A x \in t : f[x] <= g[t]
           Met(t) == g[t] = 0 \/ \E x \in t : g[t] = f[x]
           P == {t \in SUBSET S : Bounds(t) /\ Met(t)}
<1>2. {} \in P
  BY <1>1 DEF MaximaOf
<1>3. ASSUME NEW t \in SUBSET S, t # {}, Rest(t) \in P
      PROVE  t \in P
  <2>1. Next1(t) \in t /\ t = Rest(t) \cup {Next1(t)} /\ Rest(t) \in SUBSET S
    <3>1. Next1(t) \in t /\ Rest(t) \in SUBSET S
      BY <1>3, RestIsSmaller
    <3>. QED
      BY <3>1 DEF Rest
  <2>2. g[t] = QuantityMax(f[Next1(t)], g[Rest(t)])
    BY <1>1, <1>3 DEF MaximaOf
  <2>3. f[Next1(t)] \in Nat /\ g[Rest(t)] \in Nat /\ g[t] \in Nat
    BY <1>1, <2>1
  <2>4. /\ \A x \in Rest(t) : f[x] <= g[Rest(t)]
        /\ g[Rest(t)] = 0 \/ \E x \in Rest(t) : g[Rest(t)] = f[x]
    BY <1>3
  <2>5. f[Next1(t)] <= g[t] /\ g[Rest(t)] <= g[t]
    BY <2>2, <2>3 DEF QuantityMax
  <2>6. ASSUME NEW x \in t PROVE f[x] <= g[t]
    <3>1. CASE x = Next1(t)
      BY <2>5, <3>1
    <3>2. CASE x \in Rest(t)
      <4>1. f[x] \in Nat /\ f[x] <= g[Rest(t)]
        BY <2>4, <3>2
      <4>. QED
        BY <2>3, <2>5, <4>1
    <3>. QED
      BY <2>1, <3>1, <3>2
  <2>7. g[t] = f[Next1(t)] \/ g[t] = g[Rest(t)]
    BY <2>2 DEF QuantityMax
  <2>8. Bounds(t) /\ Met(t)
    BY <2>1, <2>4, <2>6, <2>7
  <2>. QED
    BY <2>8
<1>4. P \in SUBSET SUBSET S
  OBVIOUS
<1>5. P = SUBSET S
  <2> HIDE DEF P
  <2>. QED
    BY <1>2, <1>3, <1>4, SetByElements
<1>6. S \in P
  BY <1>5
<1>. QED
  BY <1>1, <1>6

\* A sum may start with any element.
TakesAny(f, g) ==
  /\ g[{}] = 0
  /\ \A t \in SUBSET DOMAIN f : \A x \in t : g[t] = f[x] + g[t \ {x}]

LEMMA SumTakesAny ==
  ASSUME NEW S, IsFiniteSet(S), NEW f \in [S -> Nat]
  PROVE  \E g \in [SUBSET S -> Nat] : TakesAny(f, g) /\ SumOf(f) = g[S]
<1>1. PICK g \in [SUBSET S -> Nat] : SumsOf(f, g) /\ SumOf(f) = g[S]
  BY SumIsFold
<1> DEFINE P == {t \in SUBSET S : \A x \in t : g[t] = f[x] + g[t \ {x}]}
<1>2. {} \in P
  OBVIOUS
<1>3. ASSUME NEW t \in SUBSET S, t # {}, \A x \in t : t \ {x} \in P
      PROVE  t \in P
  <2>1. PICK c \in t : c = Next1(t)
    BY <1>3, RestIsSmaller
  <2>2. g[t] = f[c] + g[t \ {c}]
    BY <1>1, <1>3, <2>1 DEF SumsOf, Rest
  <2>3. ASSUME NEW x \in t, x # c
        PROVE  g[t] = f[x] + g[t \ {x}]
    <3>1. x \in t \ {c} /\ c \in t \ {x} /\ (t \ {x}) \ {c} = (t \ {c}) \ {x}
      BY <2>3
    <3>2. g[t \ {c}] = f[x] + g[(t \ {c}) \ {x}]
      BY <1>3, <3>1
    <3>3. g[t \ {x}] = f[c] + g[(t \ {x}) \ {c}]
      BY <1>3, <3>1
    <3>4. f[x] \in Nat /\ f[c] \in Nat /\ g[(t \ {c}) \ {x}] \in Nat
      BY <1>1
    <3>5. g[(t \ {x}) \ {c}] = g[(t \ {c}) \ {x}]
      BY <3>1
    <3>. QED
      BY <2>2, <3>2, <3>3, <3>4, <3>5
  <2>. QED
    BY <2>2, <2>3
<1>4. P \in SUBSET SUBSET S
  OBVIOUS
<1>5. P = SUBSET S
  <2> HIDE DEF P
  <2>. QED
    BY <1>2, <1>3, <1>4, SetByRemovals
<1>. QED
  BY <1>1, <1>5 DEF TakesAny, SumsOf

\* Things that correspond one by one, with the same values, have the same sum.
LEMMA SumOfImage ==
  ASSUME NEW S, IsFiniteSet(S), NEW f \in [S -> Nat],
         NEW T, NEW h \in [T -> Nat], NEW b \in [S -> T],
         \A y \in T : \E x \in S : b[x] = y,
         \A x, y \in S : b[x] = b[y] => x = y,
         \A x \in S : h[b[x]] = f[x]
  PROVE  /\ IsFiniteSet(T) /\ Cardinality(T) = Cardinality(S)
         /\ SumOf(h) = SumOf(f)
<1>1. IsFiniteSet(T) /\ Cardinality(T) = Cardinality(S)
  <2>1. b \in Bijection(S, T)
    BY DEF Bijection, Injection, IsInjective, Surjection
  <2>2. ExistsBijection(S, T)
    BY <2>1 DEF ExistsBijection
  <2>. QED
    BY <2>2, FS_Bijection
<1>2. PICK g \in [SUBSET S -> Nat] : TakesAny(f, g) /\ SumOf(f) = g[S]
  BY SumTakesAny
<1>3. PICK k \in [SUBSET T -> Nat] : TakesAny(h, k) /\ SumOf(h) = k[T]
  BY <1>1, SumTakesAny
<1> DEFINE Image(t) == {b[x] : x \in t}
           P == {t \in SUBSET S : g[t] = k[Image(t)]}
<1>4. {} \in P
  <2>1. Image({}) = {}
    OBVIOUS
  <2>. QED
    BY <1>2, <1>3, <2>1 DEF TakesAny
<1>5. ASSUME NEW t \in SUBSET S, t # {}, \A x \in t : t \ {x} \in P
      PROVE  t \in P
  <2>1. PICK x \in t : t \ {x} \in P
    BY <1>5
  <2>2. Image(t \ {x}) = Image(t) \ {b[x]} /\ b[x] \in Image(t) /\ Image(t) \in SUBSET T
    OBVIOUS
  <2>3. g[t] = f[x] + g[t \ {x}]
    BY <1>2 DEF TakesAny
  <2>4. k[Image(t)] = h[b[x]] + k[Image(t) \ {b[x]}]
    <3> HIDE DEF Image
    <3>. QED
      BY <1>3, <2>2 DEF TakesAny
  <2>5. g[t \ {x}] = k[Image(t \ {x})] /\ h[b[x]] = f[x]
    BY <2>1
  <2> HIDE DEF Image
  <2>. QED
    BY <2>2, <2>3, <2>4, <2>5
<1>6. P \in SUBSET SUBSET S
  OBVIOUS
<1>7. P = SUBSET S
  <2> HIDE DEF P
  <2>. QED
    BY <1>4, <1>5, <1>6, SetByRemovals
<1>8. S \in P /\ Image(S) = T
  BY <1>7
<1>. QED
  BY <1>1, <1>2, <1>3, <1>8

\* One element more.
LEMMA SumOneMore ==
  ASSUME NEW S, IsFiniteSet(S), NEW x, x \notin S,
         NEW f \in [S \cup {x} -> Nat]
  PROVE  SumOf(f) = SumOf([y \in S |-> f[y]]) + f[x]
<1> DEFINE T == S \cup {x}
           h == [y \in S |-> f[y]]
<1>1. IsFiniteSet(T)
  BY FS_AddElement
<1>2. PICK g \in [SUBSET T -> Nat] : TakesAny(f, g) /\ SumOf(f) = g[T]
  BY <1>1, SumTakesAny
<1>3. h \in [S -> Nat]
  OBVIOUS
<1>4. PICK k \in [SUBSET S -> Nat] : TakesAny(h, k) /\ SumOf(h) = k[S]
  <2> HIDE DEF h
  <2>. QED
    BY <1>3, SumTakesAny
<1> DEFINE P == {t \in SUBSET S : g[t] = k[t]}
<1>5. {} \in P
  BY <1>2, <1>4 DEF TakesAny
<1>6. ASSUME NEW t \in SUBSET S, t # {}, \A y \in t : t \ {y} \in P
      PROVE  t \in P
  <2>1. PICK y \in t : g[t \ {y}] = k[t \ {y}]
    BY <1>6
  <2>2. g[t] = f[y] + g[t \ {y}]
    BY <1>2 DEF TakesAny
  <2>3. k[t] = h[y] + k[t \ {y}]
    BY <1>4 DEF TakesAny
  <2>. QED
    BY <2>1, <2>2, <2>3
<1>7. P \in SUBSET SUBSET S
  OBVIOUS
<1>8. P = SUBSET S
  <2>1. \A t \in SUBSET S : t # {} /\ (\A y \in t : t \ {y} \in P) => t \in P
    BY <1>6
  <2> HIDE DEF P
  <2>. QED
    BY <1>5, <1>7, <2>1, SetByRemovals
<1>9. g[T] = f[x] + g[S]
  <2>1. T \ {x} = S
    OBVIOUS
  <2>. QED
    BY <1>2, <2>1 DEF TakesAny
<1>10. g[S] = k[S] /\ k[S] \in Nat /\ f[x] \in Nat
  <2>1. S \in P
    BY <1>8
  <2>. QED
    BY <1>4, <2>1
<1>. QED
  BY <1>2, <1>4, <1>9, <1>10

-----------------------------------------------------------------------------
(* Finite sets as sequences.                                                *)

LEMMA Enumerated ==
  ASSUME NEW S, IsFiniteSet(S)
  PROVE  /\ Cardinality(S) \in Nat
         /\ SetToSeq(S) \in [1..Cardinality(S) -> S]
         /\ SetToSeq(S) \in Seq(S)
         /\ IsInjective(SetToSeq(S))
         /\ \A x \in S : \E k \in DOMAIN SetToSeq(S) : SetToSeq(S)[k] = x
<1> DEFINE n == Cardinality(S)
           s == SetToSeq(S)
<1>1. n \in Nat /\ ExistsBijection(1..n, S)
  BY FS_CardinalityType
<1>2. \E f \in [1..n -> S] : IsInjective(f)
  BY <1>1 DEF ExistsBijection, Bijection, Injection, IsInjective
<1>3. s \in [1..n -> S] /\ IsInjective(s)
  <2> HIDE DEF n
  <2>1. s = CHOOSE f \in [1..n -> S] : IsInjective(f)
    BY DEF SetToSeq, n
  <2> HIDE DEF s
  <2>. QED
    BY <1>2, <2>1
<1>4. s \in Injection(1..n, S)
  BY <1>3 DEF Injection, IsInjective
<1>5. s \in Surjection(1..n, S)
  <2> HIDE DEF s
  <2>1. IsFiniteSet(1..n) /\ Cardinality(1..n) = n
    BY <1>1, FS_Interval
  <2>. QED
    BY <1>4, <2>1, FS_Injection
<1> QED
  BY <1>1, <1>3, <1>5 DEF Surjection

\* The relation order orders the elements of S.
Orders(S, order) ==
  /\ \A x \in S : <<x, x>> \notin order
  /\ \A x, y, z \in S : <<x, y>> \in order /\ <<y, z>> \in order => <<x, z>> \in order
  /\ \A x, y \in S : x = y \/ <<x, y>> \in order \/ <<y, x>> \in order

LEMMA PutInOrder ==
  ASSUME NEW S, IsFiniteSet(S), NEW order, Orders(S, order)
  PROVE  /\ Cardinality(S) \in Nat
         /\ InOrder(S, order) \in [1..Cardinality(S) -> S]
         /\ \A x \in S :
              LET place == Cardinality({y \in S : <<y, x>> \in order}) IN
              /\ place \in 0..Cardinality(S) - 1
              /\ \A k \in 1..Cardinality(S) : InOrder(S, order)[k] = x <=> k = place + 1
<1> DEFINE n == Cardinality(S)
           Below(x) == {y \in S : <<y, x>> \in order}
           place(x) == Cardinality(Below(x))
           f == [x \in S |-> place(x)]
<1>1. n \in Nat
  BY FS_CardinalityType
<1>2. \A x \in S : IsFiniteSet(Below(x)) /\ place(x) \in Nat
  BY FS_Subset, FS_CardinalityType
<1>3. \A x \in S : place(x) < n
  <2>1. ASSUME NEW x \in S PROVE place(x) < n
    <3>1. Below(x) \in SUBSET S /\ x \notin Below(x)
      BY DEF Orders
    <3>2. place(x) <= n /\ place(x) # n
      BY <3>1, FS_Subset
    <3>. QED
      BY <3>2, <1>1, <1>2
  <2>. QED
    BY <2>1
<1>4. ASSUME NEW x \in S, NEW y \in S, <<x, y>> \in order PROVE place(x) < place(y)
  <2>1. Below(x) \in SUBSET Below(y)
    BY <1>4 DEF Orders
  <2>2. x \in Below(y) /\ x \notin Below(x)
    BY <1>4 DEF Orders
  <2>3. place(x) <= place(y) /\ place(x) # place(y)
    BY <2>1, <2>2, <1>2, FS_Subset
  <2>. QED
    BY <2>3, <1>2
<1>5. n = Cardinality(S) /\ \A x \in S : place(x) = Cardinality({y \in S : <<y, x>> \in order})
  OBVIOUS
<1>6. \A k \in 1..n : InOrder(S, order)[k] = CHOOSE x \in S : place(x) = k - 1
  BY DEF InOrder
<1>7. InOrder(S, order) = [k \in 1..n |-> CHOOSE x \in S : place(x) = k - 1]
  BY DEF InOrder
<1>a. \A x \in S : place(x) \in Nat /\ place(x) < n
  BY <1>2, <1>3
<1> HIDE DEF place, n, Below
<1>8. \A x, y \in S : place(x) = place(y) => x = y
  <2>1. ASSUME NEW x \in S, NEW y \in S, place(x) = place(y), x # y PROVE FALSE
    <3>1. <<x, y>> \in order \/ <<y, x>> \in order
      BY <2>1 DEF Orders
    <3>2. place(x) \in Nat /\ place(y) \in Nat
      BY <1>a
    <3>3. place(x) < place(y) \/ place(y) < place(x)
      BY <3>1, <1>4
    <3>. QED
      BY <2>1, <3>2, <3>3
  <2>. QED
    BY <2>1
<1>9. f \in [S -> 0..n-1]
  BY <1>1, <1>a
<1>10. f \in Injection(S, 0..n-1)
  BY <1>8, <1>9 DEF Injection, IsInjective
<1>11. f \in Surjection(S, 0..n-1)
  <2>1. IsFiniteSet(0..n-1) /\ Cardinality(0..n-1) = n
    BY <1>1, FS_Interval
  <2> HIDE DEF f
  <2>. QED
    BY <1>10, <2>1, FS_Injection DEF n
<1>12. ASSUME NEW k \in 1..n PROVE \E x \in S : place(x) = k - 1
  <2>1. k - 1 \in 0..n-1
    BY <1>1
  <2>2. PICK x \in S : f[x] = k - 1
    BY <1>11, <2>1 DEF Surjection
  <2>. QED
    BY <2>2
<1>13. ASSUME NEW k \in 1..n
       PROVE  InOrder(S, order)[k] \in S /\ place(InOrder(S, order)[k]) = k - 1
  BY <1>6, <1>12
<1>14. InOrder(S, order) \in [1..n -> S]
  <2>1. \A k \in 1..n : (CHOOSE x \in S : place(x) = k - 1) \in S
    BY <1>12
  <2>. QED
    BY <1>7, <2>1
<1>15. \A x \in S : \A k \in 1..n : InOrder(S, order)[k] = x <=> k = place(x) + 1
  <2>1. ASSUME NEW x \in S, NEW k \in 1..n, InOrder(S, order)[k] = x PROVE k = place(x) + 1
    BY <2>1, <1>13, <1>1
  <2>2. ASSUME NEW x \in S, NEW k \in 1..n, k = place(x) + 1 PROVE InOrder(S, order)[k] = x
    <3>1. place(InOrder(S, order)[k]) = place(x) /\ InOrder(S, order)[k] \in S
      BY <2>2, <1>13, <1>a
    <3>. QED
      BY <3>1, <1>8
  <2>. QED
    BY <2>1, <2>2
<1>16. \A x \in S : place(x) \in 0..n-1
  BY <1>1, <1>a
<1> QED
  BY <1>1, <1>5, <1>14, <1>15, <1>16

-----------------------------------------------------------------------------
(* Types of the requests.                                                   *)

LEMMA WordsAreStrings ==
  /\ "" \in Strings
  /\ "local" \in Strings
  /\ "fleet-local" \in Strings
  /\ "fleet-default" \in Strings
  /\ "provisioningcluster" \in Strings
  /\ "managementcluster" \in Strings
  /\ "capicluster" \in Strings
  /\ "machineconfig" \in Strings
  /\ "machinedeployment" \in Strings
  /\ "machineset" \in Strings
  /\ "machine" \in Strings
  /\ "gitrepo" \in Strings
  /\ "bundle" \in Strings
  /\ "k3kcluster" \in Strings
  /\ "pod" \in Strings
  /\ "pods/log" \in Strings
  /\ "podmetrics" \in Strings
  /\ "replicaset" \in Strings
  /\ "deployment" \in Strings
  /\ "node" \in Strings
  /\ "nodemetrics" \in Strings
  /\ "namespace" \in Strings
  /\ "project" \in Strings
  /\ "user" \in Strings
  /\ "roletemplate" \in Strings
  /\ "clusterroletemplatebinding" \in Strings
  /\ "projectroletemplatebinding" \in Strings
BY StringAssumption DEF Words

Missing == {"fail", "skip", "end", "search", "any"}
Owners == [kind : Strings, name : Strings]

LEMMA GetTyped ==
  ASSUME NEW cluster \in Strings, NEW kind \in Strings, NEW namespace \in Strings,
         NEW name \in Strings, NEW missing \in Missing
  PROVE  Get(cluster, kind, namespace, name, missing) \in Requests
BY WordsAreStrings DEF Get, Requests, Missing

LEMMA ListTyped ==
  ASSUME NEW cluster \in Strings, NEW kind \in Strings, NEW namespace \in Strings,
         NEW label \in Strings, NEW missing \in Missing
  PROVE  List(cluster, kind, namespace, label, missing) \in Requests
BY WordsAreStrings DEF List, Get, Requests, Missing

LEMMA FunctionIsSequence ==
  ASSUME NEW n \in Nat, NEW S, NEW f \in [1..n -> S]
  PROVE  f \in Seq(S) /\ Len(f) = n
OBVIOUS

LEMMA FewAreSequence ==
  ASSUME NEW S, NEW a \in S, NEW b \in S
  PROVE  /\ <<>> \in Seq(S) /\ <<a>> \in Seq(S) /\ <<a, b>> \in Seq(S)
         /\ <<a>> # <<>> /\ <<a, b>> # <<>>
OBVIOUS

LEMMA FewAre ==
  ASSUME NEW a, NEW b
  PROVE  /\ Range(<<>>) = {} /\ Range(<<a>>) = {a} /\ Range(<<a, b>>) = {a, b}
         /\ Head(<<a>>) = a /\ Tail(<<a>>) = <<>>
         /\ Head(<<a, b>>) = a /\ Tail(<<a, b>>) = <<b>>
<1>1. Range(<<a, b>>) = {a, b}
  <2>1. DOMAIN <<a, b>> = {1, 2} /\ <<a, b>>[1] = a /\ <<a, b>>[2] = b
    OBVIOUS
  <2>. QED
    BY <2>1 DEF Range
<1>. QED
  BY <1>1 DEF Range

LEMMA MachinesTyped ==
  ASSUME NEW cluster \in Strings, NEW namespace \in Strings
  PROVE  Machines(cluster, namespace) \in Seq(Requests) /\ Machines(cluster, namespace) # <<>>
<1>1. \A k \in 1..3 : CAPIKinds[k] \in {"machinedeployment", "machineset", "machine"}
  BY DEF CAPIKinds
<1>2. \A k \in 1..3 : List("local", CAPIKinds[k], namespace, cluster, "skip") \in Requests
  BY <1>1, WordsAreStrings, ListTyped DEF Missing
<1>3. DOMAIN CAPIKinds = 1..3
  BY DEF CAPIKinds
<1>4. Machines(cluster, namespace) \in [1..3 -> Requests]
  BY <1>2, <1>3 DEF Machines
<1>5. Machines(cluster, namespace) \in Seq(Requests) /\ Len(Machines(cluster, namespace)) = 3
  BY <1>4, FunctionIsSequence
<1>6. Len(<<>>) = 0 /\ Len(Machines(cluster, namespace)) # 0
  BY <1>5
<1>7. Machines(cluster, namespace) # <<>>
  BY <1>6, Zenon
<1>. QED
  BY <1>5, <1>7

LEMMA OneReadTyped ==
  ASSUME NEW q \in Queries, q.tool \in OneReadTools
  PROVE  OneRead(q) \in Requests
<1>1. q.cluster \in Strings /\ q.kind \in Strings /\ q.namespace \in Strings /\ q.name \in Strings
  BY DEF Queries
<1>. QED
  BY <1>1, WordsAreStrings, GetTyped, ListTyped DEF OneRead, OneReadTools, Missing

LEMMA FirstReadsAre ==
  ASSUME NEW q
  PROVE
  /\ q.tool = "analyzeCluster" =>
       FirstReads(q) = <<Get("local", "provisioningcluster", ClusterNamespace(q), q.cluster, "fail")>>
  /\ q.tool = "analyzeClusterMachines" => FirstReads(q) = Machines(q.cluster, MachineNamespace(q))
  /\ q.tool = "getClusterMachine" =>
       FirstReads(q) = <<Get("local", "machine", "fleet-default", q.name, "end")>>
  /\ q.tool = "inspectPod" =>
       FirstReads(q) = <<Get(q.cluster, "pod", q.namespace, q.name, "fail")>>
  /\ q.tool = "getDeploymentDetails" =>
       FirstReads(q) = <<Get(q.cluster, "deployment", q.namespace, q.name, "fail")>>
  /\ q.tool = "getNodes" =>
       FirstReads(q) = <<List(q.cluster, "node", "", "", "fail"),
                         List(q.cluster, "nodemetrics", "", "", "any")>>
  /\ q.tool = "getClusterImages" =>
       FirstReads(q) = <<IF q.cluster = "" THEN List("local", "managementcluster", "", "", "fail")
                         ELSE List(q.cluster, "pod", "", "", "fail")>>
  /\ q.tool = "getK3kClusters" =>
       FirstReads(q) = <<IF q.cluster = "" THEN List("local", "managementcluster", "", "", "fail")
                         ELSE List(q.cluster, "k3kcluster", "", "", "any")>>
  /\ q.tool = "getProject" => FirstReads(q) = ProjectNamed(q)
  /\ q.tool = "listProjects" => FirstReads(q) = AllProjects(q)
  /\ q.tool = "getResourceUsage" =>
       FirstReads(q) =
         IF q.namespace # "" THEN <<Get(q.cluster, "namespace", "", q.namespace, "fail")>>
         ELSE IF q.name # "" THEN ProjectNamed(q) ELSE AllProjects(q)
  /\ q.tool = "listKubernetesResources" =>
       FirstReads(q) = <<List(q.cluster, q.kind, q.namespace, "", "fail")>>
  /\ q.tool = "getUser" => FirstReads(q) = <<List("local", "user", "", "", "fail")>>
  /\ q.tool = "listClusterRoleTemplateBindings" =>
       FirstReads(q) = <<List("local", "clusterroletemplatebinding", q.cluster, "", "fail")>>
  /\ q.tool = "listProjectRoleTemplateBindings" =>
       FirstReads(q) = IF q.name # "" THEN ProjectNamed(q) ELSE BindingReads("")
  /\ q.tool \in OneReadTools => FirstReads(q) = <<OneRead(q)>>
BY DEF FirstReads, OneReadTools

LEMMA FirstReadsTyped ==
  ASSUME NEW q \in Queries
  PROVE  FirstReads(q) \in Seq(Requests) /\ FirstReads(q) # <<>>
<1>1. /\ q.cluster \in Strings /\ q.kind \in Strings /\ q.namespace \in Strings
      /\ q.name \in Strings /\ q.tool \in Tools
  BY DEF Queries
<1>2. ASSUME NEW r \in Requests PROVE <<r>> \in Seq(Requests) /\ <<r>> # <<>>
  OBVIOUS
<1>3. ProjectNamed(q) \in Seq(Requests) /\ ProjectNamed(q) # <<>>
  BY <1>1, <1>2, WordsAreStrings, GetTyped DEF ProjectNamed, Missing
<1>4. AllProjects(q) \in Seq(Requests) /\ AllProjects(q) # <<>>
  BY <1>1, <1>2, WordsAreStrings, ListTyped DEF AllProjects, Missing
<1>5. BindingReads("") \in Seq(Requests) /\ BindingReads("") # <<>>
  BY <1>1, <1>2, WordsAreStrings, ListTyped DEF BindingReads, Missing
<1>6. CASE q.tool = "analyzeCluster"
  <2>1. ClusterNamespace(q) \in Strings
    BY <1>1, WordsAreStrings DEF ClusterNamespace
  <2>2. Get("local", "provisioningcluster", ClusterNamespace(q), q.cluster, "fail") \in Requests
    BY <1>1, <2>1, WordsAreStrings, GetTyped DEF Missing
  <2>. QED
    BY <1>2, <1>6, <2>2, FirstReadsAre
<1>7. CASE q.tool = "analyzeClusterMachines"
  <2>1. MachineNamespace(q) \in Strings
    BY <1>1, WordsAreStrings DEF MachineNamespace
  <2>. QED
    BY <1>1, <1>7, <2>1, MachinesTyped, FirstReadsAre
<1>8. CASE q.tool \in {"getClusterMachine", "inspectPod", "getDeploymentDetails"}
  <2>1. /\ Get("local", "machine", "fleet-default", q.name, "end") \in Requests
        /\ Get(q.cluster, "pod", q.namespace, q.name, "fail") \in Requests
        /\ Get(q.cluster, "deployment", q.namespace, q.name, "fail") \in Requests
    BY <1>1, WordsAreStrings, GetTyped DEF Missing
  <2>. QED
    BY <1>2, <1>8, <2>1, FirstReadsAre
<1>9. CASE q.tool = "getNodes"
  <2>1. /\ List(q.cluster, "node", "", "", "fail") \in Requests
        /\ List(q.cluster, "nodemetrics", "", "", "any") \in Requests
    BY <1>1, WordsAreStrings, ListTyped DEF Missing
  <2>2. ASSUME NEW r \in Requests, NEW s \in Requests
        PROVE  <<r, s>> \in Seq(Requests) /\ <<r, s>> # <<>>
    OBVIOUS
  <2>. QED
    BY <2>1, <2>2, <1>9, FirstReadsAre
<1>10. CASE q.tool \in {"getClusterImages", "getK3kClusters"}
  <2>1. /\ List("local", "managementcluster", "", "", "fail") \in Requests
        /\ List(q.cluster, "pod", "", "", "fail") \in Requests
        /\ List(q.cluster, "k3kcluster", "", "", "any") \in Requests
    BY <1>1, WordsAreStrings, ListTyped DEF Missing
  <2>. QED
    BY <1>2, <1>10, <2>1, FirstReadsAre
<1>11. CASE q.tool \in {"getProject", "listProjects"}
  BY <1>3, <1>4, <1>11, FirstReadsAre, Zenon
<1>12. CASE q.tool = "getResourceUsage"
  <2>1. Get(q.cluster, "namespace", "", q.namespace, "fail") \in Requests
    BY <1>1, WordsAreStrings, GetTyped DEF Missing
  <2>. QED
    BY <1>2, <1>3, <1>4, <1>12, <2>1, FirstReadsAre
<1>13. CASE q.tool \in {"listKubernetesResources", "getUser", "listClusterRoleTemplateBindings"}
  <2>1. /\ List(q.cluster, q.kind, q.namespace, "", "fail") \in Requests
        /\ List("local", "user", "", "", "fail") \in Requests
        /\ List("local", "clusterroletemplatebinding", q.cluster, "", "fail") \in Requests
    BY <1>1, WordsAreStrings, ListTyped DEF Missing
  <2>. QED
    BY <1>2, <1>13, <2>1, FirstReadsAre
<1>14. CASE q.tool = "listProjectRoleTemplateBindings"
  BY <1>3, <1>5, <1>14, FirstReadsAre
<1>15. CASE q.tool \in OneReadTools
  BY <1>2, <1>15, OneReadTyped, FirstReadsAre
<1>. QED
  BY <1>1, <1>6, <1>7, <1>8, <1>9, <1>10, <1>11, <1>12, <1>13, <1>14, <1>15 DEF Tools

LEMMA ObjectTyped ==
  ASSUME NEW i \in Items
  PROVE  /\ i.ref \in References /\ i.data \in Objects
         /\ i.ref.cluster \in Strings /\ i.ref.kind \in Strings /\ i.ref.namespace \in Strings
         /\ i.ref.name \in Strings /\ i.ref.name # ""
         /\ i.data.owners \in Seq(Owners) /\ i.data.label \in Strings
         /\ i.data.spec.management \in Strings /\ i.data.spec.pools \in Seq(Strings)
         /\ i.data.spec.displayName \in Strings /\ i.data.spec.backing \in Strings
         /\ i.data.spec.user \in Strings /\ i.data.spec.cluster \in Strings
         /\ i.data.spec.running \in BOOLEAN /\ i.data.spec.apps \in Seq(Nat)
         /\ i.data.spec.inits \in Seq(Nat) /\ i.data.spec.usage \in Seq(Nat)
<1>1. i.ref \in References /\ i.data \in Objects
  BY DEF Items
<1>2. /\ i.ref.cluster \in Strings /\ i.ref.kind \in Strings /\ i.ref.namespace \in Strings
      /\ i.ref.name \in Strings /\ i.ref.name # ""
  BY <1>1 DEF References
<1>3. i.data.owners \in Seq(Owners) /\ i.data.label \in Strings
  BY <1>1 DEF Objects, Owners
<1>4. /\ i.data.spec.management \in Strings /\ i.data.spec.pools \in Seq(Strings)
      /\ i.data.spec.displayName \in Strings /\ i.data.spec.backing \in Strings
      /\ i.data.spec.user \in Strings /\ i.data.spec.cluster \in Strings
      /\ i.data.spec.running \in BOOLEAN /\ i.data.spec.apps \in Seq(Nat)
      /\ i.data.spec.inits \in Seq(Nat) /\ i.data.spec.usage \in Seq(Nat)
  BY <1>1 DEF Objects
<1>. QED
  BY <1>1, <1>2, <1>3, <1>4

LEMMA ImageIsFinite ==
  ASSUME NEW S, IsFiniteSet(S), NEW f, DOMAIN f = S
  PROVE  IsFiniteSet({f[x] : x \in S})
<1> DEFINE T == {f[x] : x \in S}
           g == [x \in S |-> f[x]]
<1>1. g \in Surjection(S, T)
  BY DEF Surjection
<1> HIDE DEF g, T
<1>2. IsFiniteSet(T)
  BY <1>1, FS_Surjection
<1>. QED
  BY <1>2 DEF T

LEMMA NamesAreFinite ==
  ASSUME NEW X \in SUBSET Items, IsFiniteSet(X)
  PROVE  IsFiniteSet({i.ref.name : i \in X}) /\ {i.ref.name : i \in X} \in SUBSET (Strings \ {""})
<1> DEFINE f == [i \in X |-> i.ref.name]
<1>1. IsFiniteSet({f[i] : i \in X})
  <2>1. DOMAIN f = X
    OBVIOUS
  <2> HIDE DEF f
  <2>. QED
    BY <2>1, ImageIsFinite
<1>2. {f[i] : i \in X} = {i.ref.name : i \in X}
  OBVIOUS
<1>3. \A i \in X : i.ref.name \in Strings /\ i.ref.name # ""
  BY ObjectTyped
<1>. QED
  BY <1>1, <1>2, <1>3

\* Requests for each of some things.
LEMMA PoolConfigsTyped ==
  ASSUME NEW pools \in Seq(Strings)
  PROVE  PoolConfigs(pools) \in Seq(Requests)
<1>1. \A k \in 1..Len(pools) :
        Get("local", "machineconfig", "fleet-default", pools[k], "skip") \in Requests
  <2>1. \A k \in 1..Len(pools) : pools[k] \in Strings
    OBVIOUS
  <2>. QED
    BY <2>1, WordsAreStrings, GetTyped DEF Missing
<1>2. PoolConfigs(pools) \in [1..Len(pools) -> Requests]
  BY <1>1 DEF PoolConfigs
<1>. QED
  BY <1>2, FunctionIsSequence

LEMMA ClusterPartsTyped ==
  ASSUME TypeOK, NEW i \in Items
  PROVE  ClusterParts(i) \in Seq(Requests)
<1>1. /\ i.data.spec.management \in Strings /\ i.ref.name \in Strings
      /\ i.data.spec.pools \in Seq(Strings) /\ call.query.cluster \in Strings
  BY ObjectTyped DEF TypeOK, Queries
<1>2. /\ Get("local", "managementcluster", "", i.data.spec.management, "skip") \in Requests
      /\ Get("local", "capicluster", "fleet-default", i.ref.name, "skip") \in Requests
  BY <1>1, WordsAreStrings, GetTyped DEF Missing
<1>3. /\ PoolConfigs(i.data.spec.pools) \in Seq(Requests)
      /\ Machines(call.query.cluster, "fleet-default") \in Seq(Requests)
  BY <1>1, WordsAreStrings, PoolConfigsTyped, MachinesTyped
<1>4. <<Get("local", "managementcluster", "", i.data.spec.management, "skip"),
        Get("local", "capicluster", "fleet-default", i.ref.name, "skip")>> \in Seq(Requests)
  BY <1>2, FewAreSequence
<1>. QED
  BY <1>3, <1>4, ConcatProperties DEF ClusterParts

\* The owners of an object that are of a kind.
LEMMA OwnedAre ==
  ASSUME NEW i \in Items, NEW kind
  PROVE  /\ Owned(i, kind) \in Seq(Owners)
         /\ \A k \in 1..Len(Owned(i, kind)) :
              Owned(i, kind)[k] \in Range(i.data.owners) /\ Owned(i, kind)[k].kind = kind
         /\ \A o \in Range(i.data.owners) : o.kind = kind =>
              \E k \in 1..Len(Owned(i, kind)) : Owned(i, kind)[k] = o
<1> DEFINE owners == i.data.owners
           those == {k \in DOMAIN owners : owners[k].kind = kind}
           order == {p \in those \X those : p[1] < p[2]}
           n == Cardinality(those)
           places == InOrder(those, order)
<1>1. owners \in Seq(Owners)
  BY ObjectTyped
<1>2. IsFiniteSet(those)
  <2>1. those \in SUBSET (1..Len(owners)) /\ Len(owners) \in Nat
    BY <1>1
  <2>2. IsFiniteSet(1..Len(owners))
    BY <2>1, FS_Interval
  <2>. QED
    BY <2>1, <2>2, FS_Subset
<1>3. Orders(those, order)
  <2>1. those \in SUBSET Int
    BY <1>1
  <2>2. \A x, y \in those : <<x, y>> \in order <=> x < y
    OBVIOUS
  <2> HIDE DEF those, order
  <2>. QED
    BY <2>1, <2>2 DEF Orders
<1>4. Owned(i, kind) = [k \in DOMAIN places |-> owners[places[k]]]
  BY DEF Owned
<1>5. /\ n \in Nat /\ places \in [1..n -> those]
      /\ \A x \in those : \E k \in 1..n : places[k] = x
  <2> HIDE DEF those, order
  <2>1. /\ n \in Nat /\ places \in [1..n -> those]
        /\ \A x \in those :
             LET place == Cardinality({y \in those : <<y, x>> \in order}) IN
             /\ place \in 0..n-1
             /\ \A k \in 1..n : places[k] = x <=> k = place + 1
    BY <1>2, <1>3, PutInOrder
  <2>2. ASSUME NEW x \in those PROVE \E k \in 1..n : places[k] = x
    <3> DEFINE place == Cardinality({y \in those : <<y, x>> \in order})
    <3>1. place \in 0..n-1 /\ \A k \in 1..n : places[k] = x <=> k = place + 1
      BY <2>1
    <3>2. place + 1 \in 1..n
      BY <3>1, <2>1
    <3>. QED
      BY <3>1, <3>2
  <2>. QED
    BY <2>1, <2>2
<1> HIDE DEF places, n
<1>6. \A k \in those : owners[k] \in Owners /\ owners[k] \in Range(owners) /\ owners[k].kind = kind
  BY <1>1 DEF Range
<1>7. Owned(i, kind) \in [1..n -> Owners]
  BY <1>4, <1>5, <1>6
<1>8. Owned(i, kind) \in Seq(Owners) /\ Len(Owned(i, kind)) = n
  BY <1>5, <1>7, FunctionIsSequence
<1>9. \A k \in 1..n : Owned(i, kind)[k] = owners[places[k]]
  BY <1>4, <1>5
<1>10. ASSUME NEW o \in Range(owners), o.kind = kind
       PROVE  \E k \in 1..n : Owned(i, kind)[k] = o
  <2>1. PICK x \in those : owners[x] = o
    BY <1>10 DEF Range
  <2>. QED
    BY <2>1, <1>5, <1>9
<1>. QED
  BY <1>5, <1>6, <1>8, <1>9, <1>10

LEMMA OwnerReadsAre ==
  ASSUME NEW i \in Items, NEW kind \in Strings
  PROVE  /\ OwnerReads(i, kind) \in Seq(Requests)
         /\ Len(OwnerReads(i, kind)) = Len(Owned(i, kind))
         /\ \A k \in 1..Len(OwnerReads(i, kind)) :
              OwnerReads(i, kind)[k] =
                Get("local", kind, "fleet-default", Owned(i, kind)[k].name, "end")
<1>1. Owned(i, kind) \in Seq(Owners)
  BY OwnedAre
<1>2. \A k \in 1..Len(Owned(i, kind)) : Owned(i, kind)[k].name \in Strings
  <2>1. \A k \in 1..Len(Owned(i, kind)) : Owned(i, kind)[k] \in Owners
    BY <1>1, ElementOfSeq
  <2>. QED
    BY <2>1 DEF Owners
<1>3. \A k \in 1..Len(Owned(i, kind)) :
        Get("local", kind, "fleet-default", Owned(i, kind)[k].name, "end") \in Requests
  BY <1>2, WordsAreStrings, GetTyped DEF Missing
<1>4. OwnerReads(i, kind) =
        [k \in 1..Len(Owned(i, kind)) |->
           Get("local", kind, "fleet-default", Owned(i, kind)[k].name, "end")]
  BY <1>1 DEF OwnerReads
<1>5. OwnerReads(i, kind) \in [1..Len(Owned(i, kind)) -> Requests]
  BY <1>3, <1>4
<1>6. Len(Owned(i, kind)) \in Nat
  BY <1>1
<1>. QED
  BY <1>4, <1>5, <1>6, FunctionIsSequence

\* The first owner of one of the kinds is read, if there is one.
LEMMA FirstOwnerIs ==
  ASSUME NEW i \in Items, NEW kinds
  PROVE  /\ FirstOwner(i, kinds) \in Seq(Requests) /\ Len(FirstOwner(i, kinds)) <= 1
         /\ \A r \in Requests :
              r \in Range(FirstOwner(i, kinds)) <=>
                /\ r = Get(r.cluster, r.kind, r.namespace, r.name, "fail")
                /\ Ref(r.cluster, r.kind, r.namespace, r.name) \in
                     FirstOf(i.ref, i.data.owners, kinds)
<1> DEFINE owners == i.data.owners
           those == {k \in DOMAIN owners : owners[k].kind \in kinds}
           read(k) == Get(i.ref.cluster, owners[k].kind, i.ref.namespace, owners[k].name, "fail")
<1>1. owners \in Seq(Owners)
  BY ObjectTyped
<1>2. those \in SUBSET Nat
  BY <1>1
<1>3. \A k \in those : read(k) \in Requests
  <2>1. \A k \in those : owners[k].kind \in Strings /\ owners[k].name \in Strings
    <3>1. \A k \in DOMAIN owners : owners[k] \in Owners
      BY <1>1
    <3>. QED
      BY <3>1 DEF Owners
  <2>. QED
    BY <2>1, ObjectTyped, GetTyped DEF Missing
<1>4. CASE those = {}
  <2>1. FirstOwner(i, kinds) = <<>>
    BY <1>4 DEF FirstOwner
  <2>2. FirstOf(i.ref, owners, kinds) = {}
    BY <1>4 DEF FirstOf
  <2>. QED
    BY <2>1, <2>2 DEF Range
<1>5. CASE those # {}
  <2>1. PICK m \in those : \A k \in those : m <= k
    BY <1>2, <1>5, LeastNumber
  <2>2. Min(those) = m
    <3>1. \A j \in those : (\A k \in those : j <= k) => j = m
      BY <2>1, <1>2
    <3>. QED
      BY <2>1, <3>1 DEF Min
  <2>3. FirstOwner(i, kinds) = <<read(m)>>
    BY <1>5, <2>2 DEF FirstOwner
  <2>4. \A j \in DOMAIN owners :
          (owners[j].kind \in kinds /\ \A l \in 1..j-1 : owners[l].kind \notin kinds) <=> j = m
    BY <2>1, <1>1
  <2>5. FirstOf(i.ref, owners, kinds) =
          {Ref(i.ref.cluster, owners[m].kind, i.ref.namespace, owners[m].name)}
    BY <2>1, <2>4 DEF FirstOf
  <2>6. \A r \in Requests :
          r = read(m) <=>
            /\ r = Get(r.cluster, r.kind, r.namespace, r.name, "fail")
            /\ Ref(r.cluster, r.kind, r.namespace, r.name) =
                 Ref(i.ref.cluster, owners[m].kind, i.ref.namespace, owners[m].name)
    <3>1. \A a, b, c, d, e, f, g, h :
            Ref(a, b, c, d) = Ref(e, f, g, h) <=> a = e /\ b = f /\ c = g /\ d = h
      BY DEF Ref
    <3>2. /\ read(m).cluster = i.ref.cluster /\ read(m).kind = owners[m].kind
          /\ read(m).namespace = i.ref.namespace /\ read(m).name = owners[m].name
      BY DEF Get
    <3>. QED
      BY <3>1, <3>2
  <2>7. Range(<<read(m)>>) = {read(m)}
    BY DEF Range
  <2>. QED
    BY <2>1, <2>3, <2>5, <2>6, <2>7, <1>3
<1>. QED
  BY <1>4, <1>5

LEMMA PodReadsTyped ==
  ASSUME NEW i \in Items
  PROVE  PodReads(i) \in Seq(Requests)
<1>1. /\ Get(i.ref.cluster, "podmetrics", i.ref.namespace, i.ref.name, "any") \in Requests
      /\ Get(i.ref.cluster, "pods/log", i.ref.namespace, i.ref.name, "any") \in Requests
  BY ObjectTyped, WordsAreStrings, GetTyped DEF Missing
<1>2. <<Get(i.ref.cluster, "podmetrics", i.ref.namespace, i.ref.name, "any"),
        Get(i.ref.cluster, "pods/log", i.ref.namespace, i.ref.name, "any")>> \in Seq(Requests)
  BY <1>1, FewAreSequence
<1>3. FirstOwner(i, {"replicaset"}) \in Seq(Requests)
  BY FirstOwnerIs
<1>. QED
  BY <1>2, <1>3, ConcatProperties DEF PodReads

\* A list in each of the clusters, or of each of the projects.
LEMMA OfEachAre ==
  ASSUME NEW X \in SUBSET Items, IsFiniteSet(X), NEW kind \in Strings, NEW missing \in Missing
  PROVE  /\ OfEach(X, kind, missing) \in Seq(Requests)
         /\ Range(OfEach(X, kind, missing)) = {List(i.ref.name, kind, "", "", missing) : i \in X}
<1> DEFINE N == {i.ref.name : i \in X}
           names == SetToSeq(N)
           n == Cardinality(N)
<1>1. IsFiniteSet(N) /\ N \in SUBSET Strings
  BY NamesAreFinite
<1>2. OfEach(X, kind, missing) =
        [k \in DOMAIN names |-> List(names[k], kind, "", "", missing)]
  BY DEF OfEach
<1>3. \A x \in N : \E i \in X : x = i.ref.name
  OBVIOUS
<1>4. \A i \in X : i.ref.name \in N
  OBVIOUS
<1> HIDE DEF N
<1>5. /\ n \in Nat /\ names \in [1..n -> N]
      /\ \A x \in N : \E k \in DOMAIN names : names[k] = x
  BY <1>1, Enumerated
<1> HIDE DEF names, n
<1>6. \A k \in 1..n : List(names[k], kind, "", "", missing) \in Requests
  BY <1>1, <1>5, WordsAreStrings, ListTyped
<1>7. OfEach(X, kind, missing) \in [1..n -> Requests]
  BY <1>2, <1>5, <1>6
<1>8. OfEach(X, kind, missing) \in Seq(Requests)
  BY <1>5, <1>7, FunctionIsSequence
<1>9. DOMAIN OfEach(X, kind, missing) = 1..n /\ DOMAIN names = 1..n
  BY <1>5, <1>7
<1>10. \A k \in 1..n : OfEach(X, kind, missing)[k] = List(names[k], kind, "", "", missing)
  BY <1>2, <1>9
<1>11. \A k \in 1..n : \E i \in X :
         OfEach(X, kind, missing)[k] = List(i.ref.name, kind, "", "", missing)
  <2>1. ASSUME NEW k \in 1..n
        PROVE  \E i \in X : OfEach(X, kind, missing)[k] = List(i.ref.name, kind, "", "", missing)
    <3>1. names[k] \in N
      BY <1>5
    <3>2. PICK i \in X : names[k] = i.ref.name
      BY <3>1, <1>3
    <3>. QED
      BY <3>2, <1>10
  <2>. QED
    BY <2>1
<1>12. \A i \in X : \E k \in 1..n :
         OfEach(X, kind, missing)[k] = List(i.ref.name, kind, "", "", missing)
  BY <1>4, <1>5, <1>9, <1>10
<1>13. Range(OfEach(X, kind, missing)) = {List(i.ref.name, kind, "", "", missing) : i \in X}
  <2> DEFINE s == OfEach(X, kind, missing)
  <2>1. Range(s) = {s[k] : k \in 1..n}
    BY <1>9 DEF Range
  <2>2. \A k \in 1..n : \E i \in X : s[k] = List(i.ref.name, kind, "", "", missing)
    BY <1>11
  <2>3. \A i \in X : \E k \in 1..n : s[k] = List(i.ref.name, kind, "", "", missing)
    BY <1>12
  <2> HIDE DEF s
  <2>4. Range(s) \subseteq {List(i.ref.name, kind, "", "", missing) : i \in X}
    BY <2>1, <2>2
  <2>5. {List(i.ref.name, kind, "", "", missing) : i \in X} \subseteq Range(s)
    BY <2>1, <2>3
  <2>6. Range(s) = {List(i.ref.name, kind, "", "", missing) : i \in X}
    BY <2>4, <2>5
  <2>. QED
    BY <2>6 DEF s
<1>. QED
  BY <1>8, <1>13

\* What the resource usage asks once it has its projects.
ForUsage(r) == r.kind \in {"namespace", "pod", "podmetrics"} /\ r.missing \in {"fail", "any"}

LEMMA NamespacesOfAre ==
  ASSUME TypeOK, NEW X \in SUBSET Items, IsFiniteSet(X)
  PROVE  /\ NamespacesOf(X) \in Seq(Requests)
         /\ \A r \in Range(NamespacesOf(X)) : ForUsage(r)
<1> DEFINE N == {i.ref.name : i \in X}
           names == SetToSeq(N)
           n == Cardinality(N)
<1>1. IsFiniteSet(N) /\ N \in SUBSET Strings
  BY NamesAreFinite
<1>2. NamespacesOf(X) =
        [k \in DOMAIN names |-> List(call.query.cluster, "namespace", "", names[k], "fail")]
  BY DEF NamespacesOf, NamespacesRead
<1> HIDE DEF N
<1>3. /\ n \in Nat /\ names \in [1..n -> N]
  BY <1>1, Enumerated
<1> HIDE DEF names, n
<1>4. call.query.cluster \in Strings
  BY DEF TypeOK, Queries
<1>5. \A k \in 1..n : List(call.query.cluster, "namespace", "", names[k], "fail") \in Requests
  BY <1>1, <1>3, <1>4, WordsAreStrings, ListTyped DEF Missing
<1>6. NamespacesOf(X) \in [1..n -> Requests]
  BY <1>2, <1>3, <1>5
<1>7. ASSUME NEW r \in Range(NamespacesOf(X)) PROVE ForUsage(r)
  <2>1. PICK k \in 1..n : r = NamespacesOf(X)[k]
    BY <1>6, <1>7 DEF Range
  <2>2. r = List(call.query.cluster, "namespace", "", names[k], "fail")
    BY <1>2, <1>3, <2>1
  <2>. QED
    BY <2>2 DEF List, Get, ForUsage
<1>. QED
  BY <1>3, <1>6, <1>7, FunctionIsSequence

LEMMA UsageReadTyped ==
  ASSUME TypeOK, NEW namespace \in Strings
  PROVE  UsageRead(namespace) \in Requests /\ ForUsage(UsageRead(namespace))
<1>1. call.query.cluster \in Strings
  BY DEF TypeOK, Queries
<1>2. ForUsage(UsageRead(namespace))
  BY DEF UsageRead, List, Get, ForUsage
<1>. QED
  BY <1>1, <1>2, WordsAreStrings, ListTyped DEF UsageRead, Missing

LEMMA UsageReadsAre ==
  ASSUME TypeOK, NEW X \in SUBSET Items, IsFiniteSet(X)
  PROVE  /\ UsageReads(X) \in Seq(Requests)
         /\ \A r \in Range(UsageReads(X)) : ForUsage(r)
<1> DEFINE N == {i.ref.name : i \in X}
           names == SetToSeq(N)
           n == Cardinality(N)
<1>1. IsFiniteSet(N) /\ N \in SUBSET Strings
  BY NamesAreFinite
<1>2. UsageReads(X) = [k \in DOMAIN names |-> UsageRead(names[k])]
  BY DEF UsageReads
<1> HIDE DEF N
<1>3. n \in Nat /\ names \in [1..n -> N]
  BY <1>1, Enumerated
<1> HIDE DEF names, n
<1>4. \A k \in 1..n : UsageRead(names[k]) \in Requests /\ ForUsage(UsageRead(names[k]))
  BY <1>1, <1>3, UsageReadTyped
<1>5. UsageReads(X) \in [1..n -> Requests] /\ \A k \in 1..n : ForUsage(UsageReads(X)[k])
  BY <1>2, <1>3, <1>4
<1>6. \A r \in Range(UsageReads(X)) : ForUsage(r)
  BY <1>5 DEF Range
<1>. QED
  BY <1>3, <1>5, <1>6, FunctionIsSequence

-----------------------------------------------------------------------------
(* Types of the variables.                                                   *)

LEMMA ReadTyped ==
  ASSUME TypeOK, call.pc = "reading"
  PROVE  /\ call.todo \in Seq(Requests) /\ call.todo # <<>>
         /\ Read \in Requests /\ Tail(call.todo) \in Seq(Requests)
         /\ Read.cluster \in Strings /\ Read.kind \in Strings /\ Read.namespace \in Strings
         /\ Read.name \in Strings /\ Read.label \in Strings
<1>1. call.todo \in Seq(Requests) /\ call.todo # <<>>
  BY DEF TypeOK
<1>2. Read \in Requests /\ Tail(call.todo) \in Seq(Requests)
  BY <1>1, HeadTailProperties DEF Read
<1>. QED
  BY <1>1, <1>2 DEF Requests

\* What a request is answered with is there, and is all that is there.
LEMMA GotIs ==
  ASSUME TypeOK, call.pc = "reading"
  PROVE  /\ Got \in SUBSET Items /\ IsFiniteSet(Got) /\ IsFiniteSet(Matching)
         /\ \A i \in Got :
              LET r == [i.ref EXCEPT !.kind = Served(@)] IN
              Gets(Read, i) /\ r \in DOMAIN store /\ store[r] = i.data
         /\ \A r \in DOMAIN store :
              LET i == [ref |-> r, data |-> store[r]] IN
              r.kind # "pods/log" /\ Gets(Read, i) => i \in Got
<1>1. Matching \in SUBSET DOMAIN store /\ IsFiniteSet(Matching)
  BY FS_Subset DEF Matching, TypeOK
<1> DEFINE f == [r \in Matching |-> [ref |-> [r EXCEPT !.kind = Read.kind], data |-> store[r]]]
<1>2. Got = {f[r] : r \in Matching}
  BY DEF Got
<1>3. IsFiniteSet(Got)
  <2>1. DOMAIN f = Matching
    OBVIOUS
  <2> HIDE DEF f
  <2>. QED
    BY <1>1, <1>2, <2>1, ImageIsFinite
<1>4. ASSUME NEW r \in Matching
      PROVE  LET i == [ref |-> [r EXCEPT !.kind = Read.kind], data |-> store[r]] IN
             /\ i \in Items /\ Gets(Read, i)
             /\ [i.ref EXCEPT !.kind = Served(@)] = r
  <2> DEFINE i == [ref |-> [r EXCEPT !.kind = Read.kind], data |-> store[r]]
  <2>1. r \in References /\ store[r] \in Objects /\ r \in DOMAIN store
    BY <1>1 DEF TypeOK
  <2>2. /\ r.cluster = Read.cluster /\ r.kind = Served(Read.kind)
        /\ IF Read.op = "get" THEN r.namespace = Read.namespace /\ r.name = Read.name
           ELSE Read.namespace \in {"", r.namespace} /\ Read.label \in {"", store[r].label}
    BY DEF Matching
  <2>3. /\ r = [cluster |-> r.cluster, kind |-> r.kind, namespace |-> r.namespace, name |-> r.name]
        /\ i.ref = [cluster |-> r.cluster, kind |-> Read.kind,
                    namespace |-> r.namespace, name |-> r.name]
        /\ r.cluster \in Strings /\ r.namespace \in Strings /\ r.name \in Strings \ {""}
        /\ r.kind = "namespace" => r.namespace = ""
    BY <2>1 DEF References
  <2>4. Read.kind = "namespace" => r.kind = "namespace"
    BY <2>2 DEF Served
  <2>5. i.ref \in References
    BY <2>3, <2>4, ReadTyped DEF References
  <2>6. i \in Items
    BY <2>1, <2>5 DEF Items
  <2>7. Gets(Read, i)
    BY <2>2, <2>3 DEF Gets
  <2>8. [i.ref EXCEPT !.kind = Served(@)] = r
    BY <2>2, <2>3
  <2>. QED
    BY <2>6, <2>7, <2>8
<1>5. ASSUME NEW r \in DOMAIN store, r.kind # "pods/log",
             Gets(Read, [ref |-> r, data |-> store[r]])
      PROVE  [ref |-> r, data |-> store[r]] \in Got
  <2>1. r.kind = Read.kind /\ Served(Read.kind) = r.kind
    BY <1>5 DEF Gets, Served
  <2>2. r \in Matching
    BY <1>5, <2>1 DEF Gets, Matching
  <2>3. [r EXCEPT !.kind = Read.kind] = r
    BY <2>1 DEF TypeOK, References
  <2>. QED
    BY <2>2, <2>3 DEF Got
<1>6. Got \in SUBSET Items
  BY <1>4 DEF Got
<1>7. \A i \in Got :
        LET r == [i.ref EXCEPT !.kind = Served(@)] IN
        Gets(Read, i) /\ r \in DOMAIN store /\ store[r] = i.data
  <2>1. ASSUME NEW i \in Got
        PROVE  /\ Gets(Read, i)
               /\ [i.ref EXCEPT !.kind = Served(@)] \in DOMAIN store
               /\ store[[i.ref EXCEPT !.kind = Served(@)]] = i.data
    <3>1. PICK r \in Matching : i = [ref |-> [r EXCEPT !.kind = Read.kind], data |-> store[r]]
      BY DEF Got
    <3>2. Gets(Read, i) /\ [i.ref EXCEPT !.kind = Served(@)] = r
      BY <3>1, <1>4
    <3>. QED
      BY <3>1, <3>2, <1>1
  <2>. QED
    BY <2>1
<1>. QED
  BY <1>1, <1>3, <1>5, <1>6, <1>7

\* The types of a call.
CallTyped(c) ==
  /\ c \in [pc : {"idle", "reading", "paged", "done", "failed", "panicked"},
            query : Queries, todo : Seq(Requests), found : SUBSET Items,
            project : Strings, pods : SUBSET Items, spaces : SUBSET Spaces,
            totals : {c.totals}, pages : Seq(References), offset : Ints]
  /\ c.pc = "reading" <=> c.todo # <<>>
  /\ IsFiniteSet(c.pods) /\ IsFiniteSet(c.spaces)
  /\ DOMAIN c.totals \subseteq Strings
  /\ \A p \in DOMAIN c.totals : c.totals[p] \in Samples

LEMMA TypeKept ==
  ASSUME TypeOK, UNCHANGED <<store, variants, drift, touched>>, CallTyped(call')
  PROVE  TypeOK'
BY DEF TypeOK, CallTyped

LEMMA CallHasType ==
  ASSUME TypeOK
  PROVE  CallTyped(call)
BY DEF TypeOK, CallTyped

\* How a call goes on.
LEMMA OnwardsIs ==
  ASSUME NEW c, CallTyped(c), c.todo # <<>>, NEW more \in Seq(Requests)
  PROVE  LET o == Onwards(c, more) IN
         /\ CallTyped(o)
         /\ o.todo = more \o Tail(c.todo) /\ o.pc \in {"reading", "done"}
         /\ o.query = c.query /\ o.found = c.found /\ o.project = c.project
         /\ o.pods = c.pods /\ o.spaces = c.spaces /\ o.totals = c.totals
         /\ o.pages = c.pages /\ o.offset = c.offset
<1> DEFINE left == more \o Tail(c.todo)
           o == Onwards(c, more)
<1>1. c.todo \in Seq(Requests)
  BY DEF CallTyped
<1>2. left \in Seq(Requests)
  BY <1>1, HeadTailProperties, ConcatProperties
<1>3. o = [c EXCEPT !.todo = left, !.pc = IF left = <<>> THEN "done" ELSE "reading"]
  BY DEF Onwards
<1> HIDE DEF left, o
<1>4. /\ o.todo = left /\ o.pc = IF left = <<>> THEN "done" ELSE "reading"
      /\ o.query = c.query /\ o.found = c.found /\ o.project = c.project
      /\ o.pods = c.pods /\ o.spaces = c.spaces /\ o.totals = c.totals
      /\ o.pages = c.pages /\ o.offset = c.offset
  BY <1>3 DEF CallTyped
<1>5. o \in [pc : {"idle", "reading", "paged", "done", "failed", "panicked"},
             query : Queries, todo : Seq(Requests), found : SUBSET Items,
             project : Strings, pods : SUBSET Items, spaces : SUBSET Spaces,
             totals : {c.totals}, pages : Seq(References), offset : Ints]
  BY <1>2, <1>3 DEF CallTyped
<1>6. CallTyped(o)
  BY <1>4, <1>5 DEF CallTyped
<1>. QED
  BY <1>4, <1>6 DEF left, o

LEMMA KeptIs ==
  ASSUME TypeOK, call.pc = "reading",
         NEW found \in SUBSET Items, NEW more \in Seq(Requests), Kept(found, more)
  PROVE  /\ CallTyped(call')
         /\ call'.todo = more \o Tail(call.todo) /\ call'.pc \in {"reading", "done"}
         /\ call'.query = call.query /\ call'.found = found
         /\ call'.pages = call.pages /\ call'.offset = call.offset
         /\ call'.project = call.project /\ call'.spaces = call.spaces
         /\ call'.totals = call.totals
<1> DEFINE c == [call EXCEPT !.found = found]
<1>1. CallTyped(call)
  BY CallHasType
<1>2. call' = Onwards(c, more)
  BY DEF Kept
<1>3. /\ c.todo = call.todo /\ c.found = found /\ c.query = call.query
      /\ c.pages = call.pages /\ c.offset = call.offset
      /\ c.project = call.project /\ c.spaces = call.spaces /\ c.totals = call.totals
      /\ CallTyped(c)
  BY <1>1 DEF CallTyped
<1>4. c.todo # <<>>
  BY <1>3, ReadTyped
<1> HIDE DEF c
<1>5. PICK o : o = Onwards(c, more)
  OBVIOUS
<1>6. /\ CallTyped(o) /\ o.todo = more \o Tail(c.todo) /\ o.pc \in {"reading", "done"}
      /\ o.query = c.query /\ o.found = c.found /\ o.pages = c.pages
      /\ o.offset = c.offset /\ o.project = c.project /\ o.spaces = c.spaces
      /\ o.totals = c.totals
  BY <1>3, <1>4, <1>5, OnwardsIs
<1>. QED
  BY <1>2, <1>3, <1>5, <1>6

LEMMA FailedTyped ==
  ASSUME TypeOK
  PROVE  /\ CallTyped(Failed) /\ Failed.found = {} /\ Failed.pc = "failed"
         /\ Failed.query = call.query /\ Failed.todo = <<>>
<1>1. call.query \in Queries /\ call.query.offset \in Ints
  BY DEF TypeOK, Queries
<1>2. 0 \in Ints
  BY PaginationAssumption DEF Ints
<1>3. <<>> \in Seq(Requests) /\ <<>> \in Seq(References)
  BY EmptySeq
<1>4. DOMAIN <<>> = {}
  OBVIOUS
<1>5. IsFiniteSet({})
  BY FS_EmptySet
<1>. QED
  BY <1>1, <1>2, <1>3, <1>4, <1>5, WordsAreStrings DEF Failed, Called, CallTyped

LEMMA CalledTyped ==
  ASSUME NEW q \in Queries, NEW reads \in Seq(Requests),
         NEW pc \in {"idle", "reading", "failed"}, pc = "reading" <=> reads # <<>>
  PROVE  CallTyped(Called(q, reads, pc))
<1>1. q.offset \in Ints
  BY DEF Queries
<1>2. 0 \in Ints
  BY PaginationAssumption DEF Ints
<1>3. <<>> \in Seq(References)
  BY EmptySeq
<1>4. DOMAIN <<>> = {}
  OBVIOUS
<1>5. IsFiniteSet({})
  BY FS_EmptySet
<1>. QED
  BY <1>1, <1>2, <1>3, <1>4, <1>5, WordsAreStrings DEF Called, CallTyped

CallGoesOn ==
  CallTyped(call') /\ call'.query = call.query /\ call'.pc \in {"reading", "done", "failed"}

\* The actions of the tools that find.
LEMMA FoundTyped ==
  ASSUME TypeOK, call.pc = "reading",
         NEW found \in SUBSET Items, NEW more \in Seq(Requests), Found(found, more)
  PROVE  CallGoesOn
BY KeptIs DEF Found, CallGoesOn

LEMMA AskedIs ==
  ASSUME TypeOK, Asked, call.pc = "reading"
  PROVE  \/ call.found = {} /\ call.todo = FirstReads(call.query)
         \/ /\ call.query.tool \in
                 {"getProject", "getResourceUsage", "listProjectRoleTemplateBindings"}
            /\ call.found = {} /\ call.query.name # "" /\ call.todo = AllProjects(call.query)
         \/ Follows(Read) /\ \A r \in Range(call.todo) : Follows(r)
<1>1. call.todo \in Seq(Requests) /\ call.todo # <<>>
  BY ReadTyped
<1>2. 1 \in DOMAIN call.todo /\ Read = call.todo[1]
  BY <1>1 DEF Read
<1>3. Read \in Range(call.todo)
  BY <1>2 DEF Range
<1>. QED
  BY <1>3 DEF Asked

LEMMA ClusterPartsAre ==
  ASSUME TypeOK, NEW i \in Items, NEW r
  PROVE  r \in Range(ClusterParts(i)) <=>
           \/ r = Get("local", "managementcluster", "", i.data.spec.management, "skip")
           \/ r = Get("local", "capicluster", "fleet-default", i.ref.name, "skip")
           \/ \E n \in Range(i.data.spec.pools) :
                r = Get("local", "machineconfig", "fleet-default", n, "skip")
           \/ \E kind \in Range(CAPIKinds) :
                r = List("local", kind, "fleet-default", call.query.cluster, "skip")
<1> DEFINE two == <<Get("local", "managementcluster", "", i.data.spec.management, "skip"),
                    Get("local", "capicluster", "fleet-default", i.ref.name, "skip")>>
           pools == PoolConfigs(i.data.spec.pools)
           machines == Machines(call.query.cluster, "fleet-default")
<1>1. /\ i.data.spec.management \in Strings /\ i.ref.name \in Strings
      /\ i.data.spec.pools \in Seq(Strings) /\ call.query.cluster \in Strings
  BY ObjectTyped DEF TypeOK, Queries
<1>2. two \in Seq(Requests)
  <2>1. /\ Get("local", "managementcluster", "", i.data.spec.management, "skip") \in Requests
        /\ Get("local", "capicluster", "fleet-default", i.ref.name, "skip") \in Requests
    BY <1>1, WordsAreStrings, GetTyped DEF Missing
  <2>. QED
    BY <2>1, FewAreSequence
<1>3. pools \in Seq(Requests) /\ machines \in Seq(Requests)
  BY <1>1, WordsAreStrings, PoolConfigsTyped, MachinesTyped
<1>4. Range(two) = {Get("local", "managementcluster", "", i.data.spec.management, "skip"),
                    Get("local", "capicluster", "fleet-default", i.ref.name, "skip")}
  BY FewAre
<1>5. Range(pools) = {Get("local", "machineconfig", "fleet-default", n, "skip") :
                        n \in Range(i.data.spec.pools)}
  BY DEF Range, PoolConfigs
<1>6. Range(machines) = {List("local", kind, "fleet-default", call.query.cluster, "skip") :
                           kind \in Range(CAPIKinds)}
  BY DEF Range, Machines
<1>7. ClusterParts(i) = (two \o pools) \o machines
  BY DEF ClusterParts
<1> HIDE DEF two, pools, machines
<1>8. two \o pools \in Seq(Requests)
  BY <1>2, <1>3, ConcatProperties
<1>9. Range(ClusterParts(i)) = (Range(two) \cup Range(pools)) \cup Range(machines)
  <2>1. Range(two \o pools) = Range(two) \cup Range(pools)
    BY <1>2, <1>3, RangeConcatenation
  <2>2. Range((two \o pools) \o machines) = Range(two \o pools) \cup Range(machines)
    BY <1>3, <1>8, RangeConcatenation
  <2>. QED
    BY <1>7, <2>1, <2>2
<1>. QED
  BY <1>4, <1>5, <1>6, <1>9

LEMMA ClusterPartKinds ==
  ASSUME TypeOK, NEW i \in Items, NEW r \in Range(ClusterParts(i))
  PROVE  /\ r.cluster = "local" /\ r.missing = "skip"
         /\ r.kind \in {"managementcluster", "capicluster", "machineconfig",
                       "machinedeployment", "machineset", "machine"}
<1>1. CASE r = Get("local", "managementcluster", "", i.data.spec.management, "skip")
  BY <1>1 DEF Get
<1>2. CASE r = Get("local", "capicluster", "fleet-default", i.ref.name, "skip")
  BY <1>2 DEF Get
<1>3. CASE \E n \in Range(i.data.spec.pools) :
             r = Get("local", "machineconfig", "fleet-default", n, "skip")
  <2>1. PICK n : r = Get("local", "machineconfig", "fleet-default", n, "skip")
    BY <1>3
  <2>. QED
    BY <2>1 DEF Get
<1>4. CASE \E kind \in Range(CAPIKinds) :
             r = List("local", kind, "fleet-default", call.query.cluster, "skip")
  <2>1. \A kind \in Range(CAPIKinds) : kind \in {"machinedeployment", "machineset", "machine"}
    BY DEF CAPIKinds, Range
  <2>. QED
    BY <1>4, <2>1 DEF List, Get
<1>. QED
  BY <1>1, <1>2, <1>3, <1>4, ClusterPartsAre

LEMMA PodReadsAre ==
  ASSUME NEW i \in Items, NEW r
  PROVE  r \in Range(PodReads(i)) <=>
           \/ r \in Range(FirstOwner(i, {"replicaset"}))
           \/ r = Get(i.ref.cluster, "podmetrics", i.ref.namespace, i.ref.name, "any")
           \/ r = Get(i.ref.cluster, "pods/log", i.ref.namespace, i.ref.name, "any")
<1> DEFINE two == <<Get(i.ref.cluster, "podmetrics", i.ref.namespace, i.ref.name, "any"),
                    Get(i.ref.cluster, "pods/log", i.ref.namespace, i.ref.name, "any")>>
<1>1. two \in Seq(Requests)
  <2>1. /\ Get(i.ref.cluster, "podmetrics", i.ref.namespace, i.ref.name, "any") \in Requests
        /\ Get(i.ref.cluster, "pods/log", i.ref.namespace, i.ref.name, "any") \in Requests
    BY ObjectTyped, WordsAreStrings, GetTyped DEF Missing
  <2>. QED
    BY <2>1, FewAreSequence
<1>2. FirstOwner(i, {"replicaset"}) \in Seq(Requests)
  BY FirstOwnerIs
<1>3. Range(two) = {Get(i.ref.cluster, "podmetrics", i.ref.namespace, i.ref.name, "any"),
                    Get(i.ref.cluster, "pods/log", i.ref.namespace, i.ref.name, "any")}
  BY FewAre
<1>4. PodReads(i) = FirstOwner(i, {"replicaset"}) \o two
  BY DEF PodReads
<1> HIDE DEF two
<1>5. Range(PodReads(i)) = Range(FirstOwner(i, {"replicaset"})) \cup Range(two)
  BY <1>1, <1>2, <1>4, RangeConcatenation
<1>. QED
  BY <1>3, <1>5

LEMMA OnlyRead ==
  ASSUME NEW r, call.todo = <<r>>
  PROVE  Read = r /\ Tail(call.todo) = <<>>
BY DEF Read

LEMMA TheGot ==
  ASSUME ~Absent, Read.op = "get"
  PROVE  The(Got) \in Got
BY DEF The, Absent

LEMMA ClustersTyped ==
  ASSUME TypeOK, Asked, AnalyzeCluster \/ AnalyzeClusterMachines \/ GetNodes
  PROVE  CallGoesOn
<1>1. call.pc = "reading" /\ call.found \in SUBSET Items
  BY DEF AnalyzeCluster, AnalyzeClusterMachines, GetNodes, Reads, TypeOK
<1>2. call.found \cup Got \in SUBSET Items /\ <<>> \in Seq(Requests)
  BY <1>1, GotIs, EmptySeq
<1>3. CASE AnalyzeClusterMachines \/ GetNodes
  BY <1>1, <1>2, <1>3, FoundTyped DEF AnalyzeClusterMachines, GetNodes
<1>4. CASE AnalyzeCluster /\ Read.kind # "provisioningcluster"
  BY <1>1, <1>2, <1>4, FoundTyped DEF AnalyzeCluster
<1>5. CASE AnalyzeCluster /\ Read.kind = "provisioningcluster"
  <2>1. Found(call.found \cup Got, ClusterParts(The(Got)))
    BY <1>5 DEF AnalyzeCluster
  <2>2. Read.op = "get"
    <3>1. call.query.tool = "analyzeCluster"
      BY <1>5 DEF AnalyzeCluster, Reads
    <3>2. CASE call.todo = FirstReads(call.query)
      <4>1. Read = Get("local", "provisioningcluster", ClusterNamespace(call.query),
                       call.query.cluster, "fail")
        BY <3>1, <3>2, FirstReadsAre, OnlyRead
      <4>. QED
        BY <4>1 DEF Get
    <3>3. CASE Follows(Read)
      <4>1. PICK c \in AnswerOf("provisioningcluster") : Read \in Range(ClusterParts(c))
        BY <3>1, <3>3 DEF Follows
      <4>2. c \in Items
        BY <4>1, <1>1 DEF AnswerOf
      <4>3. Read.kind # "provisioningcluster"
        BY <4>1, <4>2, ClusterPartKinds
      <4>. QED
        BY <1>5, <4>3
    <3>. QED
      BY <1>1, <3>1, <3>2, <3>3, AskedIs
  <2>3. The(Got) \in Items
    BY <1>1, <2>1, <2>2, TheGot, GotIs DEF Found
  <2>4. ClusterParts(The(Got)) \in Seq(Requests)
    BY <2>3, ClusterPartsTyped
  <2>. QED
    BY <1>1, <1>2, <2>1, <2>4, FoundTyped
<1>. QED
  BY <1>3, <1>4, <1>5

LEMMA MachineTyped ==
  ASSUME TypeOK, Asked, GetClusterMachine
  PROVE  CallGoesOn
<1>1. call.pc = "reading" /\ call.query.tool = "getClusterMachine" /\ call.found \in SUBSET Items
  BY DEF GetClusterMachine, Reads, TypeOK
<1>2. Read.op = "get"
  <2>1. CASE call.todo = FirstReads(call.query)
    <3>1. Read = Get("local", "machine", "fleet-default", call.query.name, "end")
      BY <1>1, <2>1, FirstReadsAre, OnlyRead
    <3>. QED
      BY <3>1 DEF Get
  <2>2. CASE Follows(Read)
    <3>1. \E o \in call.found, kind \in {"machineset", "machinedeployment"} :
            Read \in Range(OwnerReads(o, kind))
      BY <1>1, <2>2 DEF Follows, AnswerOf
    <3>2. PICK o \in Items, kind \in {"machineset", "machinedeployment"} :
            Read \in Range(OwnerReads(o, kind))
      BY <1>1, <3>1
    <3>3. kind \in Strings
      BY WordsAreStrings
    <3>4. PICK k \in 1..Len(OwnerReads(o, kind)) : Read = OwnerReads(o, kind)[k]
      <4>1. DOMAIN OwnerReads(o, kind) = 1..Len(OwnerReads(o, kind))
        BY <3>3, OwnerReadsAre, LenProperties
      <4>. QED
        BY <3>2, <4>1 DEF Range
    <3>5. Read = Get("local", kind, "fleet-default", Owned(o, kind)[k].name, "end")
      BY <3>3, <3>4, OwnerReadsAre
    <3>. QED
      BY <3>5 DEF Get
  <2>. QED
    BY <1>1, <2>1, <2>2, AskedIs
<1>3. Without(Read.kind) \cup Got \in SUBSET Items
  BY <1>1, GotIs DEF Without
<1>4. ~Absent
  BY DEF GetClusterMachine, Found
<1>5. The(Got) \in Items
  BY <1>1, <1>2, <1>4, TheGot, GotIs
<1>6. /\ OwnerReads(The(Got), "machineset") \in Seq(Requests)
      /\ OwnerReads(The(Got), "machinedeployment") \in Seq(Requests)
      /\ <<>> \in Seq(Requests)
  BY <1>5, WordsAreStrings, OwnerReadsAre, EmptySeq
<1>7. \E more \in Seq(Requests) : Found(Without(Read.kind) \cup Got, more)
  <2>1. CASE Read.kind = "machine"
    BY <1>6, <2>1 DEF GetClusterMachine
  <2>2. CASE Read.kind = "machineset" /\ LastOf("machineset")
    BY <1>6, <2>2 DEF GetClusterMachine
  <2>3. CASE Read.kind # "machine" /\ ~(Read.kind = "machineset" /\ LastOf("machineset"))
    BY <1>6, <2>3 DEF GetClusterMachine
  <2>. QED
    BY <2>1, <2>2, <2>3
<1>. QED
  BY <1>1, <1>3, <1>7, FoundTyped

LEMMA InspectTyped ==
  ASSUME TypeOK, Asked, InspectPod
  PROVE  CallGoesOn
<1>1. call.pc = "reading" /\ call.query.tool = "inspectPod" /\ call.found \in SUBSET Items
  BY DEF InspectPod, Reads, TypeOK
<1>2. Read.op = "get"
  <2>1. CASE call.todo = FirstReads(call.query)
    <3>1. Read = Get(call.query.cluster, "pod", call.query.namespace, call.query.name, "fail")
      BY <1>1, <2>1, FirstReadsAre, OnlyRead
    <3>. QED
      BY <3>1 DEF Get
  <2>2. CASE Follows(Read)
    <3>1. PICK p \in call.found :
            \/ Read \in Range(PodReads(p))
            \/ Read = Get(Read.cluster, Read.kind, Read.namespace, Read.name, "fail")
      BY <1>1, <2>2 DEF Follows, AnswerOf
    <3>2. \/ Read = Get(Read.cluster, Read.kind, Read.namespace, Read.name, "fail")
          \/ Read = Get(p.ref.cluster, "podmetrics", p.ref.namespace, p.ref.name, "any")
          \/ Read = Get(p.ref.cluster, "pods/log", p.ref.namespace, p.ref.name, "any")
      BY <1>1, <3>1, PodReadsAre, FirstOwnerIs, ReadTyped
    <3>3. CASE Read = Get(Read.cluster, Read.kind, Read.namespace, Read.name, "fail")
      <4>1. Get(Read.cluster, Read.kind, Read.namespace, Read.name, "fail").op = "get"
        BY DEF Get
      <4>. QED
        BY <3>3, <4>1
    <3>4. CASE Read = Get(p.ref.cluster, "podmetrics", p.ref.namespace, p.ref.name, "any")
      BY <3>4 DEF Get
    <3>5. CASE Read = Get(p.ref.cluster, "pods/log", p.ref.namespace, p.ref.name, "any")
      BY <3>5 DEF Get
    <3>. QED
      BY <3>2, <3>3, <3>4, <3>5
  <2>. QED
    BY <1>1, <2>1, <2>2, AskedIs
<1>3. call.found \cup Got \in SUBSET Items
  BY <1>1, GotIs
<1>4. ~Absent
  BY DEF InspectPod, Found
<1>5. The(Got) \in Items
  BY <1>1, <1>2, <1>4, TheGot, GotIs
<1>6. /\ PodReads(The(Got)) \in Seq(Requests)
      /\ FirstOwner(The(Got), Workloads) \in Seq(Requests)
      /\ <<>> \in Seq(Requests)
  BY <1>5, PodReadsTyped, FirstOwnerIs, EmptySeq
<1>7. \E more \in Seq(Requests), found \in {call.found, call.found \cup Got} : Found(found, more)
  <2>1. CASE Read.kind = "pod"
    BY <1>6, <2>1 DEF InspectPod
  <2>2. CASE Read.kind = "replicaset"
    BY <1>6, <2>2 DEF InspectPod
  <2>3. CASE Read.kind \notin {"pod", "replicaset"}
    BY <1>6, <2>3 DEF InspectPod
  <2>. QED
    BY <2>1, <2>2, <2>3
<1>. QED
  BY <1>1, <1>3, <1>7, FoundTyped


LEMMA DeploymentTyped ==
  ASSUME TypeOK, Asked, GetDeploymentDetails
  PROVE  CallGoesOn
<1>1. /\ call.pc = "reading" /\ call.query.tool = "getDeploymentDetails"
      /\ call.found \in SUBSET Items
  BY DEF GetDeploymentDetails, Reads, TypeOK
<1>2. call.found \cup Got \in SUBSET Items /\ <<>> \in Seq(Requests)
  BY <1>1, GotIs, EmptySeq
<1>3. CASE Read.kind # "deployment"
  BY <1>1, <1>2, <1>3, FoundTyped DEF GetDeploymentDetails
<1>4. CASE Read.kind = "deployment"
  <2> DEFINE more == <<List(Read.cluster, "pod", Read.namespace, The(Got).data.label, "fail")>>
  <2>1. Found(call.found \cup Got, more)
    BY <1>4 DEF GetDeploymentDetails
  <2>2. Read.op = "get"
    <3>1. CASE call.todo = FirstReads(call.query)
      <4>1. Read = Get(call.query.cluster, "deployment", call.query.namespace,
                       call.query.name, "fail")
        BY <1>1, <3>1, FirstReadsAre, OnlyRead
      <4>. QED
        BY <4>1 DEF Get
    <3>2. CASE Follows(Read)
      <4>1. PICK d \in AnswerOf("deployment") :
              Read = List(call.query.cluster, "pod", call.query.namespace, d.data.label, "fail")
        BY <1>1, <3>2 DEF Follows
      <4>2. Read.kind = "pod"
        BY <4>1 DEF List, Get
      <4>. QED
        BY <1>4, <4>2
    <3>. QED
      BY <1>1, <3>1, <3>2, AskedIs
  <2>3. The(Got) \in Items
    BY <1>1, <2>1, <2>2, TheGot, GotIs DEF Found
  <2>4. The(Got).data.label \in Strings
    BY <2>3, ObjectTyped
  <2>5. List(Read.cluster, "pod", Read.namespace, The(Got).data.label, "fail") \in Requests
    BY <1>1, <2>4, ReadTyped, WordsAreStrings, ListTyped DEF Missing
  <2>6. more \in Seq(Requests)
    BY <2>5, FewAreSequence
  <2> HIDE DEF more
  <2>. QED
    BY <1>1, <1>2, <2>1, <2>6, FoundTyped
<1>. QED
  BY <1>3, <1>4

LEMMA EverywhereTyped ==
  ASSUME TypeOK, GetClusterImages \/ GetK3kClusters
  PROVE  CallGoesOn
<1>1. call.pc = "reading" /\ call.found \in SUBSET Items
  BY DEF GetClusterImages, GetK3kClusters, Reads, TypeOK
<1>2. call.found \cup Got \in SUBSET Items /\ <<>> \in Seq(Requests) /\ {} \in SUBSET Items
  BY <1>1, GotIs, EmptySeq
<1>3. OfEach(Got, "pod", "fail") \in Seq(Requests)
  BY <1>1, GotIs, OfEachAre, WordsAreStrings DEF Missing
<1>4. OfEach(Got, "k3kcluster", "any") \in Seq(Requests)
  BY <1>1, GotIs, OfEachAre, WordsAreStrings DEF Missing
<1>5. CASE GetClusterImages
  <2>1. \/ Found({}, OfEach(Got, "pod", "fail"))
        \/ Found(call.found \cup Got, <<>>)
    BY <1>5 DEF GetClusterImages
  <2>. QED
    BY <1>1, <1>2, <1>3, <2>1, FoundTyped
<1>6. CASE GetK3kClusters
  <2>1. \/ Found({}, OfEach(Got, "k3kcluster", "any"))
        \/ Found(call.found \cup Got, <<>>)
    BY <1>6 DEF GetK3kClusters
  <2>. QED
    BY <1>1, <1>2, <1>4, <2>1, FoundTyped
<1>. QED
  BY <1>5, <1>6

LEMMA ProjectTyped ==
  ASSUME TypeOK, GetProject \/ ListProjects \/ NoProject
  PROVE  CallGoesOn
<1>1. call.pc = "reading" /\ call.found \in SUBSET Items
  BY DEF GetProject, ListProjects, NoProject, Reads, TypeOK
<1>2. Got \in SUBSET Items /\ call.found \cup Got \in SUBSET Items /\ <<>> \in Seq(Requests)
  BY <1>1, GotIs, EmptySeq
<1>3. CASE NoProject
  BY <1>3, FailedTyped DEF NoProject, CallGoesOn
<1>4. CASE ListProjects
  BY <1>1, <1>2, <1>4, FoundTyped DEF ListProjects
<1>5. CASE GetProject /\ Read.kind # "project"
  BY <1>1, <1>2, <1>5, FoundTyped DEF GetProject
<1>6. CASE GetProject /\ Read.kind = "project"
  <2>1. PICK i \in Got :
          Found({i}, <<List(call.query.cluster, "namespace", "", i.ref.name, "fail"),
                       List("local", "projectroletemplatebinding", i.ref.name, "", "fail")>>)
    BY <1>6 DEF GetProject
  <2>2. i.ref.name \in Strings /\ call.query.cluster \in Strings /\ {i} \in SUBSET Items
    BY <1>2, ObjectTyped DEF TypeOK, Queries
  <2>3. /\ List(call.query.cluster, "namespace", "", i.ref.name, "fail") \in Requests
        /\ List("local", "projectroletemplatebinding", i.ref.name, "", "fail") \in Requests
    BY <2>2, WordsAreStrings, ListTyped DEF Missing
  <2>4. <<List(call.query.cluster, "namespace", "", i.ref.name, "fail"),
          List("local", "projectroletemplatebinding", i.ref.name, "", "fail")>> \in Seq(Requests)
    BY <2>3, FewAreSequence
  <2>. QED
    BY <1>1, <2>1, <2>2, <2>4, FoundTyped
<1>. QED
  BY <1>3, <1>4, <1>5, <1>6

LEMMA BindingReadsTyped ==
  ASSUME NEW namespace \in Strings
  PROVE  BindingReads(namespace) \in Seq(Requests)
<1>1. List("local", "projectroletemplatebinding", namespace, "", "fail") \in Requests
  BY WordsAreStrings, ListTyped DEF Missing
<1>. QED
  BY <1>1, FewAreSequence DEF BindingReads

LEMMA RolesTyped ==
  ASSUME TypeOK,
         \/ GetUser \/ ListClusterRoleTemplateBindings \/ ListProjectRoleTemplateBindings
         \/ ReadOnce
  PROVE  CallGoesOn
<1>1. call.pc = "reading" /\ call.found \in SUBSET Items
  BY DEF GetUser, ListClusterRoleTemplateBindings, ListProjectRoleTemplateBindings,
         ReadOnce, Reads, TypeOK
<1>2. Got \in SUBSET Items /\ <<>> \in Seq(Requests) /\ {} \in SUBSET Items
  BY <1>1, GotIs, EmptySeq
<1>3. \A P : (\E i \in Got : P = {i}) => P \in SUBSET Items
  BY <1>2
<1>4. CASE GetUser
  <2>1. \E found \in SUBSET Items : Found(found, <<>>)
    BY <1>2, <1>4 DEF GetUser
  <2>. QED
    BY <1>1, <1>2, <2>1, FoundTyped
<1>5. CASE ListClusterRoleTemplateBindings
  <2>1. OfUser(Got) \in SUBSET Items
    BY <1>2 DEF OfUser
  <2>. QED
    BY <1>1, <1>2, <1>5, <2>1, FoundTyped DEF ListClusterRoleTemplateBindings
<1>6. CASE ListProjectRoleTemplateBindings /\ Read.kind # "project"
  <2>1. {i \in OfUser(Got) : i.data.spec.cluster = call.query.cluster} \in SUBSET Items
    BY <1>2 DEF OfUser
  <2>. QED
    BY <1>1, <1>2, <1>6, <2>1, FoundTyped DEF ListProjectRoleTemplateBindings
<1>7. CASE ListProjectRoleTemplateBindings /\ Read.kind = "project"
  <2>1. PICK i \in Got : Found({}, BindingReads(Backing(i)))
    BY <1>7 DEF ListProjectRoleTemplateBindings
  <2>2. Backing(i) \in Strings
    BY <1>2, ObjectTyped DEF Backing
  <2>. QED
    BY <1>1, <1>2, <2>1, <2>2, BindingReadsTyped, FoundTyped
<1>8. CASE ReadOnce
  BY <1>1, <1>2, <1>8, FoundTyped DEF ReadOnce
<1>. QED
  BY <1>4, <1>5, <1>6, <1>7, <1>8

LEMMA RefusalsTyped ==
  ASSUME TypeOK, NotFound \/ Refused
  PROVE  CallGoesOn
<1>1. call.pc = "reading" /\ call.found \in SUBSET Items /\ <<>> \in Seq(Requests)
  BY EmptySeq DEF NotFound, Refused, TypeOK
<1>2. CASE call' = Failed
  BY <1>2, FailedTyped DEF CallGoesOn
<1>3. CASE Kept(call.found, <<>>)
  BY <1>1, <1>3, KeptIs DEF CallGoesOn
<1>4. CASE Kept(call.found, AllProjects(call.query))
  <2>1. List("local", "project", call.query.cluster, "", "fail") \in Requests
    <3>1. call.query.cluster \in Strings
      BY DEF TypeOK, Queries
    <3>. QED
      BY <3>1, WordsAreStrings, ListTyped DEF Missing
  <2>2. AllProjects(call.query) \in Seq(Requests)
    BY <2>1, FewAreSequence DEF AllProjects
  <2>. QED
    BY <1>1, <1>4, <2>2, KeptIs DEF CallGoesOn
<1>5. CASE call' = [call EXCEPT !.found = Without(Read.kind), !.todo = <<>>, !.pc = "done"]
  <2>1. Without(Read.kind) \in SUBSET Items
    BY <1>1 DEF Without
  <2>2. CallTyped(call)
    BY CallHasType
  <2>3. /\ call'.pc = "done" /\ call'.todo = <<>> /\ call'.pods = call.pods
        /\ call'.spaces = call.spaces /\ call'.totals = call.totals
        /\ call'.query = call.query
    BY <1>5, <2>2 DEF CallTyped
  <2>4. call' \in [pc : {"idle", "reading", "paged", "done", "failed", "panicked"},
              query : Queries, todo : Seq(Requests), found : SUBSET Items,
              project : Strings, pods : SUBSET Items, spaces : SUBSET Spaces,
              totals : {call.totals}, pages : Seq(References), offset : Ints]
    BY <1>1, <1>5, <2>1, <2>2 DEF CallTyped
  <2>. QED
    BY <2>2, <2>3, <2>4 DEF CallTyped, CallGoesOn
<1>. QED
  BY <1>2, <1>3, <1>4, <1>5 DEF NotFound, Refused


LEMMA SequenceSums ==
  ASSUME NEW s \in Seq(Nat)
  PROVE  SumOf(s) \in Nat /\ Largest(s) \in Nat
<1>1. s \in [1..Len(s) -> Nat] /\ Len(s) \in Nat
  OBVIOUS
<1>2. IsFiniteSet(1..Len(s))
  BY <1>1, FS_Interval
<1> DEFINE S == 1..Len(s)
<1> HIDE DEF S
<1>3. s \in [S -> Nat] /\ IsFiniteSet(S)
  BY <1>1, <1>2 DEF S
<1>. QED
  BY <1>3, SumIsNumber, LargestIs

LEMMA SampleTyped ==
  ASSUME NEW pods \in SUBSET Items, IsFiniteSet(pods),
         NEW metrics \in SUBSET Items, IsFiniteSet(metrics)
  PROVE  Sample(pods, metrics) \in Samples
<1> DEFINE running == {i \in pods : i.data.spec.running}
           used == {m \in metrics : \E i \in running : i.ref.name = m.ref.name}
           need == [i \in running |-> Effective(i.data.spec)]
           use == [m \in used |-> SumOf(m.data.spec.usage)]
<1>1. IsFiniteSet(running) /\ IsFiniteSet(used)
  BY FS_Subset
<1>2. \A i \in Items : Effective(i.data.spec) \in Nat /\ SumOf(i.data.spec.usage) \in Nat
  <2>1. ASSUME NEW i \in Items
        PROVE  Effective(i.data.spec) \in Nat /\ SumOf(i.data.spec.usage) \in Nat
    <3>1. /\ SumOf(i.data.spec.apps) \in Nat /\ Largest(i.data.spec.inits) \in Nat
          /\ SumOf(i.data.spec.usage) \in Nat
      BY ObjectTyped, SequenceSums
    <3>. QED
      BY <3>1 DEF Effective, QuantityMax
  <2>. QED
    BY <2>1
<1>3. need \in [running -> Nat] /\ use \in [used -> Nat]
  BY <1>2
<1>4. Sample(pods, metrics) =
        [pods |-> Cardinality(running), requests |-> SumOf(need), usage |-> SumOf(use)]
  BY DEF Sample
<1> HIDE DEF running, used, need, use
<1>5. Cardinality(running) \in Nat /\ SumOf(need) \in Nat /\ SumOf(use) \in Nat
  BY <1>1, <1>3, SumIsNumber, FS_CardinalityType
<1>. QED
  BY <1>4, <1>5 DEF Samples

\* The resource usage keeps no objects as its answer.
UsageGoesOn ==
  /\ call'.found \subseteq call.found
  /\ \E more \in Seq(Requests) :
       /\ call'.todo = more \o Tail(call.todo)
       /\ \A r \in Range(more) : ForUsage(r)

LEMMA UsageStartTyped ==
  ASSUME TypeOK, UsageProjects \/ UsageNamespace
  PROVE  /\ CallGoesOn /\ UsageGoesOn
         /\ call'.project = call.project /\ call'.spaces = call.spaces
         /\ call'.totals = call.totals
<1>1. call.pc = "reading" /\ {} \in SUBSET Items
  BY DEF UsageProjects, UsageNamespace, Reads
<1>2. CASE UsageProjects
  <2>1. PICK X \in SUBSET Got : Found({}, NamespacesOf(X))
    BY <1>2 DEF UsageProjects
  <2>2. X \in SUBSET Items /\ IsFiniteSet(X)
    BY <1>1, <2>1, GotIs, FS_Subset
  <2>3. NamespacesOf(X) \in Seq(Requests) /\ \A r \in Range(NamespacesOf(X)) : ForUsage(r)
    BY <2>2, NamespacesOfAre
  <2>4. CallGoesOn
    BY <1>1, <2>1, <2>3, FoundTyped
  <2>5. Kept({}, NamespacesOf(X))
    BY <2>1 DEF Found
  <2>6. /\ call'.found = {} /\ call'.todo = NamespacesOf(X) \o Tail(call.todo)
        /\ call'.project = call.project /\ call'.spaces = call.spaces
        /\ call'.totals = call.totals
    BY <1>1, <2>3, <2>5, KeptIs
  <2>. QED
    BY <2>3, <2>4, <2>6 DEF UsageGoesOn
<1>3. CASE UsageNamespace
  <2>1. call.query.namespace \in Strings
    BY DEF TypeOK, Queries
  <2> DEFINE more == <<UsageRead(call.query.namespace)>>
  <2>2. more \in Seq(Requests)
    BY <2>1, UsageReadTyped, FewAreSequence
  <2>3. \A r \in Range(more) : ForUsage(r)
    <3>1. ForUsage(UsageRead(call.query.namespace))
      BY <2>1, UsageReadTyped
    <3>2. Range(more) = {UsageRead(call.query.namespace)}
      BY FewAre
    <3>. QED
      BY <3>1, <3>2
  <2>4. Found({}, more)
    BY <1>3 DEF UsageNamespace
  <2> HIDE DEF more
  <2>5. CallGoesOn
    BY <1>1, <2>2, <2>4, FoundTyped
  <2>6. Kept({}, more)
    BY <2>4 DEF Found
  <2>7. /\ call'.found = {} /\ call'.todo = more \o Tail(call.todo)
        /\ call'.project = call.project /\ call'.spaces = call.spaces
        /\ call'.totals = call.totals
    BY <1>1, <2>2, <2>6, KeptIs
  <2>. QED
    BY <2>2, <2>3, <2>5, <2>7 DEF UsageGoesOn
<1>. QED
  BY <1>2, <1>3

LEMMA UsageNamespacesTyped ==
  ASSUME TypeOK, UsageNamespaces
  PROVE  /\ CallGoesOn /\ UsageGoesOn
         /\ call'.todo = UsageReads(Got) \o Tail(call.todo)
         /\ call'.project = Read.label /\ call'.spaces = call.spaces
         /\ call'.totals = [p \in DOMAIN call.totals \cup {Read.label} |->
                              IF p = Read.label THEN ZeroSample ELSE call.totals[p]]
<1> DEFINE more == UsageReads(Got)
           totals == [p \in DOMAIN call.totals \cup {Read.label} |->
                        IF p = Read.label THEN ZeroSample ELSE call.totals[p]]
           c == [call EXCEPT !.project = Read.label, !.totals = totals]
<1>1. call.pc = "reading"
  BY DEF UsageNamespaces, Reads
<1>3. call' = Onwards(c, more)
  BY DEF UsageNamespaces
<1>4. more \in Seq(Requests) /\ \A r \in Range(more) : ForUsage(r)
  BY <1>1, GotIs, UsageReadsAre
<1>5. Read.label \in Strings
  BY <1>1, ReadTyped
<1>6. CallTyped(call) /\ call.todo # <<>>
  BY <1>1, CallHasType, ReadTyped
<1>7. DOMAIN totals \subseteq Strings /\ \A p \in DOMAIN totals : totals[p] \in Samples
  <2>1. ZeroSample \in Samples
    BY DEF ZeroSample, Samples
  <2>. QED
    BY <1>5, <1>6, <2>1 DEF CallTyped
<1> HIDE DEF more, totals
<1>8. /\ c.pc = call.pc /\ c.query = call.query /\ c.todo = call.todo /\ c.pods = call.pods
      /\ c.spaces = call.spaces /\ c.found = call.found /\ c.totals = totals
      /\ c.project = Read.label
  BY <1>6 DEF CallTyped
<1>9. c \in [pc : {"idle", "reading", "paged", "done", "failed", "panicked"},
             query : Queries, todo : Seq(Requests), found : SUBSET Items,
             project : Strings, pods : SUBSET Items, spaces : SUBSET Spaces,
             totals : {c.totals}, pages : Seq(References), offset : Ints]
  BY <1>5, <1>6, <1>8 DEF CallTyped
<1>10. CallTyped(c)
  BY <1>6, <1>7, <1>8, <1>9 DEF CallTyped
<1> HIDE DEF c
<1>11. CallGoesOn
  BY <1>3, <1>4, <1>6, <1>8, <1>10, OnwardsIs DEF CallGoesOn
<1>12. /\ call'.found = call.found /\ call'.todo = more \o Tail(call.todo)
       /\ call'.project = Read.label /\ call'.spaces = call.spaces /\ call'.totals = totals
  BY <1>3, <1>4, <1>6, <1>8, <1>10, OnwardsIs
<1>. QED
  BY <1>4, <1>11, <1>12 DEF UsageGoesOn, more, totals

LEMMA UsagePodsTyped ==
  ASSUME TypeOK, UsagePods
  PROVE  /\ CallGoesOn /\ UsageGoesOn
         /\ call'.todo = <<MetricsRead(Read.namespace)>> \o Tail(call.todo)
         /\ call'.pods = Got
         /\ call'.project = call.project /\ call'.spaces = call.spaces
         /\ call'.totals = call.totals
<1> DEFINE c == [call EXCEPT !.pods = Got]
           more == <<MetricsRead(Read.namespace)>>
<1>1. call.pc = "reading" /\ call' = Onwards(c, more)
  BY DEF UsagePods, Reads
<1>2. Got \in SUBSET Items /\ IsFiniteSet(Got)
  BY <1>1, GotIs
<1>3. more \in Seq(Requests) /\ \A r \in Range(more) : ForUsage(r)
  <2>1. MetricsRead(Read.namespace) \in Requests
    <3>1. call.query.cluster \in Strings
      BY DEF TypeOK, Queries
    <3>. QED
      BY <1>1, <3>1, ReadTyped, WordsAreStrings, ListTyped DEF MetricsRead, Missing
  <2>2. ForUsage(MetricsRead(Read.namespace))
    BY DEF MetricsRead, List, Get, ForUsage
  <2>. QED
    <3>1. more \in Seq(Requests)
      BY <2>1, FewAreSequence
    <3>2. Range(more) = {MetricsRead(Read.namespace)}
      BY FewAre
    <3>. QED
      BY <2>2, <3>1, <3>2
<1>4. CallTyped(call) /\ call.todo # <<>>
  BY <1>1, CallHasType, ReadTyped
<1>5. /\ CallTyped(c) /\ c.todo = call.todo /\ c.query = call.query /\ c.found = call.found
      /\ c.pods = Got /\ c.project = call.project /\ c.spaces = call.spaces
      /\ c.totals = call.totals
  BY <1>2, <1>4 DEF CallTyped
<1> HIDE DEF c, more
<1>6. CallGoesOn
  BY <1>1, <1>3, <1>4, <1>5, OnwardsIs DEF CallGoesOn
<1>7. /\ call'.found = call.found /\ call'.todo = more \o Tail(call.todo)
      /\ call'.pods = Got /\ call'.project = call.project /\ call'.spaces = call.spaces
      /\ call'.totals = call.totals
  BY <1>1, <1>3, <1>4, <1>5, OnwardsIs
<1>. QED
  BY <1>3, <1>6, <1>7 DEF UsageGoesOn, more

LEMMA UsageMetricsTyped ==
  ASSUME TypeOK, UsageMetrics
  PROVE  /\ CallGoesOn /\ UsageGoesOn
         /\ call'.todo = Tail(call.todo) /\ call'.project = call.project
         /\ \E metrics \in {{}} \cup (IF Answers THEN {Got} ELSE {}) :
              LET sample == Sample(call.pods, metrics) IN
              /\ sample \in Samples
              /\ call'.spaces = call.spaces \cup
                   {[project |-> call.project, namespace |-> Read.namespace,
                     sample |-> sample]}
              /\ call'.totals = [p \in DOMAIN call.totals |->
                                   IF p = call.project THEN Plus(call.totals[p], sample)
                                   ELSE call.totals[p]]
<1>1. PICK metrics \in {{}} \cup (IF Answers THEN {Got} ELSE {}) :
        call' = Onwards([call EXCEPT
                  !.pods = {},
                  !.spaces = @ \cup {[project |-> call.project, namespace |-> Read.namespace,
                                      sample |-> Sample(call.pods, metrics)]},
                  !.totals = [p \in DOMAIN @ |->
                     IF p = call.project THEN Plus(@[p], Sample(call.pods, metrics))
                     ELSE @[p]]], <<>>)
  BY DEF UsageMetrics
<1> DEFINE sample == Sample(call.pods, metrics)
           space == [project |-> call.project, namespace |-> Read.namespace, sample |-> sample]
           spaces == call.spaces \cup {space}
           totals == [p \in DOMAIN call.totals |->
                        IF p = call.project THEN Plus(call.totals[p], sample)
                        ELSE call.totals[p]]
           c == [call EXCEPT !.pods = {}, !.spaces = spaces, !.totals = totals]
<1>2. call.pc = "reading" /\ call' = Onwards(c, <<>>)
  BY <1>1 DEF UsageMetrics, Reads
<1>3. CallTyped(call) /\ call.todo # <<>> /\ <<>> \in Seq(Requests)
  BY <1>2, CallHasType, ReadTyped, EmptySeq
<1>4. sample \in Samples
  <2>1. metrics \in SUBSET Items /\ IsFiniteSet(metrics)
    <3>1. IsFiniteSet({})
      BY FS_EmptySet
    <3>. QED
      BY <1>2, <3>1, GotIs
  <2>2. call.pods \in SUBSET Items /\ IsFiniteSet(call.pods)
    BY <1>3 DEF CallTyped
  <2>. QED
    BY <2>1, <2>2, SampleTyped
<1> HIDE DEF sample
<1>5. space \in Spaces
  BY <1>2, <1>3, <1>4, ReadTyped DEF CallTyped, Spaces
<1> HIDE DEF space
<1>6. spaces \in SUBSET Spaces /\ IsFiniteSet(spaces)
  BY <1>3, <1>5, FS_AddElement DEF CallTyped
<1>7. DOMAIN totals \subseteq Strings /\ \A p \in DOMAIN totals : totals[p] \in Samples
  BY <1>3, <1>4 DEF CallTyped, Samples, Plus
<1> HIDE DEF spaces, totals
<1>8. /\ c.pc = call.pc /\ c.query = call.query /\ c.todo = call.todo /\ c.pods = {}
      /\ c.spaces = spaces /\ c.found = call.found /\ c.totals = totals
      /\ c.project = call.project
  BY <1>3 DEF CallTyped
<1>9. c \in [pc : {"idle", "reading", "paged", "done", "failed", "panicked"},
             query : Queries, todo : Seq(Requests), found : SUBSET Items,
             project : Strings, pods : SUBSET Items, spaces : SUBSET Spaces,
             totals : {c.totals}, pages : Seq(References), offset : Ints]
  BY <1>3, <1>6, <1>8 DEF CallTyped
<1>10. CallTyped(c)
  BY <1>3, <1>6, <1>7, <1>8, <1>9, FS_EmptySet DEF CallTyped
<1> HIDE DEF c
<1>11. CallGoesOn
  BY <1>2, <1>3, <1>8, <1>10, OnwardsIs DEF CallGoesOn
<1>12. call'.found = call.found /\ call'.todo = <<>> \o Tail(call.todo)
  <2>1. Onwards(c, <<>>).todo = <<>> \o Tail(c.todo) /\ Onwards(c, <<>>).found = c.found
    BY <1>3, <1>8, <1>10, OnwardsIs
  <2>. QED
    BY <1>2, <1>8, <2>1
<1>13. Range(<<>>) = {}
  BY FewAre
<1>14. call'.todo = Tail(call.todo)
  <2>1. Tail(call.todo) \in Seq(Requests)
    BY <1>2, ReadTyped
  <2>. QED
    BY <1>12, <2>1, ConcatProperties
<1>15. call'.project = call.project /\ call'.spaces = spaces /\ call'.totals = totals
  <2>1. /\ Onwards(c, <<>>).project = c.project /\ Onwards(c, <<>>).spaces = c.spaces
        /\ Onwards(c, <<>>).totals = c.totals
    BY <1>3, <1>8, <1>10, OnwardsIs
  <2>. QED
    BY <1>2, <1>8, <2>1
<1>16. CallGoesOn /\ UsageGoesOn
  BY <1>3, <1>11, <1>12, <1>13 DEF UsageGoesOn
<1>. QED
  BY <1>1, <1>4, <1>14, <1>15, <1>16 DEF spaces, totals, space, sample


-----------------------------------------------------------------------------
(* Lists, a page at a time.                                                  *)

LEMMA RankIs ==
  ASSUME NEW x \in Range(Order)
  PROVE  Rank(x) \in Nat /\ Rank(x) \in DOMAIN Order /\ Order[Rank(x)] = x
<1>1. \E k \in DOMAIN Order : Order[k] = x
  BY DEF Range
<1>2. DOMAIN Order \subseteq Nat
  BY OrderAssumption
<1>. QED
  BY <1>1, <1>2 DEF Rank

LEMMA SameReference ==
  ASSUME NEW r \in References, NEW s \in References, r.cluster = s.cluster, r.kind = s.kind,
         r.namespace = s.namespace, r.name = s.name
  PROVE  r = s
<1>1. r = [cluster |-> r.cluster, kind |-> r.kind, namespace |-> r.namespace, name |-> r.name]
  BY DEF References
<1>2. s = [cluster |-> s.cluster, kind |-> s.kind, namespace |-> s.namespace, name |-> s.name]
  BY DEF References
<1>. QED
  BY <1>1, <1>2

\* Objects of one cluster and kind that have their place in the order.
Placed(S) ==
  /\ S \subseteq References /\ IsFiniteSet(S)
  /\ \A r \in S : {r.namespace, r.name} \subseteq Range(Order)
  /\ \A r, s \in S : r.cluster = s.cluster /\ r.kind = s.kind

LEMMA BeforeOrders ==
  ASSUME NEW S, Placed(S)
  PROVE  Orders(S, {p \in S \X S : Before(p[1], p[2])})
<1> DEFINE order == {p \in S \X S : Before(p[1], p[2])}
<1>1. \A x, y \in S : <<x, y>> \in order <=> Before(x, y)
  OBVIOUS
<1>2. \A x \in S : /\ Rank(x.namespace) \in Nat /\ Rank(x.name) \in Nat
                   /\ Order[Rank(x.namespace)] = x.namespace /\ Order[Rank(x.name)] = x.name
  BY RankIs DEF Placed
<1>3. \A x, y \in S : x.namespace = y.namespace /\ x.name = y.name => x = y
  BY SameReference DEF Placed
<1> HIDE DEF order
<1>4. \A x \in S : ~Before(x, x)
  BY <1>2 DEF Before
<1>5. \A x, y, z \in S : Before(x, y) /\ Before(y, z) => Before(x, z)
  BY <1>2 DEF Before
<1>6. \A x, y \in S : x = y \/ Before(x, y) \/ Before(y, x)
  <2>1. \A x, y \in S : Rank(x.namespace) = Rank(y.namespace) => x.namespace = y.namespace
    BY <1>2
  <2>2. \A x, y \in S : Rank(x.name) = Rank(y.name) => x.name = y.name
    BY <1>2
  <2>. QED
    BY <1>2, <1>3, <2>1, <2>2 DEF Before
<1>. QED
  BY <1>1, <1>4, <1>5, <1>6 DEF order, Orders

\* How many objects come before one.
Place(S, r) == Cardinality({x \in S : Before(x, r)})

LEMMA SortedIs ==
  ASSUME NEW S, Placed(S)
  PROVE  /\ Cardinality(S) \in Nat /\ Sorted(S) \in Seq(S) /\ Len(Sorted(S)) = Cardinality(S)
         /\ \A r \in S : /\ Place(S, r) \in 0..Cardinality(S) - 1
                         /\ \A k \in 1..Cardinality(S) :
                              Sorted(S)[k] = r <=> k = Place(S, r) + 1
<1> DEFINE order == {p \in S \X S : Before(p[1], p[2])}
<1>1. Orders(S, order) /\ IsFiniteSet(S)
  BY BeforeOrders DEF Placed
<1>2. Sorted(S) = InOrder(S, order)
  BY DEF Sorted
<1>3. \A r \in S : {x \in S : Before(x, r)} = {x \in S : <<x, r>> \in order}
  OBVIOUS
<1> HIDE DEF order
<1>4. /\ Cardinality(S) \in Nat
      /\ InOrder(S, order) \in [1..Cardinality(S) -> S]
      /\ \A x \in S :
           LET place == Cardinality({y \in S : <<y, x>> \in order}) IN
           /\ place \in 0..Cardinality(S) - 1
           /\ \A k \in 1..Cardinality(S) : InOrder(S, order)[k] = x <=> k = place + 1
  BY <1>1, PutInOrder
<1>5. Sorted(S) \in Seq(S) /\ Len(Sorted(S)) = Cardinality(S)
  BY <1>2, <1>4, FunctionIsSequence
<1>6. \A r \in S : /\ Place(S, r) \in 0..Cardinality(S) - 1
                   /\ \A k \in 1..Cardinality(S) :
                        Sorted(S)[k] = r <=> k = Place(S, r) + 1
  BY <1>2, <1>3, <1>4 DEF Place
<1>. QED
  BY <1>4, <1>5, <1>6

LEMMA ListedIsPlaced ==
  ASSUME TypeOK, Ordered, call.query.tool = "listKubernetesResources"
  PROVE  Placed(Listed)
<1>1. Listed \in SUBSET DOMAIN store /\ IsFiniteSet(Listed)
  BY FS_Subset DEF Listed, TypeOK
<1>2. \A r \in Listed : r.cluster = call.query.cluster /\ r.kind = Served(call.query.kind)
  BY DEF Listed
<1>3. \A r \in Listed : {r.namespace, r.name} \subseteq Range(Order)
  BY <1>1, <1>2 DEF Ordered
<1>. QED
  BY <1>1, <1>2, <1>3 DEF Placed, TypeOK

\* A page.
LEMMA PageIs ==
  ASSUME TypeOK, Ordered, Asked, ListKubernetesResources
  PROVE  LET all == Sorted(Listed)
             total == Cardinality(Listed)
             upTo == Lesser(Offset(call.offset), total)
             next == Offset(call.offset) + Limit(call.query.limit) IN
         \/ /\ next > MaxInt
            /\ call' = [call EXCEPT !.pc = "panicked", !.todo = <<>>]
         \/ /\ next <= MaxInt /\ next \in Ints
            /\ call' = [call EXCEPT
                 !.pc = IF next < total THEN "paged" ELSE "done", !.todo = <<>>,
                 !.pages = @ \o SubSeq(all, upTo + 1, Lesser(next, total)),
                 !.offset = next]
<1> DEFINE all == Sorted(Listed)
           total == Cardinality(Listed)
           next == Offset(call.offset) + Limit(call.query.limit)
<1>1. call.pc = "reading" /\ call.query.tool = "listKubernetesResources"
  BY DEF ListKubernetesResources, Reads
<1>2. Read = List(call.query.cluster, call.query.kind, call.query.namespace, "", "fail")
  <2>1. ~Follows(Read)
    BY <1>1 DEF Follows, OneReadTools
  <2>2. call.todo = FirstReads(call.query)
    BY <1>1, <2>1, AskedIs
  <2>. QED
    BY <1>1, <2>2, FirstReadsAre, OnlyRead
<1>3. Matching = Listed
  <2>1. /\ Read.op = "list" /\ Read.cluster = call.query.cluster /\ Read.kind = call.query.kind
        /\ Read.namespace = call.query.namespace /\ Read.label = ""
    BY <1>2 DEF List, Get
  <2>. QED
    BY <2>1 DEF Matching, Listed
<1>4. total \in Nat /\ Len(all) = total
  BY <1>1, ListedIsPlaced, SortedIs
<1>5. /\ call.offset \in Ints /\ call.query.limit \in Ints
  BY DEF TypeOK, Queries
<1>6. /\ Offset(call.offset) \in 0..MaxInt /\ Limit(call.query.limit) \in 1..MaxInt
      /\ InBounds(call.offset, call.query.limit, total) <=> next <= MaxInt
  BY <1>4, <1>5, Normalised, InBoundsUnlessOverflow
<1>7. call' =
       IF ~InBounds(call.offset, call.query.limit, total)
       THEN [call EXCEPT !.pc = "panicked", !.todo = <<>>]
       ELSE [call EXCEPT
               !.pc = IF HasMore(call.offset, call.query.limit, total) THEN "paged" ELSE "done",
               !.todo = <<>>,
               !.pages = @ \o SubSeq(all, Start(call.offset, total) + 1,
                                          End(call.offset, call.query.limit, total)),
               !.offset = NextOffset(call.offset, call.query.limit)]
  BY <1>3, <1>4 DEF ListKubernetesResources
<1>8. CASE next <= MaxInt
  <2>1. Wrap(next) = next /\ next \in Ints
    BY <1>6, <1>8, PaginationAssumption DEF Wrap, Ints
  <2>2. /\ HasMore(call.offset, call.query.limit, total) <=> next < total
        /\ End(call.offset, call.query.limit, total) = Lesser(next, total)
        /\ NextOffset(call.offset, call.query.limit) = next
        /\ Start(call.offset, total) = Lesser(Offset(call.offset), total)
    BY <2>1 DEF HasMore, End, NextOffset, Start
  <2> HIDE DEF next, total, all
  <2>3. call' =
       [call EXCEPT
               !.pc = IF HasMore(call.offset, call.query.limit, total) THEN "paged" ELSE "done",
               !.todo = <<>>,
               !.pages = @ \o SubSeq(all, Start(call.offset, total) + 1,
                                          End(call.offset, call.query.limit, total)),
               !.offset = NextOffset(call.offset, call.query.limit)]
    BY <1>6, <1>7, <1>8
  <2>4. call' = [call EXCEPT
                 !.pc = IF next < total THEN "paged" ELSE "done", !.todo = <<>>,
                 !.pages = @ \o SubSeq(all, Lesser(Offset(call.offset), total) + 1,
                                            Lesser(next, total)),
                 !.offset = next]
    BY <2>2, <2>3
  <2>. QED
    BY <1>8, <2>1, <2>4 DEF next, total, all
<1>9. CASE ~(next <= MaxInt)
  <2>1. next > MaxInt
    BY <1>6, <1>9, PaginationAssumption
  <2>2. call' = [call EXCEPT !.pc = "panicked", !.todo = <<>>]
    BY <1>6, <1>7, <1>9
  <2>. QED
    BY <2>1, <2>2
<1>. QED
  BY <1>8, <1>9

LEMMA PagesTyped ==
  ASSUME TypeOK, Ordered, Asked, ListKubernetesResources
  PROVE  CallTyped(call') /\ call'.query = call.query /\ PanicsOnlyOnOverflow'
<1> DEFINE all == Sorted(Listed)
           total == Cardinality(Listed)
           upTo == Lesser(Offset(call.offset), total)
           next == Offset(call.offset) + Limit(call.query.limit)
<1>1. CallTyped(call) /\ call.query.tool = "listKubernetesResources"
  BY CallHasType DEF ListKubernetesResources, Reads
<1>2. <<>> \in Seq(Requests)
  BY EmptySeq
<1>3. /\ \/ /\ next > MaxInt
            /\ call' = [call EXCEPT !.pc = "panicked", !.todo = <<>>]
         \/ /\ next <= MaxInt /\ next \in Ints
            /\ call' = [call EXCEPT
                 !.pc = IF next < total THEN "paged" ELSE "done", !.todo = <<>>,
                 !.pages = @ \o SubSeq(all, upTo + 1, Lesser(next, total)),
                 !.offset = next]
  BY PageIs
<1>4. call.pages \o SubSeq(all, upTo + 1, Lesser(next, total)) \in Seq(References)
  <2>1. total \in Nat /\ all \in Seq(Listed) /\ Len(all) = total /\ Listed \subseteq References
    BY <1>1, ListedIsPlaced, SortedIs DEF Placed
  <2>2. call.offset \in Ints /\ call.query.limit \in Ints
    BY DEF TypeOK, Queries
  <2>3. upTo + 1 >= 1 /\ upTo \in Int /\ Lesser(next, total) \in Int /\ Lesser(next, total) <= total
    BY <2>1, <2>2, Normalised, PaginationAssumption DEF Lesser
  <2> HIDE DEF all, total, upTo, next
  <2>4. \A j \in 1..Len(all) : all[j] \in Listed
    BY <2>1
  <2>5. \A j \in (upTo + 1)..Lesser(next, total) : j \in 1..Len(all)
    BY <2>1, <2>3
  <2>6. \A j \in (upTo + 1)..Lesser(next, total) : all[j] \in References
    BY <2>1, <2>4, <2>5
  <2>7. SubSeq(all, upTo + 1, Lesser(next, total)) \in Seq(References)
    BY <2>3, <2>6, SubSeqProperties
  <2>. QED
    BY <1>1, <2>7, ConcatProperties DEF CallTyped
<1> HIDE DEF all, total, upTo, next
<1>5. CASE call' = [call EXCEPT !.pc = "panicked", !.todo = <<>>] /\ next > MaxInt
  BY <1>1, <1>2, <1>5 DEF CallTyped, PanicsOnlyOnOverflow, next
<1>6. CASE /\ next \in Ints
           /\ call' = [call EXCEPT
                 !.pc = IF next < total THEN "paged" ELSE "done", !.todo = <<>>,
                 !.pages = @ \o SubSeq(all, upTo + 1, Lesser(next, total)),
                 !.offset = next]
  <2>1. /\ call'.pc \in {"paged", "done"} /\ call'.todo = <<>> /\ call'.query = call.query
        /\ call'.pods = call.pods /\ call'.spaces = call.spaces /\ call'.totals = call.totals
    BY <1>1, <1>6 DEF CallTyped
  <2>2. call' \in [pc : {"idle", "reading", "paged", "done", "failed", "panicked"},
            query : Queries, todo : Seq(Requests), found : SUBSET Items,
            project : Strings, pods : SUBSET Items, spaces : SUBSET Spaces,
            totals : {call'.totals}, pages : Seq(References), offset : Ints]
    BY <1>1, <1>2, <1>4, <1>6 DEF CallTyped
  <2>. QED
    BY <1>1, <2>1, <2>2 DEF CallTyped, PanicsOnlyOnOverflow
<1>. QED
  BY <1>3, <1>5, <1>6


-----------------------------------------------------------------------------
(* The steps keep the types, and what a call asks.                           *)

LEMMA ToolsStepTyped ==
  ASSUME TypeOK, Ordered, Asked, PanicsOnlyOnOverflow, Step
  PROVE  TypeOK' /\ call'.query = call.query /\ PanicsOnlyOnOverflow' /\ Ordered'
<1> DEFINE goal == /\ CallTyped(call') /\ call'.query = call.query /\ PanicsOnlyOnOverflow'
                   /\ call'.pc = "paged" => call.query.tool = "listKubernetesResources"
<1> SUFFICES goal
  BY TypeKept DEF Step, Ordered
<1>1. ASSUME CallGoesOn
      PROVE  goal
  BY <1>1 DEF PanicsOnlyOnOverflow, CallGoesOn
<1>2. CASE ListKubernetesResources
  BY <1>2, PagesTyped DEF ListKubernetesResources, Reads
<1>3. CASE NextPage
  <2>1. CallTyped(call)
    BY CallHasType
  <2>2. FirstReads(call.query) \in Seq(Requests) /\ FirstReads(call.query) # <<>>
    BY <2>1, FirstReadsTyped DEF CallTyped
  <2>3. call' = [call EXCEPT !.pc = "reading", !.todo = FirstReads(call.query)]
    BY <1>3 DEF NextPage
  <2>4. /\ call'.pc = "reading" /\ call'.query = call.query
        /\ call'.todo = FirstReads(call.query)
        /\ call'.pods = call.pods /\ call'.spaces = call.spaces /\ call'.totals = call.totals
    BY <2>1, <2>3 DEF CallTyped
  <2>5. call' \in [pc : {"idle", "reading", "paged", "done", "failed", "panicked"},
            query : Queries, todo : Seq(Requests), found : SUBSET Items,
            project : Strings, pods : SUBSET Items, spaces : SUBSET Spaces,
            totals : {call'.totals}, pages : Seq(References), offset : Ints]
    BY <2>1, <2>2, <2>3 DEF CallTyped
  <2>. QED
    BY <2>1, <2>2, <2>4, <2>5 DEF CallTyped, PanicsOnlyOnOverflow
<1>4. CASE AnalyzeCluster \/ AnalyzeClusterMachines \/ GetNodes
  BY <1>1, <1>4, ClustersTyped
<1>5. CASE GetClusterMachine
  BY <1>1, <1>5, MachineTyped
<1>6. CASE InspectPod
  BY <1>1, <1>6, InspectTyped
<1>7. CASE GetDeploymentDetails
  BY <1>1, <1>7, DeploymentTyped
<1>8. CASE GetClusterImages \/ GetK3kClusters
  BY <1>1, <1>8, EverywhereTyped
<1>9. CASE GetProject \/ ListProjects \/ NoProject
  BY <1>1, <1>9, ProjectTyped
<1>10. CASE \/ GetUser \/ ListClusterRoleTemplateBindings
            \/ ListProjectRoleTemplateBindings \/ ReadOnce
  BY <1>1, <1>10, RolesTyped
<1>11. CASE UsageProjects \/ UsageNamespace
  BY <1>1, <1>11, UsageStartTyped
<1>12. CASE UsageNamespaces
  BY <1>1, <1>12, UsageNamespacesTyped
<1>13. CASE UsagePods
  BY <1>1, <1>13, UsagePodsTyped
<1>14. CASE UsageMetrics
  BY <1>1, <1>14, UsageMetricsTyped
<1>15. CASE NotFound \/ Refused
  BY <1>1, <1>15, RefusalsTyped
<1>. QED
  BY <1>2, <1>3, <1>4, <1>5, <1>6, <1>7, <1>8, <1>9, <1>10, <1>11, <1>12, <1>13,
     <1>14, <1>15 DEF Step

LEMMA OthersTyped ==
  ASSUME TypeOK, OthersWrite
  PROVE  TypeOK' /\ call' = call /\ variants' = variants
<1>1. call' = call /\ variants' = variants
  BY DEF OthersWrite
<1>2. drift' \in 0..MaxDrift
  BY ReadAssumption DEF OthersWrite, TypeOK
<1>3. CASE \E v \in variants :
             /\ store' = [r \in DOMAIN store \cup {v.ref} |->
                            IF r = v.ref THEN v.data ELSE store[r]]
             /\ touched' = touched \cup {v.ref}
  <2>1. PICK v \in variants :
          /\ store' = [r \in DOMAIN store \cup {v.ref} |->
                            IF r = v.ref THEN v.data ELSE store[r]]
          /\ touched' = touched \cup {v.ref}
    BY <1>3
  <2>2. v.ref \in References /\ v.data \in Objects
    BY DEF TypeOK
  <2>3. DOMAIN store' = DOMAIN store \cup {v.ref}
    BY <2>1
  <2>4. IsFiniteSet(DOMAIN store')
    <3>1. IsFiniteSet(DOMAIN store)
      BY DEF TypeOK
    <3>2. IsFiniteSet(DOMAIN store \cup {v.ref})
      BY <3>1, FS_AddElement
    <3>. QED
      BY <2>3, <3>2
  <2>5. \A r \in DOMAIN store' : store'[r] \in Objects
    BY <2>1, <2>2 DEF TypeOK
  <2>. QED
    BY <1>1, <1>2, <2>1, <2>2, <2>3, <2>4, <2>5 DEF TypeOK
<1>4. CASE \E d \in DOMAIN store :
             /\ store' = [r \in DOMAIN store \ {d} |-> store[r]]
             /\ touched' = touched \cup {d}
  <2>1. PICK d \in DOMAIN store :
             /\ store' = [r \in DOMAIN store \ {d} |-> store[r]]
             /\ touched' = touched \cup {d}
    BY <1>4
  <2>2. DOMAIN store' = DOMAIN store \ {d}
    BY <2>1
  <2>3. IsFiniteSet(DOMAIN store')
    BY <2>2, FS_Subset DEF TypeOK
  <2>4. \A r \in DOMAIN store' : store'[r] \in Objects
    BY <2>1 DEF TypeOK
  <2>. QED
    BY <1>1, <1>2, <2>1, <2>2, <2>3, <2>4 DEF TypeOK
<1>. QED
  BY <1>1, <1>3, <1>4 DEF OthersWrite

LEMMA BeginTyped ==
  ASSUME TypeOK, Begin
  PROVE  TypeOK' /\ call'.query = call.query /\ call'.pc = "reading" /\ touched' = {}
         /\ call'.found = {} /\ call'.todo = FirstReads(call.query)
         /\ call'.pages = <<>>
<1>1. call.query \in Queries
  BY DEF TypeOK
<1>2. FirstReads(call.query) \in Seq(Requests) /\ FirstReads(call.query) # <<>>
  BY <1>1, FirstReadsTyped
<1>3. call' = Called(call.query, FirstReads(call.query), "reading")
  BY DEF Begin
<1>4. CallTyped(call')
  BY <1>1, <1>2, <1>3, CalledTyped
<1>5. /\ UNCHANGED <<store, variants, drift>> /\ touched' = {}
  BY DEF Begin
<1>6. TypeOK'
  BY <1>4, <1>5 DEF TypeOK, CallTyped
<1>7. call'.query = call.query /\ call'.pc = "reading"
         /\ call'.found = {} /\ call'.todo = FirstReads(call.query) /\ call'.pages = <<>>
  BY <1>3 DEF Called
<1>. QED
  BY <1>5, <1>6, <1>7

LEMMA InitTyped ==
  ASSUME Init
  PROVE  /\ TypeOK /\ Ordered /\ call.pc = "idle" /\ call.found = {} /\ call.todo = <<>>
<1>1. PICK s \in Scenarios :
        store = s.store /\ variants = s.variants /\ call = Called(s.query, <<>>, "idle")
  BY DEF Init
<1>2. /\ s.query \in Queries
      /\ DOMAIN s.store \subseteq References /\ IsFiniteSet(DOMAIN s.store)
      /\ \A r \in DOMAIN s.store : s.store[r] \in Objects
      /\ \A v \in s.variants : v.ref \in References /\ v.data \in Objects
      /\ MaxDrift \in Nat
  BY ReadAssumption
<1>3. CallTyped(call)
  BY <1>1, <1>2, CalledTyped, EmptySeq
<1>4. call.query = s.query /\ call.pc = "idle" /\ call.found = {} /\ call.todo = <<>>
  BY <1>1 DEF Called
<1>5. TypeOK
  BY <1>1, <1>2, <1>3 DEF Init, TypeOK, CallTyped
<1>6. Ordered
  BY <1>1, <1>4, OrderAssumption DEF Ordered
<1>. QED
  BY <1>4, <1>5, <1>6


-----------------------------------------------------------------------------
(* What a call asks follows from its query and from what it has found.       *)

LEMMA TodoIs ==
  ASSUME TypeOK, call.pc = "reading"
  PROVE  /\ Range(call.todo) = {Read} \cup Range(Tail(call.todo))
         /\ Range(call.todo) \subseteq Requests
         /\ Len(call.todo) \in Nat /\ Len(call.todo) # 0
         /\ Len(Tail(call.todo)) = Len(call.todo) - 1
         /\ \A kind : LastOf(kind) <=> \A r \in Range(Tail(call.todo)) : r.kind # kind
<1> DEFINE t == call.todo
<1>1. t \in Seq(Requests) /\ t # <<>>
  BY ReadTyped
<1>2. Head(t) = t[1] /\ Len(t) \in Nat /\ Len(t) >= 1
  BY <1>1
<1>3. /\ Tail(t) \in Seq(Requests) /\ Len(Tail(t)) = Len(t) - 1
      /\ \A k \in 1..Len(Tail(t)) : Tail(t)[k] = t[k + 1]
  BY <1>1, HeadTailProperties
<1>4. /\ Range(t) = {t[k] : k \in 1..Len(t)}
      /\ Range(Tail(t)) = {Tail(t)[k] : k \in 1..Len(Tail(t))}
  BY <1>1, <1>3, RangeEquality
<1>5. Range(t) \subseteq Requests
  BY <1>1, RangeOfSeq
<1>6. Range(Tail(t)) = {t[k] : k \in 2..Len(t)}
  <2>1. ASSUME NEW x \in Range(Tail(t)) PROVE x \in {t[k] : k \in 2..Len(t)}
    <3>1. PICK k \in 1..Len(Tail(t)) : x = Tail(t)[k]
      BY <1>4
    <3>2. x = t[k + 1] /\ k + 1 \in 2..Len(t)
      BY <1>2, <1>3, <3>1
    <3>. QED
      BY <3>2
  <2>2. ASSUME NEW k \in 2..Len(t) PROVE t[k] \in Range(Tail(t))
    <3>1. k - 1 \in 1..Len(Tail(t)) /\ (k - 1) + 1 = k
      BY <1>2, <1>3
    <3>2. Tail(t)[k - 1] = t[k]
      BY <1>3, <3>1
    <3>. QED
      BY <1>4, <3>1, <3>2
  <2>. QED
    BY <2>1, <2>2
<1>7. 1..Len(t) = {1} \cup 2..Len(t)
  BY <1>2
<1>8. Range(t) = {Read} \cup Range(Tail(t))
  BY <1>2, <1>4, <1>6, <1>7 DEF Read
<1>9. \A kind : LastOf(kind) <=> \A r \in Range(Tail(t)) : r.kind # kind
  BY <1>6 DEF LastOf
<1>. QED
  BY <1>2, <1>3, <1>5, <1>8, <1>9

LEMMA KeptAre ==
  ASSUME TypeOK, call.pc = "reading",
         NEW found \in SUBSET Items, NEW more \in Seq(Requests), Kept(found, more)
  PROVE  /\ call'.query = call.query /\ call'.found = found
         /\ Range(call'.todo) = Range(more) \cup Range(Tail(call.todo))
         /\ call'.pc = "done" => Range(call'.todo) = {}
         /\ Len(call'.todo) = Len(more) + Len(call.todo) - 1
         /\ more = <<>> => call'.todo = Tail(call.todo)
<1>1. call'.query = call.query /\ call'.found = found /\ call'.todo = more \o Tail(call.todo)
      /\ CallTyped(call')
  BY KeptIs
<1>2. Tail(call.todo) \in Seq(Requests) /\ call.todo \in Seq(Requests)
  BY ReadTyped
<1>3. Range(call'.todo) = Range(more) \cup Range(Tail(call.todo))
  BY <1>1, <1>2, RangeConcatenation
<1>4. Len(call'.todo) = Len(more) + Len(Tail(call.todo))
  BY <1>1, <1>2, ConcatProperties
<1>5. Len(call'.todo) = Len(more) + Len(call.todo) - 1
  <2>1. Len(more) \in Nat
    OBVIOUS
  <2>. QED
    BY <1>4, <2>1, TodoIs
<1>6. call'.pc = "done" => Range(call'.todo) = {}
  BY <1>1, FewAre DEF CallTyped
<1>7. more = <<>> => call'.todo = Tail(call.todo)
  BY <1>1, <1>2, ConcatEmptySeq
<1>. QED
  BY <1>1, <1>3, <1>5, <1>6, <1>7

\* What followed follows from more.
LEMMA FollowsKept ==
  ASSUME UNCHANGED <<store, touched>>, call'.query = call.query,
         call.found \subseteq call'.found, NEW r, Follows(r),
         call.query.tool \notin {"getClusterMachine", "listProjectRoleTemplateBindings"}
  PROVE  Follows(r)'
<1>1. \A kind : \A i \in AnswerOf(kind) : i \in AnswerOf(kind)'
  BY DEF AnswerOf
<1>2. \A i : ClusterParts(i)' = ClusterParts(i)
  BY DEF ClusterParts
<1>3. CASE call.query.tool = "analyzeCluster"
  BY <1>1, <1>2, <1>3 DEF Follows
<1>4. CASE call.query.tool \in {"analyzeClusterMachines", "getNodes"}
  BY <1>4 DEF Follows
<1>5. CASE call.query.tool = "inspectPod"
  BY <1>1, <1>5 DEF Follows, HasOwner
<1>6. CASE call.query.tool = "getDeploymentDetails"
  BY <1>1, <1>6 DEF Follows
<1>7. CASE call.query.tool \in {"getClusterImages", "getK3kClusters"}
  BY <1>7 DEF Follows
<1>8. CASE call.query.tool = "getProject"
  BY <1>1, <1>8 DEF Follows
<1>9. CASE call.query.tool = "getResourceUsage"
  BY <1>9 DEF Follows
<1>10. CASE call.query.tool \notin
         {"analyzeCluster", "analyzeClusterMachines", "getNodes", "getClusterMachine",
          "inspectPod", "getDeploymentDetails", "getClusterImages", "getK3kClusters",
          "getProject", "listProjectRoleTemplateBindings", "getResourceUsage"}
  BY <1>10 DEF Follows
<1>. QED
  BY <1>3, <1>4, <1>5, <1>6, <1>7, <1>8, <1>9, <1>10


LEMMA FirstOnly ==
  ASSUME NEW r, call.todo = <<r>>
  PROVE  Read = r /\ Range(Tail(call.todo)) = {}
BY OnlyRead, FewAre

\* What a call asks after this.
LEMMA WaitingFollow ==
  ASSUME TypeOK, Asked, call.pc = "reading"
  PROVE  \A r \in Range(Tail(call.todo)) : Follows(r)
<1> DEFINE q == call.query
<1>1. q \in Queries /\ q.tool \in Tools
  BY DEF TypeOK, Queries
<1>2. CASE \A r \in Range(call.todo) : Follows(r)
  BY <1>2, TodoIs
<1>3. CASE call.todo = AllProjects(q)
  BY <1>3, FirstOnly DEF AllProjects
<1>4. CASE call.todo = FirstReads(q) /\ q.tool \in {"analyzeClusterMachines", "getNodes"}
  <2>1. \A r \in Range(call.todo) : Follows(r)
    BY <1>4 DEF Follows
  <2>. QED
    BY <2>1, TodoIs
<1>5. CASE call.todo = FirstReads(q) /\ q.tool \notin {"analyzeClusterMachines", "getNodes"}
  <2>1. \E r : FirstReads(q) = <<r>>
    <3>1. CASE q.tool \in {"getProject", "listProjects", "listProjectRoleTemplateBindings"}
      BY <3>1, FirstReadsAre DEF ProjectNamed, AllProjects, BindingReads
    <3>2. CASE q.tool = "getResourceUsage"
      BY <3>2, FirstReadsAre DEF ProjectNamed, AllProjects
    <3>3. CASE q.tool \notin {"getProject", "listProjects", "listProjectRoleTemplateBindings",
                              "getResourceUsage"}
      BY <1>1, <1>5, <3>3, FirstReadsAre DEF Tools
    <3>. QED
      BY <3>1, <3>2, <3>3
  <2>2. PICK r : call.todo = <<r>>
    BY <1>5, <2>1
  <2>. QED
    BY <2>2, FirstOnly
<1>. QED
  BY <1>2, <1>3, <1>4, <1>5 DEF Asked

\* The call goes on asking what follows.
LEMMA AskedMore ==
  ASSUME TypeOK, call.pc = "reading",
         NEW found \in SUBSET Items, NEW more \in Seq(Requests), Kept(found, more),
         \A r \in Range(more) : Follows(r)', \A r \in Range(Tail(call.todo)) : Follows(r)',
         call.query.tool \notin {"listProjectRoleTemplateBindings", "listKubernetesResources"}
  PROVE  Asked'
<1>1. call'.query = call.query /\ Range(call'.todo) = Range(more) \cup Range(Tail(call.todo))
  BY KeptAre
<1>2. \A r \in Range(call'.todo) : Follows(r)'
  BY <1>1
<1>. QED
  BY <1>1, <1>2 DEF Asked

\* No more than it was going to.
LEMMA AskedOn ==
  ASSUME TypeOK, Asked, call.pc = "reading", UNCHANGED <<store, touched>>,
         NEW found \in SUBSET Items, call.found \subseteq found, Kept(found, <<>>),
         \/ call.query.tool \notin {"getClusterMachine", "listProjectRoleTemplateBindings",
                                    "listKubernetesResources"}
         \/ call.found = found
  PROVE  Asked'
<1>1. <<>> \in Seq(Requests) /\ Range(<<>>) = {} /\ Len(<<>>) = 0
  BY EmptySeq, FewAre
<1>2. /\ call'.query = call.query /\ call'.found = found
      /\ Range(call'.todo) = Range(Tail(call.todo))
      /\ Len(call'.todo) = Len(call.todo) - 1
  <2>1. /\ call'.query = call.query /\ call'.found = found
        /\ Range(call'.todo) = Range(<<>>) \cup Range(Tail(call.todo))
        /\ Len(call'.todo) = Len(<<>>) + Len(call.todo) - 1
    BY <1>1, KeptAre
  <2>2. Len(call.todo) \in Nat
    BY TodoIs
  <2>. QED
    BY <1>1, <2>1, <2>2
<1>3. \A r \in Range(Tail(call.todo)) : Follows(r)
  BY WaitingFollow
<1>4. CASE call.query.tool \notin {"getClusterMachine", "listProjectRoleTemplateBindings"}
  <2>1. \A r \in Range(call'.todo) : Follows(r)'
    BY <1>2, <1>3, <1>4, FollowsKept
  <2>. QED
    BY <1>2, <1>4, <2>1 DEF Asked
<1>5. CASE call.query.tool = "getClusterMachine"
  <2>1. \A kind : Pending(kind)' => Pending(kind)
    BY <1>2, TodoIs DEF Pending
  <2>2. \A kind : AnswerOf(kind)' = AnswerOf(kind)
    BY <1>2, <1>5 DEF AnswerOf
  <2>3. \A r \in Range(call'.todo) : Follows(r)'
    BY <1>2, <1>3, <1>5, <2>1, <2>2 DEF Follows
  <2>. QED
    BY <1>2, <1>5, <2>3 DEF Asked
<1>6. CASE call.query.tool = "listProjectRoleTemplateBindings"
  <2>1. Len(call'.todo) = 0 /\ Len(Tail(call.todo)) = 0
    <3>1. Len(call.todo) <= 1
      BY <1>6 DEF Asked
    <3>2. Len(call.todo) \in Nat /\ Len(call.todo) # 0 /\ Len(Tail(call.todo)) = Len(call.todo) - 1
      BY TodoIs
    <3>3. \A n \in Nat : n # 0 /\ n <= 1 => n = 1
      OBVIOUS
    <3>5. Len(call.todo) = 1
      BY <3>1, <3>2, <3>3, Zenon
    <3>4. Len(call'.todo) = Len(call.todo) - 1
      BY <1>2
    <3>. QED
      BY <3>2, <3>4, <3>5
  <2>2. Tail(call.todo) \in Seq(Requests)
    BY ReadTyped
  <2>3. Range(call'.todo) = {}
    BY <1>2, <2>1, <2>2, EmptySeq, FewAre
  <2>4. /\ \A r \in Range(call'.todo) : Follows(r)'
        /\ call'.query.tool = "listProjectRoleTemplateBindings" /\ Len(call'.todo) <= 1
    BY <1>2, <1>6, <2>1, <2>3
  <2>. QED
    BY <2>4 DEF Asked
<1>. QED
  BY <1>4, <1>5, <1>6


LEMMA BindingReadsAre ==
  ASSUME NEW namespace
  PROVE  /\ Range(BindingReads(namespace)) =
              {List("local", "projectroletemplatebinding", namespace, "", "fail")}
         /\ Len(BindingReads(namespace)) = 1
BY FewAre DEF BindingReads

\* What each tool is asking.
LEMMA ClusterRead ==
  ASSUME TypeOK, Asked, call.pc = "reading", call.query.tool = "analyzeCluster"
  PROVE  \/ /\ call.found = {} /\ Range(Tail(call.todo)) = {}
            /\ Read = Get("local", "provisioningcluster", ClusterNamespace(call.query),
                          call.query.cluster, "fail")
         \/ /\ Read.kind # "provisioningcluster"
            /\ \E c \in AnswerOf("provisioningcluster") : Read \in Range(ClusterParts(c))
<1>1. CASE call.found = {} /\ call.todo = FirstReads(call.query)
  BY <1>1, FirstReadsAre, FirstOnly
<1>2. CASE Follows(Read)
  <2>1. PICK c \in AnswerOf("provisioningcluster") : Read \in Range(ClusterParts(c))
    BY <1>2 DEF Follows
  <2>2. c \in Items
    BY <2>1 DEF AnswerOf, TypeOK
  <2>3. Read.kind # "provisioningcluster"
    BY <2>1, <2>2, ClusterPartKinds
  <2>. QED
    BY <2>1, <2>3
<1>. QED
  BY <1>1, <1>2, AskedIs

LEMMA MachineRead ==
  ASSUME TypeOK, Asked, call.pc = "reading", call.query.tool = "getClusterMachine"
  PROVE  /\ Read.op = "get" /\ Read.cluster = "local" /\ Read.namespace = "fleet-default"
         /\ Read.missing = "end"
         /\ \/ /\ call.found = {} /\ Range(Tail(call.todo)) = {}
               /\ Read.kind = "machine" /\ Read.name = call.query.name
            \/ /\ Read.kind = "machineset" /\ AnswerOf("machinedeployment") = {}
               /\ \E m \in AnswerOf("machine") : Read \in Range(OwnerReads(m, "machineset"))
               /\ \A r \in Range(call.todo) : r.kind = "machineset" /\ Follows(r)
            \/ /\ Read.kind = "machinedeployment" /\ ~Pending("machineset")
               /\ \E s \in AnswerOf("machineset") : Read \in Range(OwnerReads(s, "machinedeployment"))
               /\ \A r \in Range(call.todo) :
                    \E s \in AnswerOf("machineset") : r \in Range(OwnerReads(s, "machinedeployment"))
<1>1. CASE call.found = {} /\ call.todo = FirstReads(call.query)
  <2>1. Read = Get("local", "machine", "fleet-default", call.query.name, "end")
        /\ Range(Tail(call.todo)) = {}
    <3>1. call.todo = <<Get("local", "machine", "fleet-default", call.query.name, "end")>>
      BY <1>1, FirstReadsAre
    <3>. QED
      BY <3>1, FirstOnly
  <2>. QED
    BY <1>1, <2>1 DEF Get
<1>2. CASE \A r \in Range(call.todo) : Follows(r)
  <2>1. ASSUME NEW o \in Items, NEW kind \in Strings, NEW r \in Range(OwnerReads(o, kind))
        PROVE  /\ r.op = "get" /\ r.cluster = "local" /\ r.namespace = "fleet-default"
               /\ r.missing = "end" /\ r.kind = kind
    <3>1. PICK k \in 1..Len(OwnerReads(o, kind)) : r = OwnerReads(o, kind)[k]
      BY <2>1, OwnerReadsAre, RangeEquality
    <3>2. r = Get("local", kind, "fleet-default", Owned(o, kind)[k].name, "end")
      BY <3>1, OwnerReadsAre
    <3>. QED
      BY <3>2 DEF Get
  <2>2. \A kind : \A o \in AnswerOf(kind) : o \in Items
    BY DEF AnswerOf, TypeOK
  <2>3. "machineset" \in Strings /\ "machinedeployment" \in Strings
    BY WordsAreStrings
  <2>4. \A r \in Range(call.todo) :
          \/ /\ AnswerOf("machinedeployment") = {} /\ ~Pending("machinedeployment")
             /\ \E m \in AnswerOf("machine") : r \in Range(OwnerReads(m, "machineset"))
          \/ /\ ~Pending("machineset")
             /\ \E s \in AnswerOf("machineset") : r \in Range(OwnerReads(s, "machinedeployment"))
    BY <1>2 DEF Follows
  <2>5. Read \in Range(call.todo)
    BY TodoIs
  <2>6. CASE /\ AnswerOf("machinedeployment") = {} /\ ~Pending("machinedeployment")
             /\ \E m \in AnswerOf("machine") : Read \in Range(OwnerReads(m, "machineset"))
    <3>1. /\ Read.op = "get" /\ Read.cluster = "local" /\ Read.namespace = "fleet-default"
          /\ Read.missing = "end" /\ Read.kind = "machineset"
      BY <2>1, <2>2, <2>3, <2>6
    <3>2. Pending("machineset")
      BY <2>5, <3>1 DEF Pending
    <3>3. \A r \in Range(call.todo) : r.kind = "machineset"
      BY <2>1, <2>2, <2>3, <2>4, <3>2
    <3>. QED
      BY <1>2, <2>6, <3>1, <3>3
  <2>7. CASE /\ ~Pending("machineset")
             /\ \E s \in AnswerOf("machineset") :
                  Read \in Range(OwnerReads(s, "machinedeployment"))
    <3>1. /\ Read.op = "get" /\ Read.cluster = "local" /\ Read.namespace = "fleet-default"
          /\ Read.missing = "end" /\ Read.kind = "machinedeployment"
      BY <2>1, <2>2, <2>3, <2>7
    <3>2. Pending("machinedeployment")
      BY <2>5, <3>1 DEF Pending
    <3>. QED
      BY <2>4, <2>7, <3>1, <3>2
  <2>. QED
    BY <2>4, <2>5, <2>6, <2>7
<1>3. Asked => \/ call.found = {} /\ call.todo = FirstReads(call.query)
               \/ \A r \in Range(call.todo) : Follows(r)
  BY DEF Asked
<1>. QED
  BY <1>1, <1>2, <1>3

LEMMA PodRead ==
  ASSUME TypeOK, Asked, call.pc = "reading", call.query.tool = "inspectPod"
  PROVE  \/ /\ call.found = {} /\ Range(Tail(call.todo)) = {}
            /\ Read = Get(call.query.cluster, "pod", call.query.namespace, call.query.name, "fail")
         \/ \E p \in AnswerOf("pod") :
              \/ /\ Read.op = "get" /\ Read.missing = "fail" /\ Read.kind = "replicaset"
                 /\ Ref(Read.cluster, Read.kind, Read.namespace, Read.name) \in ReplicaSets(p)
              \/ /\ Read.op = "get" /\ Read.missing = "any"
                 /\ Read.kind \in {"podmetrics", "pods/log"}
                 /\ Read.cluster = p.ref.cluster /\ Read.namespace = p.ref.namespace
                 /\ Read.name = p.ref.name
              \/ /\ Read.op = "get" /\ Read.missing = "fail" /\ Read.kind \in Workloads
                 /\ \E s \in ReplicaSets(p) :
                      HasOwner(s, Ref(Read.cluster, Read.kind, Read.namespace, Read.name))
<1>1. CASE call.found = {} /\ call.todo = FirstReads(call.query)
  BY <1>1, FirstReadsAre, FirstOnly
<1>2. CASE Follows(Read)
  <2>1. PICK p \in AnswerOf("pod") :
           \/ Read \in Range(PodReads(p))
           \/ /\ Read = Get(Read.cluster, Read.kind, Read.namespace, Read.name, "fail")
              /\ Read.kind \in Workloads
              /\ \E s \in ReplicaSets(p) :
                   HasOwner(s, Ref(Read.cluster, Read.kind, Read.namespace, Read.name))
    BY <1>2 DEF Follows
  <2>2. p \in Items /\ Read \in Requests
    BY <2>1, ReadTyped DEF AnswerOf, TypeOK
  <2>3. ASSUME Read = Get(Read.cluster, Read.kind, Read.namespace, Read.name, "fail")
        PROVE  Read.op = "get" /\ Read.missing = "fail"
    <3>1. LET g == Get(Read.cluster, Read.kind, Read.namespace, Read.name, "fail") IN
          g.op = "get" /\ g.missing = "fail"
      BY DEF Get
    <3>. QED
      BY <2>3, <3>1
  <2>4. CASE Read \in Range(FirstOwner(p, {"replicaset"}))
    <3>1. /\ Read = Get(Read.cluster, Read.kind, Read.namespace, Read.name, "fail")
          /\ Ref(Read.cluster, Read.kind, Read.namespace, Read.name) \in ReplicaSets(p)
      BY <2>2, <2>4, FirstOwnerIs DEF ReplicaSets
    <3>2. \A r \in ReplicaSets(p) : r.kind = "replicaset"
      BY DEF ReplicaSets, FirstOf, Ref
    <3>3. Ref(Read.cluster, Read.kind, Read.namespace, Read.name).kind = Read.kind
      BY DEF Ref
    <3>4. Read.kind = "replicaset"
      BY <3>1, <3>2, <3>3
    <3>. QED
      BY <2>1, <2>3, <3>1, <3>4
  <2>5. CASE Read = Get(p.ref.cluster, "podmetrics", p.ref.namespace, p.ref.name, "any")
    BY <2>1, <2>5 DEF Get
  <2>6. CASE Read = Get(p.ref.cluster, "pods/log", p.ref.namespace, p.ref.name, "any")
    BY <2>1, <2>6 DEF Get
  <2>7. CASE Read \notin Range(PodReads(p))
    BY <2>1, <2>3, <2>7
  <2>. QED
    BY <2>2, <2>4, <2>5, <2>6, <2>7, PodReadsAre
<1>. QED
  BY <1>1, <1>2, AskedIs

LEMMA DeploymentRead ==
  ASSUME TypeOK, Asked, call.pc = "reading", call.query.tool = "getDeploymentDetails"
  PROVE  \/ /\ call.found = {} /\ Range(Tail(call.todo)) = {}
            /\ Read = Get(call.query.cluster, "deployment", call.query.namespace,
                          call.query.name, "fail")
         \/ \E d \in AnswerOf("deployment") :
              Read = List(call.query.cluster, "pod", call.query.namespace, d.data.label, "fail")
<1>1. CASE call.found = {} /\ call.todo = FirstReads(call.query)
  BY <1>1, FirstReadsAre, FirstOnly
<1>2. CASE Follows(Read)
  BY <1>2 DEF Follows
<1>. QED
  BY <1>1, <1>2, AskedIs

LEMMA EverywhereRead ==
  ASSUME TypeOK, Asked, call.pc = "reading",
         NEW kind, NEW missing,
         \/ call.query.tool = "getClusterImages" /\ kind = "pod" /\ missing = "fail"
         \/ call.query.tool = "getK3kClusters" /\ kind = "k3kcluster" /\ missing = "any"
  PROVE  \/ /\ call.found = {} /\ Range(Tail(call.todo)) = {} /\ call.query.cluster = ""
            /\ Read = List("local", "managementcluster", "", "", "fail")
         \/ /\ Read.op = "list" /\ Read.kind = kind /\ Read.namespace = "" /\ Read.label = ""
            /\ Read.missing = missing /\ call.query.cluster \in {"", Read.cluster}
<1>1. CASE call.found = {} /\ call.todo = FirstReads(call.query)
  <2>1. call.todo = <<IF call.query.cluster = ""
                      THEN List("local", "managementcluster", "", "", "fail")
                      ELSE List(call.query.cluster, kind, "", "", missing)>>
    BY <1>1, FirstReadsAre
  <2>2. CASE call.query.cluster = ""
    <3>1. call.todo = <<List("local", "managementcluster", "", "", "fail")>>
      BY <2>1, <2>2
    <3>2. Read = List("local", "managementcluster", "", "", "fail")
          /\ Range(Tail(call.todo)) = {}
      BY <3>1, FirstOnly
    <3>. QED
      BY <1>1, <2>2, <3>2
  <2>3. CASE call.query.cluster # ""
    <3>1. call.todo = <<List(call.query.cluster, kind, "", "", missing)>>
      BY <2>1, <2>3
    <3>2. Read = List(call.query.cluster, kind, "", "", missing)
      BY <3>1, FirstOnly
    <3>. QED
      BY <3>2 DEF List, Get
  <2>. QED
    BY <2>2, <2>3
<1>2. CASE Follows(Read)
  <2>1. /\ Read = List(Read.cluster, kind, "", "", missing)
        /\ call.query.cluster \in {"", Read.cluster}
    BY <1>2 DEF Follows
  <2>2. LET l == List(Read.cluster, kind, "", "", missing) IN
        l.op = "list" /\ l.kind = kind /\ l.namespace = "" /\ l.label = "" /\ l.missing = missing
    BY DEF List, Get
  <2>. QED
    BY <2>1, <2>2
<1>. QED
  BY <1>1, <1>2, AskedIs

LEMMA ProjectRead ==
  ASSUME TypeOK, Asked, call.pc = "reading",
         call.query.tool \in {"getProject", "listProjectRoleTemplateBindings", "getResourceUsage"},
         Read.kind = "project"
  PROVE  /\ call.found = {} /\ Range(Tail(call.todo)) = {} /\ Read.cluster = "local"
         /\ Read.namespace = call.query.cluster
         /\ \/ Read.op = "get" /\ Read.name = call.query.name /\ Read.missing = "search"
            \/ Read.op = "list" /\ Read.label = "" /\ Read.missing = "fail"
<1> DEFINE q == call.query
<1>1. CASE call.found = {} /\ call.todo = FirstReads(q)
  <2>1. CASE call.todo = ProjectNamed(q)
    <3>1. Read = Get("local", "project", q.cluster, q.name, "search") /\ Range(Tail(call.todo)) = {}
      BY <2>1, FirstOnly DEF ProjectNamed
    <3>. QED
      BY <1>1, <3>1 DEF Get
  <2>2. CASE call.todo = AllProjects(q)
    <3>1. Read = List("local", "project", q.cluster, "", "fail") /\ Range(Tail(call.todo)) = {}
      BY <2>2, FirstOnly DEF AllProjects
    <3>. QED
      BY <1>1, <3>1 DEF List, Get
  <2>3. CASE call.todo = BindingReads("")
    <3>1. Read = List("local", "projectroletemplatebinding", "", "", "fail")
      BY <2>3, FirstOnly DEF BindingReads
    <3>2. Read.kind = "projectroletemplatebinding"
      BY <3>1 DEF List, Get
    <3>. QED
      BY <3>2
  <2>4. CASE call.todo = <<Get(q.cluster, "namespace", "", q.namespace, "fail")>>
    <3>1. Read = Get(q.cluster, "namespace", "", q.namespace, "fail")
      BY <2>4, FirstOnly
    <3>2. Read.kind = "namespace"
      BY <3>1 DEF Get
    <3>. QED
      BY <3>2
  <2>. QED
    BY <1>1, <2>1, <2>2, <2>3, <2>4, FirstReadsAre
<1>2. CASE call.found = {} /\ call.todo = AllProjects(q)
  <2>1. Read = List("local", "project", q.cluster, "", "fail") /\ Range(Tail(call.todo)) = {}
    BY <1>2, FirstOnly DEF AllProjects
  <2>. QED
    BY <1>2, <2>1 DEF List, Get
<1>3. CASE Follows(Read)
  <2>1. CASE q.tool = "getProject"
    <3>1. PICK p \in AnswerOf("project") :
            Read \in {List(q.cluster, "namespace", "", p.ref.name, "fail"),
                      List("local", "projectroletemplatebinding", p.ref.name, "", "fail")}
      BY <1>3, <2>1 DEF Follows
    <3>2. Read.kind \in {"namespace", "projectroletemplatebinding"}
      <4>1. CASE Read = List(q.cluster, "namespace", "", p.ref.name, "fail")
        BY <4>1 DEF List, Get
      <4>2. CASE Read = List("local", "projectroletemplatebinding", p.ref.name, "", "fail")
        BY <4>2 DEF List, Get
      <4>. QED
        BY <3>1, <4>1, <4>2
    <3>. QED
      BY <3>2
  <2>2. CASE q.tool = "getResourceUsage"
    BY <1>3, <2>2 DEF Follows
  <2>3. CASE q.tool = "listProjectRoleTemplateBindings"
    <3>1. Read \in Range(BindingReads(Read.namespace))
      BY <1>3, <2>3 DEF Follows
    <3>2. Read = List("local", "projectroletemplatebinding", Read.namespace, "", "fail")
      BY <3>1, BindingReadsAre
    <3>3. List("local", "projectroletemplatebinding", Read.namespace, "", "fail").kind
            = "projectroletemplatebinding"
      BY DEF List, Get
    <3>4. Read.kind = "projectroletemplatebinding"
      BY <3>2, <3>3
    <3>. QED
      BY <3>4
  <2>. QED
    BY <2>1, <2>2, <2>3
<1>. QED
  BY <1>1, <1>2, <1>3, AskedIs


\* Each tool's step goes on asking what follows.
LEMMA ClustersAsked ==
  ASSUME TypeOK, Asked, UNCHANGED <<store, touched>>,
         AnalyzeCluster \/ AnalyzeClusterMachines \/ GetNodes
  PROVE  Asked'
<1>1. call.pc = "reading" /\ call.found \in SUBSET Items /\ Got \in SUBSET Items
  BY GotIs DEF AnalyzeCluster, AnalyzeClusterMachines, GetNodes, Reads, TypeOK
<1>2. call.found \cup Got \in SUBSET Items /\ call.found \subseteq call.found \cup Got
  BY <1>1
<1>3. call.query.tool \in {"analyzeCluster", "analyzeClusterMachines", "getNodes"}
  BY DEF AnalyzeCluster, AnalyzeClusterMachines, GetNodes, Reads
<1>4. CASE Kept(call.found \cup Got, <<>>)
  BY <1>1, <1>2, <1>3, <1>4, AskedOn
<1>5. CASE /\ Read.kind = "provisioningcluster" /\ AnalyzeCluster
           /\ Found(call.found \cup Got, ClusterParts(The(Got)))
  <2> DEFINE c == The(Got)
  <2>1. call.query.tool = "analyzeCluster"
    BY <1>5 DEF AnalyzeCluster, Reads
  <2>2. /\ Range(Tail(call.todo)) = {}
        /\ Read = Get("local", "provisioningcluster", ClusterNamespace(call.query),
                      call.query.cluster, "fail")
    BY <1>1, <1>5, <2>1, ClusterRead
  <2>3. Read.op = "get"
    BY <2>2 DEF Get
  <2>4. c \in Got /\ c \in Items /\ c.ref.kind = "provisioningcluster"
    BY <1>1, <1>5, <2>3, TheGot, GotIs DEF Found, Gets
  <2>5. ClusterParts(c) \in Seq(Requests)
    BY <2>4, ClusterPartsTyped
  <2>6. Kept(call.found \cup Got, ClusterParts(c))
    BY <1>5 DEF Found
  <2> HIDE DEF c
  <2>7. call'.query = call.query /\ call'.found = call.found \cup Got
    BY <1>1, <1>2, <2>5, <2>6, KeptIs
  <2>8. c \in AnswerOf("provisioningcluster")' /\ \A i : ClusterParts(i)' = ClusterParts(i)
    BY <2>4, <2>7 DEF AnswerOf, ClusterParts
  <2>9. \A r \in Range(ClusterParts(c)) : Follows(r)'
    BY <2>1, <2>7, <2>8 DEF Follows
  <2>. QED
    BY <1>1, <1>2, <2>1, <2>2, <2>5, <2>6, <2>9, AskedMore
<1>. QED
  BY <1>4, <1>5 DEF AnalyzeCluster, AnalyzeClusterMachines, GetNodes, Found

LEMMA MachineAsked ==
  ASSUME TypeOK, Asked, UNCHANGED <<store, touched>>, GetClusterMachine
  PROVE  Asked'
<1> DEFINE found == Without(Read.kind) \cup Got
           later == Range(Tail(call.todo))
           c == The(Got)
<1>1. /\ call.pc = "reading" /\ call.query.tool = "getClusterMachine"
      /\ call.found \in SUBSET Items /\ Got \in SUBSET Items
  BY GotIs DEF GetClusterMachine, Reads, TypeOK
<1>2. found \in SUBSET Items
  BY <1>1 DEF Without
<1>3. Read.op = "get" /\ ~Absent
  BY <1>1, MachineRead DEF GetClusterMachine, Found
<1>4. c \in Got /\ c \in Items
  BY <1>1, <1>3, TheGot
<1>5. \A i \in Got : i.ref.kind = Read.kind
  BY <1>1, GotIs DEF Gets
<1>6. /\ OwnerReads(c, "machineset") \in Seq(Requests)
      /\ OwnerReads(c, "machinedeployment") \in Seq(Requests) /\ <<>> \in Seq(Requests)
  BY <1>4, WordsAreStrings, OwnerReadsAre, EmptySeq
<1>7. \A i : \A kind : i \in found /\ i.ref.kind = kind <=>
        \/ kind = Read.kind /\ i \in Got
        \/ kind # Read.kind /\ i \in AnswerOf(kind)
  BY <1>5 DEF Without, AnswerOf
<1>8. Range(call.todo) = {Read} \cup later
  BY <1>1, TodoIs
<1> HIDE DEF found, later, c
<1>9. ASSUME NEW more \in Seq(Requests), Kept(found, more), \A r \in Range(more) \cup later : Follows(r)'
      PROVE  Asked'
  BY <1>1, <1>2, <1>9, AskedMore DEF later
<1>10. ASSUME NEW more \in Seq(Requests), Kept(found, more)
       PROVE  /\ call'.query = call.query /\ call'.found = found
              /\ Range(call'.todo) = Range(more) \cup later
              /\ \A kind : Pending(kind)' <=> \E r \in Range(more) \cup later : r.kind = kind
              /\ \A kind : AnswerOf(kind)' = {i \in found : i.ref.kind = kind}
  <2>1. /\ call'.query = call.query /\ call'.found = found
        /\ Range(call'.todo) = Range(more) \cup later
    BY <1>1, <1>2, <1>10, KeptAre DEF later
  <2>. QED
    BY <2>1 DEF Pending, AnswerOf
<1>11. ASSUME NEW kind \in Strings, NEW r \in Range(OwnerReads(c, kind)) PROVE r.kind = kind
  <2>1. PICK k \in 1..Len(OwnerReads(c, kind)) : r = OwnerReads(c, kind)[k]
    BY <1>4, OwnerReadsAre, RangeEquality
  <2>2. r = Get("local", kind, "fleet-default", Owned(c, kind)[k].name, "end")
    BY <1>4, <2>1, OwnerReadsAre
  <2>. QED
    BY <2>2 DEF Get
<1>12. CASE Read.kind = "machine"
  <2>1. call.found = {} /\ later = {}
    BY <1>1, <1>12, MachineRead DEF later
  <2>2. Kept(found, OwnerReads(c, "machineset"))
    BY <1>12 DEF GetClusterMachine, Found, found, c
  <2>3. \A r \in Range(OwnerReads(c, "machineset")) : r.kind = "machineset"
    BY <1>11, WordsAreStrings
  <2>4. AnswerOf("machinedeployment")' = {} /\ c \in AnswerOf("machine")'
    BY <1>4, <1>5, <1>6, <1>7, <1>10, <1>12, <2>1, <2>2 DEF AnswerOf
  <2>5. ~Pending("machinedeployment")'
    BY <1>6, <1>10, <2>1, <2>2, <2>3
  <2>6. call'.query = call.query
    BY <1>6, <1>10, <2>2
  <2>7. \A r \in Range(OwnerReads(c, "machineset")) : Follows(r)'
    BY <1>1, <2>4, <2>5, <2>6 DEF Follows
  <2>. QED
    BY <1>6, <1>9, <2>1, <2>2, <2>7
<1>13. CASE Read.kind = "machineset"
  <2>1. /\ AnswerOf("machinedeployment") = {}
        /\ \A r \in Range(call.todo) : r.kind = "machineset" /\ Follows(r)
    BY <1>1, <1>13, MachineRead
  <2>2. Pending("machineset")
    BY <1>8, <1>13 DEF Pending
  <2>3. \A r \in later : r.kind = "machineset" /\
          \E m \in AnswerOf("machine") : r \in Range(OwnerReads(m, "machineset"))
    BY <1>1, <1>8, <2>1, <2>2 DEF Follows
  <2>4. CASE LastOf("machineset")
    <3>1. later = {}
      BY <1>1, <2>3, <2>4, TodoIs DEF later
    <3>2. Kept(found, OwnerReads(c, "machinedeployment"))
      BY <1>13, <2>4 DEF GetClusterMachine, Found, found, c
    <3>3. \A r \in Range(OwnerReads(c, "machinedeployment")) : r.kind = "machinedeployment"
      BY <1>11, WordsAreStrings
    <3>4. c \in AnswerOf("machineset")' /\ ~Pending("machineset")' /\ call'.query = call.query
      <4>1. /\ call'.query = call.query
            /\ \A kind : Pending(kind)' <=>
                 \E r \in Range(OwnerReads(c, "machinedeployment")) \cup later : r.kind = kind
            /\ \A kind : AnswerOf(kind)' = {i \in found : i.ref.kind = kind}
        BY <1>6, <1>10, <3>2
      <4>2. ~Pending("machineset")'
        BY <3>1, <3>3, <4>1
      <4>3. c \in AnswerOf("machineset")'
        BY <1>4, <1>5, <1>7, <1>13, <4>1
      <4>. QED
        BY <4>1, <4>2, <4>3
    <3>5. \A r \in Range(OwnerReads(c, "machinedeployment")) : Follows(r)'
      BY <1>1, <3>4 DEF Follows
    <3>. QED
      BY <1>6, <1>9, <3>1, <3>2, <3>5
  <2>5. CASE ~LastOf("machineset")
    <3>1. Kept(found, <<>>) /\ Range(<<>>) = {}
      BY <1>13, <2>5, FewAre DEF GetClusterMachine, Found, found, c
    <3>2. /\ call'.query = call.query /\ ~Pending("machinedeployment")'
          /\ AnswerOf("machinedeployment")' = {}
          /\ \A m \in AnswerOf("machine") : m \in AnswerOf("machine")'
      <4>1. /\ call'.query = call.query
            /\ \A kind : Pending(kind)' <=> \E r \in later : r.kind = kind
            /\ \A kind : AnswerOf(kind)' = {i \in found : i.ref.kind = kind}
        BY <1>6, <1>10, <3>1
      <4>2. ~Pending("machinedeployment")'
        BY <2>3, <4>1
      <4>3. AnswerOf("machinedeployment")' = {}
        BY <1>7, <1>13, <2>1, <4>1
      <4>4. \A m \in AnswerOf("machine") : m \in AnswerOf("machine")'
        BY <1>7, <1>13, <4>1 DEF AnswerOf
      <4>. QED
        BY <4>1, <4>2, <4>3, <4>4
    <3>3. \A r \in later : Follows(r)'
      BY <1>1, <2>3, <3>2 DEF Follows
    <3>. QED
      BY <1>6, <1>9, <3>1, <3>3
  <2>. QED
    BY <2>4, <2>5
<1>14. CASE Read.kind = "machinedeployment"
  <2>1. /\ ~Pending("machineset")
        /\ \A r \in Range(call.todo) :
             \E s \in AnswerOf("machineset") : r \in Range(OwnerReads(s, "machinedeployment"))
    BY <1>1, <1>14, MachineRead
  <2>2. Kept(found, <<>>) /\ Range(<<>>) = {}
    BY <1>14, FewAre DEF GetClusterMachine, Found, found, c
  <2>3. /\ call'.query = call.query
        /\ \A kind : Pending(kind)' <=> \E r \in later : r.kind = kind
        /\ \A kind : AnswerOf(kind)' = {i \in found : i.ref.kind = kind}
    BY <1>6, <1>10, <2>2
  <2>4. ~Pending("machineset")'
    BY <1>8, <2>1, <2>3 DEF Pending
  <2>5. \A s \in AnswerOf("machineset") : s \in AnswerOf("machineset")'
    BY <1>7, <1>14, <2>3 DEF AnswerOf
  <2>6. \A r \in later : Follows(r)'
    BY <1>1, <1>8, <2>1, <2>3, <2>4, <2>5 DEF Follows
  <2>. QED
    BY <1>6, <1>9, <2>2, <2>6
<1>. QED
  BY <1>1, <1>12, <1>13, <1>14, MachineRead

LEMMA PodAsked ==
  ASSUME TypeOK, Asked, UNCHANGED <<store, touched>>, InspectPod
  PROVE  Asked'
<1> DEFINE c == The(Got)
<1>1. /\ call.pc = "reading" /\ call.query.tool = "inspectPod" /\ ~Absent
      /\ call.found \in SUBSET Items /\ Got \in SUBSET Items
  BY GotIs DEF InspectPod, Found, Reads, TypeOK
<1>2. call.found \cup Got \in SUBSET Items /\ call.found \subseteq call.found \cup Got
  BY <1>1
<1>3. Read.op = "get"
  <2>1. CASE Read = Get(call.query.cluster, "pod", call.query.namespace, call.query.name, "fail")
    BY <2>1 DEF Get
  <2>. QED
    BY <1>1, <2>1, PodRead
<1>4. c \in Got /\ c \in Items
  BY <1>1, <1>3, TheGot
<1>5. c.ref.kind = Read.kind
  BY <1>1, <1>4, GotIs DEF Gets
<1>6. CASE Read.kind \notin {"pod", "replicaset"}
  <2>1. Kept(call.found \cup Got, <<>>)
    BY <1>6 DEF InspectPod, Found
  <2>. QED
    BY <1>1, <1>2, <2>1, AskedOn
<1>7. CASE Read.kind = "pod"
  <2>1. Kept(call.found \cup Got, PodReads(c))
    BY <1>7 DEF InspectPod, Found
  <2> HIDE DEF c
  <2>2. PodReads(c) \in Seq(Requests)
    BY <1>4, PodReadsTyped
  <2>3. call'.query = call.query /\ call'.found = call.found \cup Got
    BY <1>1, <1>2, <2>1, <2>2, KeptIs
  <2>4. c \in AnswerOf("pod")'
    BY <1>4, <1>5, <1>7, <2>3 DEF AnswerOf
  <2>5. \A r \in Range(PodReads(c)) : Follows(r)'
    BY <1>1, <2>3, <2>4 DEF Follows
  <2>6. \A r \in Range(Tail(call.todo)) : Follows(r)'
    BY <1>1, <2>3, WaitingFollow, FollowsKept
  <2>. QED
    BY <1>1, <1>2, <2>1, <2>2, <2>5, <2>6, AskedMore
<1>8. CASE Read.kind = "replicaset"
  <2> DEFINE s == Ref(Read.cluster, Read.kind, Read.namespace, Read.name)
  <2>1. Kept(call.found, FirstOwner(c, Workloads))
    BY <1>8 DEF InspectPod, Found
  <2>2. PICK p \in AnswerOf("pod") : s \in ReplicaSets(p)
    <3>1. CASE Read = Get(call.query.cluster, "pod", call.query.namespace, call.query.name, "fail")
      <4>1. Read.kind = "pod"
        BY <3>1 DEF Get
      <4>. QED
        BY <1>8, <4>1
    <3>2. "replicaset" \notin Workloads
      BY DEF Workloads
    <3>. QED
      BY <1>1, <1>8, <3>1, <3>2, PodRead
  <2>3. /\ c.ref.cluster = Read.cluster /\ c.ref.kind = Read.kind
        /\ c.ref.namespace = Read.namespace /\ c.ref.name = Read.name
        /\ [c.ref EXCEPT !.kind = Served(@)] \in DOMAIN store
        /\ store[[c.ref EXCEPT !.kind = Served(@)]] = c.data
    BY <1>1, <1>3, <1>4, GotIs DEF Gets
  <2>4. c.ref \in References
    BY <1>4, ObjectTyped
  <2>5. /\ c.ref = [cluster |-> c.ref.cluster, kind |-> c.ref.kind,
                    namespace |-> c.ref.namespace, name |-> c.ref.name]
        /\ [c.ref EXCEPT !.kind = Served(@)] = c.ref
    <3>1. Served(c.ref.kind) = c.ref.kind
      BY <1>5, <1>8 DEF Served
    <3>. QED
      BY <2>4, <3>1 DEF References
  <2>6. s = c.ref /\ s \in DOMAIN store /\ store[s] = c.data
    BY <2>3, <2>5 DEF Ref
  <2> HIDE DEF s, c
  <2>7. FirstOwner(c, Workloads) \in Seq(Requests)
    BY <1>4, FirstOwnerIs
  <2>8. call'.query = call.query /\ call'.found = call.found
    BY <1>1, <2>1, <2>7, KeptIs
  <2>9. p \in AnswerOf("pod")'
    BY <2>2, <2>8 DEF AnswerOf
  <2>10. ASSUME NEW r \in Range(FirstOwner(c, Workloads)) PROVE Follows(r)'
    <3>1. r \in Requests
      BY <2>7, RangeOfSeq
    <3>2. /\ r = Get(r.cluster, r.kind, r.namespace, r.name, "fail")
          /\ Ref(r.cluster, r.kind, r.namespace, r.name) \in FirstOf(c.ref, c.data.owners, Workloads)
      BY <1>4, <3>1, FirstOwnerIs
    <3>3. r.kind \in Workloads
      <4>1. \A x \in FirstOf(c.ref, c.data.owners, Workloads) : x.kind \in Workloads
        BY DEF FirstOf, Ref
      <4>2. Ref(r.cluster, r.kind, r.namespace, r.name).kind = r.kind
        BY DEF Ref
      <4>. QED
        BY <3>2, <4>1, <4>2
    <3>4. PICK t : t = s
      OBVIOUS
    <3>5. HasOwner(t, Ref(r.cluster, r.kind, r.namespace, r.name))'
      <4>1. t \in DOMAIN store' /\ store'[t] = c.data /\ t = c.ref
        BY <2>6, <3>4
      <4>. QED
        BY <3>2, <4>1 DEF HasOwner
    <3>6. t \in ReplicaSets(p)
      BY <2>2, <3>4
    <3>. QED
      BY <1>1, <2>8, <2>9, <3>2, <3>3, <3>5, <3>6 DEF Follows
  <2>11. \A r \in Range(Tail(call.todo)) : Follows(r)'
    BY <1>1, <2>8, WaitingFollow, FollowsKept
  <2>. QED
    BY <1>1, <2>1, <2>7, <2>10, <2>11, AskedMore
<1>. QED
  BY <1>6, <1>7, <1>8


LEMMA DeploymentAsked ==
  ASSUME TypeOK, Asked, UNCHANGED <<store, touched>>, GetDeploymentDetails
  PROVE  Asked'
<1> DEFINE more == <<List(Read.cluster, "pod", Read.namespace, The(Got).data.label, "fail")>>
<1>1. /\ call.pc = "reading" /\ call.query.tool = "getDeploymentDetails" /\ ~Absent
      /\ call.found \in SUBSET Items /\ Got \in SUBSET Items
  BY GotIs DEF GetDeploymentDetails, Found, Reads, TypeOK
<1>2. call.found \cup Got \in SUBSET Items /\ call.found \subseteq call.found \cup Got
  BY <1>1
<1>3. CASE Read.kind # "deployment"
  <2>1. Kept(call.found \cup Got, <<>>)
    BY <1>3 DEF GetDeploymentDetails, Found
  <2>. QED
    BY <1>1, <1>2, <2>1, AskedOn
<1>4. CASE Read.kind = "deployment"
  <2>1. Read = Get(call.query.cluster, "deployment", call.query.namespace, call.query.name, "fail")
    <3>1. ASSUME NEW d, Read = List(call.query.cluster, "pod", call.query.namespace, d, "fail")
          PROVE  FALSE
      <4>1. Read.kind = "pod"
        BY <3>1 DEF List, Get
      <4>. QED
        BY <1>4, <4>1
    <3>. QED
      BY <1>1, <3>1, DeploymentRead
  <2>2. /\ Read.op = "get" /\ Read.cluster = call.query.cluster
        /\ Read.namespace = call.query.namespace
    BY <2>1 DEF Get
  <2>3. PICK d \in Got : d = The(Got)
    BY <1>1, <2>2, TheGot
  <2>4. d.ref.kind = "deployment" /\ d \in Items
    BY <1>1, <1>4, GotIs DEF Gets
  <2>5. more = <<List(call.query.cluster, "pod", call.query.namespace, d.data.label, "fail")>>
    BY <2>2, <2>3
  <2>6. Kept(call.found \cup Got, more)
    BY <1>4 DEF GetDeploymentDetails, Found
  <2> HIDE DEF more
  <2>7. more \in Seq(Requests)
    <3>1. /\ call.query.cluster \in Strings /\ call.query.namespace \in Strings
          /\ d.data.label \in Strings
      BY <2>4, ObjectTyped DEF TypeOK, Queries
    <3>2. List(call.query.cluster, "pod", call.query.namespace, d.data.label, "fail") \in Requests
      BY <3>1, WordsAreStrings, ListTyped DEF Missing
    <3>. QED
      BY <2>5, <3>2, FewAreSequence
  <2>8. call'.query = call.query /\ call'.found = call.found \cup Got
    BY <1>1, <1>2, <2>6, <2>7, KeptIs
  <2>9. d \in AnswerOf("deployment")'
    BY <2>4, <2>8 DEF AnswerOf
  <2>10. Range(more) = {List(call.query.cluster, "pod", call.query.namespace, d.data.label, "fail")}
    BY <2>5, FewAre
  <2>11. \A r \in Range(more) : Follows(r)'
    BY <1>1, <2>8, <2>9, <2>10 DEF Follows
  <2>12. \A r \in Range(Tail(call.todo)) : Follows(r)'
    BY <1>1, <2>8, WaitingFollow, FollowsKept
  <2>. QED
    BY <1>1, <1>2, <2>6, <2>7, <2>11, <2>12, AskedMore
<1>. QED
  BY <1>3, <1>4

LEMMA EverywhereAsked ==
  ASSUME TypeOK, Asked, UNCHANGED <<store, touched>>, GetClusterImages \/ GetK3kClusters
  PROVE  Asked'
<1>1. PICK kind \in {"pod", "k3kcluster"}, missing \in {"fail", "any"} :
        /\ \/ call.query.tool = "getClusterImages" /\ kind = "pod" /\ missing = "fail"
           \/ call.query.tool = "getK3kClusters" /\ kind = "k3kcluster" /\ missing = "any"
        /\ IF Read.kind = "managementcluster" THEN Found({}, OfEach(Got, kind, missing))
           ELSE Found(call.found \cup Got, <<>>)
  BY DEF GetClusterImages, GetK3kClusters, Reads
<1>2. call.pc = "reading" /\ call.found \in SUBSET Items /\ Got \in SUBSET Items /\ IsFiniteSet(Got)
  BY GotIs DEF GetClusterImages, GetK3kClusters, Reads, TypeOK
<1>3. /\ call.found \cup Got \in SUBSET Items /\ call.found \subseteq call.found \cup Got
      /\ {} \in SUBSET Items /\ kind \in Strings /\ missing \in Missing
  BY <1>2, WordsAreStrings DEF Missing
<1>4. CASE Read.kind # "managementcluster"
  <2>1. Kept(call.found \cup Got, <<>>)
    BY <1>1, <1>4 DEF Found
  <2>. QED
    BY <1>1, <1>2, <1>3, <2>1, AskedOn
<1>5. CASE Read.kind = "managementcluster"
  <2>1. Kept({}, OfEach(Got, kind, missing))
    BY <1>1, <1>5 DEF Found
  <2>2. call.query.cluster = "" /\ Range(Tail(call.todo)) = {}
    BY <1>1, <1>2, <1>5, EverywhereRead
  <2>3. /\ OfEach(Got, kind, missing) \in Seq(Requests)
        /\ Range(OfEach(Got, kind, missing)) = {List(i.ref.name, kind, "", "", missing) : i \in Got}
    BY <1>2, <1>3, OfEachAre
  <2>4. call'.query = call.query
    BY <1>2, <1>3, <2>1, <2>3, KeptIs
  <2>5. ASSUME NEW r \in Range(OfEach(Got, kind, missing)) PROVE Follows(r)'
    <3>1. PICK i \in Got : r = List(i.ref.name, kind, "", "", missing)
      BY <2>3
    <3>2. r.cluster = i.ref.name
      BY <3>1 DEF List, Get
    <3>3. r = List(r.cluster, kind, "", "", missing)
      BY <3>1, <3>2
    <3>. QED
      BY <1>1, <2>2, <2>4, <3>3 DEF Follows
  <2>. QED
    BY <1>1, <1>2, <1>3, <2>1, <2>2, <2>3, <2>5, AskedMore
<1>. QED
  BY <1>4, <1>5

\* After a tool's last answer nothing is asked.
LEMMA NothingAsked ==
  ASSUME TypeOK, call.pc = "reading", NEW found \in SUBSET Items, Kept(found, <<>>),
         Range(Tail(call.todo)) = {}, call.query.tool # "listKubernetesResources"
  PROVE  Asked'
<1>1. <<>> \in Seq(Requests) /\ Range(<<>>) = {} /\ <<>> \o Tail(call.todo) = Tail(call.todo)
  BY EmptySeq, FewAre, ReadTyped, ConcatEmptySeq
<1>2. /\ call'.query = call.query /\ Range(call'.todo) = {} /\ call'.todo = Tail(call.todo)
  BY <1>1, KeptAre
<1>3. Len(call'.todo) = 0
  <2>1. Tail(call.todo) \in Seq(Requests)
    BY ReadTyped
  <2>2. Tail(call.todo) = <<>>
    <3>1. ASSUME NEW t \in Seq(Requests), Range(t) = {} PROVE t = <<>>
      <4>1. Len(t) \in Nat /\ (Len(t) # 0 => 1 \in DOMAIN t)
        OBVIOUS
      <4>2. DOMAIN t = {}
        BY <3>1 DEF Range
      <4>. QED
        BY <4>1, <4>2
    <3>. QED
      BY <2>1, <3>1
  <2>3. call'.todo = <<>> /\ Len(<<>>) = 0
    BY <1>2, <2>2
  <2>. QED
    BY <2>3
<1>4. \A r \in Range(call'.todo) : Follows(r)'
  BY <1>2
<1>5. call'.query.tool # "listKubernetesResources"
  BY <1>2
<1>6. Len(call'.todo) <= 1
  BY <1>3
<1>. QED
  BY <1>4, <1>5, <1>6 DEF Asked

\* What has nothing that follows asks once.
LEMMA AskedOnce ==
  ASSUME TypeOK, Asked, call.pc = "reading",
         call.query.tool \in OneReadTools \cup
           {"listProjects", "getUser", "listClusterRoleTemplateBindings", "listKubernetesResources"}
  PROVE  call.found = {} /\ call.todo = FirstReads(call.query) /\ Range(Tail(call.todo)) = {}
         /\ call.todo = <<Read>>
<1>1. ~Follows(Read)
  BY DEF Follows, OneReadTools
<1>2. call.found = {} /\ call.todo = FirstReads(call.query)
  BY <1>1, AskedIs DEF OneReadTools
<1>3. \E r : call.todo = <<r>>
  <2>1. CASE call.query.tool \in OneReadTools
    <3>1. call.todo = <<OneRead(call.query)>>
      BY <1>2, <2>1, FirstReadsAre
    <3>. QED
      BY <3>1
  <2>2. CASE call.query.tool = "listProjects"
    <3>1. call.todo = AllProjects(call.query)
      BY <1>2, <2>2, FirstReadsAre
    <3>. QED
      BY <3>1 DEF AllProjects
  <2>3. CASE call.query.tool = "getUser"
    <3>1. call.todo = <<List("local", "user", "", "", "fail")>>
      BY <1>2, <2>3, FirstReadsAre
    <3>. QED
      BY <3>1
  <2>4. CASE call.query.tool = "listClusterRoleTemplateBindings"
    <3>1. call.todo = <<List("local", "clusterroletemplatebinding", call.query.cluster, "", "fail")>>
      BY <1>2, <2>4, FirstReadsAre
    <3>. QED
      BY <3>1
  <2>5. CASE call.query.tool = "listKubernetesResources"
    <3>1. call.todo =
            <<List(call.query.cluster, call.query.kind, call.query.namespace, "", "fail")>>
      BY <1>2, <2>5, FirstReadsAre
    <3>. QED
      BY <3>1
  <2>. QED
    BY <2>1, <2>2, <2>3, <2>4, <2>5
<1>. QED
  BY <1>2, <1>3, FirstOnly

LEMMA ProjectAsked ==
  ASSUME TypeOK, Asked, UNCHANGED <<store, touched>>, GetProject \/ ListProjects
  PROVE  Asked'
<1>1. /\ call.pc = "reading" /\ call.query.tool \in {"getProject", "listProjects"}
      /\ call.found \in SUBSET Items /\ Got \in SUBSET Items
  BY GotIs DEF GetProject, ListProjects, Reads, TypeOK
<1>2. CASE ListProjects
  <2>1. Kept(Got, <<>>) /\ call.query.tool = "listProjects"
    BY <1>2 DEF ListProjects, Found, Reads
  <2>2. Range(Tail(call.todo)) = {}
    BY <1>1, <2>1, AskedOnce
  <2>. QED
    BY <1>1, <2>1, <2>2, NothingAsked
<1>3. CASE GetProject /\ Read.kind # "project"
  <2>1. Kept(call.found \cup Got, <<>>) /\ call.query.tool = "getProject"
    BY <1>3 DEF GetProject, Found, Reads
  <2>2. call.found \cup Got \in SUBSET Items /\ call.found \subseteq call.found \cup Got
    BY <1>1
  <2>. QED
    BY <1>1, <2>1, <2>2, AskedOn
<1>4. CASE GetProject /\ Read.kind = "project"
  <2>1. PICK i \in Got :
          Found({i}, <<List(call.query.cluster, "namespace", "", i.ref.name, "fail"),
                       List("local", "projectroletemplatebinding", i.ref.name, "", "fail")>>)
    BY <1>4 DEF GetProject
  <2> DEFINE more == <<List(call.query.cluster, "namespace", "", i.ref.name, "fail"),
                       List("local", "projectroletemplatebinding", i.ref.name, "", "fail")>>
  <2>2. call.query.tool = "getProject" /\ Kept({i}, more)
    BY <1>4, <2>1 DEF GetProject, Found, Reads
  <2>3. Range(Tail(call.todo)) = {}
    BY <1>1, <1>4, <2>2, ProjectRead
  <2>4. /\ i.ref.name \in Strings /\ call.query.cluster \in Strings /\ {i} \in SUBSET Items
        /\ i.ref.kind = "project"
    BY <1>1, <1>4, ObjectTyped, GotIs DEF TypeOK, Queries, Gets
  <2>5. more \in Seq(Requests)
    <3>1. /\ List(call.query.cluster, "namespace", "", i.ref.name, "fail") \in Requests
          /\ List("local", "projectroletemplatebinding", i.ref.name, "", "fail") \in Requests
      BY <2>4, WordsAreStrings, ListTyped DEF Missing
    <3>. QED
      BY <3>1, FewAreSequence
  <2>6. Range(more) = {List(call.query.cluster, "namespace", "", i.ref.name, "fail"),
                       List("local", "projectroletemplatebinding", i.ref.name, "", "fail")}
    BY FewAre
  <2> HIDE DEF more
  <2>7. call'.query = call.query /\ call'.found = {i}
    BY <1>1, <2>2, <2>4, <2>5, KeptIs
  <2>8. i \in AnswerOf("project")'
    BY <2>4, <2>7 DEF AnswerOf
  <2>9. \A r \in Range(more) : Follows(r)'
    BY <2>2, <2>6, <2>7, <2>8 DEF Follows
  <2>. QED
    BY <1>1, <2>2, <2>3, <2>4, <2>5, <2>9, AskedMore
<1>. QED
  BY <1>2, <1>3, <1>4


LEMMA RolesAsked ==
  ASSUME TypeOK, Asked, GetUser \/ ListClusterRoleTemplateBindings \/ ReadOnce
  PROVE  Asked'
<1>1. /\ call.pc = "reading" /\ Got \in SUBSET Items
      /\ call.query.tool \in OneReadTools \cup {"getUser", "listClusterRoleTemplateBindings"}
  BY GotIs DEF GetUser, ListClusterRoleTemplateBindings, ReadOnce, Reads
<1>2. Range(Tail(call.todo)) = {} /\ call.query.tool # "listKubernetesResources"
  BY <1>1, AskedOnce DEF OneReadTools
<1>3. PICK found \in SUBSET Items : Kept(found, <<>>)
  <2>1. CASE GetUser
    BY <1>1, <2>1 DEF GetUser, Found
  <2>2. CASE ListClusterRoleTemplateBindings
    <3>1. OfUser(Got) \in SUBSET Items
      BY <1>1 DEF OfUser
    <3>. QED
      BY <2>2, <3>1 DEF ListClusterRoleTemplateBindings, Found
  <2>3. CASE ReadOnce
    BY <1>1, <2>3 DEF ReadOnce, Found
  <2>. QED
    BY <2>1, <2>2, <2>3
<1>. QED
  BY <1>1, <1>2, <1>3, NothingAsked

\* The project that fits is one that the query may have meant.
LEMMA ProjectFound ==
  ASSUME TypeOK, Asked, call.pc = "reading",
         call.query.tool \in {"getProject", "listProjectRoleTemplateBindings", "getResourceUsage"},
         Read.kind = "project", NEW i \in Got, ProjectFits(i)
  PROVE  /\ i \in Items /\ i.ref.kind = "project" /\ i.ref.cluster = "local"
         /\ call.query.cluster \in {"", i.ref.namespace}
         /\ call.query.name \in {i.ref.name, i.data.spec.displayName}
         /\ i.ref \in DOMAIN store /\ store[i.ref] = i.data
         /\ i.ref \in NamedProjects
<1>1. /\ i \in Items /\ Gets(Read, i) /\ i.ref \in References
      /\ [i.ref EXCEPT !.kind = Served(@)] \in DOMAIN store
      /\ store[[i.ref EXCEPT !.kind = Served(@)]] = i.data
  BY GotIs, ObjectTyped
<1>2. i.ref.kind = "project" /\ i.ref.cluster = Read.cluster
  BY <1>1 DEF Gets
<1>3. [i.ref EXCEPT !.kind = Served(@)] = i.ref
  <2>1. Served(i.ref.kind) = i.ref.kind
    BY <1>2 DEF Served
  <2>. QED
    BY <1>1, <2>1 DEF References
<1>4. /\ Read.cluster = "local" /\ Read.namespace = call.query.cluster
      /\ \/ Read.op = "get" /\ Read.name = call.query.name
         \/ Read.op = "list"
  BY ProjectRead
<1>5. /\ call.query.cluster \in {"", i.ref.namespace}
      /\ call.query.name \in {i.ref.name, i.data.spec.displayName}
  <2>1. CASE Read.op = "get" /\ Read.name = call.query.name
    BY <1>1, <1>4, <2>1 DEF Gets
  <2>2. CASE Read.op = "list"
    BY <1>1, <1>4, <2>2 DEF Gets, ProjectFits
  <2>. QED
    BY <1>4, <2>1, <2>2
<1>6. i.ref \in DOMAIN store /\ store[i.ref] = i.data
  BY <1>1, <1>3
<1>7. i.ref \in NamedProjects
  BY <1>2, <1>4, <1>5, <1>6 DEF NamedProjects
<1>. QED
  BY <1>1, <1>2, <1>4, <1>5, <1>6, <1>7

\* The bindings are asked for in one request.
LEMMA BindingRead ==
  ASSUME TypeOK, Asked, call.pc = "reading",
         call.query.tool = "listProjectRoleTemplateBindings"
  PROVE  /\ call.found = {} /\ Range(Tail(call.todo)) = {} /\ Len(call.todo) = 1
         /\ \/ Read.kind = "project" /\ call.query.name # ""
            \/ /\ Read = List("local", "projectroletemplatebinding", "", "", "fail")
               /\ call.query.name = ""
            \/ /\ Read = List("local", "projectroletemplatebinding", Read.namespace, "", "fail")
               /\ call.query.name # ""
               /\ \E p \in NamedProjects : p \in touched \/ BackedBy(p, Read.namespace)
<1>1. Len(call.todo) = 1
  <2>1. Len(call.todo) \in Nat /\ Len(call.todo) # 0
    BY TodoIs
  <2>2. Len(call.todo) <= 1
    BY DEF Asked
  <2>3. \A n \in Nat : n # 0 /\ n <= 1 => n = 1
    OBVIOUS
  <2>. QED
    BY <2>1, <2>2, <2>3
<1>2. Range(Tail(call.todo)) = {}
  <2>1. Tail(call.todo) \in Seq(Requests) /\ Len(Tail(call.todo)) = 0
    <3>1. \A n : n = 1 => n - 1 = 0
      OBVIOUS
    <3>. QED
      BY <1>1, <3>1, TodoIs, ReadTyped
  <2>2. \A t \in Seq(Requests) : Len(t) = 0 => Range(t) = {}
    BY DEF Range
  <2>. QED
    BY <2>1, <2>2
<1> DEFINE q == call.query
<1>3. CASE call.found = {} /\ call.todo = FirstReads(q)
  <2>1. call.todo = IF q.name # "" THEN ProjectNamed(q) ELSE BindingReads("")
    BY <1>3, FirstReadsAre
  <2>2. CASE q.name = ""
    <3>1. Read = List("local", "projectroletemplatebinding", "", "", "fail")
      BY <2>1, <2>2, FirstOnly DEF BindingReads
    <3>. QED
      BY <1>1, <1>2, <1>3, <2>2, <3>1
  <2>3. CASE q.name # ""
    <3>1. Read = Get("local", "project", q.cluster, q.name, "search")
      BY <2>1, <2>3, FirstOnly DEF ProjectNamed
    <3>2. Read.kind = "project"
      BY <3>1 DEF Get
    <3>. QED
      BY <1>1, <1>2, <1>3, <2>3, <3>2
  <2>. QED
    BY <2>2, <2>3
<1>4. CASE call.found = {} /\ q.name # "" /\ call.todo = AllProjects(q)
  <2>1. Read = List("local", "project", q.cluster, "", "fail")
    BY <1>4, FirstOnly DEF AllProjects
  <2>2. Read.kind = "project"
    BY <2>1 DEF List, Get
  <2>. QED
    BY <1>1, <1>2, <1>4, <2>2
<1>5. CASE Follows(Read)
  <2>1. /\ call.found = {} /\ q.name # "" /\ Read \in Range(BindingReads(Read.namespace))
        /\ \E p \in NamedProjects : p \in touched \/ BackedBy(p, Read.namespace)
    BY <1>5 DEF Follows
  <2>2. Read = List("local", "projectroletemplatebinding", Read.namespace, "", "fail")
    BY <2>1, BindingReadsAre
  <2>. QED
    BY <1>1, <1>2, <2>1, <2>2
<1>. QED
  BY <1>3, <1>4, <1>5, AskedIs

LEMMA BindingsAsked ==
  ASSUME TypeOK, Asked, UNCHANGED <<store, touched>>, ListProjectRoleTemplateBindings
  PROVE  Asked'
<1>1. /\ call.pc = "reading" /\ call.query.tool = "listProjectRoleTemplateBindings"
      /\ Got \in SUBSET Items
  BY GotIs DEF ListProjectRoleTemplateBindings, Reads
<1>2. /\ call.found = {} /\ Range(Tail(call.todo)) = {} /\ Len(call.todo) = 1
      /\ Read.kind = "project" => call.query.name # ""
  <2>1. CASE Read = List("local", "projectroletemplatebinding", "", "", "fail")
    <3>1. Read.kind = "projectroletemplatebinding"
      BY <2>1 DEF List, Get
    <3>. QED
      BY <1>1, <3>1, BindingRead
  <2>. QED
    BY <1>1, <2>1, BindingRead
<1>3. CASE Read.kind # "project"
  <2> DEFINE found == {i \in OfUser(Got) : i.data.spec.cluster = call.query.cluster}
  <2>1. found \in SUBSET Items
    BY <1>1 DEF OfUser
  <2>2. Kept(found, <<>>)
    BY <1>3 DEF ListProjectRoleTemplateBindings, Found
  <2> HIDE DEF found
  <2>3. call.query.tool # "listKubernetesResources"
    BY <1>1
  <2>. QED
    BY <1>1, <1>2, <2>1, <2>2, <2>3, NothingAsked
<1>4. CASE Read.kind = "project"
  <2>1. PICK i \in Got : ProjectFits(i) /\ Found({}, BindingReads(Backing(i)))
    BY <1>4 DEF ListProjectRoleTemplateBindings
  <2>2. /\ i.ref \in NamedProjects /\ i.ref \in DOMAIN store /\ store[i.ref] = i.data
        /\ i \in Items
    BY <1>1, <1>4, <2>1, ProjectFound
  <2> DEFINE b == Backing(i)
  <2>3. b \in Strings
    BY <2>2, ObjectTyped DEF Backing
  <2>4. BackedBy(i.ref, b)
    BY <2>2 DEF BackedBy, Backing
  <2>5. Kept({}, BindingReads(b)) /\ {} \in SUBSET Items
    BY <2>1 DEF Found
  <2> HIDE DEF b
  <2>6. BindingReads(b) \in Seq(Requests)
    BY <2>3, BindingReadsTyped
  <2>7. /\ call'.query = call.query /\ call'.found = {}
        /\ Range(call'.todo) = Range(BindingReads(b)) \cup Range(Tail(call.todo))
        /\ Len(call'.todo) = Len(BindingReads(b)) + Len(call.todo) - 1
    BY <1>1, <2>5, <2>6, KeptAre
  <2>8. Range(call'.todo) = {List("local", "projectroletemplatebinding", b, "", "fail")}
    BY <1>2, <2>7, BindingReadsAre
  <2>9. Len(call'.todo) <= 1
    <3>1. Len(BindingReads(b)) = 1
      BY BindingReadsAre
    <3>2. Len(call'.todo) = 1 + 1 - 1
      BY <1>2, <2>7, <3>1
    <3>3. 1 + 1 - 1 <= 1
      OBVIOUS
    <3>. QED
      BY <3>2, <3>3
  <2>10. NamedProjects' = NamedProjects /\ BackedBy(i.ref, b)'
    BY <2>4, <2>7 DEF NamedProjects, BackedBy
  <2>11. ASSUME NEW r, r = List("local", "projectroletemplatebinding", b, "", "fail")
         PROVE  Follows(r)'
    <3>1. r.namespace = b
      BY <2>11 DEF List, Get
    <3>2. r \in Range(BindingReads(r.namespace))
      BY <2>11, <3>1, BindingReadsAre
    <3>3. \E p \in NamedProjects : p \in touched' \/ BackedBy(p, r.namespace)'
      BY <2>2, <2>10, <3>1
    <3>. QED
      BY <1>1, <1>2, <1>4, <2>7, <2>10, <3>2, <3>3 DEF Follows
  <2>. QED
    BY <1>1, <2>7, <2>8, <2>9, <2>11 DEF Asked
<1>. QED
  BY <1>3, <1>4


LEMMA UsageAsked ==
  ASSUME TypeOK, Asked,
         UsageProjects \/ UsageNamespace \/ UsageNamespaces \/ UsagePods \/ UsageMetrics
  PROVE  Asked'
<1>1. call.pc = "reading" /\ call.query.tool = "getResourceUsage"
  BY DEF UsageProjects, UsageNamespace, UsageNamespaces, UsagePods, UsageMetrics, Reads
<1>2. CallGoesOn /\ UsageGoesOn
  BY UsageStartTyped, UsageNamespacesTyped, UsagePodsTyped, UsageMetricsTyped
<1>3. PICK more \in Seq(Requests) :
        /\ call'.todo = more \o Tail(call.todo)
        /\ \A r \in Range(more) : ForUsage(r)
  BY <1>2 DEF UsageGoesOn
<1>4. Range(call'.todo) = Range(more) \cup Range(Tail(call.todo))
  <2>1. Tail(call.todo) \in Seq(Requests)
    BY <1>1, ReadTyped
  <2>. QED
    BY <1>3, <2>1, RangeConcatenation
<1>5. \A r \in Range(Tail(call.todo)) : ForUsage(r)
  BY <1>1, WaitingFollow DEF Follows, ForUsage
<1>6. call'.query = call.query
  BY <1>2 DEF CallGoesOn
<1>7. \A r \in Range(call'.todo) : Follows(r)'
  BY <1>1, <1>3, <1>4, <1>5, <1>6 DEF Follows, ForUsage
<1>. QED
  BY <1>1, <1>6, <1>7 DEF Asked

\* A call that has failed, or has its answer, asks nothing.
LEMMA EndAsked ==
  ASSUME call'.todo = <<>>,
         call'.query.tool = "listKubernetesResources" => call'.found = {}
  PROVE  Asked'
<1>1. \A r \in Range(call'.todo) : Follows(r)'
  BY FewAre
<1>2. Len(call'.todo) <= 1
  <2>1. Len(<<>>) = 0
    OBVIOUS
  <2>. QED
    BY <2>1
<1>. QED
  BY <1>1, <1>2 DEF Asked

LEMMA PagesAsked ==
  ASSUME TypeOK, Ordered, Asked, ListKubernetesResources \/ NextPage \/ NoProject
  PROVE  Asked'
<1>1. CASE ListKubernetesResources
  <2>1. call'.todo = <<>> /\ call'.found = call.found /\ call.query.tool = "listKubernetesResources"
    <3>1. CallTyped(call)
      BY CallHasType
    <3>. QED
      BY <1>1, <3>1, PageIs DEF ListKubernetesResources, Reads, CallTyped
  <2>. QED
    BY <2>1, EndAsked DEF Asked
<1>2. CASE NextPage
  <2>1. call' = [call EXCEPT !.pc = "reading", !.todo = FirstReads(call.query)]
    BY <1>2 DEF NextPage
  <2>2. /\ call'.todo = FirstReads(call'.query) /\ call'.query = call.query
        /\ call'.found = call.found
    BY <2>1 DEF TypeOK
  <2>3. call.query.tool = "listKubernetesResources" /\ call.found = {}
    BY <1>2 DEF NextPage, Ordered, Asked
  <2>. QED
    BY <2>2, <2>3 DEF Asked
<1>3. CASE NoProject
  <2>1. call'.todo = <<>> /\ call'.found = {}
    BY <1>3, FailedTyped DEF NoProject
  <2>. QED
    BY <2>1, EndAsked
<1>. QED
  BY <1>1, <1>2, <1>3


\* Only a project is searched for by another name, only the machine's answer ends
\* where an owner is missing, and little else may be missing for any reason.
LEMMA MissingMeans ==
  ASSUME TypeOK, Asked, call.pc = "reading"
  PROVE  /\ Read.missing = "search" =>
              /\ call.query.tool \in
                   {"getProject", "listProjectRoleTemplateBindings", "getResourceUsage"}
              /\ Read.kind = "project"
         /\ Read.missing = "end" => call.query.tool = "getClusterMachine"
         /\ Read.missing = "any" =>
              \/ call.query.tool = "getResourceUsage"
              \/ Read.kind \in {"podmetrics", "nodemetrics", "pods/log", "k3kcluster"}
<1> DEFINE q == call.query
<1>1. /\ \A cluster, kind, namespace, name, missing :
           /\ Get(cluster, kind, namespace, name, missing).missing = missing
           /\ Get(cluster, kind, namespace, name, missing).kind = kind
      /\ \A cluster, kind, namespace, label, missing :
           /\ List(cluster, kind, namespace, label, missing).missing = missing
           /\ List(cluster, kind, namespace, label, missing).kind = kind
  BY DEF List, Get
<1>2. CASE call.todo = FirstReads(q)
  <2>1. CASE q.tool = "analyzeClusterMachines"
    <3>1. Read = Head(Machines(q.cluster, MachineNamespace(q)))
      <4>1. call.todo = Machines(q.cluster, MachineNamespace(q))
        BY <1>2, <2>1, FirstReadsAre
      <4>. QED
        BY <4>1 DEF Read
    <3>2. Head(Machines(q.cluster, MachineNamespace(q))) =
            List("local", "machinedeployment", MachineNamespace(q), q.cluster, "skip")
      BY DEF Machines, CAPIKinds
    <3>. QED
      BY <1>1, <3>1, <3>2
  <2>2. CASE q.tool \in OneReadTools
    <3>1. Read = OneRead(q)
      <4>1. call.todo = <<OneRead(q)>>
        BY <1>2, <2>2, FirstReadsAre
      <4>. QED
        BY <4>1, FirstOnly
    <3>2. OneRead(q).missing = "fail"
      BY <2>2 DEF OneRead, OneReadTools, List, Get
    <3>. QED
      BY <3>1, <3>2
  <2>3. CASE q.tool = "getNodes"
    <3>1. Read = List(q.cluster, "node", "", "", "fail")
      <4>1. call.todo = <<List(q.cluster, "node", "", "", "fail"),
                          List(q.cluster, "nodemetrics", "", "", "any")>>
        BY <1>2, <2>3, FirstReadsAre
      <4>. QED
        <5>1. \A a, b : Head(<<a, b>>) = a
          OBVIOUS
        <5>. QED
          BY <4>1, <5>1 DEF Read
    <3>. QED
      BY <3>1 DEF List, Get
  <2>4. CASE call.todo = ProjectNamed(q) /\
             q.tool \in {"getProject", "listProjectRoleTemplateBindings", "getResourceUsage"}
    <3>1. Read = Get("local", "project", q.cluster, q.name, "search")
      BY <2>4, FirstOnly DEF ProjectNamed
    <3>. QED
      BY <1>1, <2>4, <3>1
  <2>5. CASE call.todo = AllProjects(q)
    <3>1. Read = List("local", "project", q.cluster, "", "fail")
      BY <2>5, FirstOnly DEF AllProjects
    <3>. QED
      BY <3>1 DEF List, Get
  <2>6. CASE call.todo = BindingReads("")
    <3>1. Read = List("local", "projectroletemplatebinding", "", "", "fail")
      BY <2>6, FirstOnly DEF BindingReads
    <3>. QED
      BY <3>1 DEF List, Get
  <2>7. ASSUME NEW r, call.todo = <<r>>,
               \/ r.missing = "fail"
               \/ r.missing = "end" /\ q.tool = "getClusterMachine"
               \/ r.missing = "any" /\ r.kind = "k3kcluster"
        PROVE  Read.missing = r.missing /\ Read.kind = r.kind
    BY <2>7, FirstOnly
  <2>8. CASE q.tool \in {"analyzeCluster", "getClusterMachine", "inspectPod",
                         "getDeploymentDetails"}
    <3>1. \A cluster, kind, namespace, name :
            /\ Get(cluster, kind, namespace, name, "fail").missing = "fail"
            /\ Get(cluster, kind, namespace, name, "end").missing = "end"
      BY DEF Get
    <3>2. \/ call.todo = <<Get("local", "provisioningcluster", ClusterNamespace(q), q.cluster, "fail")>>
          \/ /\ call.todo = <<Get("local", "machine", "fleet-default", q.name, "end")>>
             /\ q.tool = "getClusterMachine"
          \/ call.todo = <<Get(q.cluster, "pod", q.namespace, q.name, "fail")>>
          \/ call.todo = <<Get(q.cluster, "deployment", q.namespace, q.name, "fail")>>
      BY <1>2, <2>8, FirstReadsAre
    <3>. QED
      BY <2>7, <3>1, <3>2
  <2>9. CASE q.tool \in {"getClusterImages", "getK3kClusters", "getUser",
                         "listKubernetesResources", "listClusterRoleTemplateBindings"}
    <3>1. ASSUME NEW cluster, NEW kind, NEW namespace, NEW label,
                 call.todo = <<List(cluster, kind, namespace, label, "fail")>>
          PROVE  Read.missing = "fail"
      <4>1. List(cluster, kind, namespace, label, "fail").missing = "fail"
        BY DEF List, Get
      <4>. QED
        BY <3>1, <4>1, <2>7
    <3>2. CASE call.todo = <<List(q.cluster, "k3kcluster", "", "", "any")>>
      <4>1. LET l == List(q.cluster, "k3kcluster", "", "", "any") IN
            l.missing = "any" /\ l.kind = "k3kcluster"
        BY DEF List, Get
      <4>2. Read = List(q.cluster, "k3kcluster", "", "", "any")
        BY <3>2, FirstOnly
      <4>. QED
        BY <4>1, <4>2
    <3>3. \/ call.todo = <<List("local", "managementcluster", "", "", "fail")>>
          \/ call.todo = <<List(q.cluster, "pod", "", "", "fail")>>
          \/ call.todo = <<List(q.cluster, "k3kcluster", "", "", "any")>>
          \/ call.todo = <<List("local", "user", "", "", "fail")>>
          \/ call.todo = <<List(q.cluster, q.kind, q.namespace, "", "fail")>>
          \/ call.todo = <<List("local", "clusterroletemplatebinding", q.cluster, "", "fail")>>
      BY <1>2, <2>9, FirstReadsAre
    <3>. QED
      BY <3>1, <3>2, <3>3
  <2>10. CASE q.tool = "getResourceUsage" /\ q.namespace # ""
    <3>1. call.todo = <<Get(q.cluster, "namespace", "", q.namespace, "fail")>>
      BY <1>2, <2>10, FirstReadsAre
    <3>2. Get(q.cluster, "namespace", "", q.namespace, "fail").missing = "fail"
      BY DEF Get
    <3>. QED
      BY <2>7, <3>1, <3>2
  <2>11. q.tool \in {"getProject", "listProjectRoleTemplateBindings", "getResourceUsage", "listProjects"} =>
           \/ q.tool = "getResourceUsage" /\ q.namespace # ""
           \/ call.todo = BindingReads("") \/ call.todo = AllProjects(q)
           \/ call.todo = ProjectNamed(q) /\ q.tool # "listProjects"
    BY <1>2, FirstReadsAre
  <2>12. q.tool \in Tools
    BY DEF TypeOK, Queries
  <2>. QED
    BY <2>1, <2>2, <2>3, <2>4, <2>5, <2>6, <2>8, <2>9, <2>10, <2>11, <2>12 DEF Tools
<1>3. CASE call.todo = AllProjects(q)
  <2>1. Read = List("local", "project", q.cluster, "", "fail")
    BY <1>3, FirstOnly DEF AllProjects
  <2>. QED
    BY <2>1 DEF List, Get
<1>4. CASE Follows(Read)
  <2>1. CASE q.tool = "analyzeCluster"
    BY <1>4, <2>1, ClusterPartKinds DEF Follows, AnswerOf, TypeOK
  <2>2. CASE q.tool \in {"analyzeClusterMachines", "getNodes"}
    <3>1. Read \in Range(FirstReads(q))
      BY <1>4, <2>2 DEF Follows
    <3>2. CASE q.tool = "getNodes"
      <4>1. \/ Read = List(q.cluster, "node", "", "", "fail")
            \/ Read = List(q.cluster, "nodemetrics", "", "", "any")
        <5>1. FirstReads(q) = <<List(q.cluster, "node", "", "", "fail"),
                                List(q.cluster, "nodemetrics", "", "", "any")>>
          BY <3>2, FirstReadsAre
        <5>2. Range(FirstReads(q)) = {List(q.cluster, "node", "", "", "fail"),
                                      List(q.cluster, "nodemetrics", "", "", "any")}
          BY <5>1, FewAre
        <5>. QED
          BY <3>1, <5>2
      <4>. QED
        BY <4>1 DEF List, Get
    <3>3. CASE q.tool = "analyzeClusterMachines"
      <4>1. PICK k \in DOMAIN CAPIKinds :
              Read = List("local", CAPIKinds[k], MachineNamespace(q), q.cluster, "skip")
        <5>1. Read \in Range(Machines(q.cluster, MachineNamespace(q)))
          BY <3>1, <3>3, FirstReadsAre
        <5>. QED
          BY <5>1 DEF Machines, Range
      <4>. QED
        BY <1>1, <4>1
    <3>. QED
      BY <2>2, <3>2, <3>3
  <2>3. CASE q.tool = "getClusterMachine"
    BY <2>3, MachineRead
  <2>4. CASE q.tool = "inspectPod"
    <3>1. Get(q.cluster, "pod", q.namespace, q.name, "fail").missing = "fail"
      BY DEF Get
    <3>. QED
      BY <2>4, <3>1, PodRead
  <2>5. CASE q.tool = "getDeploymentDetails"
    <3>1. PICK d : Read = List(q.cluster, "pod", q.namespace, d.data.label, "fail")
      BY <1>4, <2>5 DEF Follows
    <3>. QED
      BY <1>1, <3>1
  <2>6. CASE q.tool = "getClusterImages"
    <3>1. Read = List(Read.cluster, "pod", "", "", "fail")
      BY <1>4, <2>6 DEF Follows
    <3>2. List(Read.cluster, "pod", "", "", "fail").missing = "fail"
      BY DEF List, Get
    <3>. QED
      BY <3>1, <3>2
  <2>7. CASE q.tool = "getK3kClusters"
    <3>1. Read = List(Read.cluster, "k3kcluster", "", "", "any")
      BY <1>4, <2>7 DEF Follows
    <3>2. LET l == List(Read.cluster, "k3kcluster", "", "", "any") IN
          l.missing = "any" /\ l.kind = "k3kcluster"
      BY DEF List, Get
    <3>. QED
      BY <3>1, <3>2
  <2>8. CASE q.tool = "getProject"
    <3>1. PICK p : \/ Read = List(q.cluster, "namespace", "", p.ref.name, "fail")
                   \/ Read = List("local", "projectroletemplatebinding", p.ref.name, "", "fail")
      BY <1>4, <2>8 DEF Follows
    <3>. QED
      BY <3>1 DEF List, Get
  <2>9. CASE q.tool = "listProjectRoleTemplateBindings"
    <3>1. Read = List("local", "projectroletemplatebinding", Read.namespace, "", "fail")
      BY <1>4, <2>9, BindingReadsAre DEF Follows
    <3>2. List("local", "projectroletemplatebinding", Read.namespace, "", "fail").missing = "fail"
      BY DEF List, Get
    <3>. QED
      BY <3>1, <3>2
  <2>10. CASE q.tool = "getResourceUsage"
    BY <1>4, <2>10 DEF Follows
  <2>. QED
    BY <1>4, <2>1, <2>2, <2>3, <2>4, <2>5, <2>6, <2>7, <2>8, <2>9, <2>10 DEF Follows
<1>. QED
  BY <1>2, <1>3, <1>4, AskedIs

LEMMA SearchRead ==
  ASSUME TypeOK, Asked, call.pc = "reading", Read.missing = "search"
  PROVE  /\ call.query.tool \in
              {"getProject", "listProjectRoleTemplateBindings", "getResourceUsage"}
         /\ Read.kind = "project"
BY MissingMeans

LEMMA RefusalsAsked ==
  ASSUME TypeOK, Asked, UNCHANGED <<store, touched>>, NotFound \/ Refused
  PROVE  Asked'
<1>1. call.pc = "reading" /\ call.found \in SUBSET Items
  BY DEF NotFound, Refused, TypeOK
<1>2. CASE call' = Failed
  <2>1. call'.todo = <<>> /\ call'.found = {}
    BY <1>2, FailedTyped
  <2>. QED
    BY <2>1, EndAsked
<1>3. CASE Kept(call.found, <<>>)
  BY <1>1, <1>3, AskedOn
<1>4. CASE call' = [call EXCEPT !.found = Without(Read.kind), !.todo = <<>>, !.pc = "done"]
  <2>1. CallTyped(call)
    BY CallHasType
  <2>2. /\ call'.todo = <<>> /\ call'.query = call.query
        /\ call'.found = {i \in call.found : i.ref.kind # Read.kind}
    BY <1>4, <2>1 DEF CallTyped, Without
  <2>3. call.found = {} => call'.found = {}
    BY <2>2
  <2>. QED
    BY <2>2, <2>3, EndAsked DEF Asked
<1>5. CASE Answers /\ Absent /\ Read.missing = "search" /\ Kept(call.found, AllProjects(call.query))
  <2>1. /\ call.query.tool \in
             {"getProject", "listProjectRoleTemplateBindings", "getResourceUsage"}
        /\ Read.kind = "project"
    BY <1>1, <1>5, SearchRead
  <2>2. call.found = {} /\ Range(Tail(call.todo)) = {} /\ Read.name = call.query.name
    BY <1>1, <1>5, <2>1, ProjectRead DEF Absent
  <2>3. call.query.name # ""
    BY <1>5, <2>2 DEF Answers, Absent
  <2>4. AllProjects(call.query) \in Seq(Requests) /\ Len(AllProjects(call.query)) = 1
    <3>1. List("local", "project", call.query.cluster, "", "fail") \in Requests
      BY ListTyped, WordsAreStrings DEF TypeOK, Queries, Missing
    <3>2. \A r : Len(<<r>>) = 1
      OBVIOUS
    <3>. QED
      BY <3>1, <3>2, FewAreSequence DEF AllProjects
  <2>5. /\ call'.query = call.query /\ call'.found = {}
        /\ call'.todo = AllProjects(call.query) \o Tail(call.todo)
    BY <1>1, <1>5, <2>2, <2>4, KeptIs
  <2>6. Tail(call.todo) = <<>>
    <3>1. Tail(call.todo) \in Seq(Requests)
      BY <1>1, ReadTyped
    <3>2. \A t \in Seq(Requests) : Range(t) = {} => t = <<>>
      <4>1. ASSUME NEW t \in Seq(Requests), Range(t) = {} PROVE t = <<>>
        <5>1. Len(t) \in Nat /\ (Len(t) # 0 => 1 \in DOMAIN t)
          OBVIOUS
        <5>2. DOMAIN t = {}
          BY <4>1 DEF Range
        <5>. QED
          BY <5>1, <5>2
      <4>. QED
        BY <4>1
    <3>. QED
      BY <2>2, <3>1, <3>2
  <2>7. call'.todo = AllProjects(call.query)
    BY <2>4, <2>5, <2>6, ConcatEmptySeq
  <2>8. Len(call'.todo) <= 1
    <3>1. Len(call'.todo) = 1 /\ 1 <= 1
      BY <2>4, <2>7
    <3>. QED
      BY <3>1
  <2>9. /\ call'.query.tool \in {"getProject", "listProjectRoleTemplateBindings", "getResourceUsage"}
        /\ call'.query.name # "" /\ call'.todo = AllProjects(call'.query)
    BY <2>1, <2>3, <2>5, <2>7
  <2>. QED
    BY <2>5, <2>8, <2>9 DEF Asked
<1>. QED
  BY <1>2, <1>3, <1>4, <1>5 DEF NotFound, Refused


LEMMA StepAsked ==
  ASSUME TypeOK, Ordered, Asked, Step
  PROVE  Asked'
<1>1. UNCHANGED <<store, touched>>
  BY DEF Step
<1>2. CASE AnalyzeCluster \/ AnalyzeClusterMachines \/ GetNodes
  BY <1>1, <1>2, ClustersAsked
<1>3. CASE GetClusterMachine
  BY <1>1, <1>3, MachineAsked
<1>4. CASE InspectPod
  BY <1>1, <1>4, PodAsked
<1>5. CASE GetDeploymentDetails
  BY <1>1, <1>5, DeploymentAsked
<1>6. CASE GetClusterImages \/ GetK3kClusters
  BY <1>1, <1>6, EverywhereAsked
<1>7. CASE GetProject \/ ListProjects
  BY <1>1, <1>7, ProjectAsked
<1>8. CASE GetUser \/ ListClusterRoleTemplateBindings \/ ReadOnce
  BY <1>8, RolesAsked
<1>9. CASE ListProjectRoleTemplateBindings
  BY <1>1, <1>9, BindingsAsked
<1>10. CASE UsageProjects \/ UsageNamespace \/ UsageNamespaces \/ UsagePods \/ UsageMetrics
  BY <1>10, UsageAsked
<1>11. CASE ListKubernetesResources \/ NextPage \/ NoProject
  BY <1>11, PagesAsked
<1>12. CASE NotFound \/ Refused
  BY <1>1, <1>12, RefusalsAsked
<1>. QED
  BY <1>2, <1>3, <1>4, <1>5, <1>6, <1>7, <1>8, <1>9, <1>10, <1>11, <1>12 DEF Step

\* A change by others is of one object, among those there are or may be.
LEMMA OthersChange ==
  ASSUME TypeOK, OthersWrite
  PROVE  /\ call' = call /\ variants' = variants
         /\ DOMAIN store' \subseteq DOMAIN store \cup {v.ref : v \in variants}
         /\ \E d \in DOMAIN store \cup {v.ref : v \in variants} :
              /\ touched' = touched \cup {d}
              /\ \A r : r # d => /\ r \in DOMAIN store' <=> r \in DOMAIN store
                                 /\ r \in DOMAIN store => store'[r] = store[r]
<1>1. call' = call /\ variants' = variants
  BY DEF OthersWrite
<1>2. CASE \E v \in variants :
             /\ store' = [r \in DOMAIN store \cup {v.ref} |->
                            IF r = v.ref THEN v.data ELSE store[r]]
             /\ touched' = touched \cup {v.ref}
  BY <1>1, <1>2
<1>3. CASE \E d \in DOMAIN store :
             /\ store' = [r \in DOMAIN store \ {d} |-> store[r]]
             /\ touched' = touched \cup {d}
  BY <1>1, <1>3
<1>. QED
  BY <1>2, <1>3 DEF OthersWrite

LEMMA OthersAsked ==
  ASSUME TypeOK, Asked, OthersWrite
  PROVE  Asked'
<1>1. PICK d : /\ touched' = touched \cup {d}
               /\ \A r : r # d => /\ r \in DOMAIN store' <=> r \in DOMAIN store
                                  /\ r \in DOMAIN store => store'[r] = store[r]
  BY OthersChange
<1>2. call' = call
  BY OthersChange
<1>3. touched \subseteq touched'
  BY <1>1
<1>4. \A s : s \notin touched' => /\ s \in DOMAIN store => s \in DOMAIN store'
                                  /\ s \in DOMAIN store => store'[s] = store[s]
  BY <1>1
<1>5. ASSUME NEW p \in NamedProjects
      PROVE  p \in NamedProjects'
  <2>1. /\ p \in DOMAIN store \cup touched /\ p.cluster = "local" /\ p.kind = "project"
        /\ call.query.cluster \in {"", p.namespace}
        /\ p \in touched \/ call.query.name \in {p.name, store[p].spec.displayName}
    BY DEF NamedProjects
  <2>2. CASE p \in touched'
    BY <1>2, <2>1, <2>2 DEF NamedProjects
  <2>3. CASE p \notin touched'
    <3>1. p \in DOMAIN store' /\ store'[p] = store[p] /\ p \notin touched
      BY <1>3, <1>4, <2>1, <2>3
    <3>. QED
      BY <1>2, <2>1, <3>1 DEF NamedProjects
  <2>. QED
    BY <2>2, <2>3
<1>6. ASSUME NEW r, Follows(r) PROVE Follows(r)'
  <2>1. CASE call.query.tool = "inspectPod"
    <3>1. PICK p \in AnswerOf("pod") :
           \/ r \in Range(PodReads(p))
           \/ /\ r = Get(r.cluster, r.kind, r.namespace, r.name, "fail")
              /\ r.kind \in Workloads
              /\ \E s \in ReplicaSets(p) :
                   HasOwner(s, Ref(r.cluster, r.kind, r.namespace, r.name))
      BY <1>6, <2>1 DEF Follows
    <3>2. p \in AnswerOf("pod")'
      BY <1>2 DEF AnswerOf
    <3>3. CASE r \in Range(PodReads(p))
      BY <1>2, <2>1, <3>2, <3>3 DEF Follows
    <3>4. CASE r \notin Range(PodReads(p))
      <4>1. PICK s \in ReplicaSets(p) :
                   HasOwner(s, Ref(r.cluster, r.kind, r.namespace, r.name))
        BY <3>1, <3>4
      <4>2. HasOwner(s, Ref(r.cluster, r.kind, r.namespace, r.name))'
        BY <1>3, <1>4, <4>1 DEF HasOwner
      <4>. QED
        BY <1>2, <2>1, <3>1, <3>2, <3>4, <4>2 DEF Follows
    <3>. QED
      BY <3>3, <3>4
  <2>2. CASE call.query.tool = "listProjectRoleTemplateBindings"
    <3>1. PICK p \in NamedProjects : p \in touched \/ BackedBy(p, r.namespace)
      BY <1>6, <2>2 DEF Follows
    <3>2. p \in NamedProjects'
      BY <1>5
    <3>3. p \in touched' \/ BackedBy(p, r.namespace)'
      <4>1. CASE p \in touched'
        BY <4>1
      <4>2. CASE p \notin touched'
        <5>1. p \in DOMAIN store /\ BackedBy(p, r.namespace)
          BY <1>3, <3>1, <4>2 DEF NamedProjects
        <5>2. store'[p] = store[p]
          BY <1>4, <4>2, <5>1
        <5>. QED
          BY <5>1, <5>2 DEF BackedBy
      <4>. QED
        BY <4>1, <4>2
    <3>4. call'.found = {} /\ call'.query.name # "" /\ r \in Range(BindingReads(r.namespace))
      BY <1>2, <1>6, <2>2 DEF Follows
    <3>. QED
      BY <1>2, <2>2, <3>2, <3>3, <3>4 DEF Follows
  <2>3. CASE call.query.tool = "analyzeCluster"
    BY <1>2, <1>6, <2>3 DEF Follows, AnswerOf, ClusterParts
  <2>4. CASE call.query.tool = "getClusterMachine"
    BY <1>2, <1>6, <2>4 DEF Follows, AnswerOf, Pending
  <2>5. CASE call.query.tool \notin {"inspectPod", "listProjectRoleTemplateBindings",
                                     "analyzeCluster", "getClusterMachine"}
    BY <1>2, <1>6, <2>5 DEF Follows, AnswerOf
  <2>. QED
    BY <2>1, <2>2, <2>3, <2>4, <2>5
<1>. QED
  BY <1>2, <1>6 DEF Asked

LEMMA BeginAsked ==
  ASSUME TypeOK, Begin
  PROVE  Asked'
<1>1. /\ call'.found = {} /\ call'.todo = FirstReads(call'.query) /\ call'.query = call.query
  BY BeginTyped
<1>2. call.query.tool = "listProjectRoleTemplateBindings" => Len(call'.todo) <= 1
  <2>1. CASE call.query.tool = "listProjectRoleTemplateBindings"
    <3>1. call'.todo = IF call.query.name # "" THEN ProjectNamed(call.query) ELSE BindingReads("")
      BY <1>1, <2>1, FirstReadsAre
    <3>2. \A r : Len(<<r>>) = 1
      OBVIOUS
    <3>3. Len(ProjectNamed(call.query)) = 1 /\ Len(BindingReads("")) = 1
      BY <3>2 DEF ProjectNamed, BindingReads
    <3>4. Len(call'.todo) = 1
      <4>1. CASE call'.todo = ProjectNamed(call.query)
        BY <3>3, <4>1
      <4>2. CASE call'.todo = BindingReads("")
        BY <3>3, <4>2
      <4>. QED
        BY <3>1, <4>1, <4>2
    <3>. QED
      BY <3>4
  <2>. QED
    BY <2>1
<1>. QED
  BY <1>1, <1>2 DEF Asked

LEMMA InitAsked ==
  ASSUME Init
  PROVE  Asked
<1>1. call.todo = <<>> /\ call.found = {} /\ Len(<<>>) = 0 /\ Range(<<>>) = {}
  BY InitTyped, FewAre
<1>2. Len(call.todo) <= 1
  <2>1. Len(call.todo) = 0
    BY <1>1
  <2>. QED
    BY <2>1
<1>3. \A r \in Range(call.todo) : Follows(r)
  BY <1>1
<1>. QED
  BY <1>1, <1>2, <1>3 DEF Asked

-----------------------------------------------------------------------------
(* The walk through the pages.                                               *)

Times(pages, r) == Cardinality({k \in DOMAIN pages : pages[k] = r})

\* A page that has the object at one place, or not at all.
LEMMA TimesOfPage ==
  ASSUME NEW S, NEW a \in Seq(S), NEW b \in Seq(S), NEW r
  PROVE  /\ Times(a, r) \in Nat
         /\ (\A k \in 1..Len(b) : b[k] # r) => Times(a \o b, r) = Times(a, r)
         /\ \A j \in 1..Len(b) :
              (\A k \in 1..Len(b) : b[k] = r <=> k = j) => Times(a \o b, r) = Times(a, r) + 1
<1> DEFINE m == Len(a)
           n == Len(b)
           A == {k \in DOMAIN a : a[k] = r}
           B == {k \in DOMAIN (a \o b) : (a \o b)[k] = r}
<1>1. /\ m \in Nat /\ n \in Nat /\ DOMAIN a = 1..m /\ DOMAIN (a \o b) = 1..m + n
      /\ \A k \in 1..m : (a \o b)[k] = a[k]
      /\ \A k \in m + 1..m + n : (a \o b)[k] = b[k - m]
  BY ConcatProperties
<1>2. IsFiniteSet(A) /\ Cardinality(A) \in Nat /\ A \subseteq 1..m
  <2>1. IsFiniteSet(1..m)
    BY <1>1, FS_Interval
  <2>2. A \in SUBSET (1..m)
    BY <1>1
  <2> HIDE DEF A, m
  <2>. QED
    BY <2>1, <2>2, FS_Subset, FS_CardinalityType
<1>3. Times(a, r) = Cardinality(A) /\ Times(a \o b, r) = Cardinality(B)
  BY DEF Times
<1>4. \A k : k \in B <=> (k \in A \/ (k \in m + 1..m + n /\ b[k - m] = r))
  <2>1. \A k \in 1..m + n : k \in 1..m \/ k \in m + 1..m + n
    BY <1>1
  <2>2. 1..m \subseteq 1..m + n /\ m + 1..m + n \subseteq 1..m + n
    BY <1>1
  <2>. QED
    BY <1>1, <2>1, <2>2
<1>5. \A k \in m + 1..m + n : k - m \in 1..n
  BY <1>1
<1> HIDE DEF A, B, m, n
<1>6. ASSUME \A k \in 1..n : b[k] # r PROVE B = A
  BY <1>4, <1>5, <1>6
<1>7. ASSUME NEW j \in 1..n, \A k \in 1..n : b[k] = r <=> k = j
      PROVE  Cardinality(B) = Cardinality(A) + 1
  <2>1. m + j \in m + 1..m + n /\ m + j \notin A /\ m + j - m = j
    BY <1>1, <1>2, <1>7
  <2>2. \A k \in m + 1..m + n : b[k - m] = r <=> k - m = j
    BY <1>5, <1>7
  <2>3. \A k \in m + 1..m + n : k - m = j <=> k = m + j
    BY <1>1, <1>7
  <2>4. B = A \cup {m + j}
    BY <1>4, <2>1, <2>2, <2>3
  <2>. QED
    BY <1>2, <2>1, <2>4, FS_AddElement
<1>. QED
  BY <1>2, <1>3, <1>6, <1>7 DEF m, n

\* One more page of a list that stands still.
LEMMA OnePageMore ==
  ASSUME NEW S, Placed(S), NEW pages \in Seq(References),
         NEW a \in 0..Cardinality(S), NEW b \in a..Cardinality(S)
  PROVE  LET more == pages \o SubSeq(Sorted(S), a + 1, b) IN
         /\ \A r \in S : Times(pages, r) = (IF Place(S, r) < a THEN 1 ELSE 0) =>
                           Times(more, r) = IF Place(S, r) < b THEN 1 ELSE 0
         /\ \A from \in Nat :
              /\ from <= a \/ a = Cardinality(S)
              /\ pages = SubSeq(Sorted(S), from + 1, a)
              => more = SubSeq(Sorted(S), from + 1, b)
<1> DEFINE all == Sorted(S)
           n == Cardinality(S)
           page == SubSeq(all, a + 1, b)
           more == pages \o page
<1>1. /\ n \in Nat /\ all \in Seq(S) /\ Len(all) = n
      /\ \A r \in S : /\ Place(S, r) \in 0..n - 1
                      /\ \A k \in 1..n : all[k] = r <=> k = Place(S, r) + 1
  BY SortedIs
<1>2. S \subseteq References
  BY DEF Placed
<1> HIDE DEF all, n
<1>3. a \in Nat /\ b \in Nat /\ a <= b /\ b <= n
  BY <1>1 DEF n
<1>4. /\ page \in Seq(References) /\ Len(page) = b - a
      /\ \A k \in 1..b - a : page[k] = all[a + k]
  <2>1. \A k \in a + 1..b : all[k] \in References
    BY <1>1, <1>2, <1>3
  <2>2. /\ page \in Seq(References) /\ Len(page) = IF a + 1 <= b THEN b - (a + 1) + 1 ELSE 0
        /\ \A k \in 1..b - (a + 1) + 1 : page[k] = all[a + 1 + k - 1]
    BY <1>3, <2>1, SubSeqProperties
  <2>3. b - (a + 1) + 1 = b - a /\ (a + 1 > b => b - a = 0)
    BY <1>3
  <2>4. \A k \in 1..b - a : a + 1 + k - 1 = a + k
    BY <1>3
  <2> HIDE DEF page
  <2>5. Len(page) = b - a
    BY <1>3, <2>2, <2>3
  <2>6. \A k \in 1..b - a : page[k] = all[a + k]
    BY <2>2, <2>3, <2>4
  <2>. QED
    BY <2>2, <2>5, <2>6
<1> HIDE DEF page
<1>5. ASSUME NEW r \in S, Times(pages, r) = IF Place(S, r) < a THEN 1 ELSE 0
      PROVE  Times(more, r) = IF Place(S, r) < b THEN 1 ELSE 0
  <2> DEFINE p == Place(S, r)
  <2>1. p \in 0..n - 1 /\ \A k \in 1..n : all[k] = r <=> k = p + 1
    BY <1>1
  <2> HIDE DEF p
  <2>2. \A k \in 1..b - a : a + k \in 1..n
    BY <1>1, <1>3
  <2>3. \A k \in 1..b - a : page[k] = r <=> a + k = p + 1
    BY <1>4, <2>1, <2>2
  <2>4. Times(pages, r) = IF p < a THEN 1 ELSE 0
    BY <1>5 DEF p
  <2>5. CASE p < a
    <3>1. \A k \in 1..b - a : a + k # p + 1
      BY <1>1, <1>3, <2>1, <2>5
    <3>2. Times(more, r) = Times(pages, r)
      <4>1. \A k \in 1..Len(page) : page[k] # r
        BY <1>4, <2>3, <3>1
      <4>2. page \in Seq(References)
        BY <1>4
      <4>. QED
        BY <4>1, <4>2, TimesOfPage
    <3>3. p < b
      BY <1>1, <1>3, <2>1, <2>5
    <3>. QED
      BY <2>4, <2>5, <3>2, <3>3 DEF p
  <2>6. CASE b <= p
    <3>1. \A k \in 1..b - a : a + k # p + 1
      BY <1>1, <1>3, <2>1, <2>6
    <3>2. Times(more, r) = Times(pages, r)
      <4>1. \A k \in 1..Len(page) : page[k] # r
        BY <1>4, <2>3, <3>1
      <4>2. page \in Seq(References)
        BY <1>4
      <4>. QED
        BY <4>1, <4>2, TimesOfPage
    <3>3. ~(p < b) /\ ~(p < a)
      BY <1>1, <1>3, <2>1, <2>6
    <3>. QED
      BY <2>4, <3>2, <3>3 DEF p
  <2>7. CASE a <= p /\ p < b
    <3>1. p + 1 - a \in 1..b - a /\ \A k \in 1..b - a : a + k = p + 1 <=> k = p + 1 - a
      BY <1>1, <1>3, <2>1, <2>7
    <3>2. \A k \in 1..b - a : page[k] = r <=> k = p + 1 - a
      BY <2>3, <3>1
    <3>3. Times(more, r) = Times(pages, r) + 1
      <4>1. page \in Seq(References) /\ Len(page) = b - a
        BY <1>4
      <4>2. PICK j \in 1..Len(page) : j = p + 1 - a
        BY <3>1, <4>1
      <4>3. \A k \in 1..Len(page) : page[k] = r <=> k = j
        BY <3>2, <4>1, <4>2
      <4>. QED
        BY <4>1, <4>3, TimesOfPage
    <3>4. ~(p < a)
      BY <1>1, <1>3, <2>1, <2>7
    <3>5. Times(pages, r) = 0
      BY <2>4, <3>4
    <3>6. Times(more, r) = 1
      BY <3>3, <3>5
    <3>. QED
      BY <2>7, <3>6 DEF p
  <2>8. p < a \/ b <= p \/ (a <= p /\ p < b)
    BY <1>1, <1>3, <2>1
  <2>. QED
    BY <2>5, <2>6, <2>7, <2>8
<1>6. ASSUME NEW from \in Nat, from <= a \/ a = n, pages = SubSeq(all, from + 1, a)
      PROVE  more = SubSeq(all, from + 1, b)
  <2>1. CASE from <= a
    <3>1. from + 1 \in 1..Len(all) + 1 /\ a \in (from + 1) - 1..Len(all) /\ b \in a..Len(all)
      BY <1>1, <1>3, <2>1
    <3>2. SubSeq(all, from + 1, a) \o SubSeq(all, a + 1, b) = SubSeq(all, from + 1, b)
      BY <1>1, <3>1, ConcatAdjacentSubSeq
    <3>. QED
      BY <1>6, <3>2 DEF page
  <2>2. CASE a = n /\ from > a
    <3>1. a < from + 1 /\ b < a + 1 /\ b < from + 1 /\ from + 1 \in Int /\ a + 1 \in Int
      BY <1>1, <1>3, <2>2
    <3>2. SubSeq(all, from + 1, a) = <<>> /\ SubSeq(all, a + 1, b) = <<>>
          /\ SubSeq(all, from + 1, b) = <<>>
      BY <1>3, <3>1, SubSeqEmpty
    <3>3. <<>> \o <<>> = <<>>
      OBVIOUS
    <3>. QED
      BY <1>6, <3>2, <3>3 DEF page
  <2>3. from <= a \/ from > a
    BY <1>3
  <2>. QED
    BY <1>6, <2>1, <2>2, <2>3
<1>. QED
  BY <1>5, <1>6 DEF all, n, page

\* How far the pages have come.
UpTo(c, n) == IF c.pc = "done" THEN n ELSE Lesser(Offset(c.offset), n)

WalkedBy(c, S, seen) ==
  LET from == Offset(c.query.offset)
      upTo == UpTo(c, Cardinality(S)) IN
  /\ Offset(c.offset) >= from
  /\ from = 0 =>
       \A r \in S \ seen :
         ~(\E t \in seen : t.kind = r.kind /\ Before(t, r)) =>
           Times(c.pages, r) = IF Place(S, r) < upTo THEN 1 ELSE 0
  /\ seen = {} => c.pages = SubSeq(Sorted(S), from + 1, upTo)

Walking(c) == c.query.tool = "listKubernetesResources" /\ c.pc \in {"reading", "paged", "done"}

LEMMA WalkedIs == Walked <=> (Walking(call) => WalkedBy(call, Listed, touched))
BY DEF Walked, Walking, WalkedBy, UpTo, Times, Place

LEMMA WalkedIsNext == Walked' <=> (Walking(call') => WalkedBy(call', Listed', touched'))
BY DEF Walked, Walking, WalkedBy, UpTo, Times, Place

LEMMA PageWalked ==
  ASSUME TypeOK, Ordered, Asked, Walked, UNCHANGED <<store, touched>>, ListKubernetesResources
  PROVE  Walked'
<1>1. call.pc = "reading" /\ call.query.tool = "listKubernetesResources"
  BY DEF ListKubernetesResources, Reads
<1>2. CallTyped(call) /\ Placed(Listed)
  BY <1>1, ListedIsPlaced, CallHasType
<1>3. PICK S : S = Listed
  OBVIOUS
<1>4. PICK n : n = Cardinality(S)
  OBVIOUS
<1>5. PICK at : at = Offset(call.offset)
  OBVIOUS
<1>6. PICK next : next = at + Limit(call.query.limit)
  OBVIOUS
<1>7. PICK a : a = Lesser(at, n)
  OBVIOUS
<1>8. PICK b : b = Lesser(next, n)
  OBVIOUS
<1>9. PICK from : from = Offset(call.query.offset)
  OBVIOUS
<1>10. at \in Nat /\ Limit(call.query.limit) \in Nat /\ from \in Nat
  <2>1. call.offset \in Ints /\ call.query.limit \in Ints /\ call.query.offset \in Ints
    BY DEF TypeOK, Queries
  <2>. QED
    BY <1>5, <1>9, <2>1, Normalised
<1>11. n \in Nat
  BY <1>2, <1>3, <1>4, SortedIs
<1>12. next \in Nat /\ at <= next
  BY <1>6, <1>10
<1>13. a \in 0..n /\ b \in a..n
  BY <1>7, <1>8, <1>10, <1>11, <1>12 DEF Lesser
<1>14. WalkedBy(call, S, touched)
  BY <1>1, <1>3, WalkedIs DEF Walking
<1>15. /\ at >= from
       /\ from = 0 => \A r \in S \ touched :
            ~(\E t \in touched : t.kind = r.kind /\ Before(t, r)) =>
              Times(call.pages, r) = IF Place(S, r) < a THEN 1 ELSE 0
       /\ touched = {} => call.pages = SubSeq(Sorted(S), from + 1, a)
  BY <1>1, <1>4, <1>5, <1>7, <1>9, <1>14 DEF WalkedBy, UpTo
<1>16. Listed' = S
  <2>1. call'.query = call.query
    BY PagesTyped
  <2>. QED
    BY <1>3, <2>1 DEF Listed
<1>17. CASE call'.pc = "panicked"
  BY <1>17, WalkedIsNext DEF Walking
<1>18. CASE call'.pc # "panicked"
  <2>1. call' = [call EXCEPT
                 !.pc = IF next < n THEN "paged" ELSE "done", !.todo = <<>>,
                 !.pages = @ \o SubSeq(Sorted(S), a + 1, b),
                 !.offset = next]
    <3>1. CASE call' = [call EXCEPT !.pc = "panicked", !.todo = <<>>]
      BY <1>2, <1>18, <3>1 DEF CallTyped
    <3>. QED
      BY <1>3, <1>4, <1>5, <1>6, <1>7, <1>8, <3>1, PageIs
  <2>2. /\ call'.pc = IF next < n THEN "paged" ELSE "done"
        /\ call'.query = call.query /\ call'.offset = next
        /\ call'.pages = call.pages \o SubSeq(Sorted(S), a + 1, b)
    BY <1>2, <2>1 DEF CallTyped
  <2>3. UpTo(call', n) = b
    BY <1>8, <1>11, <1>12, <2>2 DEF UpTo, Lesser, Offset
  <2>4. Offset(call'.offset) >= from
    BY <1>10, <1>12, <1>15, <2>2 DEF Offset
  <2>5. PICK pages \in Seq(References) : pages = call.pages
    BY <1>2 DEF CallTyped
  <2>6. from <= a \/ a = n
    BY <1>7, <1>10, <1>11, <1>15 DEF Lesser
  <2>7. Placed(S)
    BY <1>2, <1>3
  <2>8. /\ \A r \in S : Times(pages, r) = (IF Place(S, r) < a THEN 1 ELSE 0) =>
             Times(pages \o SubSeq(Sorted(S), a + 1, b), r) = IF Place(S, r) < b THEN 1 ELSE 0
        /\ pages = SubSeq(Sorted(S), from + 1, a) =>
             pages \o SubSeq(Sorted(S), a + 1, b) = SubSeq(Sorted(S), from + 1, b)
    <3>1. a \in 0..Cardinality(S) /\ b \in a..Cardinality(S)
      BY <1>4, <1>13
    <3>. QED
      BY <1>4, <1>10, <2>6, <2>7, <3>1, OnePageMore
  <2>9. from = 0 => \A r \in S \ touched :
          ~(\E t \in touched : t.kind = r.kind /\ Before(t, r)) =>
             Times(call'.pages, r) = IF Place(S, r) < b THEN 1 ELSE 0
    BY <1>15, <2>2, <2>5, <2>8
  <2>10. touched = {} => call'.pages = SubSeq(Sorted(S), from + 1, b)
    BY <1>15, <2>2, <2>5, <2>8
  <2>11. Offset(call'.query.offset) = from /\ touched' = touched
    BY <1>9, <2>2
  <2>12. WalkedBy(call', S, touched')
    BY <1>4, <2>3, <2>4, <2>9, <2>10, <2>11 DEF WalkedBy
  <2>. QED
    BY <1>16, <2>12, WalkedIsNext
<1>. QED
  BY <1>17, <1>18

LEMMA StepWalked ==
  ASSUME TypeOK, Ordered, Asked, PanicsOnlyOnOverflow, Walked, Step
  PROVE  Walked'
<1>1. UNCHANGED <<store, touched>> /\ call'.query = call.query /\ CallTyped(call)
  BY ToolsStepTyped, CallHasType DEF Step
<1>2. CASE call.query.tool # "listKubernetesResources"
  BY <1>1, <1>2, WalkedIsNext DEF Walking
<1>3. CASE call.query.tool = "listKubernetesResources"
  <2>1. Listed' = Listed
    BY <1>1 DEF Listed
  <2>2. CASE ListKubernetesResources
    BY <1>1, <2>2, PageWalked
  <2>3. CASE NextPage
    <3>1. call.pc = "paged" /\ call' = [call EXCEPT !.pc = "reading", !.todo = FirstReads(call.query)]
      BY <2>3 DEF NextPage
    <3>2. /\ call'.pc = "reading" /\ call'.pages = call.pages /\ call'.offset = call.offset
      BY <1>1, <3>1 DEF CallTyped
    <3>3. WalkedBy(call, Listed, touched)
      BY <1>3, <3>1, WalkedIs DEF Walking
    <3>4. PICK S : S = Listed
      OBVIOUS
    <3>5. \A n : UpTo(call', n) = UpTo(call, n)
      BY <3>1, <3>2 DEF UpTo
    <3>6. WalkedBy(call', S, touched')
      BY <1>1, <3>2, <3>3, <3>4, <3>5 DEF WalkedBy
    <3>. QED
      BY <2>1, <3>4, <3>6, WalkedIsNext
  <2>4. CASE NoProject \/ NotFound \/ Refused
    <3>1. call.pc = "reading"
      BY <2>4 DEF NoProject, NotFound, Refused
    <3>2. Read = List(call.query.cluster, call.query.kind, call.query.namespace, "", "fail")
      <4>1. call.todo = FirstReads(call.query)
        BY <1>3, <3>1, AskedOnce
      <4>2. call.todo = <<List(call.query.cluster, call.query.kind, call.query.namespace, "", "fail")>>
        BY <1>3, <4>1, FirstReadsAre
      <4>. QED
        BY <4>2, FirstOnly
    <3>3. Read.op = "list" /\ Read.missing = "fail"
      BY <3>2 DEF List, Get
    <3>4. call' = Failed
      BY <2>4, <3>3 DEF NoProject, NotFound, Refused, Absent
    <3>5. call'.pc = "failed"
      BY <3>4, FailedTyped
    <3>. QED
      BY <3>5, WalkedIsNext DEF Walking
  <2>. QED
    BY <1>3, <2>2, <2>3, <2>4 DEF Step, AnalyzeCluster, AnalyzeClusterMachines, GetClusterMachine,
       InspectPod, GetDeploymentDetails, GetNodes, GetClusterImages, GetK3kClusters, GetProject,
       ListProjects, GetUser, ListClusterRoleTemplateBindings, ListProjectRoleTemplateBindings,
       ReadOnce, UsageProjects, UsageNamespace, UsageNamespaces, UsagePods, UsageMetrics, Reads,
       OneReadTools
<1>. QED
  BY <1>2, <1>3

LEMMA BeginWalked ==
  ASSUME TypeOK, Begin
  PROVE  Walked'
<1>1. CASE call.query.tool # "listKubernetesResources"
  BY <1>1, BeginTyped, WalkedIsNext DEF Walking
<1>2. CASE call.query.tool = "listKubernetesResources"
  <2>1. /\ call'.pc = "reading" /\ call'.query = call.query /\ call'.pages = <<>>
        /\ call'.offset = call.query.offset /\ touched' = {}
    BY <1>2, BeginTyped DEF Begin, Called
  <2>2. PICK S : S = Listed'
    OBVIOUS
  <2>3. PICK from : from = Offset(call.query.offset)
    OBVIOUS
  <2>4. TypeOK' /\ from \in Nat
    <3>1. call.query.offset \in Ints
      BY DEF TypeOK, Queries
    <3>. QED
      BY <2>3, <3>1, BeginTyped, Normalised
  <2>5. IsFiniteSet(S)
    <3>1. Listed' \in SUBSET (DOMAIN store')
      BY DEF Listed
    <3>2. IsFiniteSet(DOMAIN store')
      BY <2>4 DEF TypeOK
    <3>. QED
      BY <2>2, <3>1, <3>2, FS_Subset
  <2>6. PICK n \in Nat : n = Cardinality(S)
    BY <2>5, FS_CardinalityType
  <2>7. UpTo(call', n) = Lesser(from, n)
    BY <2>1, <2>3 DEF UpTo
  <2>8. from = 0 => \A r \in S : Times(<<>>, r) = IF Place(S, r) < Lesser(from, n) THEN 1 ELSE 0
    <3>1. \A r : Times(<<>>, r) = 0
      BY FS_EmptySet DEF Times
    <3>2. \A r \in S : Place(S, r) \in Nat
      <4>1. ASSUME NEW r \in S PROVE Place(S, r) \in Nat
        <5>1. {x \in S : Before(x, r)} \in SUBSET S
          OBVIOUS
        <5>. QED
          BY <2>5, <5>1, FS_Subset, FS_CardinalityType DEF Place
      <4>. QED
        BY <4>1
    <3>3. from = 0 => Lesser(from, n) = 0
      BY <2>6 DEF Lesser
    <3>. QED
      BY <3>1, <3>2, <3>3
  <2>9. SubSeq(Sorted(S), from + 1, Lesser(from, n)) = <<>>
    <3>1. Lesser(from, n) < from + 1 /\ Lesser(from, n) \in Int /\ from + 1 \in Int
      BY <2>4, <2>6 DEF Lesser
    <3>. QED
      BY <3>1, SubSeqEmpty
  <2>10. Offset(call'.offset) >= from /\ Offset(call'.query.offset) = from
    BY <2>1, <2>3, <2>4
  <2>11. WalkedBy(call', S, touched')
    BY <2>1, <2>6, <2>7, <2>8, <2>9, <2>10 DEF WalkedBy
  <2>. QED
    BY <2>2, <2>11, WalkedIsNext
<1>. QED
  BY <1>1, <1>2

\* A change of one object leaves the places of those before it.
LEMMA OthersWalked ==
  ASSUME TypeOK, Ordered, Walked, OthersWrite, TypeOK', Ordered'
  PROVE  Walked'
<1>1. call' = call
  BY OthersChange
<1>2. CASE ~Walking(call)
  BY <1>1, <1>2, WalkedIsNext
<1>3. CASE Walking(call)
  <2>1. call.query.tool = "listKubernetesResources" /\ WalkedBy(call, Listed, touched)
    BY <1>3, WalkedIs DEF Walking
  <2>2. PICK S : S = Listed
    OBVIOUS
  <2>3. PICK T : T = Listed'
    OBVIOUS
  <2>4. Placed(S)
    BY <2>1, <2>2, ListedIsPlaced
  <2>5. Placed(T)
    <3>1. Listed' \in SUBSET (DOMAIN store') /\ IsFiniteSet(DOMAIN store')
          /\ DOMAIN store' \subseteq References
      BY DEF Listed, TypeOK
    <3>2. IsFiniteSet(Listed')
      BY <3>1, FS_Subset
    <3>3. \A r \in Listed' : r.cluster = call.query.cluster /\ r.kind = Served(call.query.kind)
      BY <1>1 DEF Listed
    <3>4. \A r \in Listed' : {r.namespace, r.name} \subseteq Range(Order)
      BY <1>1, <2>1, <3>1, <3>3 DEF Ordered
    <3>. QED
      BY <2>3, <3>1, <3>2, <3>3, <3>4 DEF Placed
  <2>6. PICK d : /\ touched' = touched \cup {d}
                 /\ \A r : r # d => /\ r \in DOMAIN store' <=> r \in DOMAIN store
                                    /\ r \in DOMAIN store => store'[r] = store[r]
    BY OthersChange
  <2>7. PICK n : n = Cardinality(S)
    OBVIOUS
  <2>8. PICK m : m = Cardinality(T)
    OBVIOUS
  <2>9. n \in Nat /\ m \in Nat
    BY <2>4, <2>5, <2>7, <2>8, SortedIs
  <2>10. \A r : r # d => (r \in T <=> r \in S)
    BY <1>1, <2>2, <2>3, <2>6 DEF Listed
  <2>11. \A r \in S \cup T : r.kind = Served(call.query.kind)
    BY <1>1, <2>2, <2>3 DEF Listed
  <2>12. ASSUME Offset(call.query.offset) = 0, NEW r \in T \ touched',
                ~\E t \in touched' : t.kind = r.kind /\ Before(t, r)
         PROVE  Times(call.pages, r) = IF Place(T, r) < UpTo(call, m) THEN 1 ELSE 0
    <3>1. r \in S /\ r \notin touched /\ ~\E t \in touched : t.kind = r.kind /\ Before(t, r)
      BY <2>6, <2>10, <2>12
    <3>2. Times(call.pages, r) = IF Place(S, r) < UpTo(call, n) THEN 1 ELSE 0
      BY <2>1, <2>2, <2>7, <2>12, <3>1 DEF WalkedBy
    <3>3. {x \in T : Before(x, r)} = {x \in S : Before(x, r)}
      <4>1. d \in S \cup T => ~Before(d, r)
        BY <2>6, <2>11, <2>12
      <4>. QED
        BY <2>10, <4>1
    <3>4. PICK k : k = Place(S, r)
      OBVIOUS
    <3>5. Place(T, r) = k
      BY <3>3, <3>4 DEF Place
    <3>6. k \in 0..n - 1
      BY <2>4, <2>7, <3>1, <3>4, SortedIs
    <3>7. k \in 0..m - 1
      BY <2>5, <2>8, <2>12, <3>5, SortedIs
    <3>8. k < UpTo(call, n) <=> k < UpTo(call, m)
      <4>1. PICK at \in Nat : at = Offset(call.offset)
        <5>1. call.offset \in Ints
          BY DEF TypeOK
        <5>. QED
          BY <5>1, Normalised
      <4>2. k < Lesser(at, n) <=> k < Lesser(at, m)
        BY <2>9, <3>6, <3>7, <4>1 DEF Lesser
      <4>3. k < n /\ k < m
        BY <2>9, <3>6, <3>7
      <4>. QED
        BY <4>1, <4>2, <4>3 DEF UpTo
    <3>. QED
      BY <3>2, <3>4, <3>5, <3>8
  <2>13. touched' # {}
    BY <2>6
  <2>14. WalkedBy(call, T, touched')
    BY <2>1, <2>8, <2>12, <2>13 DEF WalkedBy
  <2>. QED
    BY <1>1, <2>3, <2>14, WalkedIsNext
<1>. QED
  BY <1>2, <1>3

\* At the end the pages have come all the way.
LEMMA WalkedMeetsAll ==
  ASSUME TypeOK, Ordered, Walked
  PROVE  WalkMeetsAll
<1>1. CASE ~Done("listKubernetesResources")
  BY <1>1 DEF WalkMeetsAll
<1>2. CASE Done("listKubernetesResources")
  <2>1. /\ call.query.tool = "listKubernetesResources" /\ call.pc = "done"
        /\ WalkedBy(call, Listed, touched)
    BY <1>2, WalkedIs DEF Done, Walking
  <2>2. PICK S : S = Listed
    OBVIOUS
  <2>3. Placed(S)
    BY <2>1, <2>2, ListedIsPlaced
  <2>4. PICK n : n = Cardinality(S)
    OBVIOUS
  <2>5. UpTo(call, n) = n
    BY <2>1 DEF UpTo
  <2>6. \A r \in S : Place(S, r) < n
    BY <2>3, <2>4, SortedIs
  <2>7. Offset(call.query.offset) = 0 =>
          \A r \in S \ touched :
            ~(\E t \in touched : t.kind = r.kind /\ Before(t, r)) => Times(call.pages, r) = 1
    BY <2>1, <2>2, <2>4, <2>5, <2>6 DEF WalkedBy
  <2>8. touched = {} =>
          call.pages = SubSeq(Sorted(S), Offset(call.query.offset) + 1, Cardinality(S))
    BY <2>1, <2>2, <2>4, <2>5 DEF WalkedBy
  <2>. QED
    BY <2>2, <2>7, <2>8 DEF WalkMeetsAll, Times
<1>. QED
  BY <1>1, <1>2

-----------------------------------------------------------------------------
(* Theorems.                                                                 *)

\* What every step preserves, before any answer is looked at.
Typed == TypeOK /\ Ordered /\ Asked /\ PanicsOnlyOnOverflow

LEMMA InitTypedAll ==
  ASSUME Init
  PROVE  Typed
BY InitTyped, InitAsked DEF Typed, PanicsOnlyOnOverflow

LEMMA StepTypedAll ==
  ASSUME Typed, [Next]_vars
  PROVE  Typed'
<1>1. TypeOK /\ Ordered /\ Asked /\ PanicsOnlyOnOverflow
  BY DEF Typed
<1>2. CASE Begin
  <2>1. TypeOK' /\ call'.query = call.query /\ call'.pc = "reading"
    BY <1>1, <1>2, BeginTyped
  <2>2. Ordered'
    BY <1>1, <1>2, <2>1 DEF Ordered, Begin
  <2>3. Asked'
    BY <1>1, <1>2, BeginAsked
  <2>. QED
    BY <2>1, <2>2, <2>3 DEF Typed, PanicsOnlyOnOverflow
<1>3. CASE Step
  BY <1>1, <1>3, ToolsStepTyped, StepAsked DEF Typed
<1>4. CASE OthersWrite
  <2>1. TypeOK' /\ call' = call /\ variants' = variants
    BY <1>1, <1>4, OthersTyped
  <2>2. Ordered'
    <3>1. DOMAIN store' \cup {v.ref : v \in variants} \subseteq
            DOMAIN store \cup {v.ref : v \in variants}
      BY <1>1, <1>4, OthersChange
    <3>. QED
      BY <1>1, <2>1, <3>1 DEF Ordered
  <2>3. Asked'
    BY <1>1, <1>4, OthersAsked
  <2>. QED
    BY <1>1, <2>1, <2>2, <2>3 DEF Typed, PanicsOnlyOnOverflow
<1>5. CASE UNCHANGED vars
  <2>1. TypeOK'
    BY <1>1, <1>5 DEF vars, TypeOK
  <2>2. Ordered' /\ PanicsOnlyOnOverflow'
    BY <1>1, <1>5 DEF vars, Ordered, PanicsOnlyOnOverflow
  <2>3. \A r : Follows(r)' <=> Follows(r)
    BY <1>5 DEF vars, Follows, AnswerOf, ClusterParts, Pending, NamedProjects, BackedBy, HasOwner
  <2>4. Asked'
    BY <1>1, <1>5, <2>3 DEF vars, Asked
  <2>. QED
    BY <2>1, <2>2, <2>4 DEF Typed
<1>. QED
  BY <1>2, <1>3, <1>4, <1>5 DEF Next

\* The variables keep their types: a call waits for an answer exactly when it
\* has a request to make, and its requests are ones its tool makes.
THEOREM QueriesTyped == Spec => []TypeOK
<1>1. Init => Typed
  BY InitTypedAll
<1>2. Typed /\ [Next]_vars => Typed'
  BY StepTypedAll
<1>3. Typed => TypeOK
  BY DEF Typed
<1>. QED
  BY <1>1, <1>2, <1>3, PTL DEF Spec

\* A page panics only on an offset and a limit whose sum is no int64, never on
\* an offset that deletions have left past the end.
THEOREM QueriesPanicOnlyOnOverflow == Spec => []PanicsOnlyOnOverflow
<1>1. Init => Typed
  BY InitTypedAll
<1>2. Typed /\ [Next]_vars => Typed'
  BY StepTypedAll
<1>3. Typed => PanicsOnlyOnOverflow
  BY DEF Typed
<1>. QED
  BY <1>1, <1>2, <1>3, PTL DEF Spec

LEMMA InitWalked ==
  ASSUME Init
  PROVE  Walked
BY InitTyped, WalkedIs DEF Walking

LEMMA NextWalked ==
  ASSUME Typed, Walked, [Next]_vars
  PROVE  Walked'
<1>1. Typed' /\ TypeOK /\ Ordered /\ Asked /\ PanicsOnlyOnOverflow
  BY StepTypedAll DEF Typed
<1>2. CASE Begin
  BY <1>1, <1>2, BeginWalked
<1>3. CASE Step
  BY <1>1, <1>3, StepWalked
<1>4. CASE OthersWrite
  BY <1>1, <1>4, OthersWalked DEF Typed
<1>5. CASE UNCHANGED vars
  <2>1. call' = call /\ Listed' = Listed /\ touched' = touched
    BY <1>5 DEF vars, Listed
  <2>. QED
    BY <2>1, WalkedIs, WalkedIsNext
<1>. QED
  BY <1>2, <1>3, <1>4, <1>5 DEF Next

\* Who follows the notes from the first page to the last meets every object
\* that stays exactly once, unless one that comes before it in the order was
\* created or deleted meanwhile; undisturbed, the pages are the whole list.
THEOREM PagesMeetAll == Spec => []WalkMeetsAll
<1>1. Init => Typed /\ Walked
  BY InitTypedAll, InitWalked
<1>2. Typed /\ Walked /\ [Next]_vars => Typed' /\ Walked'
  BY StepTypedAll, NextWalked
<1>3. Typed /\ Walked => WalkMeetsAll
  BY WalkedMeetsAll DEF Typed
<1>. QED
  BY <1>1, <1>2, <1>3, PTL DEF Spec

=============================================================================
