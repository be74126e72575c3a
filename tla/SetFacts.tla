------------------------------ MODULE SetFacts ------------------------------
(***************************************************************************)
(* Facts that proofs about "the least id", "the latest date" and "the sum  *)
(* of the cells" need: sets of naturals have a least and a greatest        *)
(* element, families of finite sets a smallest one, and a sum by the fold  *)
(* of FiniteSetsExt may be taken apart in any order.  They rest on         *)
(* well-founded orders and WFMin: a fact that fails somewhere fails for a  *)
(* number, or a set, none smaller than which it fails for.                 *)
(***************************************************************************)
EXTENDS Integers, FiniteSets, FiniteSetsExt, FiniteSetTheorems, WellFoundedInduction, TLAPS

\* A set of naturals that is not empty has a least element.
LEMMA LeastNatural ==
  ASSUME NEW S \in SUBSET Nat, S # {}
  PROVE  \E x \in S : \A y \in S : x <= y
<1>1. PICK x \in S : \A y \in S : <<y, x>> \notin OpToRel(<, Nat)
  BY NatLessThanWellFounded, WFMin
<1>2. ASSUME NEW y \in S, y < x  PROVE <<y, x>> \in OpToRel(<, Nat)
  BY <1>2 DEF OpToRel
<1>3. \A y \in S : ~ (y < x)
  BY <1>1, <1>2, Zenon
<1> QED
  BY <1>3

\* A set of naturals with a bound has a greatest element.
LEMMA GreatestNatural ==
  ASSUME NEW S \in SUBSET Nat, S # {}, NEW n \in Nat, \A x \in S : x <= n
  PROVE  \E x \in S : \A y \in S : y <= x
<1> DEFINE T == {n - x : x \in S}
<1>1. \A x \in S : x \in Nat /\ n - x \in Nat
  OBVIOUS
<1>2. T \in SUBSET Nat /\ T # {}
  BY <1>1
<1>3. PICK t \in T : \A u \in T : t <= u
  BY <1>2, LeastNatural
<1>4. PICK x \in S : t = n - x
  OBVIOUS
<1>5. \A y \in S : n - x <= n - y
  BY <1>3, <1>4
<1> QED
  BY <1>1, <1>5

\* A family of subsets of a finite set has one that no other is a part of.
LEMMA SmallestSet ==
  ASSUME NEW S, IsFiniteSet(S), NEW F \in SUBSET SUBSET S, F # {}
  PROVE  \E T \in F : \A U \in F : U \subseteq T => U = T
<1>1. F \subseteq FiniteSubsetsOf(S)
  BY FS_FiniteSubsetsOfFinite
<1>2. IsWellFoundedOn(StrictSubsetOrdering(S), FiniteSubsetsOf(S))
  BY FS_StrictSubsetOrderingWellFounded
<1>3. PICK T \in F : \A U \in F : <<U, T>> \notin StrictSubsetOrdering(S)
  BY <1>1, <1>2, WFMin
<1>4. ASSUME NEW U \in F, U \subseteq T, U # T  PROVE FALSE
  <2>1. <<U, T>> \in StrictSubsetOrdering(S)
    BY <1>4 DEF StrictSubsetOrdering
  <2> QED
    BY <2>1, <1>3
<1> QED
  BY <1>4

-----------------------------------------------------------------------------
(* Sums                                                                     *)

\* The sum of the values of a function over a set.
SumOf(f, S) == MapThenSumSet(LAMBDA x : f[x], S)

Some(s) == CHOOSE x \in s : TRUE

\* What the fold computes for every subset of S.
IsSums(h, f, S) ==
  h = [s \in SUBSET S |-> IF s = {} THEN 0 ELSE f[Some(s)] + h[s \ {Some(s)}]]

Sums(f, S) == CHOOSE h : IsSums(h, f, S)

\* The community fold is that.
LEMMA SumIsFold ==
  ASSUME NEW f, NEW S
  PROVE  SumOf(f, S) = Sums(f, S)[S]
BY DEF SumOf, MapThenSumSet, MapThenFoldSet, Sums, IsSums, Some

\* Folds over sets that overlap agree on the common parts.
LEMMA SumsAgree ==
  ASSUME NEW f, NEW S, IsFiniteSet(S), NEW U, NEW V, S \subseteq U, S \subseteq V,
         NEW g, NEW h, IsSums(g, f, U), IsSums(h, f, V)
  PROVE  g[S] = h[S]
<1> DEFINE Bad == {s \in SUBSET S : g[s] # h[s]}
<1>1. \A s \in SUBSET S : /\ g[s] = IF s = {} THEN 0 ELSE f[Some(s)] + g[s \ {Some(s)}]
                          /\ h[s] = IF s = {} THEN 0 ELSE f[Some(s)] + h[s \ {Some(s)}]
  <2> SUFFICES ASSUME NEW s \in SUBSET S
               PROVE  /\ g[s] = IF s = {} THEN 0 ELSE f[Some(s)] + g[s \ {Some(s)}]
                      /\ h[s] = IF s = {} THEN 0 ELSE f[Some(s)] + h[s \ {Some(s)}]
    OBVIOUS
  <2>1. s \in SUBSET U /\ s \in SUBSET V
    OBVIOUS
  <2> QED
    BY <2>1 DEF IsSums
<1>2. Bad = {}
  <2> SUFFICES ASSUME Bad # {}  PROVE FALSE
    OBVIOUS
  <2>1. PICK T \in Bad : \A t \in Bad : t \subseteq T => t = T
    <3>1. Bad \in SUBSET SUBSET S
      OBVIOUS
    <3> HIDE DEF Bad
    <3> QED
      BY <3>1, SmallestSet
  <2>2. T # {}
    BY <1>1
  <2>3. Some(T) \in T
    BY <2>2 DEF Some
  <2>4. T \ {Some(T)} \notin Bad
    BY <2>1, <2>3
  <2>5. g[T \ {Some(T)}] = h[T \ {Some(T)}]
    BY <2>4
  <2> QED
    BY <1>1, <2>2, <2>5
<1> QED
  BY <1>2

\* The recursion of the fold has a solution on every finite set.
LEMMA SumsExist ==
  ASSUME NEW f, NEW S, IsFiniteSet(S)
  PROVE  IsSums(Sums(f, S), f, S)
<1> DEFINE Bad == {s \in SUBSET S : ~ IsSums(Sums(f, s), f, s)}
<1>1. Bad = {}
  <2> SUFFICES ASSUME Bad # {}  PROVE FALSE
    OBVIOUS
  <2>1. PICK T \in Bad : \A t \in Bad : t \subseteq T => t = T
    <3>1. Bad \in SUBSET SUBSET S
      OBVIOUS
    <3> HIDE DEF Bad
    <3> QED
      BY <3>1, SmallestSet
  <2> DEFINE Rest(s) == s \ {Some(s)}
             H == [s \in SUBSET T |-> IF s = {} THEN 0 ELSE f[Some(s)] + Sums(f, Rest(s))[Rest(s)]]
  <2>2. ASSUME NEW s \in SUBSET T, s # {}
        PROVE  Some(s) \in s /\ Rest(s) \in SUBSET T /\ Rest(s) # T
    BY <2>2 DEF Some
  <2>3. ASSUME NEW u \in SUBSET T, u # T
        PROVE  IsSums(Sums(f, u), f, u) /\ IsFiniteSet(u)
    BY <2>1, <2>3, FS_Subset
  <2>4. ASSUME NEW u \in SUBSET T, u # T  PROVE H[u] = Sums(f, u)[u]
    <3>1. Sums(f, u)[u] = IF u = {} THEN 0 ELSE f[Some(u)] + Sums(f, u)[Rest(u)]
      BY <2>3, <2>4 DEF IsSums
    <3>2. CASE u = {}
      BY <3>1, <3>2
    <3>3. CASE u # {}
      <4>1. Rest(u) \in SUBSET T /\ Rest(u) # T /\ Rest(u) \subseteq u
        BY <2>2, <3>3
      <4>2. Sums(f, u)[Rest(u)] = Sums(f, Rest(u))[Rest(u)]
        BY <2>3, <2>4, <4>1, SumsAgree
      <4> QED
        BY <3>1, <3>3, <4>2
    <3> QED
      BY <3>2, <3>3
  <2>5. \A s \in SUBSET T : H[s] = IF s = {} THEN 0 ELSE f[Some(s)] + H[Rest(s)]
    BY <2>2, <2>4
  <2> DEFINE K == [s \in SUBSET T |-> IF s = {} THEN 0 ELSE f[Some(s)] + H[Rest(s)]]
  <2>6. H = K
    BY <2>5
  <2>7. IsSums(H, f, T)
    BY <2>6 DEF IsSums
  <2>8. IsSums(Sums(f, T), f, T)
    BY <2>7 DEF Sums
  <2> QED
    BY <2>8
<1>2. S \in SUBSET S
  OBVIOUS
<1> QED
  BY <1>1, <1>2

\* The sum over a set is the value of one element and the sum over the others.
LEMMA SumRecursion ==
  ASSUME NEW f, NEW S, IsFiniteSet(S)
  PROVE  SumOf(f, S) = IF S = {} THEN 0 ELSE f[Some(S)] + SumOf(f, S \ {Some(S)})
<1> DEFINE R == S \ {Some(S)}
<1>1. IsSums(Sums(f, S), f, S) /\ IsFiniteSet(R) /\ IsSums(Sums(f, R), f, R)
  BY SumsExist, FS_Subset
<1>2. Sums(f, S)[S] = IF S = {} THEN 0 ELSE f[Some(S)] + Sums(f, S)[R]
  BY <1>1 DEF IsSums
<1>3. Sums(f, S)[R] = Sums(f, R)[R]
  BY <1>1, SumsAgree
<1> QED
  BY <1>2, <1>3, SumIsFold

\* A sum of integers is one.
LEMMA SumType ==
  ASSUME NEW f, NEW S, IsFiniteSet(S), \A x \in S : f[x] \in Int
  PROVE  SumOf(f, S) \in Int
<1> DEFINE Bad == {s \in SUBSET S : SumOf(f, s) \notin Int}
<1>1. Bad = {}
  <2> SUFFICES ASSUME Bad # {}  PROVE FALSE
    OBVIOUS
  <2>1. PICK T \in Bad : \A t \in Bad : t \subseteq T => t = T
    <3>1. Bad \in SUBSET SUBSET S
      OBVIOUS
    <3> HIDE DEF Bad
    <3> QED
      BY <3>1, SmallestSet
  <2>2. IsFiniteSet(T)
    BY FS_Subset
  <2>3. SumOf(f, T) = IF T = {} THEN 0 ELSE f[Some(T)] + SumOf(f, T \ {Some(T)})
    BY <2>2, SumRecursion
  <2>4. T # {}
    BY <2>3
  <2>5. Some(T) \in T
    BY <2>4 DEF Some
  <2>6. SumOf(f, T \ {Some(T)}) \in Int
    BY <2>1, <2>5
  <2>7. f[Some(T)] \in Int
    BY <2>5
  <2> HIDE DEF Bad
  <2> QED
    BY <2>1, <2>3, <2>4, <2>6, <2>7 DEF Bad
<1>2. S \in SUBSET S
  OBVIOUS
<1> QED
  BY <1>1, <1>2

\* Any element may be taken out first.
LEMMA SumRemove ==
  ASSUME NEW f, NEW S, IsFiniteSet(S), \A y \in S : f[y] \in Int, NEW x \in S
  PROVE  SumOf(f, S) = f[x] + SumOf(f, S \ {x})
<1> DEFINE Bad == {s \in SUBSET S : \E y \in s : SumOf(f, s) # f[y] + SumOf(f, s \ {y})}
<1>1. Bad = {}
  <2> SUFFICES ASSUME Bad # {}  PROVE FALSE
    OBVIOUS
  <2>1. PICK T \in Bad : \A t \in Bad : t \subseteq T => t = T
    <3>1. Bad \in SUBSET SUBSET S
      OBVIOUS
    <3> HIDE DEF Bad
    <3> QED
      BY <3>1, SmallestSet
  <2>2. PICK y \in T : SumOf(f, T) # f[y] + SumOf(f, T \ {y})
    OBVIOUS
  <2>3. PICK z : z = Some(T)
    OBVIOUS
  <2>4. z \in T
    BY <2>2, <2>3 DEF Some
  <2>5. IsFiniteSet(T)
    BY FS_Subset
  <2>6. SumOf(f, T) = f[z] + SumOf(f, T \ {z})
    BY <2>2, <2>3, <2>5, SumRecursion
  <2>7. y # z
    BY <2>2, <2>6
  <2>8. SumOf(f, T \ {z}) = f[y] + SumOf(f, (T \ {z}) \ {y})
    <3>1. T \ {z} \in SUBSET S /\ T \ {z} \subseteq T /\ T \ {z} # T /\ y \in T \ {z}
      BY <2>4, <2>7
    <3>2. T \ {z} \notin Bad
      BY <2>1, <3>1
    <3> QED
      BY <3>1, <3>2
  <2>9. SumOf(f, T \ {y}) = f[z] + SumOf(f, (T \ {y}) \ {z})
    <3>1. T \ {y} \in SUBSET S /\ T \ {y} \subseteq T /\ T \ {y} # T /\ z \in T \ {y}
      BY <2>4, <2>7
    <3>2. T \ {y} \notin Bad
      BY <2>1, <3>1
    <3> QED
      BY <3>1, <3>2
  <2>10. (T \ {z}) \ {y} = (T \ {y}) \ {z}
    OBVIOUS
  <2>11. PICK k \in Int : k = SumOf(f, (T \ {z}) \ {y})
    <3>1. IsFiniteSet((T \ {z}) \ {y}) /\ (T \ {z}) \ {y} \subseteq S
      BY <2>5, FS_Subset
    <3> QED
      BY <3>1, SumType
  <2>12. PICK a \in Int, b \in Int : a = f[y] /\ b = f[z]
    BY <2>4
  <2>13. SumOf(f, T) = b + (a + k) /\ SumOf(f, T \ {y}) = b + k
    BY <2>6, <2>8, <2>9, <2>10, <2>11, <2>12
  <2>14. b + (a + k) = a + (b + k)
    OBVIOUS
  <2> QED
    BY <2>2, <2>12, <2>13, <2>14
<1>2. S \in SUBSET S
  OBVIOUS
<1> QED
  BY <1>1, <1>2

\* A sum depends on the values over the set only.
LEMMA SumSame ==
  ASSUME NEW f, NEW g, NEW S, IsFiniteSet(S), \A x \in S : f[x] = g[x]
  PROVE  SumOf(f, S) = SumOf(g, S)
<1> DEFINE Bad == {s \in SUBSET S : SumOf(f, s) # SumOf(g, s)}
<1>1. Bad = {}
  <2> SUFFICES ASSUME Bad # {}  PROVE FALSE
    OBVIOUS
  <2>1. PICK T \in Bad : \A t \in Bad : t \subseteq T => t = T
    <3>1. Bad \in SUBSET SUBSET S
      OBVIOUS
    <3> HIDE DEF Bad
    <3> QED
      BY <3>1, SmallestSet
  <2>2. IsFiniteSet(T)
    BY FS_Subset
  <2>3. PICK z : z = Some(T)
    OBVIOUS
  <2>4. /\ SumOf(f, T) = IF T = {} THEN 0 ELSE f[z] + SumOf(f, T \ {z})
        /\ SumOf(g, T) = IF T = {} THEN 0 ELSE g[z] + SumOf(g, T \ {z})
    BY <2>2, <2>3, SumRecursion
  <2>5. T # {} /\ z \in T
    BY <2>3, <2>4 DEF Some
  <2>6. SumOf(f, T \ {z}) = SumOf(g, T \ {z})
    <3>1. T \ {z} \in SUBSET S /\ T \ {z} \subseteq T /\ T \ {z} # T
      BY <2>5
    <3> QED
      BY <2>1, <3>1
  <2>7. f[z] = g[z]
    BY <2>5
  <2> QED
    BY <2>1, <2>4, <2>6, <2>7
<1>2. S \in SUBSET S
  OBVIOUS
<1> QED
  BY <1>1, <1>2

\* A sum of zeros is zero.
LEMMA SumZero ==
  ASSUME NEW f, NEW S, IsFiniteSet(S), \A x \in S : f[x] = 0
  PROVE  SumOf(f, S) = 0
<1> DEFINE Bad == {s \in SUBSET S : SumOf(f, s) # 0}
<1>1. Bad = {}
  <2> SUFFICES ASSUME Bad # {}  PROVE FALSE
    OBVIOUS
  <2>1. PICK T \in Bad : \A t \in Bad : t \subseteq T => t = T
    <3>1. Bad \in SUBSET SUBSET S
      OBVIOUS
    <3> HIDE DEF Bad
    <3> QED
      BY <3>1, SmallestSet
  <2>2. IsFiniteSet(T)
    BY FS_Subset
  <2>3. PICK z : z = Some(T)
    OBVIOUS
  <2>4. SumOf(f, T) = IF T = {} THEN 0 ELSE f[z] + SumOf(f, T \ {z})
    BY <2>2, <2>3, SumRecursion
  <2>5. T # {} /\ z \in T
    BY <2>3, <2>4 DEF Some
  <2>6. SumOf(f, T \ {z}) = 0
    <3>1. T \ {z} \in SUBSET S /\ T \ {z} \subseteq T /\ T \ {z} # T
      BY <2>5
    <3> QED
      BY <2>1, <3>1
  <2>7. f[z] = 0
    BY <2>5
  <2> QED
    BY <2>1, <2>4, <2>5, <2>6, <2>7
<1>2. S \in SUBSET S
  OBVIOUS
<1> QED
  BY <1>1, <1>2

\* The sum over one element.
LEMMA SumOne ==
  ASSUME NEW f, NEW x, f[x] \in Int
  PROVE  SumOf(f, {x}) = f[x]
<1>1. IsFiniteSet({x}) /\ IsFiniteSet({})
  BY FS_Singleton, FS_EmptySet
<1>2. SumOf(f, {x}) = f[x] + SumOf(f, {x} \ {x})
  <2>1. \A y \in {x} : f[y] \in Int
    OBVIOUS
  <2> QED
    BY <1>1, <2>1, SumRemove
<1>3. SumOf(f, {}) = 0
  BY <1>1, SumZero
<1>4. {x} \ {x} = {}
  OBVIOUS
<1>5. PICK k \in Int : k = f[x]
  OBVIOUS
<1>6. SumOf(f, {x}) = k + 0
  BY <1>2, <1>3, <1>4, <1>5
<1> QED
  BY <1>5, <1>6

\* The sum of differences is the difference of the sums.
LEMMA SumMinus ==
  ASSUME NEW f, NEW g, NEW h, NEW S, IsFiniteSet(S),
         \A x \in S : f[x] \in Int /\ g[x] \in Int /\ h[x] = f[x] - g[x]
  PROVE  SumOf(h, S) = SumOf(f, S) - SumOf(g, S)
<1> DEFINE Bad == {s \in SUBSET S : SumOf(h, s) # SumOf(f, s) - SumOf(g, s)}
<1>1. Bad = {}
  <2> SUFFICES ASSUME Bad # {}  PROVE FALSE
    OBVIOUS
  <2>1. PICK T \in Bad : \A t \in Bad : t \subseteq T => t = T
    <3>1. Bad \in SUBSET SUBSET S
      OBVIOUS
    <3> HIDE DEF Bad
    <3> QED
      BY <3>1, SmallestSet
  <2>2. IsFiniteSet(T)
    BY FS_Subset
  <2>3. PICK z : z = Some(T)
    OBVIOUS
  <2>4. /\ SumOf(f, T) = IF T = {} THEN 0 ELSE f[z] + SumOf(f, T \ {z})
        /\ SumOf(g, T) = IF T = {} THEN 0 ELSE g[z] + SumOf(g, T \ {z})
        /\ SumOf(h, T) = IF T = {} THEN 0 ELSE h[z] + SumOf(h, T \ {z})
    BY <2>2, <2>3, SumRecursion
  <2>5. T # {} /\ z \in T
    BY <2>3, <2>4 DEF Some
  <2>6. SumOf(h, T \ {z}) = SumOf(f, T \ {z}) - SumOf(g, T \ {z})
    <3>1. T \ {z} \in SUBSET S /\ T \ {z} \subseteq T /\ T \ {z} # T
      BY <2>5
    <3> QED
      BY <2>1, <3>1
  <2>7. PICK a \in Int, b \in Int : a = SumOf(f, T \ {z}) /\ b = SumOf(g, T \ {z})
    <3>1. IsFiniteSet(T \ {z}) /\ T \ {z} \subseteq S
      BY <2>2, FS_Subset
    <3> QED
      BY <3>1, SumType
  <2>8. PICK c \in Int, d \in Int : c = f[z] /\ d = g[z] /\ h[z] = c - d
    BY <2>5
  <2>9. SumOf(f, T) = c + a /\ SumOf(g, T) = d + b /\ SumOf(h, T) = (c - d) + (a - b)
    BY <2>4, <2>5, <2>6, <2>7, <2>8
  <2>10. SumOf(h, T) = SumOf(f, T) - SumOf(g, T)
    BY <2>9
  <2> QED
    BY <2>1, <2>10
<1>2. S \in SUBSET S
  OBVIOUS
<1> QED
  BY <1>1, <1>2

Fibre(b, S, y) == {x \in S : b[x] = y}

\* Elements may be gathered first: the sum of the sums over the fibres of b.
LEMMA SumFibres ==
  ASSUME NEW S, IsFiniteSet(S), NEW T, IsFiniteSet(T), NEW b, NEW f, NEW g,
         \A x \in S : b[x] \in T /\ f[x] \in Int,
         \A y \in T : g[y] = SumOf(f, Fibre(b, S, y))
  PROVE  SumOf(f, S) = SumOf(g, T)
<1> DEFINE G(s) == [y \in T |-> SumOf(f, {x \in s : b[x] = y})]
           Bad == {s \in SUBSET S : SumOf(f, s) # SumOf(G(s), T)}
<1>1. Bad = {}
  <2> SUFFICES ASSUME Bad # {}  PROVE FALSE
    OBVIOUS
  <2>1. PICK U \in Bad : \A t \in Bad : t \subseteq U => t = U
    <3>1. Bad \in SUBSET SUBSET S
      OBVIOUS
    <3> HIDE DEF Bad
    <3> QED
      BY <3>1, SmallestSet
  <2>2. IsFiniteSet(U) /\ U \subseteq S
    BY FS_Subset
  <2>3. ASSUME NEW s \in SUBSET U
        PROVE  /\ IsFiniteSet(s)
               /\ SumOf(f, s) \in Int
               /\ \A y \in T : G(s)[y] = SumOf(f, {x \in s : b[x] = y}) /\ G(s)[y] \in Int
    <3>1. IsFiniteSet(s) /\ s \subseteq S
      BY <2>2, FS_Subset
    <3>2. SumOf(f, s) \in Int
      BY <3>1, SumType
    <3>3. ASSUME NEW y \in T  PROVE SumOf(f, {x \in s : b[x] = y}) \in Int
      <4>1. {x \in s : b[x] = y} \subseteq s
        OBVIOUS
      <4>2. IsFiniteSet({x \in s : b[x] = y})
        BY <3>1, <4>1, FS_Subset
      <4> QED
        BY <3>1, <4>1, <4>2, SumType
    <3> QED
      BY <3>1, <3>2, <3>3
  <2>4. CASE U = {}
    <3>1. SumOf(f, U) = 0
      BY <2>2, <2>4, SumZero
    <3>2. ASSUME NEW y \in T  PROVE G(U)[y] = 0
      <4>1. {x \in U : b[x] = y} = {}
        BY <2>4
      <4> QED
        BY <4>1, <2>3, <3>1, <2>4
    <3>3. SumOf(G(U), T) = 0
      <4> HIDE DEF G
      <4> QED
        BY <3>2, SumZero
    <3> QED
      BY <2>1, <3>1, <3>3
  <2>5. CASE U # {}
    <3>1. PICK z \in U : TRUE
      BY <2>5
    <3> DEFINE R == U \ {z}
               w == b[z]
    <3>2. R \in SUBSET U /\ R # U /\ R \in SUBSET S /\ U \in SUBSET U
      BY <2>2, <3>1
    <3>3. SumOf(f, R) = SumOf(G(R), T)
      BY <2>1, <3>2
    <3>4. SumOf(f, U) = f[z] + SumOf(f, R)
      BY <2>2, <3>1, SumRemove
    <3>5. w \in T /\ f[z] \in Int
      BY <2>2, <3>1
    <3>6. G(U)[w] = f[z] + G(R)[w]
      <4> DEFINE F == {x \in U : b[x] = w}
      <4>1. z \in F /\ F \subseteq U /\ F \ {z} = {x \in R : b[x] = w}
        OBVIOUS
      <4>2. IsFiniteSet(F) /\ \A y \in F : f[y] \in Int
        BY <4>1, <2>2, FS_Subset
      <4>3. SumOf(f, F) = f[z] + SumOf(f, F \ {z})
        <5> HIDE DEF F
        <5> QED
          BY <4>1, <4>2, SumRemove
      <4> QED
        BY <4>1, <4>3, <3>5
    <3>7. ASSUME NEW y \in T \ {w}  PROVE G(U)[y] = G(R)[y]
      <4>1. {x \in U : b[x] = y} = {x \in R : b[x] = y}
        BY <3>7
      <4> QED
        BY <4>1
    <3>8. IsFiniteSet(T \ {w})
      BY FS_Subset
    <3>9. PICK A, B : A = G(U) /\ B = G(R)
      OBVIOUS
    <3>10. /\ SumOf(A, T \ {w}) = SumOf(B, T \ {w})
           /\ SumOf(A, T) = A[w] + SumOf(A, T \ {w})
           /\ SumOf(B, T) = B[w] + SumOf(B, T \ {w})
           /\ SumOf(B, T \ {w}) \in Int /\ B[w] \in Int
      <4>1. \A y \in T : A[y] \in Int /\ B[y] \in Int
        BY <2>3, <3>2, <3>9
      <4>2. \A y \in T \ {w} : A[y] = B[y]
        BY <3>7, <3>9
      <4> HIDE DEF G, w
      <4>3. SumOf(A, T \ {w}) = SumOf(B, T \ {w})
        BY <4>2, <3>8, SumSame
      <4>4. SumOf(A, T) = A[w] + SumOf(A, T \ {w})
        BY <4>1, <3>5, SumRemove
      <4>5. SumOf(B, T) = B[w] + SumOf(B, T \ {w})
        BY <4>1, <3>5, SumRemove
      <4>6. SumOf(B, T \ {w}) \in Int
        BY <4>1, <3>8, SumType
      <4> QED
        BY <4>1, <4>3, <4>4, <4>5, <4>6, <3>5
    <3> HIDE DEF G, R, w
    <3>11. PICK i \in Int, j \in Int, k \in Int :
             i = f[z] /\ j = B[w] /\ k = SumOf(B, T \ {w})
      BY <3>5, <3>10
    <3>12. SumOf(G(U), T) = (i + j) + k /\ SumOf(f, U) = i + (j + k)
      BY <3>3, <3>4, <3>6, <3>9, <3>10, <3>11
    <3>13. SumOf(G(U), T) = SumOf(f, U)
      BY <3>12
    <3> QED
      BY <2>1, <3>13
  <2> QED
    BY <2>4, <2>5
<1>2. S \in SUBSET S
  OBVIOUS
<1>3. SumOf(f, S) = SumOf(G(S), T)
  BY <1>1, <1>2
<1>4. \A y \in T : G(S)[y] = g[y]
  BY DEF Fibre
<1>5. SumOf(G(S), T) = SumOf(g, T)
  <2> HIDE DEF G
  <2> QED
    BY <1>4, SumSame
<1> QED
  BY <1>3, <1>5
=============================================================================
