------------------------------ MODULE SumProofs ------------------------------
(***************************************************************************)
(* Facts about SumFunctionOnSet, the sum of the values a function has on a *)
(* finite set.  It is defined by recursion on the subsets of the set, and  *)
(* each of these facts is proved by looking at a smallest set that it      *)
(* would not be true of.  Induction over the natural numbers is proved the *)
(* same way, from the smallest number.                                     *)
(***************************************************************************)
EXTENDS Integers, FiniteSets, Functions, FiniteSetTheorems, TLAPS

(* A nonempty family of subsets of a finite set has a member no proper     *)
(* subset of which is in the family.                                       *)
LEMMA SmallestMember ==
  ASSUME NEW S, IsFiniteSet(S), NEW F \in SUBSET SUBSET S, F # {}
  PROVE  \E T \in F : \A U \in F : U \subseteq T => U = T
<1> DEFINE R == StrictSubsetOrdering(S)
<1>1. IsWellFoundedOn(R, SUBSET S)
  BY FS_StrictSubsetOrderingWellFounded, FS_FiniteSubsetsOfFinite
<1> HIDE DEF R
<1>2. \E T \in F : \A U \in F : ~(<<U, T>> \in R)
  BY <1>1, WFMin
<1> QED BY <1>2 DEF R, StrictSubsetOrdering

(* A nonempty set of numbers has a least one. *)
LEMMA LeastNumber ==
  ASSUME NEW F, F \subseteq Nat, F # {}
  PROVE  \E n \in F : \A k \in F : n <= k
<1>1. IsWellFoundedOn(OpToRel(<, Nat), Nat)
  BY NatLessThanWellFounded
<1> DEFINE R == OpToRel(<, Nat)
<1>2. \A k, n \in Nat : k < n => <<k, n>> \in R
  BY DEF OpToRel
<1> HIDE DEF R
<1>3. \E n \in F : \A k \in F : ~(<<k, n>> \in R)
  BY <1>1, WFMin DEF R
<1>4. PICK n \in F : \A k \in F : ~(<<k, n>> \in R)
  BY <1>3
<1>5. \A k \in F : k \in Nat /\ n \in Nat /\ ~(k < n)
  BY <1>2, <1>4
<1> QED BY <1>5

(* Induction, with the numbers the claim holds of as a set. *)
THEOREM NatSet ==
  ASSUME NEW P, 0 \in P, \A n \in Nat : n \in P => n + 1 \in P
  PROVE  Nat \subseteq P
<1> DEFINE F == Nat \ P
<1> SUFFICES ASSUME F # {} PROVE FALSE
  OBVIOUS
<1>1. PICK n \in F : \A k \in F : n <= k
  <2>1. F \subseteq Nat
    OBVIOUS
  <2> HIDE DEF F
  <2> QED BY <2>1, LeastNumber
<1>2. n \in Nat /\ n # 0 /\ n \notin P
  OBVIOUS
<1>3. n - 1 \in Nat /\ (n - 1) + 1 = n /\ ~(n <= n - 1)
  BY <1>2
<1>4. n - 1 \in P
  BY <1>1, <1>3
<1> QED BY <1>2, <1>3, <1>4

(* The element of a set that the recursion takes first. *)
First(s) == CHOOSE x \in s : TRUE

(* Function g is what the recursion defines for the subsets of S. *)
SumsUp(g, f, S) ==
  g = [s \in SUBSET S |-> IF s = {} THEN 0 ELSE f[First(s)] + g[s \ {First(s)}]]

(* A nonempty set has a first element. *)
LEMMA FirstIn ==
  ASSUME NEW s, s # {}
  PROVE  First(s) \in s
BY DEF First

(* What SumFunctionOnSet means. *)
LEMMA SumUnfolds ==
  ASSUME NEW f, NEW S
  PROVE  SumFunctionOnSet(f, S) = (CHOOSE g : SumsUp(g, f, S))[S]
BY DEF SumFunctionOnSet, FoldFunctionOnSet, MapThenFoldSet, SumsUp, First

(* What the recursion defines at a set depends only on the values there.   *)
LEMMA SumsUpAgree ==
  ASSUME NEW S, IsFiniteSet(S), NEW A, NEW B, S \subseteq A, S \subseteq B,
         NEW f, NEW h, \A x \in S : f[x] = h[x],
         NEW u, NEW v, SumsUp(u, f, A), SumsUp(v, h, B)
  PROVE  u[S] = v[S]
<1> DEFINE F == {s \in SUBSET S : u[s] # v[s]}
<1>1. SUFFICES ASSUME F # {} PROVE FALSE
  OBVIOUS
<1>2. PICK T \in F : \A U \in F : U \subseteq T => U = T
  <2>1. F \in SUBSET SUBSET S
    OBVIOUS
  <2> HIDE DEF F
  <2> QED BY <1>1, <2>1, SmallestMember
<1>3. T \in SUBSET S /\ T \in SUBSET A /\ T \in SUBSET B /\ u[T] # v[T]
  OBVIOUS
<1>4. /\ u[T] = IF T = {} THEN 0 ELSE f[First(T)] + u[T \ {First(T)}]
      /\ v[T] = IF T = {} THEN 0 ELSE h[First(T)] + v[T \ {First(T)}]
  BY <1>3 DEF SumsUp
<1>5. T # {}
  BY <1>3, <1>4
<1>6. First(T) \in T
  BY <1>5, FirstIn
<1>7. u[T \ {First(T)}] = v[T \ {First(T)}]
  BY <1>2, <1>3, <1>6
<1> QED BY <1>3, <1>4, <1>5, <1>6, <1>7

(* The recursion defines a function. *)
LEMMA SumsUpExists ==
  ASSUME NEW S, IsFiniteSet(S), NEW f
  PROVE  \E g : SumsUp(g, f, S)
<1> DEFINE F == {s \in SUBSET S : ~\E g : SumsUp(g, f, s)}
<1>1. SUFFICES ASSUME F # {} PROVE FALSE
  OBVIOUS
<1>2. PICK T \in F : \A U \in F : U \subseteq T => U = T
  <2>1. F \in SUBSET SUBSET S
    OBVIOUS
  <2> HIDE DEF F
  <2> QED BY <1>1, <2>1, SmallestMember
<1>3. T \in SUBSET S /\ ~\E g : SumsUp(g, f, T)
  OBVIOUS
<1> DEFINE G(s) == CHOOSE g : SumsUp(g, f, s)
           Rest(s) == s \ {First(s)}
           g == [s \in SUBSET T |-> IF s = {} THEN 0 ELSE f[First(s)] + G(Rest(s))[Rest(s)]]
<1>4. \A U \in SUBSET T : U # T => SumsUp(G(U), f, U)
  <2>1. \A U \in SUBSET T : U # T => \E k : SumsUp(k, f, U)
    BY <1>2, <1>3
  <2> QED BY <2>1
<1>5. \A s \in SUBSET T : s # {} => Rest(s) \in SUBSET T /\ Rest(s) # T
  BY FirstIn
<1>6. \A s \in SUBSET T : s # T => g[s] = G(s)[s]
  <2> SUFFICES ASSUME NEW s \in SUBSET T, s # T PROVE g[s] = G(s)[s]
    OBVIOUS
  <2>1. SumsUp(G(s), f, s)
    BY <1>4
  <2>2. G(s)[s] = IF s = {} THEN 0 ELSE f[First(s)] + G(s)[Rest(s)]
    <3> HIDE DEF G
    <3> QED BY <2>1 DEF SumsUp
  <2>3. s # {} => G(s)[Rest(s)] = G(Rest(s))[Rest(s)]
    <3> SUFFICES ASSUME s # {} PROVE G(s)[Rest(s)] = G(Rest(s))[Rest(s)]
      OBVIOUS
    <3>1. SumsUp(G(Rest(s)), f, Rest(s))
      BY <1>4, <1>5
    <3>2. IsFiniteSet(Rest(s)) /\ Rest(s) \subseteq s
      BY <1>3, FS_Subset
    <3> HIDE DEF G, Rest
    <3> QED BY <2>1, <3>1, <3>2, SumsUpAgree
  <2> HIDE DEF G
  <2> QED BY <2>2, <2>3
<1>7. SumsUp(g, f, T)
  <2>1. \A s \in SUBSET T : s # {} => G(Rest(s))[Rest(s)] = g[Rest(s)]
    BY <1>5, <1>6
  <2>2. \A s \in SUBSET T : g[s] = IF s = {} THEN 0 ELSE f[First(s)] + g[Rest(s)]
    <3> SUFFICES ASSUME NEW s \in SUBSET T
                 PROVE  g[s] = IF s = {} THEN 0 ELSE f[First(s)] + g[Rest(s)]
      OBVIOUS
    <3>1. g[s] = IF s = {} THEN 0 ELSE f[First(s)] + G(Rest(s))[Rest(s)]
      OBVIOUS
    <3>2. s # {} => G(Rest(s))[Rest(s)] = g[Rest(s)]
      BY <2>1
    <3> HIDE DEF g, G
    <3> QED BY <3>1, <3>2
  <2>3. g = [s \in SUBSET T |-> g[s]]
    OBVIOUS
  <2> HIDE DEF g
  <2>4. g = [s \in SUBSET T |-> IF s = {} THEN 0 ELSE f[First(s)] + g[s \ {First(s)}]]
    BY <2>2, <2>3
  <2> QED BY <2>4 DEF SumsUp
<1> QED BY <1>3, <1>7

-----------------------------------------------------------------------------
(* The recursion defines the sum of every subset. *)
LEMMA SumIs ==
  ASSUME NEW S, IsFiniteSet(S), NEW f
  PROVE  \E g : SumsUp(g, f, S) /\ SumFunctionOnSet(f, S) = g[S]
<1> DEFINE g == CHOOSE k : SumsUp(k, f, S)
<1>1. SumsUp(g, f, S)
  BY SumsUpExists
<1>2. SumFunctionOnSet(f, S) = g[S]
  BY SumUnfolds
<1> HIDE DEF g
<1> QED BY <1>1, <1>2

(* The sum over the empty set. *)
LEMMA SumEmpty ==
  ASSUME NEW f
  PROVE  SumFunctionOnSet(f, {}) = 0
<1>1. IsFiniteSet({})
  BY FS_EmptySet
<1>2. PICK g : SumsUp(g, f, {}) /\ SumFunctionOnSet(f, {}) = g[{}]
  BY <1>1, SumIs
<1> QED BY <1>2 DEF SumsUp

(* The sum depends only on the values that are summed. *)
LEMMA SumSame ==
  ASSUME NEW S, IsFiniteSet(S), NEW f, NEW h, \A x \in S : f[x] = h[x]
  PROVE  SumFunctionOnSet(f, S) = SumFunctionOnSet(h, S)
<1>1. PICK u : SumsUp(u, f, S) /\ SumFunctionOnSet(f, S) = u[S]
  BY SumIs
<1>2. PICK v : SumsUp(v, h, S) /\ SumFunctionOnSet(h, S) = v[S]
  BY SumIs
<1>3. u[S] = v[S]
  BY <1>1, <1>2, SumsUpAgree
<1> QED BY <1>1, <1>2, <1>3

(* The first element is added to the sum of the others. *)
LEMMA SumFirst ==
  ASSUME NEW S, IsFiniteSet(S), S # {}, NEW f
  PROVE  SumFunctionOnSet(f, S) = f[First(S)] + SumFunctionOnSet(f, S \ {First(S)})
<1> DEFINE R == S \ {First(S)}
<1>1. IsFiniteSet(R) /\ R \subseteq S
  BY FS_Subset
<1>2. PICK u : SumsUp(u, f, S) /\ SumFunctionOnSet(f, S) = u[S]
  BY SumIs
<1>3. PICK v : SumsUp(v, f, R) /\ SumFunctionOnSet(f, R) = v[R]
  BY <1>1, SumIs
<1>4. u[S] = f[First(S)] + u[R]
  BY <1>2 DEF SumsUp
<1> HIDE DEF R
<1>5. u[R] = v[R]
  BY <1>1, <1>2, <1>3, SumsUpAgree
<1> QED BY <1>2, <1>3, <1>4, <1>5 DEF R

(* A sum of integers is an integer. *)
LEMMA SumType ==
  ASSUME NEW S, IsFiniteSet(S), NEW f, \A x \in S : f[x] \in Int
  PROVE  SumFunctionOnSet(f, S) \in Int
<1> DEFINE F == {s \in SUBSET S : SumFunctionOnSet(f, s) \notin Int}
<1>1. SUFFICES ASSUME F # {} PROVE FALSE
  OBVIOUS
<1>2. PICK T \in F : \A U \in F : U \subseteq T => U = T
  <2>1. F \in SUBSET SUBSET S
    OBVIOUS
  <2> HIDE DEF F
  <2> QED BY <1>1, <2>1, SmallestMember
<1>3. T \in SUBSET S /\ SumFunctionOnSet(f, T) \notin Int /\ IsFiniteSet(T)
  BY FS_Subset
<1>4. T # {}
  BY <1>3, SumEmpty
<1>5. First(T) \in T /\ SumFunctionOnSet(f, T \ {First(T)}) \in Int
  BY <1>2, <1>3, <1>4, FirstIn
<1>6. SumFunctionOnSet(f, T) = f[First(T)] + SumFunctionOnSet(f, T \ {First(T)})
  BY <1>3, <1>4, SumFirst
<1>7. f[First(T)] \in Int
  BY <1>3, <1>5
<1>8. \A i, j \in Int : i + j \in Int
  OBVIOUS
<1>9. f[First(T)] + SumFunctionOnSet(f, T \ {First(T)}) \in Int
  BY <1>5, <1>7, <1>8, Zenon
<1> QED BY <1>3, <1>6, <1>9, Zenon

(* Any element is added to the sum of the others. *)
LEMMA SumRemove ==
  ASSUME NEW S, IsFiniteSet(S), NEW f, \A x \in S : f[x] \in Int, NEW z \in S
  PROVE  SumFunctionOnSet(f, S) = f[z] + SumFunctionOnSet(f, S \ {z})
<1> DEFINE Sum(s) == SumFunctionOnSet(f, s)
           F == {s \in SUBSET S : \E y \in s : Sum(s) # f[y] + Sum(s \ {y})}
<1>1. SUFFICES ASSUME F # {} PROVE FALSE
  OBVIOUS
<1>2. PICK T \in F : \A U \in F : U \subseteq T => U = T
  <2>1. F \in SUBSET SUBSET S
    OBVIOUS
  <2> HIDE DEF F
  <2> QED BY <1>1, <2>1, SmallestMember
<1>3. T \in SUBSET S
  OBVIOUS
<1>4. PICK x \in T : Sum(T) # f[x] + Sum(T \ {x})
  OBVIOUS
<1> DEFINE a == First(T)
<1>5. a \in T /\ f[a] \in Int /\ f[x] \in Int
  BY <1>3, FirstIn
<1>6. \A s \in SUBSET S : IsFiniteSet(s) /\ Sum(s) \in Int
  <2> SUFFICES ASSUME NEW s \in SUBSET S PROVE IsFiniteSet(s) /\ Sum(s) \in Int
    OBVIOUS
  <2>1. IsFiniteSet(s)
    BY FS_Subset
  <2> QED BY <2>1, SumType
<1>7. Sum(T) = f[a] + Sum(T \ {a})
  BY <1>3, <1>5, <1>6, SumFirst
<1>8. \A s \in SUBSET T : s # T => \A y \in s : Sum(s) = f[y] + Sum(s \ {y})
  BY <1>2, <1>3
<1> HIDE DEF Sum, F, a
<1>9. a # x
  BY <1>4, <1>7
<1>10. Sum(T \ {a}) = f[x] + Sum((T \ {a}) \ {x})
  BY <1>5, <1>8, <1>9
<1>11. Sum(T \ {x}) = f[a] + Sum((T \ {x}) \ {a})
  BY <1>5, <1>8, <1>9
<1>12. (T \ {x}) \ {a} = (T \ {a}) \ {x} /\ Sum((T \ {a}) \ {x}) \in Int
  BY <1>3, <1>6
<1>13. \A i, j, k \in Int : i + (j + k) = j + (i + k)
  OBVIOUS
<1>14. f[a] + (f[x] + Sum((T \ {a}) \ {x})) = f[x] + (f[a] + Sum((T \ {a}) \ {x}))
  BY <1>5, <1>12, <1>13, Zenon
<1>15. Sum(T) = f[x] + Sum(T \ {x})
  BY <1>7, <1>10, <1>11, <1>12, <1>14, Zenon
<1> QED BY <1>4, <1>15

(* A new element adds its value to the sum. *)
LEMMA SumAdd ==
  ASSUME NEW S, IsFiniteSet(S), NEW z, z \notin S, NEW f, \A x \in S \cup {z} : f[x] \in Int
  PROVE  SumFunctionOnSet(f, S \cup {z}) = SumFunctionOnSet(f, S) + f[z]
<1>1. IsFiniteSet(S \cup {z}) /\ (S \cup {z}) \ {z} = S
  BY FS_AddElement
<1>2. SumFunctionOnSet(f, S \cup {z}) = f[z] + SumFunctionOnSet(f, (S \cup {z}) \ {z})
  BY <1>1, SumRemove
<1>3. SumFunctionOnSet(f, S) \in Int /\ f[z] \in Int
  BY SumType
<1>4. \A i, j \in Int : i + j = j + i
  OBVIOUS
<1> QED BY <1>1, <1>2, <1>3, <1>4, Zenon

(* A sum of positive numbers over a set that is not empty is positive. *)
LEMMA SumPositive ==
  ASSUME NEW S, IsFiniteSet(S), NEW f, \A x \in S : f[x] \in Int /\ f[x] > 0
  PROVE  /\ SumFunctionOnSet(f, S) >= 0
         /\ S # {} => SumFunctionOnSet(f, S) > 0
<1> DEFINE Sum(s) == SumFunctionOnSet(f, s)
           F == {s \in SUBSET S : ~(Sum(s) >= 0 /\ (s # {} => Sum(s) > 0))}
<1>1. SUFFICES ASSUME F # {} PROVE FALSE
  OBVIOUS
<1>2. PICK T \in F : \A U \in F : U \subseteq T => U = T
  <2>1. F \in SUBSET SUBSET S
    OBVIOUS
  <2> HIDE DEF F
  <2> QED BY <1>1, <2>1, SmallestMember
<1>3. T \in SUBSET S /\ ~(Sum(T) >= 0 /\ (T # {} => Sum(T) > 0)) /\ IsFiniteSet(T)
  BY FS_Subset
<1>4. T # {}
  BY <1>3, SumEmpty
<1> DEFINE a == First(T)
<1>5. a \in T /\ f[a] \in Int /\ f[a] > 0
  BY <1>3, <1>4, FirstIn
<1>6. T \ {a} \in SUBSET S /\ T \ {a} \subseteq T /\ T \ {a} # T /\ IsFiniteSet(T \ {a})
  BY <1>3, <1>5, FS_Subset
<1>7. Sum(T \ {a}) >= 0
  BY <1>2, <1>6
<1>8. Sum(T) = f[a] + Sum(T \ {a}) /\ Sum(T \ {a}) \in Int
  BY <1>3, <1>4, <1>6, SumFirst, SumType
<1> HIDE DEF Sum, F, a
<1> QED BY <1>3, <1>5, <1>7, <1>8

(* Elements whose value is zero may be left out of a sum. *)
LEMMA SumNonzero ==
  ASSUME NEW S, IsFiniteSet(S), NEW f, \A x \in S : f[x] \in Int,
         NEW R, R \subseteq S, \A x \in S \ R : f[x] = 0
  PROVE  SumFunctionOnSet(f, R) = SumFunctionOnSet(f, S)
<1> DEFINE Sum(s) == SumFunctionOnSet(f, s)
           F == {s \in SUBSET S : Sum(s \cap R) # Sum(s)}
<1>1. SUFFICES ASSUME F # {} PROVE FALSE
  <2>1. S \cap R = R
    OBVIOUS
  <2> QED BY <2>1
<1>2. PICK T \in F : \A U \in F : U \subseteq T => U = T
  <2>1. F \in SUBSET SUBSET S
    OBVIOUS
  <2> HIDE DEF F
  <2> QED BY <1>1, <2>1, SmallestMember
<1>3. T \in SUBSET S /\ Sum(T \cap R) # Sum(T)
  OBVIOUS
<1>4. T # {}
  <2>1. {} \cap R = {}
    OBVIOUS
  <2> HIDE DEF Sum
  <2> QED BY <1>3, <2>1
<1>5. PICK z \in T : TRUE
  BY <1>4
<1>6. z \in S /\ T \ {z} \in SUBSET S /\ T \ {z} # T
  BY <1>3, <1>5
<1>7. Sum((T \ {z}) \cap R) = Sum(T \ {z})
  BY <1>2, <1>6
<1>8. /\ IsFiniteSet(T) /\ IsFiniteSet(T \cap R) /\ IsFiniteSet(T \ {z})
      /\ \A x \in T : f[x] \in Int
  BY <1>3, FS_Subset
<1>9. Sum(T) = f[z] + Sum(T \ {z}) /\ Sum(T \ {z}) \in Int
  <2>1. Sum(T) = f[z] + Sum(T \ {z})
    BY <1>8, SumRemove
  <2>2. Sum(T \ {z}) \in Int
    BY <1>8, SumType
  <2> QED BY <2>1, <2>2
<1>10. CASE z \in R
  <2>1. z \in T \cap R /\ \A x \in T \cap R : f[x] \in Int
    BY <1>8, <1>10
  <2>2. Sum(T \cap R) = f[z] + Sum((T \cap R) \ {z})
    BY <1>8, <2>1, SumRemove
  <2>3. (T \cap R) \ {z} = (T \ {z}) \cap R
    OBVIOUS
  <2> HIDE DEF Sum
  <2> QED BY <1>3, <1>7, <1>9, <2>2, <2>3
<1>11. CASE z \notin R
  <2>1. f[z] = 0 /\ T \cap R = (T \ {z}) \cap R
    BY <1>6, <1>11
  <2> HIDE DEF Sum
  <2>2. Sum(T) = Sum(T \ {z})
    <3>1. \A i \in Int : 0 + i = i
      OBVIOUS
    <3> QED BY <1>9, <2>1, <3>1
  <2> QED BY <1>3, <1>7, <2>1, <2>2
<1> QED BY <1>10, <1>11

(* The sum over two disjoint sets. *)
LEMMA SumUnion ==
  ASSUME NEW A, IsFiniteSet(A), NEW B, IsFiniteSet(B), A \cap B = {},
         NEW f, \A x \in A \cup B : f[x] \in Int
  PROVE  SumFunctionOnSet(f, A \cup B) = SumFunctionOnSet(f, A) + SumFunctionOnSet(f, B)
<1> DEFINE Sum(s) == SumFunctionOnSet(f, s)
           F == {s \in SUBSET B : Sum(A \cup s) # Sum(A) + Sum(s)}
<1>1. SUFFICES ASSUME F # {} PROVE FALSE
  OBVIOUS
<1>2. PICK T \in F : \A U \in F : U \subseteq T => U = T
  <2>1. F \in SUBSET SUBSET B
    OBVIOUS
  <2> HIDE DEF F
  <2> QED BY <1>1, <2>1, SmallestMember
<1>3. T \in SUBSET B /\ Sum(A \cup T) # Sum(A) + Sum(T)
  OBVIOUS
<1>4. Sum(A) \in Int
  BY SumType
<1>5. T # {}
  <2> SUFFICES ASSUME T = {} PROVE FALSE
    OBVIOUS
  <2>1. A \cup T = A /\ Sum(T) = 0
    BY SumEmpty
  <2> HIDE DEF Sum, F
  <2>2. Sum(A) + 0 = Sum(A)
    BY <1>4
  <2> QED BY <1>3, <2>1, <2>2, Zenon
<1>6. PICK z \in T : TRUE
  BY <1>5
<1> DEFINE R == T \ {z}
<1>7. R \in SUBSET B /\ R # T /\ R \subseteq T /\ IsFiniteSet(R) /\ z \notin R
  BY <1>3, <1>6, FS_Subset
<1>8. Sum(A \cup R) = Sum(A) + Sum(R)
  BY <1>2, <1>7
<1>9. T = R \cup {z} /\ A \cup T = (A \cup R) \cup {z} /\ z \notin A \cup R
  BY <1>3, <1>6
<1>10. IsFiniteSet(A \cup R)
  <2>1. IsFiniteSet(A \cup B)
    BY FS_Union
  <2>2. A \cup R \in SUBSET (A \cup B)
    BY <1>7
  <2> QED BY <2>1, <2>2, FS_Subset
<1>11. \A x \in (A \cup R) \cup {z} : f[x] \in Int
  BY <1>3, <1>6, <1>7
<1>12. Sum((A \cup R) \cup {z}) = Sum(A \cup R) + f[z]
  BY <1>9, <1>10, <1>11, SumAdd
<1>13. Sum(R \cup {z}) = Sum(R) + f[z]
  BY <1>7, <1>11, SumAdd
<1>14. Sum(R) \in Int
  BY <1>7, <1>11, SumType
<1>15. f[z] \in Int
  BY <1>11
<1> HIDE DEF Sum, F, R
<1>16. Sum(A \cup T) = (Sum(A) + Sum(R)) + f[z]
  BY <1>8, <1>9, <1>12, Zenon
<1>17. Sum(T) = Sum(R) + f[z]
  BY <1>9, <1>13, Zenon
<1>18. \A a, b, c \in Int : (a + b) + c = a + (b + c)
  OBVIOUS
<1>19. Sum(A \cup T) = Sum(A) + (Sum(R) + f[z])
  BY <1>4, <1>14, <1>15, <1>16, <1>18, Zenon
<1> QED BY <1>3, <1>17, <1>19, Zenon
=============================================================================
