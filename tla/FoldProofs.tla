----------------------------- MODULE FoldProofs -----------------------------
(***************************************************************************)
(* Facts about folds over the indexes of a function, the recursion behind  *)
(* FoldLeft and the sums of the community modules, for any operator Op and *)
(* any way Pick of choosing the index that is combined last.               *)
(*                                                                         *)
(* MapThenFoldSet is a function defined by recursion on the subsets of a   *)
(* set.  Each fact is proved by looking at a smallest set that it would    *)
(* not be true of.  Modules use them through INSTANCE FoldProofs WITH      *)
(* Op <- their operator.                                                   *)
(***************************************************************************)
EXTENDS Integers, Sequences, Folds, FiniteSets, FiniteSetTheorems, TLAPS

CONSTANTS
  Op(_, _),   \* what was accumulated, and the value it is combined with
  Pick(_)     \* the index of a set that is combined last

Fold(g, base, S) == MapThenFoldSet(LAMBDA x, y : Op(y, x), base, LAMBDA i : g[i], Pick, S)

(* Pick takes an element from each nonempty subset of S. *)
Picks(S) == \A s \in SUBSET S : s # {} => Pick(s) \in s

(* Function h is what the recursion defines for the subsets of S. *)
FoldsUp(h, g, base, S) ==
  h = [s \in SUBSET S |-> IF s = {} THEN base ELSE Op(h[s \ {Pick(s)}], g[Pick(s)])]

(* A nonempty family of subsets of a finite set has a member no proper     *)
(* subset of which is in the family.                                       *)
LEMMA SmallestMember ==
  ASSUME NEW S, IsFiniteSet(S), NEW F \in SUBSET SUBSET S, F # {}
  PROVE  \E T \in F : \A U \in F : U \subseteq T => U = T
<1> DEFINE R == StrictSubsetOrdering(S)
<1>1. IsWellFoundedOn(R, SUBSET S)
  BY FS_StrictSubsetOrderingWellFounded, FS_FiniteSubsetsOfFinite
<1> HIDE DEF R
<1>2. \E T \in F : \A U \in F : ~(<<U, T>> \in R)
  BY <1>1, WFMin
<1> QED BY <1>2 DEF R, StrictSubsetOrdering

(* What MapThenFoldSet means. *)
LEMMA FoldUnfolds ==
  ASSUME NEW g, NEW base, NEW S
  PROVE  Fold(g, base, S) = (CHOOSE h : FoldsUp(h, g, base, S))[S]
BY DEF Fold, MapThenFoldSet, FoldsUp

(* What the recursion defines at a set depends only on the values there.   *)
LEMMA FoldsUpAgree ==
  ASSUME NEW S, IsFiniteSet(S), Picks(S), NEW A, NEW B, S \subseteq A, S \subseteq B,
         NEW base, NEW f, NEW g, \A x \in S : f[x] = g[x],
         NEW u, NEW v, FoldsUp(u, f, base, A), FoldsUp(v, g, base, B)
  PROVE  u[S] = v[S]
<1> DEFINE F == {s \in SUBSET S : u[s] # v[s]}
<1>1. SUFFICES ASSUME F # {} PROVE FALSE
  OBVIOUS
<1>2. PICK T \in F : \A U \in F : U \subseteq T => U = T
  <2>1. F \in SUBSET SUBSET S
    OBVIOUS
  <2> HIDE DEF F
  <2> QED BY <1>1, <2>1, SmallestMember
<1>3. T \in SUBSET S /\ T \in SUBSET A /\ T \in SUBSET B /\ u[T] # v[T]
  OBVIOUS
<1>4. /\ u[T] = IF T = {} THEN base ELSE Op(u[T \ {Pick(T)}], f[Pick(T)])
      /\ v[T] = IF T = {} THEN base ELSE Op(v[T \ {Pick(T)}], g[Pick(T)])
  BY <1>3 DEF FoldsUp
<1>5. T # {}
  BY <1>3, <1>4
<1>6. Pick(T) \in T
  BY <1>3, <1>5 DEF Picks
<1>7. u[T \ {Pick(T)}] = v[T \ {Pick(T)}]
  BY <1>2, <1>3, <1>6
<1>8. f[Pick(T)] = g[Pick(T)]
  BY <1>3, <1>6
<1> QED BY <1>3, <1>4, <1>5, <1>7, <1>8

(* The recursion defines a function. *)
LEMMA FoldsUpExists ==
  ASSUME NEW S, IsFiniteSet(S), Picks(S), NEW g, NEW base
  PROVE  \E h : FoldsUp(h, g, base, S)
<1> DEFINE F == {s \in SUBSET S : ~\E h : FoldsUp(h, g, base, s)}
<1>1. SUFFICES ASSUME F # {} PROVE FALSE
  OBVIOUS
<1>2. PICK T \in F : \A U \in F : U \subseteq T => U = T
  <2>1. F \in SUBSET SUBSET S
    OBVIOUS
  <2> HIDE DEF F
  <2> QED BY <1>1, <2>1, SmallestMember
<1>3. T \in SUBSET S /\ ~\E h : FoldsUp(h, g, base, T)
  OBVIOUS
<1> DEFINE H(s) == CHOOSE h : FoldsUp(h, g, base, s)
           Rest(s) == s \ {Pick(s)}
           h == [s \in SUBSET T |->
                   IF s = {} THEN base ELSE Op(H(Rest(s))[Rest(s)], g[Pick(s)])]
<1>4. \A U \in SUBSET T : U # T => FoldsUp(H(U), g, base, U)
  <2>1. \A U \in SUBSET T : U # T => \E k : FoldsUp(k, g, base, U)
    BY <1>2, <1>3
  <2> QED BY <2>1
<1>5. \A s \in SUBSET T : s # {} => Rest(s) \in SUBSET T /\ Rest(s) # T
  BY <1>3 DEF Picks
<1>6. \A s \in SUBSET T : s # T => h[s] = H(s)[s]
  <2> SUFFICES ASSUME NEW s \in SUBSET T, s # T PROVE h[s] = H(s)[s]
    OBVIOUS
  <2>1. FoldsUp(H(s), g, base, s)
    BY <1>4
  <2>2. H(s)[s] = IF s = {} THEN base ELSE Op(H(s)[Rest(s)], g[Pick(s)])
    <3> HIDE DEF H
    <3> QED BY <2>1 DEF FoldsUp
  <2>3. s # {} => H(s)[Rest(s)] = H(Rest(s))[Rest(s)]
    <3> SUFFICES ASSUME s # {} PROVE H(s)[Rest(s)] = H(Rest(s))[Rest(s)]
      OBVIOUS
    <3>1. FoldsUp(H(Rest(s)), g, base, Rest(s))
      BY <1>4, <1>5
    <3>2. IsFiniteSet(Rest(s)) /\ Rest(s) \subseteq s /\ Picks(Rest(s))
      BY <1>3, FS_Subset DEF Picks
    <3> HIDE DEF H, Rest
    <3> QED BY <2>1, <3>1, <3>2, FoldsUpAgree
  <2> HIDE DEF H
  <2> QED BY <2>2, <2>3
<1>7. FoldsUp(h, g, base, T)
  <2>1. \A s \in SUBSET T : s # {} => H(Rest(s))[Rest(s)] = h[Rest(s)]
    BY <1>5, <1>6
  <2>2. \A s \in SUBSET T : h[s] = IF s = {} THEN base ELSE Op(h[Rest(s)], g[Pick(s)])
    <3> SUFFICES ASSUME NEW s \in SUBSET T
                 PROVE  h[s] = IF s = {} THEN base ELSE Op(h[Rest(s)], g[Pick(s)])
      OBVIOUS
    <3>1. h[s] = IF s = {} THEN base ELSE Op(H(Rest(s))[Rest(s)], g[Pick(s)])
      OBVIOUS
    <3>2. s # {} => H(Rest(s))[Rest(s)] = h[Rest(s)]
      BY <2>1
    <3> HIDE DEF h, H
    <3> QED BY <3>1, <3>2
  <2>3. h = [s \in SUBSET T |-> h[s]]
    OBVIOUS
  <2> HIDE DEF h
  <2>4. h = [s \in SUBSET T |-> IF s = {} THEN base ELSE Op(h[s \ {Pick(s)}], g[Pick(s)])]
    BY <2>2, <2>3
  <2> QED BY <2>4 DEF FoldsUp
<1> QED BY <1>3, <1>7

(* The recursion defines the fold over every subset. *)
LEMMA FoldIs ==
  ASSUME NEW S, IsFiniteSet(S), Picks(S), NEW g, NEW base
  PROVE  \E h : FoldsUp(h, g, base, S) /\ Fold(g, base, S) = h[S]
<1> DEFINE h == CHOOSE k : FoldsUp(k, g, base, S)
<1>1. FoldsUp(h, g, base, S)
  BY FoldsUpExists
<1>2. Fold(g, base, S) = h[S]
  BY FoldUnfolds
<1> HIDE DEF h
<1> QED BY <1>1, <1>2

-----------------------------------------------------------------------------
(* Nothing is combined over the empty set. *)
THEOREM FoldEmpty ==
  ASSUME NEW g, NEW base
  PROVE  Fold(g, base, {}) = base
<1>1. IsFiniteSet({}) /\ Picks({})
  BY FS_EmptySet DEF Picks
<1>2. PICK h : FoldsUp(h, g, base, {}) /\ Fold(g, base, {}) = h[{}]
  BY <1>1, FoldIs
<1> QED BY <1>2 DEF FoldsUp

(* The fold depends only on the values that are combined. *)
THEOREM FoldSame ==
  ASSUME NEW S, IsFiniteSet(S), Picks(S), NEW base, NEW f, NEW g, \A x \in S : f[x] = g[x]
  PROVE  Fold(f, base, S) = Fold(g, base, S)
<1>1. PICK u : FoldsUp(u, f, base, S) /\ Fold(f, base, S) = u[S]
  BY FoldIs
<1>2. PICK v : FoldsUp(v, g, base, S) /\ Fold(g, base, S) = v[S]
  BY FoldIs
<1>3. u[S] = v[S]
  BY <1>1, <1>2, FoldsUpAgree
<1> QED BY <1>1, <1>2, <1>3

(* The value at the picked index is combined with the fold over the rest. *)
THEOREM FoldPick ==
  ASSUME NEW S, IsFiniteSet(S), Picks(S), S # {}, NEW base, NEW g
  PROVE  Fold(g, base, S) = Op(Fold(g, base, S \ {Pick(S)}), g[Pick(S)])
<1> DEFINE R == S \ {Pick(S)}
<1>1. IsFiniteSet(R) /\ R \subseteq S /\ Picks(R)
  BY FS_Subset DEF Picks
<1>2. PICK u : FoldsUp(u, g, base, S) /\ Fold(g, base, S) = u[S]
  BY FoldIs
<1>3. PICK v : FoldsUp(v, g, base, R) /\ Fold(g, base, R) = v[R]
  BY <1>1, FoldIs
<1>4. u[S] = Op(u[R], g[Pick(S)])
  BY <1>2 DEF FoldsUp
<1> HIDE DEF R
<1>5. u[R] = v[R]
  BY <1>1, <1>2, <1>3, FoldsUpAgree
<1> QED BY <1>2, <1>3, <1>4, <1>5 DEF R

-----------------------------------------------------------------------------
(* Folds of sequences, where the largest index is combined last.           *)

Largest(s) == CHOOSE x \in s : \A y \in s : x >= y

PicksLargest == \A s : Pick(s) = Largest(s)

(* Every nonempty finite set of numbers has a largest. *)
LEMMA LargestOf ==
  ASSUME NEW s, IsFiniteSet(s), \A x \in s : x \in Int, s # {}
  PROVE  Largest(s) \in s /\ \A y \in s : Largest(s) >= y
<1> DEFINE UpTo(x) == {y \in s : y >= x}
           F == {UpTo(x) : x \in s}
<1>2. PICK T \in F : \A U \in F : U \subseteq T => U = T
  <2>1. F \in SUBSET SUBSET s
    OBVIOUS
  <2>2. F # {}
    OBVIOUS
  <2> HIDE DEF UpTo, F
  <2> QED BY <2>1, <2>2, SmallestMember
<1>3. PICK x \in s : T = UpTo(x)
  OBVIOUS
<1>4. ASSUME NEW y \in s, ~(x >= y) PROVE FALSE
  <2>a. x \in Int /\ y \in Int /\ x < y
    BY <1>4
  <2>1. \A z \in UpTo(y) : z \in UpTo(x)
    BY <2>a
  <2>2. x \in UpTo(x) /\ x \notin UpTo(y) /\ UpTo(y) \in F
    BY <1>4
  <2> HIDE DEF UpTo, F
  <2> QED BY <1>2, <1>3, <2>1, <2>2
<1>5. \E z \in s : \A y \in s : z >= y
  BY <1>4
<1> QED BY <1>5 DEF Largest

(* Every nonempty set of indexes has a largest. *)
LEMMA LargestIn ==
  ASSUME NEW n \in Nat, NEW s, s \subseteq 1 .. n, s # {}
  PROVE  Largest(s) \in s /\ \A y \in s : Largest(s) >= y
<1>1. IsFiniteSet(1 .. n)
  BY FS_Interval
<1>2. IsFiniteSet(s)
  BY <1>1, FS_Subset
<1>3. \A x \in s : x \in Int
  OBVIOUS
<1> QED BY <1>2, <1>3, LargestOf

(* All of an interval's subsets have something to pick. *)
LEMMA PicksInterval ==
  ASSUME PicksLargest, NEW n \in Nat
  PROVE  /\ Picks(1 .. n) /\ IsFiniteSet(1 .. n)
         /\ Pick(1 .. (n + 1)) = n + 1
<1>1. Picks(1 .. n)
  <2> SUFFICES ASSUME NEW s, s \subseteq 1 .. n, s # {} PROVE Pick(s) \in s
    BY DEF Picks
  <2> QED BY LargestIn DEF PicksLargest
<1>2. IsFiniteSet(1 .. n)
  BY FS_Interval
<1>3. Pick(1 .. (n + 1)) = n + 1
  <2> DEFINE I == 1 .. (n + 1)
  <2>1. n + 1 \in Nat /\ I \subseteq 1 .. (n + 1) /\ \A x \in I : x \in Int /\ x <= n + 1
    OBVIOUS
  <2>2. n + 1 \in I
    OBVIOUS
  <2> HIDE DEF I
  <2>3. Largest(I) \in I /\ \A y \in I : Largest(I) >= y
    BY <2>1, <2>2, LargestIn
  <2>4. Largest(I) \in Int /\ Largest(I) <= n + 1 /\ Largest(I) >= n + 1
    BY <2>1, <2>2, <2>3
  <2>5. Largest(I) = n + 1
    BY <2>4
  <2> QED BY <2>5 DEF PicksLargest, I
<1> QED BY <1>1, <1>2, <1>3

(* The last value is combined with the fold of those before it. *)
THEOREM FoldLast ==
  ASSUME PicksLargest, NEW n \in Nat, NEW base, NEW f, NEW g, \A i \in 1 .. n : f[i] = g[i]
  PROVE  Fold(f, base, 1 .. (n + 1)) = Op(Fold(g, base, 1 .. n), f[n + 1])
<1>1. Picks(1 .. n) /\ IsFiniteSet(1 .. n)
  BY PicksInterval
<1>2. Picks(1 .. (n + 1)) /\ IsFiniteSet(1 .. (n + 1)) /\ Pick(1 .. (n + 1)) = n + 1
  <2>1. n + 1 \in Nat
    OBVIOUS
  <2> QED BY <2>1, PicksInterval
<1>3. (1 .. (n + 1)) \ {n + 1} = 1 .. n /\ 1 .. (n + 1) # {}
  OBVIOUS
<1>4. Fold(f, base, 1 .. n + 1) = Op(Fold(f, base, 1 .. n), f[n + 1])
  BY <1>2, <1>3, FoldPick
<1>5. Fold(f, base, 1 .. n) = Fold(g, base, 1 .. n)
  BY <1>1, FoldSame
<1> QED BY <1>4, <1>5
=============================================================================
