----------------------------- MODULE TreapProofs -----------------------------
(***************************************************************************)
(* Proofs about module Treap, for any prices, quantities, priorities and   *)
(* reservations.                                                           *)
(***************************************************************************)
EXTENDS Treap, SumProofs

-----------------------------------------------------------------------------
(* Trees of nodes.                                                         *)

(* A node as the code declares it, with children in vector t. *)
Node(t) ==
  [price : Int, quantity : Int, subtreeQuantity : Int, subtreeLevels : Int,
   priority : Int, left : Link(t), right : Link(t)]

(* The vectors with as many nodes as t. *)
Vectors(t) == [DOMAIN t -> Node(t)]

Vector(t) == t \in Vectors(t) /\ DOMAIN t \subseteq Nat /\ IsFiniteSet(DOMAIN t)

(* The price of k is between those of i and j. *)
InRange(t, i, j, k) ==
  \/ t[i].price <= t[k].price /\ t[k].price <= t[j].price
  \/ t[j].price <= t[k].price /\ t[k].price <= t[i].price

(* The nodes of S that i is above: none on the way to them from i, by the  *)
(* order of the prices, has a higher priority than i.                      *)
Span(t, S, i) ==
  {j \in S : \A k \in S : InRange(t, i, j, k) => k = i \/ HasHigherPriority(t, i, k)}

Lower(t, S, price) == {j \in S : t[j].price < price}

Upper(t, S, price) == {j \in S : t[j].price > price}

(* Node r has the highest priority of S, which has none when it is empty.  *)
Tops(t, S, r) ==
  IF S = {} THEN r = nullIndex
  ELSE r \in S /\ \A k \in S : k = r \/ HasHigherPriority(t, r, k)

Amounts(t) == [i \in DOMAIN t |-> t[i].quantity]

Total(t, S) == SumFunctionOnSet(Amounts(t), S)

(* The nodes S are a treap with root r.                                    *)
Tree(t, S, r) ==
  /\ S \subseteq DOMAIN t
  /\ \A i, j \in S : t[i].price = t[j].price => i = j
  /\ Tops(t, S, r)
  /\ \A i \in S :
       /\ Tops(t, Lower(t, Span(t, S, i), t[i].price), t[i].left)
       /\ Tops(t, Upper(t, Span(t, S, i), t[i].price), t[i].right)
       /\ t[i].subtreeQuantity = Total(t, Span(t, S, i))
       /\ t[i].subtreeLevels = Cardinality(Span(t, S, i))

(* What a vector's nodes are made of. *)
LEMMA NodeTypes ==
  ASSUME NEW t, Vector(t), NEW i \in DOMAIN t
  PROVE  /\ t[i] \in Node(t) /\ i \in Nat /\ i # nullIndex /\ i \in Link(t)
         /\ t[i].price \in Int /\ t[i].quantity \in Int /\ t[i].priority \in Int
         /\ t[i].subtreeQuantity \in Int /\ t[i].subtreeLevels \in Int
         /\ t[i].left \in Link(t) /\ t[i].right \in Link(t)
<1>1. t[i] \in Node(t) /\ i \in Nat
  BY DEF Vector, Vectors
<1> QED BY <1>1 DEF Node, Link, nullIndex

(* Of two nodes with different prices one has the higher priority.         *)
LEMMA PriorityOrder ==
  ASSUME NEW t, Vector(t)
  PROVE  /\ \A i, j \in DOMAIN t : HasHigherPriority(t, i, j) => ~HasHigherPriority(t, j, i)
         /\ \A i, j \in DOMAIN t :
              t[i].price # t[j].price => HasHigherPriority(t, i, j) \/ HasHigherPriority(t, j, i)
         /\ \A i, j, k \in DOMAIN t :
              HasHigherPriority(t, i, j) /\ HasHigherPriority(t, j, k) => HasHigherPriority(t, i, k)
<1>1. \A i \in DOMAIN t : t[i].price \in Int /\ t[i].priority \in Int
  BY NodeTypes
<1> QED BY <1>1 DEF HasHigherPriority

(* What i is above does not depend on nodes beyond one that is above all.  *)
LEMMA SpanOfPart ==
  ASSUME NEW t, Vector(t), NEW S \in SUBSET DOMAIN t, NEW r \in S,
         \A k \in S : k = r \/ HasHigherPriority(t, r, k),
         NEW T, T = Lower(t, S, t[r].price) \/ T = Upper(t, S, t[r].price), NEW i \in T
  PROVE  Span(t, T, i) = Span(t, S, i)
<1>1. \A k \in S : t[k].price \in Int
  BY NodeTypes
<1>2. T \subseteq S /\ i \in S /\ r \notin T /\ i # r /\ ~HasHigherPriority(t, i, r)
  BY <1>1, PriorityOrder DEF Lower, Upper
<1>3. ASSUME NEW j \in S, j \notin T PROVE InRange(t, i, j, r)
  BY <1>1, <1>3 DEF InRange, Lower, Upper
<1>4. ASSUME NEW j \in T, NEW k \in S, InRange(t, i, j, k) PROVE k \in T
  BY <1>1, <1>4 DEF InRange, Lower, Upper
<1>5. ASSUME NEW j \in Span(t, S, i) PROVE j \in Span(t, T, i)
  <2>1. j \in T
    BY <1>2, <1>3, <1>5 DEF Span
  <2> QED BY <1>2, <1>5, <2>1 DEF Span
<1>6. ASSUME NEW j \in Span(t, T, i) PROVE j \in Span(t, S, i)
  BY <1>2, <1>4, <1>6 DEF Span
<1> QED BY <1>5, <1>6

(* The root is above every other node.                                     *)
LEMMA SpanOfTop ==
  ASSUME NEW t, NEW S, NEW r \in S, \A k \in S : k = r \/ HasHigherPriority(t, r, k)
  PROVE  Span(t, S, r) = S
BY DEF Span

(* The nodes on either side of the root of a treap are the treaps under    *)
(* its children.                                                           *)
LEMMA TreeParts ==
  ASSUME NEW t, Vector(t), NEW S, NEW r, Tree(t, S, r), r # nullIndex
  PROVE  /\ r \in S /\ r \in DOMAIN t
         /\ Tree(t, Lower(t, S, t[r].price), t[r].left)
         /\ Tree(t, Upper(t, S, t[r].price), t[r].right)
         /\ S = Lower(t, S, t[r].price) \cup Upper(t, S, t[r].price) \cup {r}
         /\ \A k \in S : k = r \/ HasHigherPriority(t, r, k)
         /\ t[r].subtreeQuantity = Total(t, S) /\ t[r].subtreeLevels = Cardinality(S)
<1> DEFINE p == t[r].price
<1>1. r \in S /\ S \in SUBSET DOMAIN t /\ \A k \in S : k = r \/ HasHigherPriority(t, r, k)
  BY DEF Tree, Tops
<1>2. Span(t, S, r) = S
  BY <1>1, SpanOfTop
<1>3. \A k \in S : t[k].price \in Int
  BY <1>1, NodeTypes
<1>4. S = Lower(t, S, p) \cup Upper(t, S, p) \cup {r}
  <2>1. \A k \in S : t[k].price = p => k = r
    BY <1>1 DEF Tree
  <2> QED BY <1>1, <1>3, <2>1 DEF Lower, Upper
<1>5. ASSUME NEW T, T = Lower(t, S, p) \/ T = Upper(t, S, p), NEW c, Tops(t, T, c)
      PROVE  Tree(t, T, c)
  <2>1. T \subseteq S /\ T \subseteq DOMAIN t
    BY <1>1, <1>5 DEF Lower, Upper
  <2>2. \A i \in T : Span(t, T, i) = Span(t, S, i)
    BY <1>1, <1>5, SpanOfPart
  <2> QED BY <1>5, <2>1, <2>2 DEF Tree
<1>6. Tops(t, Lower(t, S, p), t[r].left) /\ Tops(t, Upper(t, S, p), t[r].right)
  BY <1>1, <1>2 DEF Tree
<1>7. t[r].subtreeQuantity = Total(t, S) /\ t[r].subtreeLevels = Cardinality(S)
  BY <1>1, <1>2 DEF Tree
<1> QED BY <1>1, <1>4, <1>5, <1>6, <1>7

(* No node is in the empty treap, which has no root.                       *)
LEMMA TreeEmpty ==
  ASSUME NEW t
  PROVE  /\ Tree(t, {}, nullIndex)
         /\ \A S : Tree(t, S, nullIndex) /\ Vector(t) => S = {}
         /\ \A r : Tree(t, {}, r) => r = nullIndex
<1>1. ASSUME NEW S, Tree(t, S, nullIndex), Vector(t) PROVE S = {}
  BY <1>1 DEF Tree, Tops, Vector, nullIndex
<1> QED BY <1>1 DEF Tree, Tops

(* What a treap is depends only on its own nodes.                          *)
LEMMA TreeFrame ==
  ASSUME NEW t, NEW u, NEW S, NEW r, Tree(t, S, r), Vector(t), S \subseteq DOMAIN u,
         \A i \in S : u[i] = t[i]
  PROVE  Tree(u, S, r)
<1>1. S \subseteq DOMAIN t
  BY DEF Tree
<1>2. \A i, j \in S : HasHigherPriority(u, i, j) <=> HasHigherPriority(t, i, j)
  BY DEF HasHigherPriority
<1>3. \A i, j, k \in S : InRange(u, i, j, k) <=> InRange(t, i, j, k)
  BY DEF InRange
<1>4. \A i \in S : Span(u, S, i) = Span(t, S, i)
  BY <1>2, <1>3 DEF Span
<1>5. \A T \in SUBSET S : \A p : Lower(u, T, p) = Lower(t, T, p) /\ Upper(u, T, p) = Upper(t, T, p)
  BY DEF Lower, Upper
<1>6. \A T \in SUBSET S : \A c : Tops(u, T, c) <=> Tops(t, T, c)
  BY <1>2 DEF Tops
<1>7. \A T \in SUBSET S : Total(u, T) = Total(t, T)
  <2> SUFFICES ASSUME NEW T \in SUBSET S PROVE Total(u, T) = Total(t, T)
    OBVIOUS
  <2>1. IsFiniteSet(T)
    BY <1>1, FS_Subset DEF Vector
  <2>2. \A i \in T : Amounts(u)[i] = Amounts(t)[i]
    BY <1>1 DEF Amounts
  <2> QED BY <2>1, <2>2, SumSame DEF Total
<1>8. \A i \in S : /\ Span(t, S, i) \in SUBSET S
                   /\ Lower(t, Span(t, S, i), t[i].price) \in SUBSET S
                   /\ Upper(t, Span(t, S, i), t[i].price) \in SUBSET S
  BY DEF Span, Lower, Upper
<1>9. ASSUME NEW i \in S
      PROVE  /\ Tops(u, Lower(u, Span(u, S, i), u[i].price), u[i].left)
             /\ Tops(u, Upper(u, Span(u, S, i), u[i].price), u[i].right)
             /\ u[i].subtreeQuantity = Total(u, Span(u, S, i))
             /\ u[i].subtreeLevels = Cardinality(Span(u, S, i))
  BY <1>4, <1>5, <1>6, <1>7, <1>8, <1>9 DEF Tree
<1> QED BY <1>6, <1>9 DEF Tree

(* Sums over the nodes of a vector.                                        *)
LEMMA TotalType ==
  ASSUME NEW t, Vector(t), NEW S \in SUBSET DOMAIN t
  PROVE  /\ IsFiniteSet(S) /\ Total(t, S) \in Int /\ Cardinality(S) \in Nat
         /\ Total(t, {}) = 0 /\ Cardinality({}) = 0
         /\ \A i \in S : Amounts(t)[i] = t[i].quantity /\ t[i].quantity \in Int
<1>1. IsFiniteSet(S)
  BY FS_Subset DEF Vector
<1>2. \A i \in S : Amounts(t)[i] = t[i].quantity /\ t[i].quantity \in Int
  BY NodeTypes DEF Amounts
<1>3. Total(t, S) \in Int
  BY <1>1, <1>2, SumType DEF Total
<1>4. Total(t, {}) = 0
  BY SumEmpty DEF Total
<1> QED BY <1>1, <1>2, <1>3, <1>4, FS_CardinalityType, FS_EmptySet

(* What two sets of nodes and a node of neither amount to.                 *)
LEMMA TotalParts ==
  ASSUME NEW t, Vector(t), NEW L \in SUBSET DOMAIN t, NEW U \in SUBSET DOMAIN t,
         L \cap U = {}, NEW r \in DOMAIN t, r \notin L \cup U
  PROVE  /\ Total(t, L \cup U \cup {r}) = Total(t, L) + t[r].quantity + Total(t, U)
         /\ Cardinality(L \cup U \cup {r}) = Cardinality(L) + 1 + Cardinality(U)
<1>1. /\ IsFiniteSet(L) /\ IsFiniteSet(U) /\ IsFiniteSet(L \cup U)
      /\ Cardinality(L) \in Nat /\ Cardinality(U) \in Nat
      /\ Total(t, L) \in Int /\ Total(t, U) \in Int
  BY TotalType
<1>2. \A i \in DOMAIN t : Amounts(t)[i] = t[i].quantity /\ t[i].quantity \in Int
  BY TotalType
<1>3. Total(t, L \cup U) = Total(t, L) + Total(t, U)
  BY <1>1, <1>2, SumUnion DEF Total
<1>4. Total(t, L \cup U \cup {r}) = Total(t, L \cup U) + t[r].quantity
  <2>1. \A x \in (L \cup U) \cup {r} : Amounts(t)[x] \in Int
    BY <1>2
  <2>2. Total(t, L \cup U \cup {r}) = Total(t, L \cup U) + Amounts(t)[r]
    BY <1>1, <2>1, SumAdd DEF Total
  <2> QED BY <1>2, <2>2
<1>5. Total(t, L \cup U \cup {r}) = Total(t, L) + t[r].quantity + Total(t, U)
  BY <1>1, <1>2, <1>3, <1>4
<1>6. Cardinality(L \cup U) = Cardinality(L) + Cardinality(U)
  <2>1. Cardinality(L \cup U) = Cardinality(L) + Cardinality(U) - Cardinality(L \cap U)
    BY <1>1, FS_Union
  <2> QED BY <1>1, <2>1, FS_EmptySet
<1>7. Cardinality(L \cup U \cup {r}) = Cardinality(L \cup U) + 1
  BY <1>1, FS_AddElement
<1> QED BY <1>1, <1>5, <1>6, <1>7

(* What updateAggregates reads off the root of a treap.                    *)
LEMMA TreeSums ==
  ASSUME NEW t, Vector(t), NEW S, NEW r, Tree(t, S, r)
  PROVE  /\ SubtreeQuantity(t, r) = Total(t, S)
         /\ SubtreeLevels(t, r) = Cardinality(S)
         /\ r \in S \cup {nullIndex} /\ S \in SUBSET DOMAIN t
<1>1. CASE r = nullIndex
  <2>1. S = {}
    BY <1>1, TreeEmpty
  <2> QED BY <1>1, <2>1, TotalType DEF SubtreeQuantity, SubtreeLevels
<1>2. CASE r # nullIndex
  BY <1>2, TreeParts DEF SubtreeQuantity, SubtreeLevels, Tree
<1> QED BY <1>1, <1>2

(* A node above two treaps, between them by its price, makes one of them.  *)
LEMMA TreeJoin ==
  ASSUME NEW t, Vector(t), NEW L, NEW U, NEW r \in DOMAIN t,
         Tree(t, L, t[r].left), Tree(t, U, t[r].right),
         \A k \in L : t[k].price < t[r].price, \A k \in U : t[k].price > t[r].price,
         \A k \in L \cup U : HasHigherPriority(t, r, k),
         t[r].subtreeQuantity = Total(t, L) + t[r].quantity + Total(t, U),
         t[r].subtreeLevels = Cardinality(L) + 1 + Cardinality(U)
  PROVE  Tree(t, L \cup U \cup {r}, r)
<1> DEFINE S == L \cup U \cup {r}
           p == t[r].price
<1>1. L \subseteq DOMAIN t /\ U \subseteq DOMAIN t /\ S \in SUBSET DOMAIN t /\ r \in S
  BY DEF Tree
<1>2. \A k \in S : t[k].price \in Int
  BY <1>1, NodeTypes
<1>3. r \notin L \cup U /\ L \cap U = {}
  BY <1>1, <1>2
<1>4. \A i, j \in S : t[i].price = t[j].price => i = j
  <2>1. /\ \A i, j \in L : t[i].price = t[j].price => i = j
        /\ \A i, j \in U : t[i].price = t[j].price => i = j
    BY DEF Tree
  <2> QED BY <1>2, <2>1
<1>5. \A k \in S : k = r \/ HasHigherPriority(t, r, k)
  OBVIOUS
<1>6. Lower(t, S, p) = L /\ Upper(t, S, p) = U
  BY <1>2 DEF Lower, Upper
<1>7. Span(t, S, r) = S
  BY <1>5, SpanOfTop
<1>8. \A T \in {L, U} : \A i \in T : Span(t, T, i) = Span(t, S, i)
  <2>1. ASSUME NEW T \in {L, U}, NEW i \in T PROVE Span(t, T, i) = Span(t, S, i)
    <3>1. T = Lower(t, S, p) \/ T = Upper(t, S, p)
      BY <1>6
    <3> HIDE DEF S
    <3> QED BY <1>1, <1>5, <3>1, SpanOfPart
  <2> QED BY <2>1
<1>9. Total(t, S) = t[r].subtreeQuantity /\ Cardinality(S) = t[r].subtreeLevels
  BY <1>1, <1>3, TotalParts
<1> DEFINE Right(i) ==
             /\ Tops(t, Lower(t, Span(t, S, i), t[i].price), t[i].left)
             /\ Tops(t, Upper(t, Span(t, S, i), t[i].price), t[i].right)
             /\ t[i].subtreeQuantity = Total(t, Span(t, S, i))
             /\ t[i].subtreeLevels = Cardinality(Span(t, S, i))
<1>10. Right(r)
  <2>1. Tops(t, L, t[r].left) /\ Tops(t, U, t[r].right)
    BY DEF Tree
  <2> HIDE DEF S
  <2> QED BY <1>6, <1>7, <1>9, <2>1
<1>11. ASSUME NEW T \in {L, U}, NEW i \in T PROVE Right(i)
  <2>1. \E c : Tree(t, T, c)
    OBVIOUS
  <2>2. /\ Tops(t, Lower(t, Span(t, T, i), t[i].price), t[i].left)
        /\ Tops(t, Upper(t, Span(t, T, i), t[i].price), t[i].right)
        /\ t[i].subtreeQuantity = Total(t, Span(t, T, i))
        /\ t[i].subtreeLevels = Cardinality(Span(t, T, i))
    BY <2>1 DEF Tree
  <2>3. Span(t, T, i) = Span(t, S, i)
    BY <1>8
  <2> HIDE DEF S
  <2> QED BY <2>2, <2>3
<1>12. \A i \in S : Right(i)
  <2> HIDE DEF Right
  <2> QED BY <1>10, <1>11
<1>13. Tops(t, S, r)
  BY <1>5 DEF Tops
<1> HIDE DEF S
<1> QED BY <1>1, <1>4, <1>12, <1>13 DEF Tree, S

-----------------------------------------------------------------------------
(* Vectors that differ in some links and sums.                             *)

(* Vector u is t with other links and sums in the nodes S. *)
Relinked(t, u, S) ==
  /\ u \in Vectors(t)
  /\ \A i \in DOMAIN t :
       /\ u[i].price = t[i].price /\ u[i].quantity = t[i].quantity
       /\ u[i].priority = t[i].priority
       /\ i \notin S => u[i] = t[i]

(* A vector with as many nodes is one.                                     *)
LEMMA VectorsAlike ==
  ASSUME NEW t, Vector(t), NEW u \in Vectors(t)
  PROVE  Vector(u) /\ DOMAIN u = DOMAIN t /\ Link(u) = Link(t) /\ Vectors(u) = Vectors(t)
<1>1. DOMAIN u = DOMAIN t
  BY DEF Vectors
<1>2. Link(u) = Link(t) /\ Node(u) = Node(t)
  BY <1>1 DEF Link, Node
<1> QED BY <1>1, <1>2 DEF Vector, Vectors

(* What is ordered, summed and held apart by the prices stays so.          *)
LEMMA RelinkedKeeps ==
  ASSUME NEW t, Vector(t), NEW u, NEW S, Relinked(t, u, S)
  PROVE  /\ Vector(u) /\ DOMAIN u = DOMAIN t /\ Link(u) = Link(t)
         /\ \A i, j \in DOMAIN t : HasHigherPriority(u, i, j) <=> HasHigherPriority(t, i, j)
         /\ \A T \in SUBSET DOMAIN t :
              /\ Total(u, T) = Total(t, T)
              /\ \A p : Lower(u, T, p) = Lower(t, T, p) /\ Upper(u, T, p) = Upper(t, T, p)
         /\ \A B, b : Tree(t, B, b) /\ B \cap S = {} => Tree(u, B, b)
<1>1. Vector(u) /\ DOMAIN u = DOMAIN t /\ Link(u) = Link(t)
  BY VectorsAlike DEF Relinked
<1>2. \A i, j \in DOMAIN t : HasHigherPriority(u, i, j) <=> HasHigherPriority(t, i, j)
  BY DEF HasHigherPriority, Relinked
<1>3. \A T \in SUBSET DOMAIN t : \A p : Lower(u, T, p) = Lower(t, T, p) /\ Upper(u, T, p) = Upper(t, T, p)
  BY DEF Lower, Upper, Relinked
<1>4. Amounts(u) = Amounts(t)
  BY <1>1 DEF Amounts, Relinked
<1>5. ASSUME NEW B, NEW b, Tree(t, B, b), B \cap S = {} PROVE Tree(u, B, b)
  <2>1. B \subseteq DOMAIN u /\ \A i \in B : u[i] = t[i]
    BY <1>1, <1>5 DEF Tree, Relinked
  <2> QED BY <1>5, <2>1, TreeFrame
<1> QED BY <1>1, <1>2, <1>3, <1>4, <1>5 DEF Total

(* Changes one after the other.                                            *)
LEMMA RelinkedTwice ==
  ASSUME NEW t, Vector(t), NEW u, NEW v, NEW S, NEW T, NEW Q,
         Relinked(t, u, S), Relinked(u, v, T), S \subseteq Q, T \subseteq Q
  PROVE  Relinked(t, v, Q)
<1>1. DOMAIN u = DOMAIN t /\ Vectors(u) = Vectors(t)
  BY VectorsAlike DEF Relinked
<1> QED BY <1>1 DEF Relinked

(* Nothing has changed.                                                    *)
LEMMA RelinkedNot ==
  ASSUME NEW t, Vector(t), NEW S
  PROVE  Relinked(t, t, S)
BY DEF Relinked, Vector

(* A node's children, changed. *)
WithLeft(u, i, c) == [u EXCEPT ![i].left = c]

WithRight(u, i, c) == [u EXCEPT ![i].right = c]

(* A node may get another child.                                           *)
LEMMA LinkSet ==
  ASSUME NEW t, Vector(t)
  PROVE  \A u \in Vectors(t) : \A i \in DOMAIN t : \A c \in Link(t) :
           /\ \A S : i \in S => /\ Relinked(u, WithLeft(u, i, c), S)
                              /\ Relinked(u, WithRight(u, i, c), S)
           /\ WithLeft(u, i, c) \in Vectors(t)
           /\ WithLeft(u, i, c)[i].left = c /\ WithLeft(u, i, c)[i].right = u[i].right
           /\ WithRight(u, i, c) \in Vectors(t)
           /\ WithRight(u, i, c)[i].left = u[i].left /\ WithRight(u, i, c)[i].right = c
<1> SUFFICES ASSUME NEW u \in Vectors(t), NEW i \in DOMAIN t, NEW c \in Link(t)
             PROVE  /\ \A S : i \in S => /\ Relinked(u, WithLeft(u, i, c), S)
                                       /\ Relinked(u, WithRight(u, i, c), S)
                    /\ WithLeft(u, i, c) \in Vectors(t)
                    /\ WithLeft(u, i, c)[i].left = c /\ WithLeft(u, i, c)[i].right = u[i].right
                    /\ WithRight(u, i, c) \in Vectors(t)
                    /\ WithRight(u, i, c)[i].left = u[i].left /\ WithRight(u, i, c)[i].right = c
  OBVIOUS
<1>1. u[i] \in Node(t) /\ DOMAIN u = DOMAIN t /\ Vectors(u) = Vectors(t)
  BY VectorsAlike DEF Vectors
<1>2. /\ [u[i] EXCEPT !.left = c] \in Node(t)
      /\ [u[i] EXCEPT !.right = c] \in Node(t)
  BY <1>1 DEF Node
<1>3. ASSUME NEW n \in Node(t), n.price = u[i].price, n.quantity = u[i].quantity,
             n.priority = u[i].priority
      PROVE  (\A S : i \in S => Relinked(u, [u EXCEPT ![i] = n], S)) /\ [u EXCEPT ![i] = n] \in Vectors(t)
  BY <1>1, <1>3 DEF Relinked, Vectors
<1>4. /\ [u[i] EXCEPT !.left = c].price = u[i].price
      /\ [u[i] EXCEPT !.left = c].quantity = u[i].quantity
      /\ [u[i] EXCEPT !.left = c].priority = u[i].priority
      /\ [u[i] EXCEPT !.left = c].left = c
      /\ [u[i] EXCEPT !.left = c].right = u[i].right
      /\ [u[i] EXCEPT !.right = c].price = u[i].price
      /\ [u[i] EXCEPT !.right = c].quantity = u[i].quantity
      /\ [u[i] EXCEPT !.right = c].priority = u[i].priority
      /\ [u[i] EXCEPT !.right = c].left = u[i].left
      /\ [u[i] EXCEPT !.right = c].right = c
  BY <1>1 DEF Node
<1>5. /\ \A S : i \in S => /\ Relinked(u, [u EXCEPT ![i] = [u[i] EXCEPT !.left = c]], S)
                           /\ Relinked(u, [u EXCEPT ![i] = [u[i] EXCEPT !.right = c]], S)
      /\ [u EXCEPT ![i] = [u[i] EXCEPT !.left = c]] \in Vectors(t)
      /\ [u EXCEPT ![i] = [u[i] EXCEPT !.right = c]] \in Vectors(t)
  BY <1>2, <1>3, <1>4
<1>6. \A n : [u EXCEPT ![i] = n][i] = n
  BY <1>1 DEF Vectors
<1> QED BY <1>4, <1>5, <1>6 DEF WithLeft, WithRight

(* The sums of a node are recomputed from its children's.                  *)
LEMMA SumsSet ==
  ASSUME NEW t, Vector(t), NEW w \in Vectors(t), NEW i \in DOMAIN t
  PROVE  LET v == UpdateAggregates(w, i)
         IN /\ Relinked(w, v, {i}) /\ v \in Vectors(t)
            /\ v[i].left = w[i].left /\ v[i].right = w[i].right
            /\ v[i].subtreeQuantity = SubtreeQuantity(w, w[i].left) + w[i].quantity
                                        + SubtreeQuantity(w, w[i].right)
            /\ v[i].subtreeLevels = SubtreeLevels(w, w[i].left) + 1
                                        + SubtreeLevels(w, w[i].right)
<1> DEFINE q == SubtreeQuantity(w, w[i].left) + w[i].quantity + SubtreeQuantity(w, w[i].right)
           l == SubtreeLevels(w, w[i].left) + 1 + SubtreeLevels(w, w[i].right)
           n == [w[i] EXCEPT !.subtreeQuantity = q, !.subtreeLevels = l]
<1>1. w[i] \in Node(t) /\ DOMAIN w = DOMAIN t /\ Vectors(w) = Vectors(t) /\ Vector(w) /\ Link(w) = Link(t)
  BY VectorsAlike DEF Vectors
<1>2. ASSUME NEW c \in Link(t) PROVE SubtreeQuantity(w, c) \in Int /\ SubtreeLevels(w, c) \in Int
  <2>1. c = nullIndex \/ c \in DOMAIN w
    BY <1>1, <1>2 DEF Link
  <2> QED BY <1>1, <2>1, NodeTypes DEF SubtreeQuantity, SubtreeLevels
<1>3. w[i].left \in Link(t) /\ w[i].right \in Link(t) /\ w[i].quantity \in Int
  BY <1>1 DEF Node
<1>4. q \in Int /\ l \in Int
  BY <1>2, <1>3
<1>5. UpdateAggregates(w, i) = [w EXCEPT ![i] = n]
  <2>1. w = [j \in DOMAIN t |-> w[j]]
    BY <1>1 DEF Vectors
  <2> HIDE DEF q, l
  <2> QED BY <1>1, <2>1 DEF UpdateAggregates, q, l, Vectors
<1> HIDE DEF q, l
<1>6. /\ n \in Node(t) /\ n.price = w[i].price /\ n.quantity = w[i].quantity
      /\ n.priority = w[i].priority /\ n.left = w[i].left /\ n.right = w[i].right
      /\ n.subtreeQuantity = q /\ n.subtreeLevels = l
  BY <1>1, <1>4 DEF Node
<1> HIDE DEF n
<1>7. Relinked(w, [w EXCEPT ![i] = n], {i}) /\ [w EXCEPT ![i] = n] \in Vectors(t)
  BY <1>1, <1>6 DEF Relinked, Vectors
<1>8. [w EXCEPT ![i] = n][i] = n
  BY <1>1 DEF Vectors
<1> QED BY <1>5, <1>6, <1>7, <1>8 DEF q, l

(* A node with two treaps under it gets links to their roots and new sums. *)
LEMMA Join ==
  ASSUME NEW t, Vector(t), NEW r \in DOMAIN t, NEW w, Relinked(t, w, {r}), NEW L, NEW U,
         Tree(t, L, w[r].left), Tree(t, U, w[r].right), r \notin L \cup U,
         \A k \in L : t[k].price < t[r].price, \A k \in U : t[k].price > t[r].price,
         \A k \in L \cup U : HasHigherPriority(t, r, k)
  PROVE  LET v == UpdateAggregates(w, r)
         IN Relinked(t, v, {r}) /\ Tree(v, L \cup U \cup {r}, r)
<1>1. w \in Vectors(t) /\ Vector(w) /\ DOMAIN w = DOMAIN t
  BY VectorsAlike DEF Relinked
<1> DEFINE v == UpdateAggregates(w, r)
<1>2. /\ Relinked(w, v, {r})
      /\ v[r].left = w[r].left /\ v[r].right = w[r].right
      /\ v[r].subtreeQuantity = SubtreeQuantity(w, w[r].left) + w[r].quantity
                                  + SubtreeQuantity(w, w[r].right)
      /\ v[r].subtreeLevels = SubtreeLevels(w, w[r].left) + 1
                                  + SubtreeLevels(w, w[r].right)
  BY <1>1, SumsSet
<1> HIDE DEF v
<1>3. Relinked(t, v, {r})
  BY <1>2, RelinkedTwice
<1>4. /\ Vector(v) /\ DOMAIN v = DOMAIN t
      /\ Tree(w, L, w[r].left) /\ Tree(w, U, w[r].right)
      /\ Tree(v, L, v[r].left) /\ Tree(v, U, v[r].right)
      /\ \A T \in SUBSET DOMAIN t : Total(w, T) = Total(t, T) /\ Total(v, T) = Total(t, T)
  BY <1>2, <1>3, RelinkedKeeps
<1>5. /\ SubtreeQuantity(w, w[r].left) = Total(t, L) /\ SubtreeLevels(w, w[r].left) = Cardinality(L)
      /\ SubtreeQuantity(w, w[r].right) = Total(t, U) /\ SubtreeLevels(w, w[r].right) = Cardinality(U)
      /\ L \in SUBSET DOMAIN t /\ U \in SUBSET DOMAIN t
  BY <1>1, <1>4, TreeSums
<1>6. /\ v[r].subtreeQuantity = Total(v, L) + v[r].quantity + Total(v, U)
      /\ v[r].subtreeLevels = Cardinality(L) + 1 + Cardinality(U)
  <2>1. w[r].quantity = v[r].quantity
    BY <1>1, <1>2 DEF Relinked
  <2> QED BY <1>2, <1>4, <1>5, <2>1
<1>7. \A i \in DOMAIN t : v[i].price = t[i].price /\ v[i].priority = t[i].priority
  BY <1>3 DEF Relinked
<1>8. \A k \in L \cup U : HasHigherPriority(v, r, k)
  BY <1>5, <1>7 DEF HasHigherPriority
<1>9. (\A k \in L : v[k].price < v[r].price) /\ (\A k \in U : v[k].price > v[r].price)
  BY <1>5, <1>7
<1>10. Tree(v, L \cup U \cup {r}, r)
  BY <1>4, <1>6, <1>8, <1>9, TreeJoin
<1> QED BY <1>3, <1>10 DEF v

-----------------------------------------------------------------------------
(* Recursive functions.                                                    *)

(* Induction over ranks, with what the claim holds of as a set.            *)
LEMMA RankInduction ==
  ASSUME NEW D, NEW rank \in [D -> Nat], NEW P,
         \A x \in D : (\A y \in D : rank[y] < rank[x] => y \in P) => x \in P
  PROVE  D \subseteq P
<1> DEFINE Q == {n \in Nat : \A x \in D : rank[x] < n => x \in P}
<1>1. 0 \in Q
  OBVIOUS
<1>2. ASSUME NEW n \in Nat, n \in Q PROVE n + 1 \in Q
  <2> SUFFICES ASSUME NEW x \in D, rank[x] < n + 1 PROVE x \in P
    OBVIOUS
  <2>1. ASSUME NEW y \in D, rank[y] < rank[x] PROVE y \in P
    BY <1>2, <2>1
  <2> QED BY <2>1
<1>3. Nat \subseteq Q
  <2> HIDE DEF Q
  <2> QED BY <1>1, <1>2, NatSet
<1>4. ASSUME NEW x \in D PROVE x \in P
  <2>1. rank[x] + 1 \in Q
    BY <1>3
  <2> QED BY <2>1
<1> QED BY <1>4

(* The next approximation G makes of a function depends at x only on what  *)
(* the function is at lower ranks.                                         *)
Descends(D, V, rank, G) ==
  /\ G \in [[D -> V] -> [D -> V]]
  /\ \A f, g \in [D -> V] : \A x \in D :
       (\A y \in D : rank[y] < rank[x] => f[y] = g[y]) => G[f][x] = G[g][x]

(* A recursion that goes down in rank defines a function. *)
LEMMA Recursion ==
  ASSUME NEW D, NEW V, V # {}, NEW N \in Nat, NEW rank \in [D -> 0 .. N],
         NEW G, Descends(D, V, rank, G)
  PROVE  \E f \in [D -> V] : f = G[f]
<1> USE DEF Descends
<1> DEFINE P == {n \in Nat : \E f \in [D -> V] : \A x \in D : rank[x] < n => f[x] = G[f][x]}
<1>1. 0 \in P
  <2>1. PICK v \in V : TRUE
    OBVIOUS
  <2>2. [x \in D |-> v] \in [D -> V]
    OBVIOUS
  <2>3. \A x \in D : ~(rank[x] < 0)
    OBVIOUS
  <2> QED BY <2>2, <2>3
<1>2. ASSUME NEW n \in Nat, n \in P PROVE n + 1 \in P
  <2>1. PICK f \in [D -> V] : \A x \in D : rank[x] < n => f[x] = G[f][x]
    BY <1>2
  <2>2. G[f] \in [D -> V]
    OBVIOUS
  <2>3. ASSUME NEW x \in D, rank[x] < n + 1 PROVE G[f][x] = G[G[f]][x]
    <3>1. \A y \in D : rank[y] < rank[x] => f[y] = G[f][y]
      BY <2>1, <2>3
    <3> QED BY <2>2, <3>1
  <2> QED BY <2>2, <2>3
<1>3. N + 1 \in P
  <2>1. Nat \subseteq P
    <3> HIDE DEF P
    <3> QED BY <1>1, <1>2, NatSet
  <2> QED BY <2>1
<1>4. PICK f \in [D -> V] : \A x \in D : rank[x] < N + 1 => f[x] = G[f][x]
  BY <1>3
<1>5. \A x \in D : f[x] = G[f][x]
  BY <1>4
<1>6. G[f] \in [D -> V]
  OBVIOUS
<1> QED BY <1>5, <1>6

(* The links of t lead down. *)
Ranked(t, rank, N) ==
  /\ N \in Nat /\ rank \in [Link(t) -> 0 .. N]
  /\ \A i \in DOMAIN t : /\ t[i].left \in Link(t) /\ t[i].right \in Link(t)
                         /\ rank[t[i].left] < rank[i] /\ rank[t[i].right] < rank[i]

Grounded(t) == \E rank, N : Ranked(t, rank, N)

(* The nodes above which a child is are among those its parent is above.   *)
LEMMA SpanNested ==
  ASSUME NEW t, Vector(t), NEW S, NEW r, Tree(t, S, r), NEW i \in S,
         NEW c \in {t[i].left, t[i].right}, c # nullIndex
  PROVE  /\ c \in S /\ c \in Span(t, S, i) /\ c # i
         /\ Span(t, S, c) \subseteq Span(t, S, i) \ {i}
<1>1. S \subseteq DOMAIN t /\ i \in DOMAIN t
  BY DEF Tree
<1>2. \A k \in S : t[k].price \in Int
  BY <1>1, NodeTypes
<1> DEFINE I == Span(t, S, i)
<1>3. PICK T \in {Lower(t, I, t[i].price), Upper(t, I, t[i].price)} : Tops(t, T, c)
  BY DEF Tree
<1>4. c \in T /\ \A k \in T : k = c \/ HasHigherPriority(t, c, k)
  BY <1>3 DEF Tops
<1>5. c \in S /\ c \in I /\ c # i /\ i \notin T
  BY <1>1, <1>2, <1>4 DEF Lower, Upper, Span
<1>6. HasHigherPriority(t, i, c) /\ ~HasHigherPriority(t, c, i)
  <2>1. InRange(t, i, c, c)
    BY <1>2, <1>5 DEF InRange
  <2>2. HasHigherPriority(t, i, c)
    BY <1>5, <2>1 DEF Span
  <2> QED BY <1>1, <1>5, <2>2, PriorityOrder
<1>7. ASSUME NEW j \in Span(t, S, c) PROVE j \in I \ {i}
  <2>1. j \in S /\ \A k \in S : InRange(t, c, j, k) => k = c \/ HasHigherPriority(t, c, k)
    BY DEF Span
  <2>2. ~InRange(t, c, j, i)
    BY <1>5, <1>6, <2>1
  <2>3. j # i
    BY <1>2, <1>5, <2>2 DEF InRange
  <2>4. ASSUME NEW k \in S, InRange(t, i, j, k) PROVE k = i \/ HasHigherPriority(t, i, k)
    <3>1. InRange(t, i, c, k) \/ InRange(t, c, j, k)
      BY <1>2, <1>5, <2>1, <2>4 DEF InRange
    <3>2. CASE InRange(t, i, c, k)
      BY <1>5, <3>2 DEF Span
    <3>3. CASE InRange(t, c, j, k)
      <4>1. k = c \/ HasHigherPriority(t, c, k)
        BY <2>1, <3>3
      <4> QED BY <1>1, <1>5, <1>6, <4>1, PriorityOrder
    <3> QED BY <3>1, <3>2, <3>3
  <2> QED BY <2>1, <2>3, <2>4 DEF Span
<1> QED BY <1>5, <1>7

(* A treap, and nodes without children besides, is a vector whose links    *)
(* lead down: to nodes that are above fewer.                               *)
LEMMA TreeGrounded ==
  ASSUME NEW t, Vector(t), NEW S, NEW r, Tree(t, S, r),
         \A i \in DOMAIN t \ S : t[i].left = nullIndex /\ t[i].right = nullIndex
  PROVE  Grounded(t)
<1> DEFINE N == Cardinality(DOMAIN t) + 1
           size(i) == IF i = nullIndex THEN 0
                      ELSE IF i \in S THEN Cardinality(Span(t, S, i)) ELSE 1
           rank == [i \in Link(t) |-> size(i)]
<1>1. /\ S \subseteq DOMAIN t /\ IsFiniteSet(DOMAIN t) /\ Cardinality(DOMAIN t) \in Nat
      /\ \A i \in DOMAIN t : i # nullIndex /\ i \in Link(t)
                             /\ t[i].left \in Link(t) /\ t[i].right \in Link(t)
  BY NodeTypes, FS_CardinalityType DEF Tree, Vector
<1>2. ASSUME NEW i \in S
      PROVE  /\ IsFiniteSet(Span(t, S, i)) /\ i \in Span(t, S, i)
             /\ Cardinality(Span(t, S, i)) \in 1 .. N
  <2>1. \A k \in S : t[k].price \in Int
    BY <1>1, NodeTypes
  <2>2. i \in Span(t, S, i)
    <3>1. \A k \in S : InRange(t, i, i, k) => k = i
      <4>1. \A k \in S : InRange(t, i, i, k) => t[k].price = t[i].price
        BY <2>1 DEF InRange
      <4> QED BY <4>1 DEF Tree
    <3> QED BY <3>1 DEF Span
  <2>3. Span(t, S, i) \subseteq DOMAIN t
    BY <1>1 DEF Span
  <2>4. IsFiniteSet(Span(t, S, i)) /\ Cardinality(Span(t, S, i)) <= Cardinality(DOMAIN t)
    BY <1>1, <2>3, FS_Subset
  <2>5. Cardinality(Span(t, S, i)) \in Nat /\ Cardinality(Span(t, S, i)) # 0
    BY <2>2, <2>4, FS_CardinalityType, FS_EmptySet
  <2> QED BY <1>1, <2>2, <2>4, <2>5
<1>3. N \in Nat /\ \A i \in Link(t) : size(i) \in 0 .. N
  <2>1. ASSUME NEW i \in Link(t) PROVE size(i) \in 0 .. N
    <3>1. CASE i \in S
      <4>1. size(i) = Cardinality(Span(t, S, i))
        BY <1>1, <3>1
      <4> QED BY <1>2, <3>1, <4>1
    <3>2. CASE i \notin S
      BY <1>1, <3>2
    <3> QED BY <3>1, <3>2
  <2> QED BY <1>1, <2>1
<1>4. ASSUME NEW i \in DOMAIN t, NEW c \in {t[i].left, t[i].right} PROVE size(c) < size(i)
  <2>1. CASE i \notin S
    BY <1>1, <1>4, <2>1
  <2>2. CASE i \in S /\ c = nullIndex
    <3>1. size(c) = 0 /\ size(i) = Cardinality(Span(t, S, i))
      BY <1>1, <2>2
    <3> QED BY <1>2, <2>2, <3>1
  <2>3. CASE i \in S /\ c # nullIndex
    <3>1. c \in S /\ Span(t, S, c) \subseteq Span(t, S, i) \ {i}
      BY <1>4, <2>3, SpanNested
    <3>2. size(c) = Cardinality(Span(t, S, c)) /\ size(i) = Cardinality(Span(t, S, i))
      BY <1>1, <2>3, <3>1
    <3>3. Span(t, S, c) \subseteq Span(t, S, i) /\ Span(t, S, c) # Span(t, S, i)
      BY <1>2, <2>3, <3>1
    <3>4. Cardinality(Span(t, S, c)) < Cardinality(Span(t, S, i))
      <4>1. IsFiniteSet(Span(t, S, i))
        BY <1>2, <2>3
      <4>2. /\ Cardinality(Span(t, S, c)) <= Cardinality(Span(t, S, i))
            /\ Cardinality(Span(t, S, c)) # Cardinality(Span(t, S, i))
        BY <3>3, <4>1, FS_Subset
      <4>3. Cardinality(Span(t, S, c)) \in 1 .. N /\ Cardinality(Span(t, S, i)) \in 1 .. N
        BY <1>2, <2>3, <3>1
      <4> QED BY <1>3, <4>2, <4>3
    <3> QED BY <3>2, <3>4
  <2> QED BY <2>1, <2>2, <2>3
<1> HIDE DEF size, N
<1>5. Ranked(t, rank, N)
  BY <1>1, <1>3, <1>4 DEF Ranked
<1> QED BY <1>5 DEF Grounded

(* Induction over the nodes from the leaves up.                            *)
LEMMA UpInduction ==
  ASSUME NEW t, Grounded(t), nullIndex \notin DOMAIN t, NEW P, nullIndex \in P,
         \A i \in DOMAIN t : t[i].left \in P /\ t[i].right \in P => i \in P
  PROVE  Link(t) \subseteq P
<1>1. PICK rank, N : Ranked(t, rank, N)
  BY DEF Grounded
<1>2. rank \in [Link(t) -> Nat]
  BY <1>1 DEF Ranked
<1>3. ASSUME NEW i \in Link(t), \A j \in Link(t) : rank[j] < rank[i] => j \in P PROVE i \in P
  <2>1. CASE i \in DOMAIN t
    BY <1>1, <1>3, <2>1 DEF Ranked
  <2> QED BY <2>1 DEF Link
<1> QED BY <1>2, <1>3, RankInduction

(* The same over pairs of nodes.                                           *)
LEMMA PairInduction ==
  ASSUME NEW t, Grounded(t), nullIndex \notin DOMAIN t, NEW P,
         \A i \in Link(t) : <<nullIndex, i>> \in P /\ <<i, nullIndex>> \in P,
         \A l, r \in DOMAIN t :
           <<t[l].right, r>> \in P /\ <<l, t[r].left>> \in P => <<l, r>> \in P
  PROVE  \A l, r \in Link(t) : <<l, r>> \in P
<1> DEFINE Q == {l \in Link(t) : \A r \in Link(t) : <<l, r>> \in P}
<1>1. nullIndex \in Q
  BY DEF Link
<1>2. ASSUME NEW l \in DOMAIN t, t[l].left \in Q, t[l].right \in Q PROVE l \in Q
  <2> DEFINE R == {r \in Link(t) : <<l, r>> \in P}
  <2>1. nullIndex \in R
    BY DEF Link
  <2>2. ASSUME NEW r \in DOMAIN t, t[r].left \in R, t[r].right \in R PROVE r \in R
    BY <1>2, <2>2 DEF Link
  <2>3. Link(t) \subseteq R
    <3> HIDE DEF R
    <3> QED BY <2>1, <2>2, UpInduction
  <2> QED BY <2>3 DEF Link
<1>3. Link(t) \subseteq Q
  <2> HIDE DEF Q
  <2> QED BY <1>1, <1>2, UpInduction
<1> QED BY <1>3

-----------------------------------------------------------------------------
(* The recursive functions of module Treap, one node at a time.            *)

(* A change of one link and of the sums of the node keeps the types. *)
LEMMA RelinkTypes ==
  ASSUME NEW t, Vector(t), NEW u \in Vectors(t), NEW i \in DOMAIN t, NEW c \in Link(t)
  PROVE  /\ UpdateAggregates(WithLeft(u, i, c), i) \in Vectors(t)
         /\ UpdateAggregates(WithRight(u, i, c), i) \in Vectors(t)
<1>1. WithLeft(u, i, c) \in Vectors(t) /\ WithRight(u, i, c) \in Vectors(t)
  BY LinkSet
<1> QED BY <1>1, SumsSet

(* What findNode does at a node. *)
FindStep(t, price, f, i) ==
  IF i = nullIndex \/ t[i].price = price
  THEN i
  ELSE f[IF price < t[i].price THEN t[i].left ELSE t[i].right]

(* findNode, one node at a time. *)
LEMMA FindUnfolds ==
  ASSUME NEW t, Grounded(t), NEW price
  PROVE  LET f == [i \in Link(t) |-> FindFrom(t, i, price)]
         IN \A i \in Link(t) : f[i] = FindStep(t, price, f, i)
<1>1. PICK rank, N : Ranked(t, rank, N)
  BY DEF Grounded
<1> DEFINE D == Link(t)
           V == Link(t)
           Step(f, i) == FindStep(t, price, f, i)
           G == [f \in [D -> V] |-> [i \in D |-> Step(f, i)]]
<1>2. ASSUME NEW f, NEW g, NEW i \in D, \A j \in D : rank[j] < rank[i] => f[j] = g[j]
      PROVE  Step(f, i) = Step(g, i)
  BY <1>1, <1>2 DEF FindStep, Ranked, Link
<1>3. ASSUME NEW f \in [D -> V], NEW i \in D PROVE Step(f, i) \in V
  BY <1>1 DEF FindStep, Ranked, Link
<1>4. \E f : f = [i \in D |-> Step(f, i)]
  <2> HIDE DEF Step, V
  <2>1. Descends(D, V, rank, G)
    BY <1>2, <1>3 DEF Descends
  <2>2. N \in Nat /\ rank \in [D -> 0 .. N]
    BY <1>1 DEF Ranked
  <2>3. V # {}
    BY DEF V, Link
  <2> HIDE DEF D
  <2>4. \E f \in [D -> V] : f = G[f]
    <3> HIDE DEF G
    <3> QED BY <2>1, <2>2, <2>3, Recursion
  <2> QED BY <2>4
<1> DEFINE h == CHOOSE f : f = [i \in D |-> Step(f, i)]
<1>5. h = [i \in D |-> Step(h, i)]
  <2> HIDE DEF Step, V
  <2> QED BY <1>4
<1>6. \A i : FindFrom(t, i, price) = h[i]
  BY DEF FindFrom, FindStep
<1> HIDE DEF h, Step
<1>7. h = [i \in D |-> FindFrom(t, i, price)]
  BY <1>5, <1>6
<1>8. \A i \in D : h[i] = Step(h, i)
  BY <1>5
<1> QED BY <1>7, <1>8 DEF Step

(* The vectors and roots that splitLessThan may return. *)
Splits(t) == [nodes : Vectors(t), lower : Link(t), upper : Link(t)]

(* What splitLessThan does at a node. *)
SplitStep(t, price, f, i) ==
  IF i = nullIndex
  THEN [nodes |-> t, lower |-> nullIndex, upper |-> nullIndex]
  ELSE IF t[i].price < price
  THEN [nodes |-> UpdateAggregates(WithRight(f[t[i].right].nodes, i, f[t[i].right].lower), i),
        lower |-> i, upper |-> f[t[i].right].upper]
  ELSE [nodes |-> UpdateAggregates(WithLeft(f[t[i].left].nodes, i, f[t[i].left].upper), i),
        lower |-> f[t[i].left].lower, upper |-> i]

(* It keeps the types. *)
LEMMA SplitStepType ==
  ASSUME NEW t, Vector(t), NEW price, NEW f, NEW i \in Link(t),
         i # nullIndex => f[t[i].left] \in Splits(t) /\ f[t[i].right] \in Splits(t)
  PROVE  SplitStep(t, price, f, i) \in Splits(t)
<1>1. CASE i = nullIndex
  BY <1>1 DEF SplitStep, Splits, Vector, Link
<1>2. CASE i # nullIndex
  <2>1. i \in DOMAIN t
    BY <1>2 DEF Link
  <2>2. /\ UpdateAggregates(WithRight(f[t[i].right].nodes, i, f[t[i].right].lower), i)
             \in Vectors(t)
        /\ UpdateAggregates(WithLeft(f[t[i].left].nodes, i, f[t[i].left].upper), i)
             \in Vectors(t)
    BY <1>2, <2>1, RelinkTypes DEF Splits
  <2> QED BY <1>2, <2>2 DEF SplitStep, Splits
<1> QED BY <1>1, <1>2

(* splitLessThan, one node at a time. *)
LEMMA SplitUnfolds ==
  ASSUME NEW t, Vector(t), Grounded(t), NEW price
  PROVE  LET f == [i \in Link(t) |-> SplitLessThan(t, i, price)]
         IN \A i \in Link(t) : f[i] = SplitStep(t, price, f, i)
<1>1. PICK rank, N : Ranked(t, rank, N)
  BY DEF Grounded
<1> DEFINE D == Link(t)
           V == Splits(t)
           Step(f, i) == SplitStep(t, price, f, i)
           G == [f \in [D -> V] |-> [i \in D |-> Step(f, i)]]
<1>2. ASSUME NEW f, NEW g, NEW i \in D, \A j \in D : rank[j] < rank[i] => f[j] = g[j]
      PROVE  Step(f, i) = Step(g, i)
  BY <1>1, <1>2 DEF SplitStep, Ranked, Link
<1>3. ASSUME NEW f \in [D -> V], NEW i \in D PROVE Step(f, i) \in V
  BY <1>1, <1>3, SplitStepType DEF Ranked, Link
<1>4. \E f : f = [i \in D |-> Step(f, i)]
  <2> HIDE DEF Step, V
  <2>1. Descends(D, V, rank, G)
    BY <1>2, <1>3 DEF Descends
  <2>2. N \in Nat /\ rank \in [D -> 0 .. N]
    BY <1>1 DEF Ranked
  <2>3. V # {}
    <3>1. [nodes |-> t, lower |-> nullIndex, upper |-> nullIndex] \in V
      BY DEF V, Splits, Vector, Link
    <3> QED BY <3>1
  <2> HIDE DEF D
  <2>4. \E f \in [D -> V] : f = G[f]
    <3> HIDE DEF G
    <3> QED BY <2>1, <2>2, <2>3, Recursion
  <2> QED BY <2>4
<1> DEFINE h == CHOOSE f : f = [i \in D |-> Step(f, i)]
<1>5. h = [i \in D |-> Step(h, i)]
  <2> HIDE DEF Step, V
  <2> QED BY <1>4
<1>6. \A i : SplitLessThan(t, i, price) = h[i]
  BY DEF SplitLessThan, SplitStep, WithLeft, WithRight
<1> HIDE DEF h, Step
<1>7. h = [i \in D |-> SplitLessThan(t, i, price)]
  BY <1>5, <1>6
<1>8. \A i \in D : h[i] = Step(h, i)
  BY <1>5
<1> QED BY <1>7, <1>8 DEF Step

(* It returns a vector of the same size and two roots. *)
LEMMA SplitTypes ==
  ASSUME NEW t, Vector(t), Grounded(t), NEW price
  PROVE  \A i \in Link(t) : SplitLessThan(t, i, price) \in Splits(t)
<1> DEFINE f == [i \in Link(t) |-> SplitLessThan(t, i, price)]
           P == {i \in Link(t) : f[i] \in Splits(t)}
<1>1. \A i \in Link(t) : f[i] = SplitStep(t, price, f, i)
  BY SplitUnfolds
<1>2. \A i \in Link(t) : f[i] = SplitLessThan(t, i, price)
  OBVIOUS
<1> HIDE DEF f
<1>3. nullIndex \in P
  BY <1>1, SplitStepType DEF Link
<1>4. ASSUME NEW i \in DOMAIN t, t[i].left \in P, t[i].right \in P PROVE i \in P
  BY <1>1, <1>4, SplitStepType DEF Link
<1>5. nullIndex \notin DOMAIN t
  BY NodeTypes
<1>6. Link(t) \subseteq P
  <2> HIDE DEF P
  <2> QED BY <1>3, <1>4, <1>5, UpInduction
<1> QED BY <1>2, <1>6

(* The vectors and the root that the other changes of a tree may return. *)
Merges(t) == [nodes : Vectors(t), root : Link(t)]

(* Pairs of nodes have a rank too. *)
RankedPairs(t, rank, N) ==
  /\ N \in Nat /\ rank \in [Link(t) \X Link(t) -> 0 .. N]
  /\ \A l, r \in DOMAIN t :
       /\ t[l].right \in Link(t) /\ t[r].left \in Link(t)
       /\ rank[<<t[l].right, r>>] < rank[<<l, r>>]
       /\ rank[<<l, t[r].left>>] < rank[<<l, r>>]

(* It is the sum of the two ranks. *)
LEMMA PairsRanked ==
  ASSUME NEW t, Grounded(t)
  PROVE  \E rank, N : RankedPairs(t, rank, N)
<1>1. PICK rank, N : Ranked(t, rank, N)
  BY DEF Grounded
<1> DEFINE sum == [i \in Link(t) \X Link(t) |-> rank[i[1]] + rank[i[2]]]
<1>2. \A l, r \in Link(t) : sum[<<l, r>>] = rank[l] + rank[r]
  OBVIOUS
<1>3. sum \in [Link(t) \X Link(t) -> 0 .. N + N] /\ N + N \in Nat
  BY <1>1 DEF Ranked
<1> HIDE DEF sum
<1>4. \A i \in Link(t) : rank[i] \in Nat
  BY <1>1 DEF Ranked
<1>5. RankedPairs(t, sum, N + N)
  <2> SUFFICES ASSUME NEW l \in DOMAIN t, NEW r \in DOMAIN t
               PROVE  /\ t[l].right \in Link(t) /\ t[r].left \in Link(t)
                      /\ sum[<<t[l].right, r>>] < sum[<<l, r>>]
                      /\ sum[<<l, t[r].left>>] < sum[<<l, r>>]
    BY <1>3 DEF RankedPairs
  <2>1. /\ t[l].right \in Link(t) /\ t[r].left \in Link(t) /\ l \in Link(t) /\ r \in Link(t)
        /\ rank[t[l].right] < rank[l] /\ rank[t[r].left] < rank[r]
    BY <1>1 DEF Ranked, Link
  <2> QED BY <1>2, <1>4, <2>1
<1> QED BY <1>5

(* What mergeTrees does at two nodes. *)
MergeStep(t, f, pair) ==
  LET l == pair[1]
      r == pair[2]
  IN IF l = nullIndex THEN [nodes |-> t, root |-> r]
     ELSE IF r = nullIndex THEN [nodes |-> t, root |-> l]
     ELSE IF HasHigherPriority(t, l, r)
     THEN LET m == f[<<t[l].right, r>>]
          IN [nodes |-> UpdateAggregates(WithRight(m.nodes, l, m.root), l),
              root |-> l]
     ELSE LET m == f[<<l, t[r].left>>]
          IN [nodes |-> UpdateAggregates(WithLeft(m.nodes, r, m.root), r), root |-> r]

(* It keeps the types. *)
LEMMA MergeStepType ==
  ASSUME NEW t, Vector(t), NEW f, NEW l \in Link(t), NEW r \in Link(t),
         l # nullIndex /\ r # nullIndex =>
           f[<<t[l].right, r>>] \in Merges(t) /\ f[<<l, t[r].left>>] \in Merges(t)
  PROVE  MergeStep(t, f, <<l, r>>) \in Merges(t)
<1>1. CASE l = nullIndex \/ r = nullIndex
  BY <1>1 DEF MergeStep, Merges, Vector
<1>2. CASE l # nullIndex /\ r # nullIndex
  <2> DEFINE m == f[<<t[l].right, r>>]
             n == f[<<l, t[r].left>>]
  <2>1. l \in DOMAIN t /\ r \in DOMAIN t
    BY <1>2 DEF Link
  <2>2. m.nodes \in Vectors(t) /\ n.nodes \in Vectors(t) /\ m.root \in Link(t) /\ n.root \in Link(t)
    BY <1>2 DEF Merges
  <2>3. /\ UpdateAggregates(WithRight(m.nodes, l, m.root), l) \in Vectors(t)
        /\ UpdateAggregates(WithLeft(n.nodes, r, n.root), r) \in Vectors(t)
    BY <2>1, <2>2, RelinkTypes
  <2> QED BY <1>2, <2>3 DEF MergeStep, Merges
<1> QED BY <1>1, <1>2

(* mergeTrees, one pair of nodes at a time. *)
LEMMA MergeUnfolds ==
  ASSUME NEW t, Vector(t), Grounded(t)
  PROVE  LET f == [i \in Link(t) \X Link(t) |-> Merge(t, i[1], i[2])]
         IN \A i \in Link(t) \X Link(t) : f[i] = MergeStep(t, f, i)
<1>1. PICK rank, N : RankedPairs(t, rank, N)
  BY PairsRanked
<1> DEFINE D == Link(t) \X Link(t)
           V == Merges(t)
           Step(f, i) == MergeStep(t, f, i)
           G == [f \in [D -> V] |-> [i \in D |-> Step(f, i)]]
<1>2. ASSUME NEW f, NEW g, NEW i \in D, \A j \in D : rank[j] < rank[i] => f[j] = g[j]
      PROVE  Step(f, i) = Step(g, i)
  <2>1. PICK l \in Link(t), r \in Link(t) : i = <<l, r>>
    OBVIOUS
  <2>2. ASSUME l # nullIndex, r # nullIndex
        PROVE  f[<<t[l].right, r>>] = g[<<t[l].right, r>>] /\ f[<<l, t[r].left>>] = g[<<l, t[r].left>>]
    <3>1. l \in DOMAIN t /\ r \in DOMAIN t
      BY <2>2 DEF Link
    <3>2. <<t[l].right, r>> \in D /\ <<l, t[r].left>> \in D
      BY <1>1, <3>1 DEF RankedPairs
    <3> QED BY <1>1, <1>2, <2>1, <3>1, <3>2 DEF RankedPairs
  <2>3. CASE l # nullIndex /\ r # nullIndex
    BY <2>1, <2>2, <2>3 DEF MergeStep
  <2> QED BY <2>1, <2>3 DEF MergeStep
<1>3. ASSUME NEW f \in [D -> V], NEW i \in D PROVE Step(f, i) \in V
  <2>1. PICK l \in Link(t), r \in Link(t) : i = <<l, r>>
    OBVIOUS
  <2>2. l # nullIndex /\ r # nullIndex =>
          f[<<t[l].right, r>>] \in Merges(t) /\ f[<<l, t[r].left>>] \in Merges(t)
    BY <1>1, <1>3 DEF RankedPairs, Link
  <2> QED BY <2>1, <2>2, MergeStepType
<1>4. \E f : f = [i \in D |-> Step(f, i)]
  <2> HIDE DEF Step, V
  <2>1. Descends(D, V, rank, G)
    BY <1>2, <1>3 DEF Descends
  <2>2. N \in Nat /\ rank \in [D -> 0 .. N]
    BY <1>1 DEF RankedPairs
  <2>3. V # {}
    <3>1. [nodes |-> t, root |-> nullIndex] \in V
      BY DEF V, Merges, Vector, Link
    <3> QED BY <3>1
  <2> HIDE DEF D
  <2>4. \E f \in [D -> V] : f = G[f]
    <3> HIDE DEF G
    <3> QED BY <2>1, <2>2, <2>3, Recursion
  <2> QED BY <2>4
<1> DEFINE h == CHOOSE f : f = [i \in D |-> Step(f, i)]
<1>5. h = [i \in D |-> Step(h, i)]
  <2> HIDE DEF Step, V
  <2> QED BY <1>4
<1>6. \A l, r : Merge(t, l, r) = h[<<l, r>>]
  BY DEF Merge, MergeStep, WithLeft, WithRight
<1> HIDE DEF h, Step
<1>7. h = [i \in D |-> Merge(t, i[1], i[2])]
  BY <1>5, <1>6
<1>8. \A i \in D : h[i] = Step(h, i)
  BY <1>5
<1> QED BY <1>7, <1>8 DEF Step

(* It returns a vector of the same size and a root. *)
LEMMA MergeTypes ==
  ASSUME NEW t, Vector(t), Grounded(t)
  PROVE  \A l, r \in Link(t) : Merge(t, l, r) \in Merges(t)
<1> DEFINE f == [i \in Link(t) \X Link(t) |-> Merge(t, i[1], i[2])]
           P == {i \in Link(t) \X Link(t) : f[i] \in Merges(t)}
<1>1. \A i \in Link(t) \X Link(t) : f[i] = MergeStep(t, f, i)
  BY MergeUnfolds
<1>2. \A l, r \in Link(t) : f[<<l, r>>] = Merge(t, l, r)
  OBVIOUS
<1> HIDE DEF f
<1>3. ASSUME NEW i \in Link(t) PROVE <<nullIndex, i>> \in P /\ <<i, nullIndex>> \in P
  <2>1. nullIndex \in Link(t)
    BY DEF Link
  <2>2. MergeStep(t, f, <<nullIndex, i>>) \in Merges(t) /\ MergeStep(t, f, <<i, nullIndex>>) \in Merges(t)
    BY <2>1, MergeStepType
  <2> QED BY <1>1, <2>1, <2>2
<1>4. ASSUME NEW l \in DOMAIN t, NEW r \in DOMAIN t,
             <<t[l].right, r>> \in P, <<l, t[r].left>> \in P
      PROVE  <<l, r>> \in P
  <2>1. l \in Link(t) /\ r \in Link(t)
    BY DEF Link
  <2>2. MergeStep(t, f, <<l, r>>) \in Merges(t)
    BY <1>4, <2>1, MergeStepType
  <2> QED BY <1>1, <2>1, <2>2
<1>5. nullIndex \notin DOMAIN t
  BY NodeTypes
<1>6. \A l, r \in Link(t) : <<l, r>> \in P
  <2> HIDE DEF P
  <2> QED BY <1>3, <1>4, <1>5, PairInduction
<1> QED BY <1>2, <1>6

(* Both links of a node may be set at once. *)
LEMMA LinksSet ==
  ASSUME NEW t, Vector(t), NEW u \in Vectors(t), NEW i \in DOMAIN t,
         NEW c \in Link(t), NEW d \in Link(t)
  PROVE  LET w == WithRight(WithLeft(u, i, c), i, d)
         IN /\ Relinked(u, w, {i}) /\ w \in Vectors(t)
            /\ w[i].left = c /\ w[i].right = d
<1> DEFINE v == WithLeft(u, i, c)
           w == WithRight(v, i, d)
<1>1. Vector(u) /\ Vectors(u) = Vectors(t)
  BY VectorsAlike
<1>2. Relinked(u, v, {i}) /\ v \in Vectors(t) /\ v[i].left = c
  BY LinkSet
<1> HIDE DEF v, w
<1>3. Relinked(v, w, {i}) /\ w \in Vectors(t) /\ w[i].left = v[i].left /\ w[i].right = d
  BY <1>2, LinkSet DEF w
<1>4. Relinked(u, w, {i})
  BY <1>1, <1>2, <1>3, RelinkedTwice
<1> QED BY <1>2, <1>3, <1>4 DEF v, w

(* What insertNode does at a node. *)
InsertStep(t, new, f, i) ==
  IF i = nullIndex THEN [nodes |-> t, root |-> new]
  ELSE IF HasHigherPriority(t, new, i)
  THEN LET s == SplitLessThan(t, i, t[new].price)
       IN [nodes |-> UpdateAggregates(WithRight(WithLeft(s.nodes, new, s.lower), new, s.upper), new),
           root |-> new]
  ELSE IF t[new].price < t[i].price
  THEN LET s == f[t[i].left]
       IN [nodes |-> UpdateAggregates(WithLeft(s.nodes, i, s.root), i), root |-> i]
  ELSE LET s == f[t[i].right]
       IN [nodes |-> UpdateAggregates(WithRight(s.nodes, i, s.root), i), root |-> i]

(* insertNode, one node at a time. *)
LEMMA InsertUnfolds ==
  ASSUME NEW t, Vector(t), Grounded(t), NEW new \in DOMAIN t
  PROVE  LET f == [i \in Link(t) |-> InsertNode(t, i, new)]
         IN \A i \in Link(t) : f[i] = InsertStep(t, new, f, i)
<1>1. PICK rank, N : Ranked(t, rank, N)
  BY DEF Grounded
<1> DEFINE D == Link(t)
           V == Merges(t)
           Step(f, i) == InsertStep(t, new, f, i)
           G == [f \in [D -> V] |-> [i \in D |-> Step(f, i)]]
<1>2. ASSUME NEW f, NEW g, NEW i \in D, \A j \in D : rank[j] < rank[i] => f[j] = g[j]
      PROVE  Step(f, i) = Step(g, i)
  BY <1>1, <1>2 DEF InsertStep, Ranked, Link
<1>3. ASSUME NEW f \in [D -> V], NEW i \in D PROVE Step(f, i) \in V
  <2>1. CASE i = nullIndex
    BY <2>1 DEF InsertStep, Merges, Vector, Link
  <2>2. CASE i \in DOMAIN t
    <3> DEFINE s == SplitLessThan(t, i, t[new].price)
    <3>1. s \in Splits(t)
      BY SplitTypes
    <3>2. s.nodes \in Vectors(t) /\ s.lower \in Link(t) /\ s.upper \in Link(t)
      BY <3>1 DEF Splits
    <3> HIDE DEF s
    <3>3. WithRight(WithLeft(s.nodes, new, s.lower), new, s.upper) \in Vectors(t)
      BY <3>2, LinksSet
    <3>4. UpdateAggregates(WithRight(WithLeft(s.nodes, new, s.lower), new, s.upper), new)
            \in Vectors(t)
      BY <3>3, SumsSet
    <3>5. /\ f[t[i].left].nodes \in Vectors(t) /\ f[t[i].left].root \in Link(t)
          /\ f[t[i].right].nodes \in Vectors(t) /\ f[t[i].right].root \in Link(t)
      BY <1>1, <2>2 DEF Ranked, Merges
    <3>6. /\ UpdateAggregates(WithLeft(f[t[i].left].nodes, i, f[t[i].left].root), i)
               \in Vectors(t)
          /\ UpdateAggregates(WithRight(f[t[i].right].nodes, i, f[t[i].right].root), i)
               \in Vectors(t)
      BY <2>2, <3>5, RelinkTypes
    <3>7. new \in Link(t) /\ i \in Link(t) /\ i # nullIndex
      BY <2>2, NodeTypes DEF Link
    <3> QED BY <3>4, <3>6, <3>7 DEF InsertStep, Merges, s
  <2> QED BY <2>1, <2>2 DEF Link
<1>4. \E f : f = [i \in D |-> Step(f, i)]
  <2> HIDE DEF Step, V
  <2>1. Descends(D, V, rank, G)
    BY <1>2, <1>3 DEF Descends
  <2>2. N \in Nat /\ rank \in [D -> 0 .. N]
    BY <1>1 DEF Ranked
  <2>3. V # {}
    <3>1. [nodes |-> t, root |-> nullIndex] \in V
      BY DEF V, Merges, Vector, Link
    <3> QED BY <3>1
  <2> HIDE DEF D
  <2>4. \E f \in [D -> V] : f = G[f]
    <3> HIDE DEF G
    <3> QED BY <2>1, <2>2, <2>3, Recursion
  <2> QED BY <2>4
<1> DEFINE h == CHOOSE f : f = [i \in D |-> Step(f, i)]
<1>5. h = [i \in D |-> Step(h, i)]
  <2> HIDE DEF Step, V
  <2> QED BY <1>4
<1>6. \A i : InsertNode(t, i, new) = h[i]
  BY DEF InsertNode, InsertStep, WithLeft, WithRight
<1> HIDE DEF h, Step
<1>7. h = [i \in D |-> InsertNode(t, i, new)]
  BY <1>5, <1>6
<1>8. \A i \in D : h[i] = Step(h, i)
  BY <1>5
<1> QED BY <1>7, <1>8 DEF Step

(* A released node. *)
Blanked(u, i) == [u EXCEPT ![i] = Blank]

(* Any may be. *)
LEMMA BlankSet ==
  ASSUME NEW t, Vector(t), NEW u \in Vectors(t), NEW i \in DOMAIN t
  PROVE  /\ Blanked(u, i) \in Vectors(t) /\ Blanked(u, i)[i] = Blank
         /\ \A k \in DOMAIN t : k # i => Blanked(u, i)[k] = u[k]
<1>1. Blank \in Node(t)
  BY DEF Blank, Node, Link, nullIndex
<1> QED BY <1>1 DEF Vectors, Blanked

(* What eraseNode does at a node. *)
EraseStep(t, price, f, i) ==
  IF i = nullIndex THEN [nodes |-> t, root |-> nullIndex]
  ELSE IF price < t[i].price
  THEN LET s == f[t[i].left]
       IN [nodes |-> UpdateAggregates(WithLeft(s.nodes, i, s.root), i), root |-> i]
  ELSE IF price > t[i].price
  THEN LET s == f[t[i].right]
       IN [nodes |-> UpdateAggregates(WithRight(s.nodes, i, s.root), i), root |-> i]
  ELSE LET m == Merge(t, t[i].left, t[i].right)
       IN [nodes |-> Blanked(m.nodes, i), root |-> m.root]

(* eraseNode, one node at a time. *)
LEMMA EraseUnfolds ==
  ASSUME NEW t, Vector(t), Grounded(t), NEW price
  PROVE  LET f == [i \in Link(t) |-> EraseNode(t, i, price)]
         IN \A i \in Link(t) : f[i] = EraseStep(t, price, f, i)
<1>1. PICK rank, N : Ranked(t, rank, N)
  BY DEF Grounded
<1> DEFINE D == Link(t)
           V == Merges(t)
           Step(f, i) == EraseStep(t, price, f, i)
           G == [f \in [D -> V] |-> [i \in D |-> Step(f, i)]]
<1>2. ASSUME NEW f, NEW g, NEW i \in D, \A j \in D : rank[j] < rank[i] => f[j] = g[j]
      PROVE  Step(f, i) = Step(g, i)
  BY <1>1, <1>2 DEF EraseStep, Ranked, Link
<1>3. ASSUME NEW f \in [D -> V], NEW i \in D PROVE Step(f, i) \in V
  <2>1. CASE i = nullIndex
    BY <2>1 DEF EraseStep, Merges, Vector
  <2>2. CASE i \in DOMAIN t
    <3>1. t[i].left \in Link(t) /\ t[i].right \in Link(t) /\ i \in Link(t) /\ i # nullIndex
      BY <2>2, NodeTypes
    <3> DEFINE m == Merge(t, t[i].left, t[i].right)
    <3>2. m \in Merges(t)
      BY <3>1, MergeTypes
    <3>3. m.nodes \in Vectors(t) /\ m.root \in Link(t)
      BY <3>2 DEF Merges
    <3> HIDE DEF m
    <3>4. Blanked(m.nodes, i) \in Vectors(t)
      BY <2>2, <3>3, BlankSet
    <3>5. /\ f[t[i].left].nodes \in Vectors(t) /\ f[t[i].left].root \in Link(t)
          /\ f[t[i].right].nodes \in Vectors(t) /\ f[t[i].right].root \in Link(t)
      BY <3>1 DEF Merges
    <3>6. /\ UpdateAggregates(WithLeft(f[t[i].left].nodes, i, f[t[i].left].root), i)
               \in Vectors(t)
          /\ UpdateAggregates(WithRight(f[t[i].right].nodes, i, f[t[i].right].root), i)
               \in Vectors(t)
      BY <2>2, <3>5, RelinkTypes
    <3> QED BY <2>2, <3>1, <3>3, <3>4, <3>6 DEF EraseStep, Merges, m
  <2> QED BY <2>1, <2>2 DEF Link
<1>4. \E f : f = [i \in D |-> Step(f, i)]
  <2> HIDE DEF Step, V
  <2>1. Descends(D, V, rank, G)
    BY <1>2, <1>3 DEF Descends
  <2>2. N \in Nat /\ rank \in [D -> 0 .. N]
    BY <1>1 DEF Ranked
  <2>3. V # {}
    <3>1. [nodes |-> t, root |-> nullIndex] \in V
      BY DEF V, Merges, Vector, Link
    <3> QED BY <3>1
  <2> HIDE DEF D
  <2>4. \E f \in [D -> V] : f = G[f]
    <3> HIDE DEF G
    <3> QED BY <2>1, <2>2, <2>3, Recursion
  <2> QED BY <2>4
<1> DEFINE h == CHOOSE f : f = [i \in D |-> Step(f, i)]
<1>5. h = [i \in D |-> Step(h, i)]
  <2> HIDE DEF Step, V
  <2> QED BY <1>4
<1>6. \A i : EraseNode(t, i, price) = h[i]
  BY DEF EraseNode, EraseStep, WithLeft, WithRight, Blanked
<1> HIDE DEF h, Step
<1>7. h = [i \in D |-> EraseNode(t, i, price)]
  BY <1>5, <1>6
<1>8. \A i \in D : h[i] = Step(h, i)
  BY <1>5
<1> QED BY <1>7, <1>8 DEF Step

(* A node's quantity, changed. *)
WithQuantity(t, i, quantity) == [t EXCEPT ![i].quantity = quantity]

(* A node may get another quantity. *)
LEMMA QuantitySet ==
  ASSUME NEW t, Vector(t), NEW i \in DOMAIN t, NEW quantity \in Int
  PROVE  LET w == WithQuantity(t, i, quantity)
         IN /\ w \in Vectors(t) /\ w[i].quantity = quantity
            /\ w[i].price = t[i].price /\ w[i].priority = t[i].priority
            /\ w[i].left = t[i].left /\ w[i].right = t[i].right
            /\ \A k \in DOMAIN t : k # i => w[k] = t[k]
<1> DEFINE n == [t[i] EXCEPT !.quantity = quantity]
<1>1. t[i] \in Node(t)
  BY NodeTypes
<1>2. /\ n \in Node(t) /\ n.quantity = quantity /\ n.price = t[i].price
      /\ n.priority = t[i].priority /\ n.left = t[i].left /\ n.right = t[i].right
  BY <1>1 DEF Node
<1>3. WithQuantity(t, i, quantity) = [t EXCEPT ![i] = n]
  BY DEF WithQuantity
<1> HIDE DEF n
<1> QED BY <1>2, <1>3 DEF Vector, Vectors

(* What updateQuantity does at a node. *)
UpdateStep(t, price, quantity, f, i) ==
  IF i = nullIndex THEN t
  ELSE IF price = t[i].price
  THEN UpdateAggregates(WithQuantity(t, i, quantity), i)
  ELSE UpdateAggregates(f[IF price < t[i].price THEN t[i].left ELSE t[i].right], i)

(* updateQuantity, one node at a time. *)
LEMMA UpdateUnfolds ==
  ASSUME NEW t, Vector(t), Grounded(t), NEW price, NEW quantity \in Int
  PROVE  LET f == [i \in Link(t) |-> UpdateQuantity(t, i, price, quantity)]
         IN \A i \in Link(t) : f[i] = UpdateStep(t, price, quantity, f, i)
<1>1. PICK rank, N : Ranked(t, rank, N)
  BY DEF Grounded
<1> DEFINE D == Link(t)
           V == Vectors(t)
           Step(f, i) == UpdateStep(t, price, quantity, f, i)
           G == [f \in [D -> V] |-> [i \in D |-> Step(f, i)]]
<1>2. ASSUME NEW f, NEW g, NEW i \in D, \A j \in D : rank[j] < rank[i] => f[j] = g[j]
      PROVE  Step(f, i) = Step(g, i)
  BY <1>1, <1>2 DEF UpdateStep, Ranked, Link
<1>3. ASSUME NEW f \in [D -> V], NEW i \in D PROVE Step(f, i) \in V
  <2>1. CASE i = nullIndex
    BY <2>1 DEF UpdateStep, Vector
  <2>2. CASE i \in DOMAIN t
    <3>1. WithQuantity(t, i, quantity) \in Vectors(t)
      BY <2>2, QuantitySet
    <3>2. f[t[i].left] \in Vectors(t) /\ f[t[i].right] \in Vectors(t)
      BY <2>2, NodeTypes
    <3>3. \A u \in Vectors(t) : UpdateAggregates(u, i) \in Vectors(t)
      BY <2>2, SumsSet
    <3> QED BY <1>3, <2>2, <3>1, <3>2, <3>3 DEF UpdateStep, Vector
  <2> QED BY <2>1, <2>2 DEF Link
<1>4. \E f : f = [i \in D |-> Step(f, i)]
  <2> HIDE DEF Step, V
  <2>1. Descends(D, V, rank, G)
    BY <1>2, <1>3 DEF Descends
  <2>2. N \in Nat /\ rank \in [D -> 0 .. N]
    BY <1>1 DEF Ranked
  <2>3. V # {}
    BY DEF V, Vector
  <2> HIDE DEF D
  <2>4. \E f \in [D -> V] : f = G[f]
    <3> HIDE DEF G
    <3> QED BY <2>1, <2>2, <2>3, Recursion
  <2> QED BY <2>4
<1> DEFINE h == CHOOSE f : f = [i \in D |-> Step(f, i)]
<1>5. h = [i \in D |-> Step(h, i)]
  <2> HIDE DEF Step, V
  <2> QED BY <1>4
<1>6. \A i : UpdateQuantity(t, i, price, quantity) = h[i]
  BY DEF UpdateQuantity, UpdateStep, WithQuantity
<1> HIDE DEF h, Step
<1>7. h = [i \in D |-> UpdateQuantity(t, i, price, quantity)]
  BY <1>5, <1>6
<1>8. \A i \in D : h[i] = Step(h, i)
  BY <1>5
<1> QED BY <1>7, <1>8 DEF Step

-----------------------------------------------------------------------------
(* What the changes do to a treap.                                         *)

(* The left child of r becomes root c of a treap that a change has made of *)
(* nodes with lower prices, and the sums of r are recomputed.              *)
LEMMA RelinkLeft ==
  ASSUME NEW t, Vector(t), NEW r \in DOMAIN t, NEW u \in Vectors(t), u[r] = t[r],
         NEW c \in Link(t), NEW L, NEW U,
         Tree(u, L, c), Tree(t, U, t[r].right),
         \A k \in U : u[k] = t[k],
         \A k \in L : u[k].price = t[k].price /\ u[k].priority = t[k].priority,
         \A k \in L : t[k].price < t[r].price, \A k \in U : t[k].price > t[r].price,
         \A k \in L \cup U : HasHigherPriority(t, r, k)
  PROVE  LET v == UpdateAggregates(WithLeft(u, r, c), r)
         IN /\ v \in Vectors(t) /\ Relinked(u, v, {r})
            /\ Tree(v, L \cup U \cup {r}, r)
            /\ \A B, b : Tree(u, B, b) /\ r \notin B => Tree(v, B, b)
<1> DEFINE w == WithLeft(u, r, c)
           v == UpdateAggregates(w, r)
<1>1. Vector(u) /\ DOMAIN u = DOMAIN t /\ Vectors(u) = Vectors(t)
  BY VectorsAlike
<1>2. L \subseteq DOMAIN t /\ U \subseteq DOMAIN t
  BY <1>1 DEF Tree
<1>3. r \notin L \cup U
  BY <1>2, NodeTypes
<1>4. Tree(u, U, t[r].right)
  BY <1>1, <1>2, TreeFrame
<1>5. Relinked(u, w, {r}) /\ w[r].left = c /\ w[r].right = t[r].right
  BY LinkSet
<1>6. /\ \A k \in L : u[k].price < u[r].price
      /\ \A k \in U : u[k].price > u[r].price
      /\ \A k \in L \cup U : HasHigherPriority(u, r, k)
  BY DEF HasHigherPriority
<1> HIDE DEF w
<1>7. Relinked(u, v, {r}) /\ Tree(v, L \cup U \cup {r}, r)
  <2>1. Tree(u, L, w[r].left) /\ Tree(u, U, w[r].right) /\ r \in DOMAIN u
    BY <1>1, <1>4, <1>5
  <2> HIDE DEF v
  <2> QED BY <1>1, <1>3, <1>5, <1>6, <2>1, Join DEF v
<1>8. v \in Vectors(t)
  BY <1>1, <1>7 DEF Relinked
<1>9. \A B, b : Tree(u, B, b) /\ r \notin B => Tree(v, B, b)
  BY <1>1, <1>7, RelinkedKeeps
<1> QED BY <1>7, <1>8, <1>9 DEF v, w

(* The same on the right.                                                  *)
LEMMA RelinkRight ==
  ASSUME NEW t, Vector(t), NEW r \in DOMAIN t, NEW u \in Vectors(t), u[r] = t[r],
         NEW c \in Link(t), NEW L, NEW U,
         Tree(t, L, t[r].left), Tree(u, U, c),
         \A k \in L : u[k] = t[k],
         \A k \in U : u[k].price = t[k].price /\ u[k].priority = t[k].priority,
         \A k \in L : t[k].price < t[r].price, \A k \in U : t[k].price > t[r].price,
         \A k \in L \cup U : HasHigherPriority(t, r, k)
  PROVE  LET v == UpdateAggregates(WithRight(u, r, c), r)
         IN /\ v \in Vectors(t) /\ Relinked(u, v, {r})
            /\ Tree(v, L \cup U \cup {r}, r)
            /\ \A B, b : Tree(u, B, b) /\ r \notin B => Tree(v, B, b)
<1> DEFINE w == WithRight(u, r, c)
           v == UpdateAggregates(w, r)
<1>1. Vector(u) /\ DOMAIN u = DOMAIN t /\ Vectors(u) = Vectors(t)
  BY VectorsAlike
<1>2. L \subseteq DOMAIN t /\ U \subseteq DOMAIN t
  BY <1>1 DEF Tree
<1>3. r \notin L \cup U
  BY <1>2, NodeTypes
<1>4. Tree(u, L, t[r].left)
  BY <1>1, <1>2, TreeFrame
<1>5. Relinked(u, w, {r}) /\ w[r].left = t[r].left /\ w[r].right = c
  BY LinkSet
<1>6. /\ \A k \in L : u[k].price < u[r].price
      /\ \A k \in U : u[k].price > u[r].price
      /\ \A k \in L \cup U : HasHigherPriority(u, r, k)
  BY DEF HasHigherPriority
<1> HIDE DEF w
<1>7. Relinked(u, v, {r}) /\ Tree(v, L \cup U \cup {r}, r)
  <2>1. Tree(u, L, w[r].left) /\ Tree(u, U, w[r].right) /\ r \in DOMAIN u
    BY <1>1, <1>4, <1>5
  <2> HIDE DEF v
  <2> QED BY <1>1, <1>3, <1>5, <1>6, <2>1, Join DEF v
<1>8. v \in Vectors(t)
  BY <1>1, <1>7 DEF Relinked
<1>9. \A B, b : Tree(u, B, b) /\ r \notin B => Tree(v, B, b)
  BY <1>1, <1>7, RelinkedKeeps
<1> QED BY <1>7, <1>8, <1>9 DEF v, w

(* findNode finds the node with a price.                                   *)
LEMMA FindTree ==
  ASSUME NEW t, Vector(t), Grounded(t), NEW price \in Int
  PROVE  \A i \in Link(t) : \A S : Tree(t, S, i) =>
           \/ FindFrom(t, i, price) \in S /\ t[FindFrom(t, i, price)].price = price
           \/ FindFrom(t, i, price) = nullIndex /\ \A k \in S : t[k].price # price
<1> DEFINE f == [i \in Link(t) |-> FindFrom(t, i, price)]
           Claim(S, i) == \/ f[i] \in S /\ t[f[i]].price = price
                          \/ f[i] = nullIndex /\ \A k \in S : t[k].price # price
           P == {i \in Link(t) : \A S \in SUBSET DOMAIN t : Tree(t, S, i) => Claim(S, i)}
<1>1. nullIndex \notin DOMAIN t
  BY NodeTypes
<1>2. \A i \in Link(t) : f[i] = FindStep(t, price, f, i)
  BY <1>1, FindUnfolds
<1>3. \A i \in Link(t) : f[i] = FindFrom(t, i, price)
  OBVIOUS
<1> HIDE DEF f
<1>4. nullIndex \in P
  <2>1. f[nullIndex] = nullIndex
    BY <1>2 DEF FindStep, Link
  <2>2. \A S : Tree(t, S, nullIndex) => S = {}
    BY TreeEmpty
  <2> QED BY <2>1, <2>2 DEF Link
<1>5. ASSUME NEW i \in DOMAIN t, t[i].left \in P, t[i].right \in P PROVE i \in P
  <2> SUFFICES ASSUME NEW S \in SUBSET DOMAIN t, Tree(t, S, i) PROVE Claim(S, i)
    BY DEF Link
  <2> DEFINE L == Lower(t, S, t[i].price)
             U == Upper(t, S, t[i].price)
  <2>1. /\ i \in S /\ Tree(t, L, t[i].left) /\ Tree(t, U, t[i].right)
        /\ S = L \cup U \cup {i}
    BY <1>1, TreeParts
  <2>2. \A k \in S : t[k].price \in Int
    BY NodeTypes
  <2>3. /\ \A k \in L : t[k].price < t[i].price
        /\ \A k \in U : t[k].price > t[i].price
        /\ L \in SUBSET DOMAIN t /\ U \in SUBSET DOMAIN t
    BY DEF Lower, Upper
  <2> HIDE DEF L, U
  <2>4. Claim(L, t[i].left) /\ Claim(U, t[i].right)
    BY <1>5, <2>1, <2>3
  <2>5. i # nullIndex /\ i \in Link(t)
    BY <1>1 DEF Link
  <2>6. CASE t[i].price = price
    BY <1>2, <2>1, <2>5, <2>6 DEF FindStep
  <2>7. CASE price < t[i].price
    <3>1. f[i] = f[t[i].left]
      BY <1>2, <2>2, <2>5, <2>7 DEF FindStep
    <3>2. \A k \in U \cup {i} : t[k].price # price
      BY <2>1, <2>2, <2>3, <2>7
    <3> QED BY <2>1, <2>4, <3>1, <3>2
  <2>8. CASE price > t[i].price
    <3>1. f[i] = f[t[i].right]
      BY <1>2, <2>1, <2>2, <2>5, <2>8 DEF FindStep
    <3>2. \A k \in L \cup {i} : t[k].price # price
      BY <2>1, <2>2, <2>3, <2>8
    <3> QED BY <2>1, <2>4, <3>1, <3>2
  <2> QED BY <2>1, <2>2, <2>6, <2>7, <2>8
<1>6. Link(t) \subseteq P
  <2> HIDE DEF P
  <2> QED BY <1>1, <1>4, <1>5, UpInduction
<1> QED BY <1>3, <1>6 DEF Tree

(* What splitLessThan should return of the treap of the nodes S. *)
IsSplit(t, S, price, s) ==
  /\ Relinked(t, s.nodes, S) /\ s.lower \in Link(t) /\ s.upper \in Link(t)
  /\ Tree(s.nodes, Lower(t, S, price), s.lower)
  /\ Tree(s.nodes, S \ Lower(t, S, price), s.upper)

(* splitLessThan gives two treaps: of the lower prices and of the others.  *)
LEMMA SplitTree ==
  ASSUME NEW t, Vector(t), Grounded(t), NEW price \in Int
  PROVE  \A i \in Link(t) : \A S :
           Tree(t, S, i) => IsSplit(t, S, price, SplitLessThan(t, i, price))
<1> DEFINE f == [i \in Link(t) |-> SplitLessThan(t, i, price)]
           Claim(S, i) == IsSplit(t, S, price, f[i])
           P == {i \in Link(t) : \A S \in SUBSET DOMAIN t : Tree(t, S, i) => Claim(S, i)}
<1>1. nullIndex \notin DOMAIN t
  BY NodeTypes
<1>2. \A i \in Link(t) : f[i] = SplitStep(t, price, f, i)
  BY SplitUnfolds
<1>3. \A i \in Link(t) : f[i] = SplitLessThan(t, i, price)
  OBVIOUS
<1> HIDE DEF f
<1>4. nullIndex \in P
  <2>1. f[nullIndex] = [nodes |-> t, lower |-> nullIndex, upper |-> nullIndex]
    BY <1>2 DEF SplitStep, Link
  <2>2. \A S : Tree(t, S, nullIndex) => S = {}
    BY TreeEmpty
  <2>3. Claim({}, nullIndex)
    <3>1. Lower(t, {}, price) = {} /\ nullIndex \in Link(t)
      BY DEF Lower, Link
    <3> QED BY <2>1, <3>1, TreeEmpty, RelinkedNot DEF IsSplit
  <2> QED BY <2>2, <2>3 DEF Link
<1>5. ASSUME NEW i \in DOMAIN t, t[i].left \in P, t[i].right \in P PROVE i \in P
  <2> SUFFICES ASSUME NEW S \in SUBSET DOMAIN t, Tree(t, S, i) PROVE Claim(S, i)
    BY DEF Link
  <2> DEFINE L == Lower(t, S, t[i].price)
             U == Upper(t, S, t[i].price)
  <2>1. /\ i \in S /\ Tree(t, L, t[i].left) /\ Tree(t, U, t[i].right)
        /\ S = L \cup U \cup {i} /\ \A k \in S : k = i \/ HasHigherPriority(t, i, k)
    BY <1>1, TreeParts
  <2>2. \A k \in S : t[k].price \in Int
    BY NodeTypes
  <2>3. /\ \A k \in L : t[k].price < t[i].price
        /\ \A k \in U : t[k].price > t[i].price
        /\ L \in SUBSET DOMAIN t /\ U \in SUBSET DOMAIN t
    BY DEF Lower, Upper
  <2> HIDE DEF L, U
  <2>4. i \notin L /\ i \notin U /\ L \cap U = {}
    BY <2>1, <2>2, <2>3
  <2>5. i # nullIndex /\ i \in Link(t)
    BY <1>1 DEF Link
  <2>6. CASE t[i].price < price
    <3> DEFINE s == f[t[i].right]
               B == Lower(t, U, price)
               v == UpdateAggregates(WithRight(s.nodes, i, s.lower), i)
    <3>1. /\ Relinked(t, s.nodes, U) /\ s.lower \in Link(t) /\ s.upper \in Link(t)
          /\ Tree(s.nodes, B, s.lower) /\ Tree(s.nodes, U \ B, s.upper)
      BY <1>5, <2>1, <2>3 DEF IsSplit
    <3>2. f[i] = [nodes |-> v, lower |-> i, upper |-> s.upper]
      BY <1>2, <2>5, <2>6 DEF SplitStep
    <3> HIDE DEF s
    <3>3. B \subseteq U
      BY DEF Lower
    <3>4. S \ Lower(t, S, price) = U \ B /\ Lower(t, S, price) = L \cup B \cup {i}
      BY <2>1, <2>2, <2>3, <2>6 DEF Lower
    <3> HIDE DEF B
    <3>5. /\ Relinked(s.nodes, v, {i}) /\ Tree(v, L \cup B \cup {i}, i)
          /\ Tree(v, U \ B, s.upper)
      <4>1. /\ s.nodes \in Vectors(t) /\ s.nodes[i] = t[i] /\ \A k \in L : s.nodes[k] = t[k]
            /\ \A k \in B : s.nodes[k].price = t[k].price /\ s.nodes[k].priority = t[k].priority
        BY <2>3, <2>4, <3>1, <3>3 DEF Relinked
      <4>2. /\ \A k \in B : t[k].price > t[i].price
            /\ \A k \in L \cup B : HasHigherPriority(t, i, k)
        BY <2>1, <2>3, <2>4, <3>3
      <4>3. i \notin U \ B
        BY <2>4
      <4> HIDE DEF v
      <4> QED BY <2>1, <2>3, <3>1, <4>1, <4>2, <4>3, RelinkRight DEF v
    <3> HIDE DEF v
    <3>6. Relinked(t, v, S)
      BY <2>1, <3>1, <3>5, RelinkedTwice
    <3> QED BY <2>5, <3>1, <3>2, <3>4, <3>5, <3>6 DEF IsSplit
  <2>7. CASE ~(t[i].price < price)
    <3> DEFINE s == f[t[i].left]
               B == Lower(t, L, price)
               v == UpdateAggregates(WithLeft(s.nodes, i, s.upper), i)
    <3>1. /\ Relinked(t, s.nodes, L) /\ s.lower \in Link(t) /\ s.upper \in Link(t)
          /\ Tree(s.nodes, B, s.lower) /\ Tree(s.nodes, L \ B, s.upper)
      BY <1>5, <2>1, <2>3 DEF IsSplit
    <3>2. f[i] = [nodes |-> v, lower |-> s.lower, upper |-> i]
      BY <1>2, <2>5, <2>7 DEF SplitStep
    <3> HIDE DEF s
    <3>3. B \subseteq L
      BY DEF Lower
    <3>4. Lower(t, S, price) = B /\ S \ B = (L \ B) \cup U \cup {i}
      BY <2>1, <2>2, <2>3, <2>4, <2>7 DEF Lower
    <3> HIDE DEF B
    <3>5. /\ Relinked(s.nodes, v, {i}) /\ Tree(v, (L \ B) \cup U \cup {i}, i)
          /\ Tree(v, B, s.lower)
      <4>1. /\ s.nodes \in Vectors(t) /\ s.nodes[i] = t[i] /\ \A k \in U : s.nodes[k] = t[k]
            /\ \A k \in L \ B : s.nodes[k].price = t[k].price /\ s.nodes[k].priority = t[k].priority
        BY <2>3, <2>4, <3>1, <3>3 DEF Relinked
      <4>2. /\ \A k \in L \ B : t[k].price < t[i].price
            /\ \A k \in (L \ B) \cup U : HasHigherPriority(t, i, k)
        BY <2>1, <2>3, <2>4, <3>3
      <4>3. i \notin B
        BY <2>4, <3>3
      <4> HIDE DEF v
      <4> QED BY <2>1, <2>3, <3>1, <4>1, <4>2, <4>3, RelinkLeft DEF v
    <3> HIDE DEF v
    <3>6. Relinked(t, v, S)
      BY <2>1, <3>1, <3>5, RelinkedTwice
    <3> QED BY <2>5, <3>1, <3>2, <3>4, <3>5, <3>6 DEF IsSplit
  <2> QED BY <2>6, <2>7
<1>6. Link(t) \subseteq P
  <2> HIDE DEF P
  <2> QED BY <1>1, <1>4, <1>5, UpInduction
<1> QED BY <1>3, <1>6 DEF Tree

(* mergeTrees makes one treap of two, the first of which has lower prices. *)
LEMMA MergeTree ==
  ASSUME NEW t, Vector(t), Grounded(t)
  PROVE  \A l, r \in Link(t) : \A A, B :
           /\ Tree(t, A, l) /\ Tree(t, B, r)
           /\ \A a \in A, b \in B : t[a].price < t[b].price
           => /\ Relinked(t, Merge(t, l, r).nodes, A \cup B)
              /\ Tree(Merge(t, l, r).nodes, A \cup B, Merge(t, l, r).root)
              /\ Merge(t, l, r).root \in Link(t)
<1> DEFINE f == [i \in Link(t) \X Link(t) |-> Merge(t, i[1], i[2])]
           Apart(A, B) == \A a \in A, b \in B : t[a].price < t[b].price
           Claim(A, B, m) == /\ Relinked(t, m.nodes, A \cup B)
                             /\ Tree(m.nodes, A \cup B, m.root) /\ m.root \in Link(t)
           P == {i \in Link(t) \X Link(t) : \A A, B \in SUBSET DOMAIN t :
                   Tree(t, A, i[1]) /\ Tree(t, B, i[2]) /\ Apart(A, B) => Claim(A, B, f[i])}
<1>1. nullIndex \notin DOMAIN t
  BY NodeTypes
<1>2. \A i \in Link(t) \X Link(t) : f[i] = MergeStep(t, f, i)
  BY MergeUnfolds
<1>3. \A l, r \in Link(t) : f[<<l, r>>] = Merge(t, l, r)
  OBVIOUS
<1> HIDE DEF f
<1>4. ASSUME NEW i \in Link(t) PROVE <<nullIndex, i>> \in P /\ <<i, nullIndex>> \in P
  <2>1. f[<<nullIndex, i>>] = [nodes |-> t, root |-> i] /\ f[<<i, nullIndex>>] = [nodes |-> t, root |-> i]
    <3>1. nullIndex \in Link(t)
      BY DEF Link
    <3>2. /\ f[<<nullIndex, i>>] = MergeStep(t, f, <<nullIndex, i>>)
          /\ f[<<i, nullIndex>>] = MergeStep(t, f, <<i, nullIndex>>)
      BY <1>2, <3>1
    <3> QED BY <3>2 DEF MergeStep
  <2>2. \A S : Tree(t, S, nullIndex) => S = {}
    BY TreeEmpty
  <2>3. \A S : Tree(t, S, i) => Claim(S, {}, [nodes |-> t, root |-> i])
                               /\ Claim({}, S, [nodes |-> t, root |-> i])
    <3> SUFFICES ASSUME NEW S, Tree(t, S, i)
                 PROVE  Relinked(t, t, S) /\ S \cup {} = S /\ {} \cup S = S
      OBVIOUS
    <3> QED BY RelinkedNot
  <2> QED BY <2>1, <2>2, <2>3 DEF Link
<1>5. ASSUME NEW l \in DOMAIN t, NEW r \in DOMAIN t,
             <<t[l].right, r>> \in P, <<l, t[r].left>> \in P
      PROVE  <<l, r>> \in P
  <2>1. l \in Link(t) /\ r \in Link(t) /\ l # nullIndex /\ r # nullIndex
    BY <1>1 DEF Link
  <2>7. f[<<l, r>>] = MergeStep(t, f, <<l, r>>)
    BY <1>2, <2>1
  <2> SUFFICES ASSUME NEW A \in SUBSET DOMAIN t, NEW B \in SUBSET DOMAIN t,
                      Tree(t, A, l), Tree(t, B, r), Apart(A, B)
               PROVE  Claim(A, B, f[<<l, r>>])
    BY <2>1
  <2>2. /\ l \in A /\ r \in B
        /\ \A k \in A : k = l \/ HasHigherPriority(t, l, k)
        /\ \A k \in B : k = r \/ HasHigherPriority(t, r, k)
    BY <2>1, TreeParts
  <2>3. \A k \in A \cup B : t[k].price \in Int
    BY NodeTypes
  <2>4. HasHigherPriority(t, l, r) \/ HasHigherPriority(t, r, l)
    <3>1. t[l].price # t[r].price
      BY <2>2, <2>3
    <3> QED BY <3>1, PriorityOrder
  <2>5. CASE HasHigherPriority(t, l, r)
    <3> DEFINE m == f[<<t[l].right, r>>]
               v == UpdateAggregates(WithRight(m.nodes, l, m.root), l)
               L == Lower(t, A, t[l].price)
               U == Upper(t, A, t[l].price)
    <3>1. Tree(t, L, t[l].left) /\ Tree(t, U, t[l].right) /\ A = L \cup U \cup {l}
      BY <2>1, TreeParts
    <3>2. (\A k \in L : t[k].price < t[l].price) /\ (\A k \in U : t[k].price > t[l].price)
      BY DEF Lower, Upper
    <3> HIDE DEF L, U
    <3>3. Claim(U, B, m)
      <4>1. Apart(U, B) /\ U \in SUBSET DOMAIN t
        BY <3>1
      <4> HIDE DEF Claim, Apart, m
      <4> QED BY <1>5, <3>1, <4>1 DEF m
    <3>4. f[<<l, r>>] = [nodes |-> v, root |-> l]
      BY <2>1, <2>5, <2>7 DEF MergeStep
    <3> HIDE DEF m
    <3>5. l \notin U /\ l \notin B /\ L \cap (U \cup B) = {}
      BY <2>2, <2>3, <3>1, <3>2
    <3>6. Relinked(m.nodes, v, {l}) /\ Tree(v, L \cup (U \cup B) \cup {l}, l)
      <4>1. /\ m.nodes \in Vectors(t) /\ m.nodes[l] = t[l] /\ \A k \in L : m.nodes[k] = t[k]
            /\ \A k \in U \cup B : /\ m.nodes[k].price = t[k].price
                                   /\ m.nodes[k].priority = t[k].priority
        BY <3>1, <3>3, <3>5 DEF Relinked
      <4>2. /\ \A k \in U \cup B : t[k].price > t[l].price
            /\ \A k \in L \cup (U \cup B) : HasHigherPriority(t, l, k)
        <5>1. \A k \in L \cup U : HasHigherPriority(t, l, k)
          BY <2>2, <3>1, <3>2, <3>5, <2>3
        <5>2. \A k \in B : HasHigherPriority(t, l, k)
          BY <2>2, <2>5, PriorityOrder
        <5> QED BY <2>2, <2>3, <3>1, <3>2, <5>1, <5>2
      <4> HIDE DEF v, Apart
      <4> QED BY <3>1, <3>2, <3>3, <4>1, <4>2, RelinkRight DEF v
    <3> HIDE DEF v
    <3>7. Relinked(t, v, A \cup B)
      BY <3>1, <3>3, <3>6, RelinkedTwice
    <3>8. L \cup (U \cup B) \cup {l} = A \cup B
      BY <3>1
    <3>9. Claim(A, B, [nodes |-> v, root |-> l])
      BY <2>1, <3>6, <3>7, <3>8
    <3> HIDE DEF Claim
    <3> QED BY <3>4, <3>9
  <2>6. CASE ~HasHigherPriority(t, l, r)
    <3> DEFINE m == f[<<l, t[r].left>>]
               v == UpdateAggregates(WithLeft(m.nodes, r, m.root), r)
               L == Lower(t, B, t[r].price)
               U == Upper(t, B, t[r].price)
    <3>1. Tree(t, L, t[r].left) /\ Tree(t, U, t[r].right) /\ B = L \cup U \cup {r}
      BY <2>1, TreeParts
    <3>2. (\A k \in L : t[k].price < t[r].price) /\ (\A k \in U : t[k].price > t[r].price)
      BY DEF Lower, Upper
    <3> HIDE DEF L, U
    <3>3. Claim(A, L, m)
      <4>1. Apart(A, L) /\ L \in SUBSET DOMAIN t
        BY <3>1
      <4> HIDE DEF Claim, Apart, m
      <4> QED BY <1>5, <3>1, <4>1 DEF m
    <3>4. f[<<l, r>>] = [nodes |-> v, root |-> r]
      BY <2>1, <2>6, <2>7 DEF MergeStep
    <3> HIDE DEF m
    <3>5. r \notin L /\ r \notin A /\ U \cap (A \cup L) = {}
      BY <2>2, <2>3, <3>1, <3>2
    <3>6. Relinked(m.nodes, v, {r}) /\ Tree(v, (A \cup L) \cup U \cup {r}, r)
      <4>1. /\ m.nodes \in Vectors(t) /\ m.nodes[r] = t[r] /\ \A k \in U : m.nodes[k] = t[k]
            /\ \A k \in A \cup L : /\ m.nodes[k].price = t[k].price
                                   /\ m.nodes[k].priority = t[k].priority
        BY <3>1, <3>3, <3>5 DEF Relinked
      <4>2. /\ \A k \in A \cup L : t[k].price < t[r].price
            /\ \A k \in (A \cup L) \cup U : HasHigherPriority(t, r, k)
        <5>1. \A k \in L \cup U : HasHigherPriority(t, r, k)
          BY <2>2, <3>1, <3>2, <3>5, <2>3
        <5>2. \A k \in A : HasHigherPriority(t, r, k)
          BY <2>2, <2>4, <2>6, PriorityOrder
        <5> QED BY <2>2, <2>3, <3>1, <3>2, <5>1, <5>2
      <4> HIDE DEF v, Apart
      <4> QED BY <3>1, <3>2, <3>3, <4>1, <4>2, RelinkLeft DEF v
    <3> HIDE DEF v
    <3>7. Relinked(t, v, A \cup B)
      BY <3>1, <3>3, <3>6, RelinkedTwice
    <3>8. (A \cup L) \cup U \cup {r} = A \cup B
      BY <3>1
    <3>9. Claim(A, B, [nodes |-> v, root |-> r])
      BY <2>1, <3>6, <3>7, <3>8
    <3> HIDE DEF Claim
    <3> QED BY <3>4, <3>9
  <2> QED BY <2>5, <2>6
<1>6. \A l, r \in Link(t) : <<l, r>> \in P
  <2> HIDE DEF P
  <2> QED BY <1>1, <1>4, <1>5, PairInduction
<1> SUFFICES ASSUME NEW l \in Link(t), NEW r \in Link(t), NEW A, NEW B,
                    Tree(t, A, l), Tree(t, B, r), Apart(A, B)
             PROVE  Claim(A, B, Merge(t, l, r))
  OBVIOUS
<1>7. A \in SUBSET DOMAIN t /\ B \in SUBSET DOMAIN t /\ <<l, r>>[1] = l /\ <<l, r>>[2] = r
  BY DEF Tree
<1> HIDE DEF Claim, Apart
<1>8. Tree(t, A, <<l, r>>[1]) /\ Tree(t, B, <<l, r>>[2]) /\ Apart(A, B) => Claim(A, B, f[<<l, r>>])
  BY <1>6, <1>7
<1> QED BY <1>3, <1>7, <1>8

(* insertNode adds a node to a treap that has none with its price.         *)
LEMMA InsertTree ==
  ASSUME NEW t, Vector(t), Grounded(t), NEW new \in DOMAIN t,
         Tree(t, {new}, new)
  PROVE  \A i \in Link(t) : \A S :
           Tree(t, S, i) /\ (\A k \in S : t[k].price # t[new].price)
           => /\ Relinked(t, InsertNode(t, i, new).nodes, S \cup {new})
              /\ Tree(InsertNode(t, i, new).nodes, S \cup {new}, InsertNode(t, i, new).root)
              /\ InsertNode(t, i, new).root \in Link(t)
<1> DEFINE f == [i \in Link(t) |-> InsertNode(t, i, new)]
           New(S) == \A k \in S : t[k].price # t[new].price
           Done(S, n) == /\ Relinked(t, n.nodes, S \cup {new})
                         /\ Tree(n.nodes, S \cup {new}, n.root) /\ n.root \in Link(t)
           Claim(S, i) == New(S) => Done(S, f[i])
           P == {i \in Link(t) : \A S \in SUBSET DOMAIN t : Tree(t, S, i) => Claim(S, i)}
<1>1. nullIndex \notin DOMAIN t /\ new \in Link(t)
  BY NodeTypes
<1>2. \A i \in Link(t) : f[i] = InsertStep(t, new, f, i)
  BY InsertUnfolds
<1>3. \A i \in Link(t) : f[i] = InsertNode(t, i, new)
  OBVIOUS
<1> HIDE DEF f
<1>4. nullIndex \in P
  <2>1. f[nullIndex] = [nodes |-> t, root |-> new]
    BY <1>2 DEF InsertStep, Link
  <2>2. \A S : Tree(t, S, nullIndex) => S = {}
    BY TreeEmpty
  <2>3. Claim({}, nullIndex)
    <3>1. {} \cup {new} = {new}
      OBVIOUS
    <3> QED BY <1>1, <2>1, <3>1, RelinkedNot
  <2> QED BY <2>2, <2>3 DEF Link
<1>5. ASSUME NEW i \in DOMAIN t, t[i].left \in P, t[i].right \in P PROVE i \in P
  <2> SUFFICES ASSUME NEW S \in SUBSET DOMAIN t, Tree(t, S, i), New(S)
               PROVE  Done(S, f[i])
    BY DEF Link
  <2> DEFINE L == Lower(t, S, t[i].price)
             U == Upper(t, S, t[i].price)
  <2>1. /\ i \in S /\ Tree(t, L, t[i].left) /\ Tree(t, U, t[i].right)
        /\ S = L \cup U \cup {i} /\ \A k \in S : k = i \/ HasHigherPriority(t, i, k)
    BY <1>1, TreeParts
  <2>2. \A k \in S : t[k].price \in Int
    BY NodeTypes
  <2>3. /\ \A k \in L : t[k].price < t[i].price
        /\ \A k \in U : t[k].price > t[i].price
        /\ L \in SUBSET DOMAIN t /\ U \in SUBSET DOMAIN t
    BY DEF Lower, Upper
  <2> HIDE DEF L, U
  <2>4. i \notin L /\ i \notin U /\ L \cap U = {}
    BY <2>1, <2>2, <2>3
  <2>5. i # nullIndex /\ i \in Link(t)
    BY <1>1 DEF Link
  <2>6. t[new].price \in Int /\ new \notin S /\ i # new /\ t[i].price # t[new].price
    BY <2>1, NodeTypes
  <2>7. New(L) /\ New(U)
    BY <2>1
  <2> HIDE DEF New
  <2>8. CASE HasHigherPriority(t, new, i)
    <3> DEFINE s == SplitLessThan(t, i, t[new].price)
               w == WithRight(WithLeft(s.nodes, new, s.lower), new, s.upper)
               v == UpdateAggregates(w, new)
               B == Lower(t, S, t[new].price)
    <3>1. /\ Relinked(t, s.nodes, S) /\ s.lower \in Link(t) /\ s.upper \in Link(t)
          /\ Tree(s.nodes, B, s.lower) /\ Tree(s.nodes, S \ B, s.upper)
      BY <2>5, <2>6, SplitTree DEF IsSplit
    <3>2. f[i] = [nodes |-> v, root |-> new]
      BY <1>2, <2>5, <2>8 DEF InsertStep
    <3> HIDE DEF s
    <3>3. B \subseteq S /\ (\A k \in B : t[k].price < t[new].price)
          /\ \A k \in S \ B : t[k].price > t[new].price
      BY <2>2, <2>6 DEF Lower, New
    <3> HIDE DEF B
    <3>4. /\ Vector(s.nodes) /\ DOMAIN s.nodes = DOMAIN t /\ s.nodes \in Vectors(t)
          /\ \A k \in DOMAIN t : s.nodes[k].price = t[k].price
          /\ \A k, l \in DOMAIN t : HasHigherPriority(s.nodes, k, l) <=> HasHigherPriority(t, k, l)
      BY <3>1, RelinkedKeeps DEF Relinked
    <3>5. Relinked(s.nodes, w, {new}) /\ w[new].left = s.lower /\ w[new].right = s.upper
      BY <3>1, <3>4, LinksSet
    <3> HIDE DEF w
    <3>6. Relinked(s.nodes, v, {new}) /\ Tree(v, B \cup (S \ B) \cup {new}, new)
      <4>1. \A k \in S : HasHigherPriority(t, new, k)
        BY <2>1, <2>8, PriorityOrder
      <4>2. /\ \A k \in B : s.nodes[k].price < s.nodes[new].price
            /\ \A k \in S \ B : s.nodes[k].price > s.nodes[new].price
            /\ \A k \in B \cup (S \ B) : HasHigherPriority(s.nodes, new, k)
            /\ new \notin B \cup (S \ B) /\ new \in DOMAIN s.nodes
            /\ Tree(s.nodes, B, w[new].left) /\ Tree(s.nodes, S \ B, w[new].right)
        BY <2>6, <3>1, <3>3, <3>4, <3>5, <4>1
      <4> HIDE DEF v
      <4> QED BY <3>4, <3>5, <4>2, Join DEF v
    <3> HIDE DEF v
    <3>7. Relinked(t, v, S \cup {new})
      BY <3>1, <3>6, RelinkedTwice
    <3>8. B \cup (S \ B) \cup {new} = S \cup {new}
      BY <3>3
    <3> QED BY <1>1, <3>2, <3>6, <3>7, <3>8
  <2>9. ASSUME ~HasHigherPriority(t, new, i) PROVE HasHigherPriority(t, i, new)
    BY <2>6, <2>9, PriorityOrder
  <2>10. CASE ~HasHigherPriority(t, new, i) /\ t[new].price < t[i].price
    <3> DEFINE s == f[t[i].left]
               v == UpdateAggregates(WithLeft(s.nodes, i, s.root), i)
    <3>1. Done(L, s)
      BY <1>5, <2>1, <2>3, <2>7
    <3>2. f[i] = [nodes |-> v, root |-> i]
      BY <1>2, <2>5, <2>10 DEF InsertStep
    <3> HIDE DEF s
    <3>3. Relinked(s.nodes, v, {i}) /\ Tree(v, (L \cup {new}) \cup U \cup {i}, i)
      <4>1. /\ s.nodes \in Vectors(t) /\ s.nodes[i] = t[i] /\ \A k \in U : s.nodes[k] = t[k]
            /\ \A k \in L \cup {new} : /\ s.nodes[k].price = t[k].price
                                       /\ s.nodes[k].priority = t[k].priority
        BY <2>1, <2>3, <2>4, <2>6, <3>1 DEF Relinked
      <4>2. /\ \A k \in L \cup {new} : t[k].price < t[i].price
            /\ \A k \in (L \cup {new}) \cup U : HasHigherPriority(t, i, k)
        BY <2>1, <2>3, <2>4, <2>9, <2>10
      <4> HIDE DEF v
      <4> QED BY <2>1, <2>3, <3>1, <4>1, <4>2, RelinkLeft DEF v
    <3> HIDE DEF v
    <3>4. Relinked(t, v, S \cup {new})
      BY <2>1, <3>1, <3>3, RelinkedTwice
    <3>5. (L \cup {new}) \cup U \cup {i} = S \cup {new}
      BY <2>1
    <3> QED BY <2>5, <3>2, <3>3, <3>4, <3>5
  <2>11. CASE ~HasHigherPriority(t, new, i) /\ ~(t[new].price < t[i].price)
    <3> DEFINE s == f[t[i].right]
               v == UpdateAggregates(WithRight(s.nodes, i, s.root), i)
    <3>1. Done(U, s)
      BY <1>5, <2>1, <2>3, <2>7
    <3>2. f[i] = [nodes |-> v, root |-> i]
      BY <1>2, <2>5, <2>11 DEF InsertStep
    <3> HIDE DEF s
    <3>3. Relinked(s.nodes, v, {i}) /\ Tree(v, L \cup (U \cup {new}) \cup {i}, i)
      <4>1. /\ s.nodes \in Vectors(t) /\ s.nodes[i] = t[i] /\ \A k \in L : s.nodes[k] = t[k]
            /\ \A k \in U \cup {new} : /\ s.nodes[k].price = t[k].price
                                       /\ s.nodes[k].priority = t[k].priority
        BY <2>1, <2>3, <2>4, <2>6, <3>1 DEF Relinked
      <4>2. /\ \A k \in U \cup {new} : t[k].price > t[i].price
            /\ \A k \in L \cup (U \cup {new}) : HasHigherPriority(t, i, k)
        BY <2>1, <2>2, <2>3, <2>4, <2>6, <2>9, <2>11
      <4> HIDE DEF v
      <4> QED BY <2>1, <2>3, <3>1, <4>1, <4>2, RelinkRight DEF v
    <3> HIDE DEF v
    <3>4. Relinked(t, v, S \cup {new})
      BY <2>1, <3>1, <3>3, RelinkedTwice
    <3>5. L \cup (U \cup {new}) \cup {i} = S \cup {new}
      BY <2>1
    <3> QED BY <2>5, <3>2, <3>3, <3>4, <3>5
  <2> QED BY <2>8, <2>10, <2>11
<1>6. Link(t) \subseteq P
  <2> HIDE DEF P
  <2> QED BY <1>1, <1>4, <1>5, UpInduction
<1> SUFFICES ASSUME NEW i \in Link(t), NEW S, Tree(t, S, i), New(S)
             PROVE  Done(S, InsertNode(t, i, new))
  OBVIOUS
<1>7. S \in SUBSET DOMAIN t
  BY DEF Tree
<1> HIDE DEF Done, New
<1> QED BY <1>3, <1>6, <1>7

(* Vector u is t but for node j and for the links and sums of the nodes S. *)
Alike(t, u, S, j) ==
  /\ u \in Vectors(t)
  /\ \A k \in DOMAIN t :
       /\ k # j => /\ u[k].price = t[k].price /\ u[k].quantity = t[k].quantity
                   /\ u[k].priority = t[k].priority
       /\ k \notin S => u[k] = t[k]

(* eraseNode takes the node with a price out of a treap.                   *)
LEMMA EraseTree ==
  ASSUME NEW t, Vector(t), Grounded(t), NEW price \in Int
  PROVE  \A i \in Link(t) : \A S : Tree(t, S, i) => \A j \in S : t[j].price = price =>
           /\ Alike(t, EraseNode(t, i, price).nodes, S, j)
           /\ EraseNode(t, i, price).nodes[j] = Blank
           /\ Tree(EraseNode(t, i, price).nodes, S \ {j}, EraseNode(t, i, price).root)
           /\ EraseNode(t, i, price).root \in Link(t)
<1> DEFINE f == [i \in Link(t) |-> EraseNode(t, i, price)]
           Done(S, j, e) == /\ Alike(t, e.nodes, S, j) /\ e.nodes[j] = Blank
                            /\ Tree(e.nodes, S \ {j}, e.root) /\ e.root \in Link(t)
           Claim(S, i) == \A j \in S : t[j].price = price => Done(S, j, f[i])
           P == {i \in Link(t) : \A S \in SUBSET DOMAIN t : Tree(t, S, i) => Claim(S, i)}
<1>1. nullIndex \notin DOMAIN t
  BY NodeTypes
<1>2. \A i \in Link(t) : f[i] = EraseStep(t, price, f, i)
  BY EraseUnfolds
<1>3. \A i \in Link(t) : f[i] = EraseNode(t, i, price)
  OBVIOUS
<1> HIDE DEF f
<1>4. nullIndex \in P
  <2>1. \A S : Tree(t, S, nullIndex) => S = {}
    BY TreeEmpty
  <2> QED BY <2>1 DEF Link
<1>5. ASSUME NEW i \in DOMAIN t, t[i].left \in P, t[i].right \in P PROVE i \in P
  <2> SUFFICES ASSUME NEW S \in SUBSET DOMAIN t, Tree(t, S, i),
                      NEW j \in S, t[j].price = price
               PROVE  Done(S, j, f[i])
    BY DEF Link
  <2> DEFINE L == Lower(t, S, t[i].price)
             U == Upper(t, S, t[i].price)
  <2>1. /\ i \in S /\ Tree(t, L, t[i].left) /\ Tree(t, U, t[i].right)
        /\ S = L \cup U \cup {i} /\ \A k \in S : k = i \/ HasHigherPriority(t, i, k)
    BY <1>1, TreeParts
  <2>2. \A k \in S : t[k].price \in Int
    BY NodeTypes
  <2>3. /\ \A k \in L : t[k].price < t[i].price
        /\ \A k \in U : t[k].price > t[i].price
        /\ L \in SUBSET DOMAIN t /\ U \in SUBSET DOMAIN t
    BY DEF Lower, Upper
  <2> HIDE DEF L, U
  <2>4. i \notin L /\ i \notin U /\ L \cap U = {}
    BY <2>1, <2>2, <2>3
  <2>5. i # nullIndex /\ i \in Link(t)
    BY <1>1 DEF Link
  <2>6. CASE price < t[i].price
    <3> DEFINE s == f[t[i].left]
               v == UpdateAggregates(WithLeft(s.nodes, i, s.root), i)
    <3>1. j \in L /\ j # i
      BY <2>1, <2>2, <2>3, <2>6
    <3>2. Done(L, j, s)
      BY <1>5, <2>1, <2>3, <3>1
    <3>3. f[i] = [nodes |-> v, root |-> i]
      BY <1>2, <2>5, <2>6 DEF EraseStep
    <3> HIDE DEF s
    <3>4. Relinked(s.nodes, v, {i}) /\ Tree(v, (L \ {j}) \cup U \cup {i}, i)
      <4>1. /\ s.nodes \in Vectors(t) /\ s.nodes[i] = t[i] /\ \A k \in U : s.nodes[k] = t[k]
            /\ \A k \in L \ {j} : /\ s.nodes[k].price = t[k].price
                                  /\ s.nodes[k].priority = t[k].priority
        BY <2>1, <2>3, <2>4, <3>2 DEF Alike
      <4>2. /\ \A k \in L \ {j} : t[k].price < t[i].price
            /\ \A k \in (L \ {j}) \cup U : HasHigherPriority(t, i, k)
        BY <2>1, <2>3, <2>4
      <4> HIDE DEF v
      <4> QED BY <2>1, <2>3, <3>2, <4>1, <4>2, RelinkLeft DEF v
    <3> HIDE DEF v
    <3>5. Alike(t, v, S, j) /\ v[j] = Blank
      <4>1. s.nodes \in Vectors(t) /\ v \in Vectors(t)
        BY <3>2, <3>4, VectorsAlike DEF Alike, Relinked
      <4>2. DOMAIN s.nodes = DOMAIN t
        BY <4>1, VectorsAlike
      <4> QED BY <2>1, <3>1, <3>2, <3>4, <4>1, <4>2 DEF Alike, Relinked
    <3>6. (L \ {j}) \cup U \cup {i} = S \ {j}
      BY <2>1, <2>4, <3>1
    <3>7. Done(S, j, [nodes |-> v, root |-> i])
      BY <2>5, <3>4, <3>5, <3>6
    <3> HIDE DEF Done
    <3> QED BY <3>3, <3>7
  <2>7. CASE price > t[i].price
    <3> DEFINE s == f[t[i].right]
               v == UpdateAggregates(WithRight(s.nodes, i, s.root), i)
    <3>1. j \in U /\ j # i
      BY <2>1, <2>2, <2>3, <2>7
    <3>2. Done(U, j, s)
      BY <1>5, <2>1, <2>3, <3>1
    <3>3. f[i] = [nodes |-> v, root |-> i]
      <4>1. ~(price < t[i].price)
        BY <2>1, <2>2, <2>7
      <4>2. f[i] = EraseStep(t, price, f, i)
        BY <1>2, <2>5
      <4> QED BY <2>5, <2>7, <4>1, <4>2 DEF EraseStep
    <3> HIDE DEF s
    <3>4. Relinked(s.nodes, v, {i}) /\ Tree(v, L \cup (U \ {j}) \cup {i}, i)
      <4>1. /\ s.nodes \in Vectors(t) /\ s.nodes[i] = t[i] /\ \A k \in L : s.nodes[k] = t[k]
            /\ \A k \in U \ {j} : /\ s.nodes[k].price = t[k].price
                                  /\ s.nodes[k].priority = t[k].priority
        BY <2>1, <2>3, <2>4, <3>2 DEF Alike
      <4>2. /\ \A k \in U \ {j} : t[k].price > t[i].price
            /\ \A k \in L \cup (U \ {j}) : HasHigherPriority(t, i, k)
        BY <2>1, <2>3, <2>4
      <4> HIDE DEF v
      <4> QED BY <2>1, <2>3, <3>2, <4>1, <4>2, RelinkRight DEF v
    <3> HIDE DEF v
    <3>5. Alike(t, v, S, j) /\ v[j] = Blank
      <4>1. s.nodes \in Vectors(t) /\ v \in Vectors(t)
        BY <3>2, <3>4, VectorsAlike DEF Alike, Relinked
      <4>2. DOMAIN s.nodes = DOMAIN t
        BY <4>1, VectorsAlike
      <4> QED BY <2>1, <3>1, <3>2, <3>4, <4>1, <4>2 DEF Alike, Relinked
    <3>6. L \cup (U \ {j}) \cup {i} = S \ {j}
      BY <2>1, <2>4, <3>1
    <3>7. Done(S, j, [nodes |-> v, root |-> i])
      BY <2>5, <3>4, <3>5, <3>6
    <3> HIDE DEF Done
    <3> QED BY <3>3, <3>7
  <2>8. CASE price = t[i].price
    <3> DEFINE m == Merge(t, t[i].left, t[i].right)
               v == Blanked(m.nodes, i)
    <3>1. j = i
      BY <2>1, <2>8 DEF Tree
    <3>2. Relinked(t, m.nodes, L \cup U) /\ Tree(m.nodes, L \cup U, m.root) /\ m.root \in Link(t)
      <4>1. \A a \in L, b \in U : t[a].price < t[b].price
        BY <2>1, <2>2, <2>3
      <4>2. t[i].left \in Link(t) /\ t[i].right \in Link(t)
        BY NodeTypes
      <4> QED BY <2>1, <4>1, <4>2, MergeTree
    <3>3. f[i] = [nodes |-> v, root |-> m.root]
      <4>1. ~(price < t[i].price) /\ ~(price > t[i].price)
        BY <2>1, <2>2, <2>8
      <4>2. f[i] = EraseStep(t, price, f, i)
        BY <1>2, <2>5
      <4> QED BY <2>5, <4>1, <4>2 DEF EraseStep
    <3> HIDE DEF m
    <3>4. /\ m.nodes \in Vectors(t) /\ Vector(m.nodes) /\ v \in Vectors(t) /\ v[i] = Blank
          /\ \A k \in DOMAIN t : k # i => v[k] = m.nodes[k]
      BY <3>2, VectorsAlike, BlankSet DEF Relinked
    <3> HIDE DEF v
    <3>5. Tree(v, L \cup U, m.root)
      <4>1. DOMAIN v = DOMAIN t
        BY <3>4, VectorsAlike
      <4>2. \A k \in L \cup U : v[k] = m.nodes[k]
        BY <2>3, <2>4, <3>4
      <4>3. L \cup U \subseteq DOMAIN v
        BY <2>3, <4>1
      <4> QED BY <3>2, <3>4, <4>2, <4>3, TreeFrame
    <3>6. Alike(t, v, S, j)
      BY <2>1, <3>1, <3>2, <3>4 DEF Alike, Relinked
    <3>7. S \ {j} = L \cup U
      BY <2>1, <2>4, <3>1
    <3>8. Done(S, j, [nodes |-> v, root |-> m.root])
      BY <3>1, <3>2, <3>4, <3>5, <3>6, <3>7
    <3> HIDE DEF Done
    <3> QED BY <3>3, <3>8
  <2> QED BY <2>1, <2>2, <2>6, <2>7, <2>8
<1>6. Link(t) \subseteq P
  <2> HIDE DEF P
  <2> QED BY <1>1, <1>4, <1>5, UpInduction
<1> SUFFICES ASSUME NEW i \in Link(t), NEW S, Tree(t, S, i), NEW j \in S, t[j].price = price
             PROVE  Done(S, j, EraseNode(t, i, price))
  OBVIOUS
<1>7. S \in SUBSET DOMAIN t
  BY DEF Tree
<1> HIDE DEF Done
<1> QED BY <1>3, <1>6, <1>7

(* updateQuantity changes the quantity at a price, and the sums above it.  *)
LEMMA UpdateTree ==
  ASSUME NEW t, Vector(t), Grounded(t), NEW price \in Int, NEW quantity \in Int
  PROVE  \A i \in Link(t) : \A S : Tree(t, S, i) => \A j \in S : t[j].price = price =>
           /\ Alike(t, UpdateQuantity(t, i, price, quantity), S, j)
           /\ UpdateQuantity(t, i, price, quantity)[j].price = price
           /\ UpdateQuantity(t, i, price, quantity)[j].priority = t[j].priority
           /\ UpdateQuantity(t, i, price, quantity)[j].quantity = quantity
           /\ Tree(UpdateQuantity(t, i, price, quantity), S, i)
<1> DEFINE f == [i \in Link(t) |-> UpdateQuantity(t, i, price, quantity)]
           Done(S, j, i, u) == /\ Alike(t, u, S, j) /\ u[j].price = price
                               /\ u[j].priority = t[j].priority /\ u[j].quantity = quantity
                               /\ Tree(u, S, i)
           Claim(S, i) == \A j \in S : t[j].price = price => Done(S, j, i, f[i])
           P == {i \in Link(t) : \A S \in SUBSET DOMAIN t : Tree(t, S, i) => Claim(S, i)}
<1>1. nullIndex \notin DOMAIN t
  BY NodeTypes
<1>2. \A i \in Link(t) : f[i] = UpdateStep(t, price, quantity, f, i)
  BY UpdateUnfolds
<1>3. \A i \in Link(t) : f[i] = UpdateQuantity(t, i, price, quantity)
  OBVIOUS
<1> HIDE DEF f
<1>4. nullIndex \in P
  <2>1. \A S : Tree(t, S, nullIndex) => S = {}
    BY TreeEmpty
  <2> QED BY <2>1 DEF Link
<1>5. ASSUME NEW i \in DOMAIN t, t[i].left \in P, t[i].right \in P PROVE i \in P
  <2> SUFFICES ASSUME NEW S \in SUBSET DOMAIN t, Tree(t, S, i),
                      NEW j \in S, t[j].price = price
               PROVE  Done(S, j, i, f[i])
    BY DEF Link
  <2> DEFINE L == Lower(t, S, t[i].price)
             U == Upper(t, S, t[i].price)
  <2>1. /\ i \in S /\ Tree(t, L, t[i].left) /\ Tree(t, U, t[i].right)
        /\ S = L \cup U \cup {i} /\ \A k \in S : k = i \/ HasHigherPriority(t, i, k)
    BY <1>1, TreeParts
  <2>2. \A k \in S : t[k].price \in Int
    BY NodeTypes
  <2>3. /\ \A k \in L : t[k].price < t[i].price
        /\ \A k \in U : t[k].price > t[i].price
        /\ L \in SUBSET DOMAIN t /\ U \in SUBSET DOMAIN t
    BY DEF Lower, Upper
  <2> HIDE DEF L, U
  <2>4. i \notin L /\ i \notin U /\ L \cap U = {}
    BY <2>1, <2>2, <2>3
  <2>5. i # nullIndex /\ i \in Link(t)
    BY <1>1 DEF Link
  <2>6. ASSUME NEW u \in Vectors(t), Tree(u, L, u[i].left), Tree(u, U, u[i].right),
               \A k \in DOMAIN t : u[k].price = t[k].price /\ u[k].priority = t[k].priority
        PROVE  LET v == UpdateAggregates(u, i)
               IN Relinked(u, v, {i}) /\ Tree(v, S, i)
    <3>1. Vector(u) /\ DOMAIN u = DOMAIN t
      BY <2>6, VectorsAlike
    <3>2. /\ \A k \in L : u[k].price < u[i].price
          /\ \A k \in U : u[k].price > u[i].price
      BY <2>3, <2>6
    <3>3. \A k \in L \cup U : HasHigherPriority(u, i, k)
      BY <2>1, <2>4, <2>6 DEF HasHigherPriority
    <3>4. Relinked(u, u, {i})
      BY <3>1, RelinkedNot
    <3>5. i \notin L \cup U /\ S = L \cup U \cup {i}
      BY <2>1, <2>4
    <3> QED BY <2>6, <3>1, <3>2, <3>3, <3>4, <3>5, Join
  <2>7. ASSUME NEW T \in {L, U}, j \in T, NEW c \in Link(t), Done(T, j, c, f[c]),
               c = IF T = L THEN t[i].left ELSE t[i].right, f[i] = UpdateAggregates(f[c], i)
        PROVE  Done(S, j, i, f[i])
    <3> DEFINE u == f[c]
               v == UpdateAggregates(u, i)
    <3>1. /\ u \in Vectors(t) /\ u[i] = t[i] /\ T \subseteq S
          /\ \A k \in (L \cup U) \ T : u[k] = t[k]
          /\ \A k \in DOMAIN t : u[k].price = t[k].price /\ u[k].priority = t[k].priority
      BY <2>1, <2>3, <2>4, <2>7 DEF Alike
    <3> HIDE DEF u
    <3>2. Tree(u, L, u[i].left) /\ Tree(u, U, u[i].right)
      <4>1. DOMAIN u = DOMAIN t
        BY <3>1, VectorsAlike
      <4>2. CASE T = L
        <5>1. \A k \in U : u[k] = t[k]
          BY <2>4, <3>1, <4>2
        <5>2. U \subseteq DOMAIN u
          BY <2>3, <4>1
        <5>3. Tree(u, U, t[i].right)
          BY <2>1, <5>1, <5>2, TreeFrame
        <5> QED BY <2>7, <3>1, <4>2, <5>3 DEF u
      <4>3. CASE T # L
        <5>1. \A k \in L : u[k] = t[k]
          BY <2>4, <2>7, <3>1, <4>3
        <5>2. L \subseteq DOMAIN u
          BY <2>3, <4>1
        <5>3. Tree(u, L, t[i].left)
          BY <2>1, <5>1, <5>2, TreeFrame
        <5> QED BY <2>7, <3>1, <4>3, <5>3 DEF u
      <4> QED BY <4>2, <4>3
    <3>3. Relinked(u, v, {i}) /\ Tree(v, S, i)
      BY <2>6, <3>1, <3>2
    <3> HIDE DEF v
    <3>4. DOMAIN u = DOMAIN t /\ v \in Vectors(t)
      BY <3>1, <3>3, VectorsAlike DEF Relinked
    <3>5. Alike(t, v, S, j) /\ v[j] = u[j]
      BY <2>1, <2>4, <2>7, <3>1, <3>3, <3>4 DEF Alike, Relinked, u
    <3> QED BY <2>7, <3>3, <3>5 DEF u, v
  <2>8. t[i].left \in Link(t) /\ t[i].right \in Link(t)
    BY NodeTypes
  <2>9. CASE price < t[i].price
    <3>1. j \in L
      BY <2>1, <2>2, <2>3, <2>9
    <3>2. Done(L, j, t[i].left, f[t[i].left])
      BY <1>5, <2>1, <2>3, <3>1
    <3>3. f[i] = UpdateAggregates(f[t[i].left], i)
      BY <1>2, <2>2, <2>1, <2>5, <2>9 DEF UpdateStep
    <3> HIDE DEF Done
    <3> QED BY <2>7, <2>8, <3>1, <3>2, <3>3
  <2>10. CASE price > t[i].price
    <3>1. j \in U /\ L # U
      BY <2>1, <2>2, <2>3, <2>4, <2>10
    <3>2. Done(U, j, t[i].right, f[t[i].right])
      BY <1>5, <2>1, <2>3, <3>1
    <3>3. f[i] = UpdateAggregates(f[t[i].right], i)
      BY <1>2, <2>2, <2>1, <2>5, <2>10 DEF UpdateStep
    <3> HIDE DEF Done
    <3> QED BY <2>7, <2>8, <3>1, <3>2, <3>3
  <2>11. CASE price = t[i].price
    <3> DEFINE w == WithQuantity(t, i, quantity)
               v == UpdateAggregates(w, i)
    <3>1. j = i
      BY <2>1, <2>11 DEF Tree
    <3>2. f[i] = v
      BY <1>2, <2>5, <2>11 DEF UpdateStep
    <3>3. /\ w \in Vectors(t) /\ w[i].quantity = quantity /\ w[i].price = t[i].price
          /\ w[i].priority = t[i].priority
          /\ w[i].left = t[i].left /\ w[i].right = t[i].right
          /\ \A k \in DOMAIN t : k # i => w[k] = t[k]
      BY QuantitySet
    <3> HIDE DEF w
    <3>4. DOMAIN w = DOMAIN t
      BY <3>3, VectorsAlike
    <3>5. Tree(w, L, w[i].left) /\ Tree(w, U, w[i].right)
      <4>1. L \subseteq DOMAIN w /\ U \subseteq DOMAIN w /\ \A k \in L \cup U : w[k] = t[k]
        BY <2>3, <2>4, <3>3, <3>4
      <4>2. Tree(w, L, t[i].left) /\ Tree(w, U, t[i].right)
        BY <2>1, <4>1, TreeFrame
      <4> QED BY <3>3, <4>2
    <3>6. \A k \in DOMAIN t : w[k].price = t[k].price /\ w[k].priority = t[k].priority
      BY <3>3
    <3>7. Relinked(w, v, {i}) /\ Tree(v, S, i)
      BY <2>6, <3>3, <3>5, <3>6
    <3> HIDE DEF v
    <3>8. v \in Vectors(t)
      BY <3>3, <3>7, VectorsAlike DEF Relinked
    <3>9. /\ Alike(t, v, S, j) /\ v[j].price = price /\ v[j].quantity = quantity
          /\ v[j].priority = t[j].priority
      BY <2>1, <2>11, <3>1, <3>3, <3>4, <3>7, <3>8 DEF Alike, Relinked
    <3> QED BY <3>2, <3>7, <3>9
  <2> QED BY <2>1, <2>2, <2>9, <2>10, <2>11
<1>6. Link(t) \subseteq P
  <2> HIDE DEF P
  <2> QED BY <1>1, <1>4, <1>5, UpInduction
<1> SUFFICES ASSUME NEW i \in Link(t), NEW S, Tree(t, S, i), NEW j \in S, t[j].price = price
             PROVE  Done(S, j, i, UpdateQuantity(t, i, price, quantity))
  OBVIOUS
<1>7. S \in SUBSET DOMAIN t
  BY DEF Tree
<1> HIDE DEF Done
<1> QED BY <1>3, <1>6, <1>7

-----------------------------------------------------------------------------
(* The inductive invariant.                                                *)

(* The nodes that are not free are a treap of levels, there are no more of *)
(* them than indices, and the free list has room for every one.            *)
IInv ==
  /\ side \in Sides
  /\ Vector(nodes) /\ DOMAIN nodes = 0 .. Cardinality(DOMAIN nodes) - 1
  /\ free \in Seq(DOMAIN nodes) /\ IsInjective(free)
  /\ capacity \in Nat /\ Cardinality(DOMAIN nodes) <= capacity
  /\ Cardinality(DOMAIN nodes) <= MaxNodes
  /\ Tree(nodes, Live, root)
  /\ \A i \in Live :
       /\ nodes[i].price \in Prices
       /\ nodes[i].quantity \in Quantities /\ nodes[i].quantity > 0
       /\ nodes[i].priority \in Priorities
  /\ \A i \in DOMAIN nodes \ Live : nodes[i] = Blank

(* What the limits of int leave of the constants. *)
LEMMA Constants ==
  /\ MinInt \in Int /\ MaxInt \in Int
  /\ \A p \in Prices : p \in Int /\ MinInt <= p /\ p <= MaxInt
  /\ \A q \in Quantities : q \in Int
  /\ \A p \in Priorities : p \in Nat
  /\ MaxNodes \in Nat /\ \A n \in Reservations : n \in Nat
BY ConstantsAssumption

(* What the invariant says of the nodes as a vector. *)
LEMMA Shape ==
  ASSUME IInv
  PROVE  /\ Vector(nodes) /\ Grounded(nodes) /\ nullIndex \notin DOMAIN nodes
         /\ Live \in SUBSET DOMAIN nodes /\ root \in Link(nodes)
         /\ \A i \in DOMAIN nodes \ Live : nodes[i].left = nullIndex /\ nodes[i].right = nullIndex
<1>1. Vector(nodes) /\ nullIndex \notin DOMAIN nodes
  BY NodeTypes DEF IInv
<1>2. Live \in SUBSET DOMAIN nodes
  BY DEF Live
<1>3. \A i \in DOMAIN nodes \ Live : nodes[i].left = nullIndex /\ nodes[i].right = nullIndex
  BY DEF IInv, Blank
<1>4. Tree(nodes, Live, root)
  BY DEF IInv
<1>5. Grounded(nodes)
  BY <1>1, <1>3, <1>4, TreeGrounded
<1>6. root \in Link(nodes)
  BY <1>1, <1>2, <1>4, TreeSums DEF Link
<1> QED BY <1>1, <1>2, <1>3, <1>5, <1>6

(* The greater of two numbers. *)
LEMMA MaxOfTwo ==
  ASSUME NEW a \in Int, NEW b \in Int
  PROVE  Max({a, b}) = IF a >= b THEN a ELSE b
<1>1. \E x \in {a, b} : \A y \in {a, b} : x >= y
  OBVIOUS
<1>2. Max({a, b}) \in {a, b} /\ \A y \in {a, b} : Max({a, b}) >= y
  BY <1>1 DEF Max
<1> QED BY <1>2

(* An index taken from the end of the free list. *)
LEMMA FreePop ==
  ASSUME NEW D, NEW s \in Seq(D), IsInjective(s), s # << >>
  PROVE  /\ Last(s) \in D /\ Last(s) \in ToSet(s)
         /\ Front(s) \in Seq(D) /\ IsInjective(Front(s)) /\ Len(Front(s)) = Len(s) - 1
         /\ ToSet(Front(s)) = ToSet(s) \ {Last(s)}
<1>1. Len(s) \in Nat /\ Len(s) # 0 /\ DOMAIN s = 1 .. Len(s)
  OBVIOUS
<1>2. Last(s) = s[Len(s)] /\ Len(s) \in DOMAIN s /\ Front(s) = [i \in 1 .. Len(s) - 1 |-> s[i]]
  BY <1>1 DEF Last, Front
<1>3. /\ Front(s) \in Seq(D) /\ Len(Front(s)) = Len(s) - 1
      /\ DOMAIN Front(s) = 1 .. Len(s) - 1
      /\ \A i \in 1 .. Len(s) - 1 : Front(s)[i] = s[i]
  BY <1>1, <1>2
<1>4. \A i, j \in 1 .. Len(s) : s[i] = s[j] => i = j
  BY <1>1 DEF IsInjective
<1>5. IsInjective(Front(s))
  BY <1>1, <1>3, <1>4 DEF IsInjective
<1>6. ToSet(Front(s)) = ToSet(s) \ {Last(s)}
  BY <1>1, <1>2, <1>3, <1>4 DEF ToSet
<1>7. Last(s) \in D /\ Last(s) \in ToSet(s)
  BY <1>2 DEF ToSet
<1> QED BY <1>3, <1>5, <1>6, <1>7

(* An index put at its end. *)
LEMMA FreePush ==
  ASSUME NEW D, NEW s \in Seq(D), IsInjective(s), NEW x \in D, x \notin ToSet(s)
  PROVE  /\ Append(s, x) \in Seq(D) /\ IsInjective(Append(s, x))
         /\ Len(Append(s, x)) = Len(s) + 1
         /\ ToSet(Append(s, x)) = ToSet(s) \cup {x}
<1>1. /\ Append(s, x) \in Seq(D) /\ Len(Append(s, x)) = Len(s) + 1
      /\ DOMAIN Append(s, x) = 1 .. Len(s) + 1 /\ DOMAIN s = 1 .. Len(s) /\ Len(s) \in Nat
      /\ \A i \in 1 .. Len(s) : Append(s, x)[i] = s[i]
      /\ Append(s, x)[Len(s) + 1] = x
  OBVIOUS
<1>2. \A i \in 1 .. Len(s) : s[i] # x
  BY <1>1 DEF ToSet
<1>3. IsInjective(Append(s, x))
  BY <1>1, <1>2 DEF IsInjective
<1>4. ToSet(Append(s, x)) = ToSet(s) \cup {x}
  BY <1>1 DEF ToSet
<1> QED BY <1>1, <1>3, <1>4

(* It has as many indices as its length. *)
LEMMA FreeSize ==
  ASSUME NEW D, NEW s \in Seq(D), IsInjective(s)
  PROVE  IsFiniteSet(ToSet(s)) /\ Cardinality(ToSet(s)) = Len(s)
<1>1. Len(s) \in Nat /\ DOMAIN s = 1 .. Len(s)
  OBVIOUS
<1>2. s \in [1 .. Len(s) -> ToSet(s)]
  BY <1>1 DEF ToSet
<1>3. s \in Bijection(1 .. Len(s), ToSet(s))
  <2>1. \A i, j \in 1 .. Len(s) : s[i] = s[j] => i = j
    BY <1>1 DEF IsInjective
  <2>2. \A x \in ToSet(s) : \E i \in 1 .. Len(s) : s[i] = x
    BY <1>1 DEF ToSet
  <2> QED BY <1>2, <2>1, <2>2 DEF Bijection, Injection, Surjection, IsInjective
<1>4. IsFiniteSet(1 .. Len(s)) /\ Cardinality(1 .. Len(s)) = Len(s)
  BY <1>1, FS_Interval
<1> QED BY <1>3, <1>4, FS_Bijection DEF ExistsBijection

(* What a price finds in the treap of the levels. *)
LEMMA Found ==
  ASSUME IInv, NEW price \in Int
  PROVE  \/ /\ FindFrom(nodes, root, price) \in Live
            /\ nodes[FindFrom(nodes, root, price)].price = price
         \/ /\ FindFrom(nodes, root, price) = nullIndex
            /\ \A k \in Live : nodes[k].price # price
<1>1. Vector(nodes) /\ Grounded(nodes) /\ root \in Link(nodes) /\ Tree(nodes, Live, root)
  BY Shape DEF IInv
<1> QED BY <1>1, FindTree

(* A level removed: its node is blank and at the end of the free list. *)
LEMMA LevelRemoved ==
  ASSUME IInv, NEW price \in Prices, RemoveLevel(price)
  PROVE  \/ /\ UNCHANGED <<root, nodes, free, capacity>>
            /\ \A k \in Live : nodes[k].price # price
         \/ \E i \in Live :
              /\ nodes[i].price = price
              /\ Alike(nodes, nodes', Live, i) /\ nodes'[i] = Blank
              /\ Tree(nodes', Live \ {i}, root') /\ Live' = Live \ {i}
              /\ free' \in Seq(DOMAIN nodes) /\ IsInjective(free')
              /\ Len(free) < Cardinality(DOMAIN nodes) /\ UNCHANGED capacity
<1> DEFINE i == FindFrom(nodes, root, price)
<1>1. /\ Vector(nodes) /\ Grounded(nodes) /\ root \in Link(nodes)
      /\ Tree(nodes, Live, root) /\ Live \in SUBSET DOMAIN nodes /\ nullIndex \notin DOMAIN nodes
  BY Shape DEF IInv
<1>2. price \in Int
  BY Constants
<1>3. \/ i \in Live /\ nodes[i].price = price
      \/ i = nullIndex /\ \A k \in Live : nodes[k].price # price
  BY <1>2, Found
<1>4. CASE i = nullIndex
  <2>1. UNCHANGED <<root, nodes, free, capacity>>
    BY <1>4 DEF RemoveLevel
  <2> QED BY <1>1, <1>3, <1>4, <2>1
<1>5. CASE i # nullIndex
  <2>1. i \in Live /\ nodes[i].price = price
    BY <1>3, <1>5
  <2>2. /\ nodes' = EraseNode(nodes, root, price).nodes
        /\ root' = EraseNode(nodes, root, price).root
        /\ free' = Append(free, i)
        /\ capacity' = IF Len(free) = capacity THEN Max({1, 2 * capacity}) ELSE capacity
    BY <1>5 DEF RemoveLevel
  <2> HIDE DEF i
  <2>3. /\ Alike(nodes, nodes', Live, i) /\ nodes'[i] = Blank
        /\ Tree(nodes', Live \ {i}, root')
    BY <1>1, <1>2, <2>1, <2>2, EraseTree
  <2>4. DOMAIN nodes' = DOMAIN nodes
    BY <1>1, <2>3, VectorsAlike DEF Alike
  <2>5. free \in Seq(DOMAIN nodes) /\ IsInjective(free) /\ i \in DOMAIN nodes /\ i \notin ToSet(free)
    BY <2>1 DEF IInv, Live
  <2>6. /\ free' \in Seq(DOMAIN nodes) /\ IsInjective(free')
        /\ ToSet(free') = ToSet(free) \cup {i}
    BY <2>2, <2>5, FreePush
  <2>7. Live' = Live \ {i}
    BY <2>4, <2>6 DEF Live
  <2>8. Len(free) < Cardinality(DOMAIN nodes)
    <3>1. IsFiniteSet(ToSet(free)) /\ Cardinality(ToSet(free)) = Len(free)
      BY <2>5, FreeSize
    <3>2. IsFiniteSet(DOMAIN nodes) /\ ToSet(free) \subseteq DOMAIN nodes /\ ToSet(free) # DOMAIN nodes
      BY <1>1, <2>5 DEF Vector, ToSet
    <3>3. /\ Cardinality(ToSet(free)) <= Cardinality(DOMAIN nodes)
          /\ Cardinality(ToSet(free)) # Cardinality(DOMAIN nodes)
      BY <3>2, FS_Subset
    <3>4. Cardinality(ToSet(free)) \in Nat /\ Cardinality(DOMAIN nodes) \in Nat
      BY <3>1, <3>2, FS_CardinalityType
    <3> QED BY <3>1, <3>3, <3>4
  <2>9. UNCHANGED capacity
    <3>1. capacity \in Nat /\ Cardinality(DOMAIN nodes) <= capacity
      BY DEF IInv
    <3>2. Cardinality(DOMAIN nodes) \in Nat /\ Len(free) \in Nat
      BY <1>1, <2>5, FS_CardinalityType DEF Vector
    <3>3. Len(free) # capacity
      BY <2>8, <3>1, <3>2
    <3> QED BY <2>2, <3>3
  <2> QED BY <2>1, <2>3, <2>6, <2>7, <2>8, <2>9
<1> QED BY <1>4, <1>5

(* A level changed: only the links and sums of other nodes change too. *)
LEMMA LevelChanged ==
  ASSUME IInv, NEW price \in Prices, NEW quantity \in Quantities, ChangeLevel(price, quantity)
  PROVE  /\ UNCHANGED <<root, free, capacity>> /\ Live' = Live
         /\ \E i \in Live :
              /\ nodes[i].price = price
              /\ Alike(nodes, nodes', Live, i)
              /\ nodes'[i].price = price /\ nodes'[i].priority = nodes[i].priority
              /\ nodes'[i].quantity = quantity
              /\ Tree(nodes', Live, root)
<1> DEFINE i == FindFrom(nodes, root, price)
<1>1. /\ Vector(nodes) /\ Grounded(nodes) /\ root \in Link(nodes)
      /\ Tree(nodes, Live, root) /\ Live \in SUBSET DOMAIN nodes
  BY Shape DEF IInv
<1>2. price \in Int /\ quantity \in Int
  BY Constants
<1>3. /\ i # nullIndex
      /\ nodes' = IF nodes[i].quantity # quantity
                  THEN UpdateQuantity(nodes, root, price, quantity) ELSE nodes
      /\ UNCHANGED <<root, free, capacity>>
  BY DEF ChangeLevel
<1>4. i \in Live /\ nodes[i].price = price
  BY <1>2, <1>3, Found
<1> HIDE DEF i
<1> DEFINE Done == /\ Alike(nodes, nodes', Live, i)
                   /\ nodes'[i].price = price /\ nodes'[i].priority = nodes[i].priority
                   /\ nodes'[i].quantity = quantity
                   /\ Tree(nodes', Live, root)
<1>5. Done
  <2>1. CASE nodes[i].quantity # quantity
    <3>1. nodes' = UpdateQuantity(nodes, root, price, quantity)
      BY <1>3, <2>1
    <3> QED BY <1>1, <1>2, <1>4, <3>1, UpdateTree
  <2>2. CASE nodes[i].quantity = quantity
    <3>1. nodes' = nodes
      BY <1>3, <2>2
    <3> QED BY <1>1, <1>4, <2>2, <3>1 DEF Alike, Vector
  <2> QED BY <2>1, <2>2
<1>6. DOMAIN nodes' = DOMAIN nodes
  BY <1>1, <1>5, VectorsAlike DEF Alike
<1>7. Live' = Live
  BY <1>3, <1>6 DEF Live
<1> QED BY <1>3, <1>4, <1>5, <1>7

(* The node setLevel makes of a new price. *)
NewNode(price, quantity, priority) ==
  [Blank EXCEPT !.price = price, !.quantity = quantity,
                !.subtreeQuantity = quantity, !.subtreeLevels = 1,
                !.priority = priority]

(* Such a node has neither children nor anything under it but itself. *)
LEMMA NewNodeIs ==
  ASSUME NEW price \in Int, NEW quantity \in Int, NEW priority \in Int
  PROVE  /\ \A t : NewNode(price, quantity, priority) \in Node(t)
         /\ NewNode(price, quantity, priority).price = price
         /\ NewNode(price, quantity, priority).quantity = quantity
         /\ NewNode(price, quantity, priority).subtreeQuantity = quantity
         /\ NewNode(price, quantity, priority).subtreeLevels = 1
         /\ NewNode(price, quantity, priority).priority = priority
         /\ NewNode(price, quantity, priority).left = nullIndex
         /\ NewNode(price, quantity, priority).right = nullIndex
<1> DEFINE n == NewNode(price, quantity, priority)
<1>1. /\ n.price = price /\ n.quantity = quantity /\ n.priority = priority
      /\ n.subtreeQuantity = quantity /\ n.subtreeLevels = 1
      /\ n.left = nullIndex /\ n.right = nullIndex
  BY DEF NewNode, Blank
<1>2. ASSUME NEW t PROVE n \in Node(t)
  <2>1. nullIndex \in Link(t) /\ 0 \in Int /\ 1 \in Int
    BY DEF Link
  <2>2. Blank \in Node(t)
    BY <2>1 DEF Blank, Node
  <2> QED BY <2>1, <2>2 DEF NewNode, Node
<1> QED BY <1>1, <1>2

(* What createNode makes with a node: one that was not live, and no index  *)
(* but its own leaves the free list, which keeps room for every node.      *)
IsCreated(c, node) ==
  /\ Vector(c.nodes) /\ DOMAIN c.nodes = 0 .. Cardinality(DOMAIN c.nodes) - 1
  /\ DOMAIN c.nodes = DOMAIN nodes \cup {c.index} /\ c.index \notin Live
  /\ c.nodes[c.index] = node
  /\ \A k \in DOMAIN nodes : k # c.index => c.nodes[k] = nodes[k]
  /\ DOMAIN c.nodes \ ToSet(c.free) = Live \cup {c.index}
  /\ c.free \in Seq(DOMAIN c.nodes) /\ IsInjective(c.free) /\ Len(c.free) <= Len(free)
  /\ c.capacity \in Nat /\ Cardinality(DOMAIN c.nodes) <= c.capacity /\ capacity <= c.capacity
  /\ Cardinality(DOMAIN c.nodes) <= MaxNodes

(* That is what it makes, where it has room. *)
LEMMA Created ==
  ASSUME IInv, HasRoom, NEW node, \A t : node \in Node(t), NEW c, c = CreateNode(node)
  PROVE  IsCreated(c, node)
<1> DEFINE size == Cardinality(DOMAIN nodes)
<1>1. /\ Vector(nodes) /\ DOMAIN nodes = 0 .. size - 1
      /\ free \in Seq(DOMAIN nodes) /\ IsInjective(free)
      /\ capacity \in Nat /\ size <= capacity /\ size <= MaxNodes
  BY DEF IInv
<1>2. size \in Nat /\ Len(free) \in Nat /\ IsFiniteSet(DOMAIN nodes) /\ DOMAIN nodes \subseteq Nat
  BY <1>1, FS_CardinalityType DEF Vector
<1>4. CASE free # << >>
  <2>1. /\ Last(free) \in DOMAIN nodes /\ Last(free) \in ToSet(free)
        /\ Front(free) \in Seq(DOMAIN nodes) /\ IsInjective(Front(free))
        /\ ToSet(Front(free)) = ToSet(free) \ {Last(free)} /\ Len(Front(free)) = Len(free) - 1
    BY <1>1, <1>4, FreePop
  <2>2. /\ c.index = Last(free) /\ c.nodes = [nodes EXCEPT ![Last(free)] = node]
        /\ c.free = Front(free) /\ c.capacity = capacity
    BY <1>4 DEF CreateNode
  <2>3. c.nodes \in Vectors(nodes)
    BY <1>1, <2>1, <2>2 DEF Vector, Vectors
  <2>4. Vector(c.nodes) /\ DOMAIN c.nodes = DOMAIN nodes
    BY <1>1, <2>3, VectorsAlike
  <2>5. /\ c.nodes[c.index] = node
        /\ \A k \in DOMAIN nodes : k # c.index => c.nodes[k] = nodes[k]
    BY <2>1, <2>2, <2>4
  <2>6. DOMAIN c.nodes \ ToSet(c.free) = Live \cup {c.index} /\ c.index \notin Live
    BY <2>1, <2>2, <2>4 DEF Live
  <2>7. c.free \in Seq(DOMAIN c.nodes) /\ IsInjective(c.free) /\ Len(c.free) <= Len(free)
    BY <1>2, <2>1, <2>2, <2>4
  <2>8. /\ c.capacity \in Nat /\ Cardinality(DOMAIN c.nodes) <= c.capacity /\ capacity <= c.capacity
        /\ DOMAIN c.nodes = 0 .. Cardinality(DOMAIN c.nodes) - 1
        /\ Cardinality(DOMAIN c.nodes) <= MaxNodes
    BY <1>1, <2>2, <2>4
  <2>9. DOMAIN c.nodes = DOMAIN nodes \cup {c.index}
    BY <2>1, <2>2, <2>4
  <2> QED BY <2>4, <2>5, <2>6, <2>7, <2>8, <2>9 DEF IsCreated
<1>5. CASE free = << >>
  <2>1. /\ c.index = size /\ c.nodes = With(nodes, size, node) /\ c.free = free
        /\ c.capacity = IF capacity < size + 1 THEN Max({size + 1, 2 * capacity}) ELSE capacity
    BY <1>5 DEF CreateNode
  <2>2. size \notin DOMAIN nodes /\ DOMAIN nodes \cup {size} = 0 .. size
    BY <1>1, <1>2
  <2>3. /\ DOMAIN c.nodes = DOMAIN nodes \cup {size} /\ c.nodes[size] = node
        /\ \A k \in DOMAIN nodes : c.nodes[k] = nodes[k]
    BY <2>1, <2>2 DEF With
  <2>4. IsFiniteSet(DOMAIN c.nodes) /\ Cardinality(DOMAIN c.nodes) = size + 1
    <3>1. /\ IsFiniteSet(DOMAIN nodes) /\ size \notin DOMAIN nodes
          /\ DOMAIN c.nodes = DOMAIN nodes \cup {size}
      BY <1>2, <2>2, <2>3
    <3> QED BY <3>1, FS_AddElement
  <2>5. Vector(c.nodes)
    <3>1. \A k \in DOMAIN nodes : nodes[k] \in Node(nodes)
      BY <1>1, NodeTypes
    <3>2. Node(nodes) \subseteq Node(c.nodes)
      BY <2>3 DEF Node, Link
    <3>3. c.nodes = [k \in DOMAIN c.nodes |-> c.nodes[k]]
      BY <2>1 DEF With
    <3>4. \A k \in DOMAIN c.nodes : c.nodes[k] \in Node(c.nodes)
      BY <2>3, <3>1, <3>2
    <3>5. c.nodes \in Vectors(c.nodes)
      BY <3>3, <3>4 DEF Vectors
    <3> QED BY <1>2, <2>3, <2>4, <3>5 DEF Vector
  <2>6. ToSet(free) = {} /\ Live = DOMAIN nodes
    <3>1. DOMAIN free = {}
      BY <1>1, <1>5
    <3> QED BY <3>1 DEF ToSet, Live
  <2>7. c.capacity \in Nat /\ size + 1 <= c.capacity /\ capacity <= c.capacity
    <3>1. size + 1 \in Int /\ 2 * capacity \in Int /\ capacity >= 0
      BY <1>1, <1>2
    <3>2. Max({size + 1, 2 * capacity}) = IF size + 1 >= 2 * capacity THEN size + 1 ELSE 2 * capacity
      BY <3>1, MaxOfTwo
    <3> HIDE DEF size
    <3> QED BY <1>1, <1>2, <2>1, <3>2
  <2>8. c.free \in Seq(DOMAIN c.nodes) /\ IsInjective(c.free) /\ ToSet(c.free) = {}
    BY <1>1, <1>5, <2>1, <2>6
  <2>9. DOMAIN c.nodes = 0 .. Cardinality(DOMAIN c.nodes) - 1
    BY <1>2, <2>2, <2>3, <2>4
  <2>10. Cardinality(DOMAIN c.nodes) <= MaxNodes
    BY <1>2, <1>5, <2>4, Constants DEF HasRoom
  <2> QED BY <2>1, <2>2, <2>3, <2>4, <2>5, <2>6, <2>7, <2>8, <2>9, <2>10 DEF IsCreated
<1> QED BY <1>4, <1>5

(* A node without children is a treap. *)
LEMMA TreeOfOne ==
  ASSUME NEW t, Vector(t), NEW n \in DOMAIN t, t[n].left = nullIndex, t[n].right = nullIndex,
         t[n].subtreeQuantity = t[n].quantity, t[n].subtreeLevels = 1
  PROVE  Tree(t, {n}, n)
<1>1. Tree(t, {}, t[n].left) /\ Tree(t, {}, t[n].right)
  BY TreeEmpty
<1>2. Total(t, {}) = 0 /\ Cardinality({}) = 0 /\ t[n].quantity \in Int
  BY TotalType, NodeTypes
<1>3. ASSUME NEW L, L = {} PROVE Tree(t, L \cup L \cup {n}, n)
  <2>1. /\ \A k \in L : t[k].price < t[n].price /\ t[k].price > t[n].price
        /\ \A k \in L \cup L : HasHigherPriority(t, n, k)
    BY <1>3
  <2>2. /\ t[n].subtreeQuantity = Total(t, L) + t[n].quantity + Total(t, L)
        /\ t[n].subtreeLevels = Cardinality(L) + 1 + Cardinality(L)
    BY <1>2, <1>3
  <2>3. Tree(t, L, t[n].left) /\ Tree(t, L, t[n].right)
    BY <1>1, <1>3
  <2> QED BY <2>1, <2>2, <2>3, TreeJoin
<1>4. {} \cup {} \cup {n} = {n}
  OBVIOUS
<1> QED BY <1>3, <1>4

(* Node i is the new level: it was not live, and of the others only links  *)
(* and sums of the live ones change.                                       *)
IsAdded(i, price, quantity) ==
  /\ i \notin Live /\ Live' = Live \cup {i} /\ DOMAIN nodes' = DOMAIN nodes \cup {i}
  /\ nodes'[i].price = price /\ nodes'[i].quantity = quantity
  /\ nodes'[i].priority \in Priorities
  /\ \A k \in DOMAIN nodes \ {i} :
       /\ nodes'[k].price = nodes[k].price /\ nodes'[k].quantity = nodes[k].quantity
       /\ nodes'[k].priority = nodes[k].priority
       /\ k \notin Live => nodes'[k] = nodes[k]
  /\ Tree(nodes', Live \cup {i}, root')

(* A level added. *)
LEMMA LevelAdded ==
  ASSUME IInv, NEW price \in Prices, NEW quantity \in Quantities, AddLevel(price, quantity)
  PROVE  /\ \A k \in Live : nodes[k].price # price
         /\ Vector(nodes') /\ DOMAIN nodes' = 0 .. Cardinality(DOMAIN nodes') - 1
         /\ free' \in Seq(DOMAIN nodes') /\ IsInjective(free') /\ Len(free') <= Len(free)
         /\ capacity' \in Nat /\ Cardinality(DOMAIN nodes') <= capacity' /\ capacity <= capacity'
         /\ Cardinality(DOMAIN nodes') <= MaxNodes
         /\ \E i \in DOMAIN nodes' : IsAdded(i, price, quantity)
<1>1. /\ Vector(nodes) /\ nullIndex \notin DOMAIN nodes
      /\ Tree(nodes, Live, root) /\ Live \in SUBSET DOMAIN nodes /\ root \in Link(nodes)
      /\ \A k \in DOMAIN nodes \ Live : nodes[k].left = nullIndex /\ nodes[k].right = nullIndex
  BY Shape DEF IInv
<1>2. price \in Int /\ quantity \in Int
  BY Constants
<1>3. HasRoom /\ \A k \in Live : nodes[k].price # price
  <2>1. FindFrom(nodes, root, price) = nullIndex /\ HasRoom
    BY DEF AddLevel
  <2> QED BY <1>1, <1>2, <2>1, Found
<1>4. PICK priority \in Priorities :
        LET c == CreateNode(NewNode(price, quantity, priority))
            n == InsertNode(c.nodes, root, c.index)
        IN /\ nodes' = n.nodes /\ root' = n.root /\ free' = c.free /\ capacity' = c.capacity
  BY DEF AddLevel, NewNode
<1>5. priority \in Int
  BY Constants
<1> DEFINE c == CreateNode(NewNode(price, quantity, priority))
           t == c.nodes
           i == c.index
           n == InsertNode(t, root, i)
<1>6. nodes' = n.nodes /\ root' = n.root /\ free' = c.free /\ capacity' = c.capacity
  BY <1>4
<1>7. IsCreated(c, NewNode(price, quantity, priority))
  <2> HIDE DEF c
  <2>1. \A u : NewNode(price, quantity, priority) \in Node(u)
    BY <1>2, <1>5, NewNodeIs
  <2>2. c = CreateNode(NewNode(price, quantity, priority))
    BY DEF c
  <2> QED BY <1>3, <2>1, <2>2, Created
<1> HIDE DEF c
<1>18. /\ Vector(t) /\ DOMAIN t = 0 .. Cardinality(DOMAIN t) - 1
       /\ DOMAIN t = DOMAIN nodes \cup {i} /\ i \notin Live
       /\ t[i] = NewNode(price, quantity, priority)
       /\ \A k \in DOMAIN nodes : k # i => t[k] = nodes[k]
       /\ DOMAIN t \ ToSet(c.free) = Live \cup {i}
       /\ c.free \in Seq(DOMAIN t) /\ IsInjective(c.free) /\ Len(c.free) <= Len(free)
       /\ c.capacity \in Nat /\ Cardinality(DOMAIN t) <= c.capacity /\ capacity <= c.capacity
       /\ Cardinality(DOMAIN t) <= MaxNodes
  BY <1>7 DEF IsCreated
<1>8. /\ t[i].price = price /\ t[i].quantity = quantity /\ t[i].priority = priority
      /\ t[i].left = nullIndex /\ t[i].right = nullIndex
      /\ t[i].subtreeQuantity = quantity /\ t[i].subtreeLevels = 1
  BY <1>2, <1>5, <1>18, NewNodeIs
<1>9. Tree(t, {i}, i)
  BY <1>18, <1>8, TreeOfOne
<1>10. Tree(t, Live, root)
  <2>1. Live \subseteq DOMAIN t /\ \A k \in Live : t[k] = nodes[k]
    BY <1>1, <1>18
  <2> QED BY <1>1, <2>1, TreeFrame
<1>11. Grounded(t)
  <2>1. \A k \in DOMAIN t \ Live : t[k].left = nullIndex /\ t[k].right = nullIndex
    BY <1>1, <1>18, <1>8
  <2> QED BY <1>18, <1>10, <2>1, TreeGrounded
<1>12. root \in Link(t) /\ \A k \in Live : t[k].price # t[i].price
  BY <1>1, <1>3, <1>18, <1>8 DEF Link
<1>13. Relinked(t, nodes', Live \cup {i}) /\ Tree(nodes', Live \cup {i}, root')
  BY <1>6, <1>18, <1>9, <1>10, <1>11, <1>12, InsertTree
<1> HIDE DEF n
<1>14. Vector(nodes') /\ DOMAIN nodes' = DOMAIN t
  BY <1>18, <1>13, RelinkedKeeps
<1>15. Live' = Live \cup {i}
  BY <1>6, <1>18, <1>14 DEF Live
<1>16. /\ nodes'[i].price = price /\ nodes'[i].quantity = quantity
       /\ nodes'[i].priority \in Priorities
  BY <1>18, <1>8, <1>13 DEF Relinked
<1>17. \A k \in DOMAIN nodes \ {i} :
         /\ nodes'[k].price = nodes[k].price /\ nodes'[k].quantity = nodes[k].quantity
         /\ nodes'[k].priority = nodes[k].priority
         /\ k \notin Live => nodes'[k] = nodes[k]
  BY <1>18, <1>13 DEF Relinked
<1>19. i \in DOMAIN nodes' /\ IsAdded(i, price, quantity)
  BY <1>18, <1>13, <1>14, <1>15, <1>16, <1>17 DEF IsAdded
<1> QED BY <1>3, <1>6, <1>18, <1>13, <1>14, <1>19

(* The vector without nodes. *)
LEMMA NoNodes ==
  /\ Vector(EmptyMap) /\ DOMAIN EmptyMap = 0 .. Cardinality(DOMAIN EmptyMap) - 1
  /\ DOMAIN EmptyMap = {} /\ Cardinality(DOMAIN EmptyMap) = 0
  /\ Tree(EmptyMap, {}, nullIndex)
<1>1. DOMAIN EmptyMap = {}
  BY DEF EmptyMap
<1>2. Cardinality(DOMAIN EmptyMap) = 0 /\ IsFiniteSet(DOMAIN EmptyMap)
  BY <1>1, FS_EmptySet
<1>3. EmptyMap \in Vectors(EmptyMap)
  BY DEF Vectors, EmptyMap
<1> QED BY <1>1, <1>2, <1>3, TreeEmpty DEF Vector

(* The empty treap is as the invariant says. *)
LEMMA IInvInit ==
  ASSUME Init
  PROVE  IInv
<1>1. /\ side \in Sides /\ nodes = EmptyMap /\ root = nullIndex /\ free = << >> /\ capacity = 0
  BY DEF Init
<1>2. DOMAIN nodes = {} /\ Live = {}
  BY <1>1, NoNodes DEF Live
<1>3. Tree(nodes, Live, root) /\ Vector(nodes) /\ Cardinality(DOMAIN nodes) = 0
      /\ DOMAIN nodes = 0 .. Cardinality(DOMAIN nodes) - 1
  BY <1>1, <1>2, NoNodes
<1>4. free \in Seq(DOMAIN nodes) /\ IsInjective(free)
  BY <1>1 DEF IsInjective
<1>5. MaxNodes \in Nat
  BY Constants
<1> QED BY <1>1, <1>2, <1>3, <1>4, <1>5 DEF IInv

(* setLevel with a quantity of zero preserves the invariant. *)
LEMMA IInvRemove ==
  ASSUME IInv, NEW price \in Prices, RemoveLevel(price), UNCHANGED side
  PROVE  IInv'
<1>1. CASE UNCHANGED <<root, nodes, free, capacity>>
  BY <1>1 DEF IInv, Live
<1>2. ASSUME NEW i \in Live,
             Alike(nodes, nodes', Live, i), nodes'[i] = Blank,
             Tree(nodes', Live \ {i}, root'), Live' = Live \ {i},
             free' \in Seq(DOMAIN nodes), IsInjective(free'), UNCHANGED capacity
      PROVE  IInv'
  <2>1. Vector(nodes') /\ DOMAIN nodes' = DOMAIN nodes
    BY <1>2, VectorsAlike DEF Alike, IInv
  <2>2. \A k \in Live' :
          /\ nodes'[k].price = nodes[k].price /\ nodes'[k].quantity = nodes[k].quantity
          /\ nodes'[k].priority = nodes[k].priority
    BY <1>2, Shape DEF Alike
  <2>3. \A k \in DOMAIN nodes' \ Live' : nodes'[k] = Blank
    BY <1>2, <2>1 DEF Alike, IInv
  <2>4. Live' \subseteq Live
    BY <1>2
  <2>5. /\ side' \in Sides
        /\ DOMAIN nodes' = 0 .. Cardinality(DOMAIN nodes') - 1
        /\ capacity' \in Nat /\ Cardinality(DOMAIN nodes') <= capacity'
        /\ Cardinality(DOMAIN nodes') <= MaxNodes
        /\ \A k \in Live' :
             /\ nodes'[k].price \in Prices
             /\ nodes'[k].quantity \in Quantities /\ nodes'[k].quantity > 0
             /\ nodes'[k].priority \in Priorities
    BY <1>2, <2>1, <2>2, <2>4 DEF IInv
  <2> QED BY <1>2, <2>1, <2>3, <2>5 DEF IInv
<1> QED BY <1>1, <1>2, LevelRemoved

(* So does setLevel for a price that has a level. *)
LEMMA IInvChange ==
  ASSUME IInv, NEW price \in Prices, NEW quantity \in Quantities, quantity > 0,
         ChangeLevel(price, quantity), UNCHANGED side
  PROVE  IInv'
<1>1. UNCHANGED <<root, free, capacity>> /\ Live' = Live
  BY LevelChanged
<1>2. PICK i \in Live :
        /\ Alike(nodes, nodes', Live, i)
        /\ nodes'[i].price = price /\ nodes'[i].priority = nodes[i].priority
        /\ nodes'[i].quantity = quantity
        /\ Tree(nodes', Live, root)
  BY LevelChanged
<1>3. Vector(nodes') /\ DOMAIN nodes' = DOMAIN nodes
  BY <1>2, VectorsAlike DEF Alike, IInv
<1>4. \A k \in Live :
        /\ \/ nodes'[k].price = price /\ nodes'[k].quantity = quantity
           \/ nodes'[k].price = nodes[k].price /\ nodes'[k].quantity = nodes[k].quantity
        /\ nodes'[k].priority = nodes[k].priority
  BY <1>2, Shape DEF Alike
<1>5. \A k \in DOMAIN nodes' \ Live' : nodes'[k] = Blank
  BY <1>1, <1>2, <1>3 DEF Alike, IInv
<1>6. \A k \in Live' :
        /\ nodes'[k].price \in Prices
        /\ nodes'[k].quantity \in Quantities /\ nodes'[k].quantity > 0
        /\ nodes'[k].priority \in Priorities
  BY <1>1, <1>4 DEF IInv
<1> QED BY <1>1, <1>2, <1>3, <1>5, <1>6 DEF IInv

(* And for one that has none. *)
LEMMA IInvAdd ==
  ASSUME IInv, NEW price \in Prices, NEW quantity \in Quantities, quantity > 0,
         AddLevel(price, quantity), UNCHANGED side
  PROVE  IInv'
<1>1. /\ Vector(nodes') /\ DOMAIN nodes' = 0 .. Cardinality(DOMAIN nodes') - 1
      /\ free' \in Seq(DOMAIN nodes') /\ IsInjective(free')
      /\ capacity' \in Nat /\ Cardinality(DOMAIN nodes') <= capacity'
      /\ Cardinality(DOMAIN nodes') <= MaxNodes
  BY LevelAdded
<1>2. PICK i \in DOMAIN nodes' : IsAdded(i, price, quantity)
  BY LevelAdded
<1>3. \A k \in DOMAIN nodes' \ Live' : nodes'[k] = Blank
  BY <1>2 DEF IInv, IsAdded
<1>4. \A k \in Live' :
        /\ nodes'[k].price \in Prices
        /\ nodes'[k].quantity \in Quantities /\ nodes'[k].quantity > 0
        /\ nodes'[k].priority \in Priorities
  BY <1>2, Shape DEF IInv, IsAdded
<1>5. Tree(nodes', Live', root')
  BY <1>2 DEF IsAdded
<1> QED BY <1>1, <1>3, <1>4, <1>5 DEF IInv

(* clear and reserve preserve it. *)
LEMMA IInvClear ==
  ASSUME IInv, Clear
  PROVE  IInv'
<1>1. /\ side' = side /\ nodes' = EmptyMap /\ root' = nullIndex /\ free' = << >>
      /\ capacity' = capacity
  BY DEF Clear
<1>2. DOMAIN nodes' = {} /\ Live' = {}
  BY <1>1, NoNodes DEF Live
<1>3. Tree(nodes', Live', root') /\ Vector(nodes') /\ Cardinality(DOMAIN nodes') = 0
      /\ DOMAIN nodes' = 0 .. Cardinality(DOMAIN nodes') - 1
  BY <1>1, <1>2, NoNodes
<1>4. free' \in Seq(DOMAIN nodes') /\ IsInjective(free')
  BY <1>1 DEF IsInjective
<1>5. side \in Sides /\ capacity \in Nat /\ MaxNodes \in Nat
  BY Constants DEF IInv
<1> QED BY <1>1, <1>2, <1>3, <1>4, <1>5 DEF IInv

(* Reserve keeps the invariant: it changes nothing but the capacity. *)
LEMMA IInvReserve ==
  ASSUME IInv, NEW expectedLevels \in Reservations, Reserve(expectedLevels)
  PROVE  IInv'
<1>1. /\ capacity' = IF expectedLevels > MaxNodes THEN capacity ELSE Max({capacity, expectedLevels})
      /\ UNCHANGED <<side, root, nodes, free>>
  BY DEF Reserve
<1>2. capacity \in Nat /\ expectedLevels \in Nat /\ Cardinality(DOMAIN nodes) \in Nat
      /\ Cardinality(DOMAIN nodes) <= capacity
  BY Constants, FS_CardinalityType DEF IInv, Vector
<1>3. capacity' \in Nat /\ capacity' >= capacity
  BY <1>1, <1>2, MaxOfTwo
<1>4. Cardinality(DOMAIN nodes) <= capacity'
  BY <1>2, <1>3
<1> QED BY <1>1, <1>3, <1>4 DEF IInv, Live

(* Every step does. *)
LEMMA IInvNext ==
  ASSUME IInv, [Next]_vars
  PROVE  IInv'
<1>1. ASSUME NEW price \in Prices, NEW quantity \in Quantities, SetLevel(price, quantity)
      PROVE  IInv'
  <2>1. UNCHANGED side
    BY <1>1 DEF SetLevel
  <2>2. CASE UNCHANGED treapVars
    BY <2>2 DEF IInv, Live, treapVars
  <2> QED BY <1>1, <2>1, <2>2, IInvRemove, IInvChange, IInvAdd DEF SetLevel, RefuseLevel
<1>2. CASE UNCHANGED vars
  BY <1>2 DEF IInv, Live, vars
<1> QED BY <1>1, <1>2, IInvClear, IInvReserve DEF Next

(* The nodes in use are a treap of the levels, the others are blank and in *)
(* the free list, each once, which has room for all nodes, in any order of *)
(* calls and with any priorities (price_level_treap.cpp:46-884).           *)
THEOREM Invariance == Spec => []IInv
<1> USE IInvInit, IInvNext
<1> QED BY PTL DEF Spec

(* What the header says of a treap's indices and of its nodes.             *)
THEOREM TreapTypeCorrect == Spec => []TypeOK
<1>1. ASSUME IInv PROVE TypeOK
  <2>1. root \in Live \cup {nullIndex}
    BY <1>1, TreeSums DEF IInv
  <2>2. ASSUME NEW i \in Live PROVE {nodes[i].left, nodes[i].right} \subseteq Live \cup {nullIndex}
    <3>1. /\ Tops(nodes, Lower(nodes, Span(nodes, Live, i), nodes[i].price), nodes[i].left)
          /\ Tops(nodes, Upper(nodes, Span(nodes, Live, i), nodes[i].price), nodes[i].right)
      BY <1>1 DEF IInv, Tree
    <3> QED BY <3>1 DEF Tops, Lower, Upper, Span
  <2> QED BY <1>1, <2>1, <2>2 DEF IInv, TypeOK
<1> QED BY <1>1, Invariance, PTL

(* The free list never grows past its capacity, so that releaseNode, which *)
(* may not throw, needs no memory (price_level_treap.cpp:148).             *)
THEOREM ReleasesFit == Spec => ReleaseNeverAllocates
<1>1. ASSUME IInv, [Next]_vars PROVE [Len(free') > Len(free) => Len(free) < capacity]_vars
  <2>1. Len(free) \in Nat /\ capacity \in Nat
        /\ Cardinality(DOMAIN nodes) \in Nat /\ Cardinality(DOMAIN nodes) <= capacity
    BY <1>1, FS_CardinalityType DEF IInv, Vector
  <2>2. ASSUME NEW price \in Prices, NEW quantity \in Quantities, SetLevel(price, quantity)
        PROVE  Len(free') > Len(free) => Len(free) < capacity
    <3>1. CASE RemoveLevel(price)
      <4>1. UNCHANGED free \/ Len(free) < Cardinality(DOMAIN nodes)
        BY <1>1, <3>1, LevelRemoved
      <4> QED BY <2>1, <4>1
    <3>2. CASE ChangeLevel(price, quantity)
      BY <2>1, <3>2 DEF ChangeLevel
    <3>3. CASE AddLevel(price, quantity)
      <4>1. Len(free') <= Len(free) /\ Len(free') \in Nat
        BY <1>1, <3>3, LevelAdded
      <4> QED BY <2>1, <4>1
    <3>4. CASE UNCHANGED treapVars
      BY <2>1, <3>4 DEF treapVars
    <3> QED BY <2>2, <3>1, <3>2, <3>3, <3>4 DEF SetLevel, RefuseLevel
  <2>3. CASE Clear
    BY <2>1, <2>3 DEF Clear
  <2>4. ASSUME NEW expectedLevels \in Reservations, Reserve(expectedLevels)
        PROVE  Len(free') > Len(free) => Len(free) < capacity
    BY <2>1, <2>4 DEF Reserve
  <2> QED BY <1>1, <2>2, <2>3, <2>4 DEF Next
<1> QED BY <1>1, Invariance, PTL DEF Spec, ReleaseNeverAllocates

-----------------------------------------------------------------------------
(* The recursive functions of the queries, one node at a time.             *)

(* What Under makes of a node. *)
UnderStep(f, i) ==
  IF i = nullIndex THEN {} ELSE {i} \cup f[nodes[i].left] \cup f[nodes[i].right]

(* Under, one node at a time. *)
LEMMA UnderUnfolds ==
  ASSUME Grounded(nodes)
  PROVE  LET f == [i \in Link(nodes) |-> Under(i)]
         IN \A i \in Link(nodes) : f[i] = UnderStep(f, i)
<1>1. PICK down, N : Ranked(nodes, down, N)
  BY DEF Grounded
<1> DEFINE D == Link(nodes)
           V == SUBSET DOMAIN nodes
           Step(f, i) == UnderStep(f, i)
           G == [f \in [D -> V] |-> [i \in D |-> Step(f, i)]]
           rank == [x \in D |-> down[x]]
<1>2. ASSUME NEW f, NEW g, NEW i \in D,
             \A j \in D : rank[j] < rank[i] => f[j] = g[j]
      PROVE  Step(f, i) = Step(g, i)
  BY <1>1, <1>2 DEF UnderStep, Ranked, Link
<1>3. ASSUME NEW f \in [D -> V], NEW i \in D PROVE Step(f, i) \in V
  BY <1>1 DEF UnderStep, Ranked, Link
<1>4. \E f : f = [i \in D |-> Step(f, i)]
  <2>1. N \in Nat /\ rank \in [D -> 0 .. N]
    BY <1>1 DEF Ranked, Link
  <2> HIDE DEF Step, V, rank, D
  <2>2. Descends(D, V, rank, G)
    BY <1>2, <1>3 DEF Descends
  <2>3. V # {}
    BY DEF V
  <2>4. \E f \in [D -> V] : f = G[f]
    <3> HIDE DEF G
    <3> QED BY <2>1, <2>2, <2>3, Recursion
  <2> QED BY <2>4
<1> DEFINE h == CHOOSE f : f = [i \in D |-> Step(f, i)]
<1>5. h = [i \in D |-> Step(h, i)]
  <2> HIDE DEF Step, V
  <2> QED BY <1>4
<1>6. \A i : Under(i) = h[i]
  BY DEF Under, UnderStep
<1> HIDE DEF h, Step
<1>7. h = [i \in D |-> Under(i)]
  BY <1>5, <1>6
<1>8. \A i \in D : h[i] = Step(h, i)
  BY <1>5
<1> QED BY <1>7, <1>8 DEF Step

(* What the four range functions do at a node. *)
BelowStep(price, inclusive, f, i) ==
  IF i = nullIndex THEN [quantity |-> 0, levels |-> 0]
  ELSE IF price < nodes[i].price \/ (price = nodes[i].price /\ ~inclusive)
  THEN f[nodes[i].left]
  ELSE [quantity |-> SubtreeQuantity(nodes, nodes[i].left) + nodes[i].quantity
                       + f[nodes[i].right].quantity,
        levels |-> SubtreeLevels(nodes, nodes[i].left) + 1 + f[nodes[i].right].levels]

(* Below, one node at a time. *)
LEMMA BelowUnfolds ==
  ASSUME Vector(nodes), Grounded(nodes), NEW price, NEW inclusive \in BOOLEAN
  PROVE  LET f == [i \in Link(nodes) |-> Below(i, price, inclusive)]
         IN \A i \in Link(nodes) : f[i] = BelowStep(price, inclusive, f, i)
<1>1. PICK down, N : Ranked(nodes, down, N)
  BY DEF Grounded
<1> DEFINE D == Link(nodes)
           V == [quantity : Int, levels : Int]
           Step(f, i) == BelowStep(price, inclusive, f, i)
           G == [f \in [D -> V] |-> [i \in D |-> Step(f, i)]]
           rank == [x \in D |-> down[x]]
<1>2. ASSUME NEW f, NEW g, NEW i \in D,
             \A j \in D : rank[j] < rank[i] => f[j] = g[j]
      PROVE  Step(f, i) = Step(g, i)
  BY <1>1, <1>2 DEF BelowStep, Ranked, Link
<1>3. ASSUME NEW f \in [D -> V], NEW i \in D PROVE Step(f, i) \in V
  <2>1. CASE i = nullIndex
    BY <2>1 DEF BelowStep
  <2>2. CASE i \in DOMAIN nodes
    <3>1. /\ SubtreeQuantity(nodes, nodes[i].left) \in Int /\ SubtreeLevels(nodes, nodes[i].left) \in Int
          /\ nodes[i].quantity \in Int
      BY <2>2, NodeTypes DEF SubtreeQuantity, SubtreeLevels, Link
    <3>2. f[nodes[i].left] \in V /\ f[nodes[i].right] \in V
      BY <2>2, NodeTypes
    <3>3. nullIndex \notin DOMAIN nodes
      BY NodeTypes
    <3> QED BY <2>2, <3>1, <3>2, <3>3 DEF BelowStep
  <2> QED BY <2>1, <2>2 DEF Link
<1>4. \E f : f = [i \in D |-> Step(f, i)]
  <2>1. N \in Nat /\ rank \in [D -> 0 .. N]
    BY <1>1 DEF Ranked, Link
  <2> HIDE DEF Step, V, rank, D
  <2>2. Descends(D, V, rank, G)
    BY <1>2, <1>3 DEF Descends
  <2>3. V # {}
    <3>1. [quantity |-> 0, levels |-> 0] \in V
      BY DEF V
    <3> QED BY <3>1
  <2>4. \E f \in [D -> V] : f = G[f]
    <3> HIDE DEF G
    <3> QED BY <2>1, <2>2, <2>3, Recursion
  <2> QED BY <2>4
<1> DEFINE h == CHOOSE f : f = [i \in D |-> Step(f, i)]
<1>5. h = [i \in D |-> Step(h, i)]
  <2> HIDE DEF Step, V
  <2> QED BY <1>4
<1>6. \A i : Below(i, price, inclusive) = h[i]
  BY DEF Below, BelowStep
<1> HIDE DEF h, Step
<1>7. h = [i \in D |-> Below(i, price, inclusive)]
  BY <1>5, <1>6
<1>8. \A i \in D : h[i] = Step(h, i)
  BY <1>5
<1> QED BY <1>7, <1>8 DEF Step

(* The children are links and lower. *)
LEMMA Children ==
  ASSUME NEW rank, NEW N, Ranked(nodes, rank, N), NEW i \in DOMAIN nodes
  PROVE  /\ BetterChild(i) \in Link(nodes) /\ WorseChild(i) \in Link(nodes)
         /\ rank[BetterChild(i)] < rank[i] /\ rank[WorseChild(i)] < rank[i]
         /\ \A s : Towards(s, i) \in Link(nodes) /\ rank[Towards(s, i)] < rank[i]
BY DEF Ranked, BetterChild, WorseChild, Towards

(* What lowestPrice and highestPrice do at a node. *)
EndStep(s, f, i) == IF Towards(s, i) = nullIndex THEN nodes[i].price ELSE f[Towards(s, i)]

(* EndUnder, one node at a time. *)
LEMMA EndUnfolds ==
  ASSUME Vector(nodes), Grounded(nodes), NEW s
  PROVE  LET f == [i \in DOMAIN nodes |-> EndUnder(s, i)]
         IN \A i \in DOMAIN nodes : f[i] = EndStep(s, f, i)
<1>1. PICK down, N : Ranked(nodes, down, N)
  BY DEF Grounded
<1> DEFINE D == DOMAIN nodes
           V == Int
           Step(f, i) == EndStep(s, f, i)
           G == [f \in [D -> V] |-> [i \in D |-> Step(f, i)]]
           rank == [x \in D |-> down[x]]
<1>2. ASSUME NEW f, NEW g, NEW i \in D,
             \A j \in D : rank[j] < rank[i] => f[j] = g[j]
      PROVE  Step(f, i) = Step(g, i)
  <2>1. Towards(s, i) \in Link(nodes) /\ down[Towards(s, i)] < down[i]
    BY <1>1, Children
  <2> QED BY <1>2, <2>1 DEF EndStep, Link
<1>3. ASSUME NEW f \in [D -> V], NEW i \in D PROVE Step(f, i) \in V
  BY <1>1, NodeTypes, Children DEF EndStep, Link
<1>4. \E f : f = [i \in D |-> Step(f, i)]
  <2>1. N \in Nat /\ rank \in [D -> 0 .. N]
    BY <1>1 DEF Ranked, Link
  <2> HIDE DEF Step, V, rank, D
  <2>2. Descends(D, V, rank, G)
    BY <1>2, <1>3 DEF Descends
  <2>3. V # {}
    BY DEF V
  <2>4. \E f \in [D -> V] : f = G[f]
    <3> HIDE DEF G
    <3> QED BY <2>1, <2>2, <2>3, Recursion
  <2> QED BY <2>4
<1> DEFINE h == CHOOSE f : f = [i \in D |-> Step(f, i)]
<1>5. h = [i \in D |-> Step(h, i)]
  <2> HIDE DEF Step, V
  <2> QED BY <1>4
<1>6. \A i : EndUnder(s, i) = h[i]
  BY DEF EndUnder, EndStep
<1> HIDE DEF h, Step
<1>7. h = [i \in D |-> EndUnder(s, i)]
  BY <1>5, <1>6
<1>8. \A i \in D : h[i] = Step(h, i)
  BY <1>5
<1> QED BY <1>7, <1>8 DEF Step

(* What quantityWithinBestLevels does at a node. *)
WithinStep(f, at) ==
  LET i == at[1]
      n == at[2]
      ahead == SubtreeLevels(nodes, BetterChild(i))
      here == SubtreeQuantity(nodes, BetterChild(i)) + nodes[i].quantity
  IN IF i = nullIndex \/ n = 0 THEN 0
     ELSE IF n <= ahead THEN f[<<BetterChild(i), n>>]
     ELSE IF n = ahead + 1 THEN here
     ELSE here + f[<<WorseChild(i), n - ahead - 1>>]

(* The sums that a link has are numbers. *)
LEMMA SumTypes ==
  ASSUME Vector(nodes), NEW i \in Link(nodes)
  PROVE  SubtreeQuantity(nodes, i) \in Int /\ SubtreeLevels(nodes, i) \in Int
BY NodeTypes DEF SubtreeQuantity, SubtreeLevels, Link

(* QuantityWithinBestLevels, one node at a time. *)
LEMMA WithinUnfolds ==
  ASSUME Vector(nodes), Grounded(nodes)
  PROVE  LET f == [i \in Link(nodes) \X Nat |-> QuantityWithinBestLevels(i[1], i[2])]
         IN \A i \in Link(nodes) \X Nat : f[i] = WithinStep(f, i)
<1>1. PICK down, N : Ranked(nodes, down, N)
  BY DEF Grounded
<1> DEFINE D == Link(nodes) \X Nat
           V == Int
           Step(f, i) == WithinStep(f, i)
           G == [f \in [D -> V] |-> [i \in D |-> Step(f, i)]]
           rank == [x \in D |-> down[x[1]]]
<1>2. ASSUME NEW f, NEW g, NEW i \in D,
             \A j \in D : rank[j] < rank[i] => f[j] = g[j]
      PROVE  Step(f, i) = Step(g, i)
  <2>1. PICK k \in Link(nodes), n \in Nat : i = <<k, n>>
    OBVIOUS
  <2>2. CASE k \in DOMAIN nodes
    <3>1. /\ BetterChild(k) \in Link(nodes) /\ WorseChild(k) \in Link(nodes)
          /\ down[BetterChild(k)] < down[k] /\ down[WorseChild(k)] < down[k]
      BY <1>1, <2>2, Children
    <3>2. \A m \in Nat : /\ f[<<BetterChild(k), m>>] = g[<<BetterChild(k), m>>]
                         /\ f[<<WorseChild(k), m>>] = g[<<WorseChild(k), m>>]
      BY <1>2, <2>1, <3>1
    <3>3. SubtreeLevels(nodes, BetterChild(k)) \in Int
      BY <3>1, SumTypes
    <3>4. ~(n <= SubtreeLevels(nodes, BetterChild(k))) /\ n # SubtreeLevels(nodes, BetterChild(k)) + 1
          => n - SubtreeLevels(nodes, BetterChild(k)) - 1 \in Nat
      BY <3>3
    <3> QED BY <2>1, <3>2, <3>4 DEF WithinStep
  <2>3. CASE k = nullIndex
    BY <2>1, <2>3 DEF WithinStep
  <2> QED BY <2>2, <2>3 DEF Link
<1>3. ASSUME NEW f \in [D -> V], NEW i \in D PROVE Step(f, i) \in V
  <2>1. PICK k \in Link(nodes), n \in Nat : i = <<k, n>>
    OBVIOUS
  <2>2. CASE k \in DOMAIN nodes
    <3>1. BetterChild(k) \in Link(nodes) /\ WorseChild(k) \in Link(nodes)
      BY <1>1, <2>2, Children
    <3>2. /\ SubtreeLevels(nodes, BetterChild(k)) \in Int /\ nodes[k].quantity \in Int
          /\ SubtreeQuantity(nodes, BetterChild(k)) \in Int
      BY <2>2, <3>1, SumTypes, NodeTypes
    <3>3. ~(n <= SubtreeLevels(nodes, BetterChild(k))) /\ n # SubtreeLevels(nodes, BetterChild(k)) + 1
          => n - SubtreeLevels(nodes, BetterChild(k)) - 1 \in Nat
      BY <3>2
    <3> QED BY <2>1, <3>1, <3>2, <3>3 DEF WithinStep
  <2>3. CASE k = nullIndex
    BY <2>1, <2>3 DEF WithinStep
  <2> QED BY <2>2, <2>3 DEF Link
<1>4. \E f : f = [i \in D |-> Step(f, i)]
  <2>1. N \in Nat /\ rank \in [D -> 0 .. N]
    BY <1>1 DEF Ranked, Link
  <2> HIDE DEF Step, V, rank, D
  <2>2. Descends(D, V, rank, G)
    BY <1>2, <1>3 DEF Descends
  <2>3. V # {}
    BY DEF V
  <2>4. \E f \in [D -> V] : f = G[f]
    <3> HIDE DEF G
    <3> QED BY <2>1, <2>2, <2>3, Recursion
  <2> QED BY <2>4
<1> DEFINE h == CHOOSE f : f = [i \in D |-> Step(f, i)]
<1>5. h = [i \in D |-> Step(h, i)]
  <2> HIDE DEF Step, V
  <2> QED BY <1>4
<1>6. \A top, a : QuantityWithinBestLevels(top, a) = h[<<top, a>>]
  BY DEF QuantityWithinBestLevels, WithinStep
<1> HIDE DEF h, Step
<1>7. h = [i \in D |-> QuantityWithinBestLevels(i[1], i[2])]
  <2>1. \A i \in D : i = <<i[1], i[2]>>
    OBVIOUS
  <2>2. \A i \in D : h[i] = QuantityWithinBestLevels(i[1], i[2])
    <3> HIDE DEF D
    <3> QED BY <1>6, <2>1
  <2> HIDE DEF D
  <2> QED BY <1>5, <2>2
<1>8. \A i \in D : h[i] = Step(h, i)
  BY <1>5
<1> QED BY <1>7, <1>8 DEF Step

(* What priceAtDepth does at a node. *)
DepthStep(f, at) ==
  LET i == at[1]
      depth == at[2]
      ahead == SubtreeQuantity(nodes, BetterChild(i))
  IN IF i = nullIndex THEN nullIndex
     ELSE IF depth <= ahead THEN f[<<BetterChild(i), depth>>]
     ELSE IF depth <= ahead + nodes[i].quantity THEN i
     ELSE f[<<WorseChild(i), depth - ahead - nodes[i].quantity>>]

(* DepthUnder, one node at a time. *)
LEMMA DepthUnfolds ==
  ASSUME Vector(nodes), Grounded(nodes)
  PROVE  LET f == [i \in Link(nodes) \X Int |-> DepthUnder(i[1], i[2])]
         IN \A i \in Link(nodes) \X Int : f[i] = DepthStep(f, i)
<1>1. PICK down, N : Ranked(nodes, down, N)
  BY DEF Grounded
<1> DEFINE D == Link(nodes) \X Int
           V == Link(nodes)
           Step(f, i) == DepthStep(f, i)
           G == [f \in [D -> V] |-> [i \in D |-> Step(f, i)]]
           rank == [x \in D |-> down[x[1]]]
<1>2. ASSUME NEW f, NEW g, NEW i \in D,
             \A j \in D : rank[j] < rank[i] => f[j] = g[j]
      PROVE  Step(f, i) = Step(g, i)
  <2>1. PICK k \in Link(nodes), n \in Int : i = <<k, n>>
    OBVIOUS
  <2>2. CASE k \in DOMAIN nodes
    <3>1. /\ BetterChild(k) \in Link(nodes) /\ WorseChild(k) \in Link(nodes)
          /\ down[BetterChild(k)] < down[k] /\ down[WorseChild(k)] < down[k]
      BY <1>1, <2>2, Children
    <3>2. \A m \in Int : /\ f[<<BetterChild(k), m>>] = g[<<BetterChild(k), m>>]
                         /\ f[<<WorseChild(k), m>>] = g[<<WorseChild(k), m>>]
      BY <1>2, <2>1, <3>1
    <3>3. SubtreeQuantity(nodes, BetterChild(k)) \in Int /\ nodes[k].quantity \in Int
      BY <2>2, <3>1, SumTypes, NodeTypes
    <3>4. n - SubtreeQuantity(nodes, BetterChild(k)) - nodes[k].quantity \in Int
      BY <3>3
    <3> QED BY <2>1, <3>2, <3>4 DEF DepthStep
  <2>3. CASE k = nullIndex
    BY <2>1, <2>3 DEF DepthStep
  <2> QED BY <2>2, <2>3 DEF Link
<1>3. ASSUME NEW f \in [D -> V], NEW i \in D PROVE Step(f, i) \in V
  <2>1. PICK k \in Link(nodes), n \in Int : i = <<k, n>>
    OBVIOUS
  <2>2. CASE k \in DOMAIN nodes
    <3>1. BetterChild(k) \in Link(nodes) /\ WorseChild(k) \in Link(nodes)
      BY <1>1, <2>2, Children
    <3>2. SubtreeQuantity(nodes, BetterChild(k)) \in Int /\ nodes[k].quantity \in Int
      BY <2>2, <3>1, SumTypes, NodeTypes
    <3> QED BY <2>1, <3>1, <3>2 DEF DepthStep
  <2>3. CASE k = nullIndex
    BY <2>1, <2>3 DEF DepthStep, Link
  <2> QED BY <2>2, <2>3 DEF Link
<1>4. \E f : f = [i \in D |-> Step(f, i)]
  <2>1. N \in Nat /\ rank \in [D -> 0 .. N]
    BY <1>1 DEF Ranked, Link
  <2> HIDE DEF Step, V, rank, D
  <2>2. Descends(D, V, rank, G)
    BY <1>2, <1>3 DEF Descends
  <2>3. V # {}
    BY DEF V, Link
  <2>4. \E f \in [D -> V] : f = G[f]
    <3> HIDE DEF G
    <3> QED BY <2>1, <2>2, <2>3, Recursion
  <2> QED BY <2>4
<1> DEFINE h == CHOOSE f : f = [i \in D |-> Step(f, i)]
<1>5. h = [i \in D |-> Step(h, i)]
  <2> HIDE DEF Step, V
  <2> QED BY <1>4
<1>6. \A top, a : DepthUnder(top, a) = h[<<top, a>>]
  BY DEF DepthUnder, DepthStep
<1> HIDE DEF h, Step
<1>7. h = [i \in D |-> DepthUnder(i[1], i[2])]
  <2>1. \A i \in D : i = <<i[1], i[2]>>
    OBVIOUS
  <2>2. \A i \in D : h[i] = DepthUnder(i[1], i[2])
    <3> HIDE DEF D
    <3> QED BY <1>6, <2>1
  <2> HIDE DEF D
  <2> QED BY <1>5, <2>2
<1>8. \A i \in D : h[i] = Step(h, i)
  BY <1>5
<1> QED BY <1>7, <1>8 DEF Step

(* What collectTopLevels does at a node. *)
CollectStep(maximum, f, at) ==
  LET i == at[1]
      before == at[2]
      ahead == f[<<BetterChild(i), before>>]
      level == [price |-> nodes[i].price, quantity |-> nodes[i].quantity]
  IN IF i = nullIndex \/ Len(before) >= maximum THEN before
     ELSE f[<<WorseChild(i),
              IF Len(ahead) < maximum THEN Append(ahead, level) ELSE ahead>>]

(* A node is a level. *)
LEMMA LevelType ==
  ASSUME Vector(nodes), NEW i \in DOMAIN nodes
  PROVE  [price |-> nodes[i].price, quantity |-> nodes[i].quantity] \in Level
BY NodeTypes DEF Level

(* CollectTopLevels, one node at a time. *)
LEMMA CollectUnfolds ==
  ASSUME Vector(nodes), Grounded(nodes), NEW maximum
  PROVE  LET f == [i \in Link(nodes) \X Seq(Level) |-> CollectTopLevels(i[1], maximum, i[2])]
         IN \A i \in Link(nodes) \X Seq(Level) : f[i] = CollectStep(maximum, f, i)
<1>1. PICK down, N : Ranked(nodes, down, N)
  BY DEF Grounded
<1> DEFINE D == Link(nodes) \X Seq(Level)
           V == Seq(Level)
           Step(f, i) == CollectStep(maximum, f, i)
           G == [f \in [D -> V] |-> [i \in D |-> Step(f, i)]]
           rank == [x \in D |-> down[x[1]]]
<1>2. ASSUME NEW f, NEW g, NEW i \in D,
             f \in [D -> V], g \in [D -> V],
             \A j \in D : rank[j] < rank[i] => f[j] = g[j]
      PROVE  Step(f, i) = Step(g, i)
  <2>1. PICK k \in Link(nodes), s \in Seq(Level) : i = <<k, s>>
    OBVIOUS
  <2>2. CASE k \in DOMAIN nodes
    <3> DEFINE level == [price |-> nodes[k].price, quantity |-> nodes[k].quantity]
    <3>1. /\ BetterChild(k) \in Link(nodes) /\ WorseChild(k) \in Link(nodes)
          /\ down[BetterChild(k)] < down[k] /\ down[WorseChild(k)] < down[k]
      BY <1>1, <2>2, Children
    <3>2. \A z \in Seq(Level) : /\ f[<<BetterChild(k), z>>] = g[<<BetterChild(k), z>>]
                                /\ f[<<WorseChild(k), z>>] = g[<<WorseChild(k), z>>]
      BY <1>2, <2>1, <3>1
    <3>3. level \in Level
      BY <2>2, LevelType
    <3>4. f[<<BetterChild(k), s>>] \in Seq(Level)
      BY <1>2, <3>1
    <3>5. Append(f[<<BetterChild(k), s>>], level) \in Seq(Level)
      BY <3>3, <3>4
    <3> QED BY <2>1, <3>2, <3>4, <3>5 DEF CollectStep
  <2>3. CASE k = nullIndex
    BY <2>1, <2>3 DEF CollectStep
  <2> QED BY <2>2, <2>3 DEF Link
<1>3. ASSUME NEW f \in [D -> V], NEW i \in D PROVE Step(f, i) \in V
  <2>1. PICK k \in Link(nodes), s \in Seq(Level) : i = <<k, s>>
    OBVIOUS
  <2>2. CASE k \in DOMAIN nodes
    <3> DEFINE level == [price |-> nodes[k].price, quantity |-> nodes[k].quantity]
    <3>1. BetterChild(k) \in Link(nodes) /\ WorseChild(k) \in Link(nodes)
      BY <1>1, <2>2, Children
    <3>2. level \in Level
      BY <2>2, LevelType
    <3>3. f[<<BetterChild(k), s>>] \in Seq(Level)
      BY <1>3, <3>1
    <3>4. Append(f[<<BetterChild(k), s>>], level) \in Seq(Level)
      BY <3>2, <3>3
    <3>5. \A z \in Seq(Level) : f[<<WorseChild(k), z>>] \in Seq(Level)
      BY <1>3, <3>1
    <3> QED BY <2>1, <3>3, <3>4, <3>5 DEF CollectStep
  <2>3. CASE k = nullIndex
    BY <2>1, <2>3 DEF CollectStep
  <2> QED BY <2>2, <2>3 DEF Link
<1>4. \E f : f = [i \in D |-> Step(f, i)]
  <2>1. N \in Nat /\ rank \in [D -> 0 .. N]
    BY <1>1 DEF Ranked, Link
  <2> HIDE DEF Step, V, rank, D
  <2>2. Descends(D, V, rank, G)
    BY <1>2, <1>3 DEF Descends
  <2>3. V # {}
    <3>1. << >> \in V
      BY DEF V
    <3> QED BY <3>1
  <2>4. \E f \in [D -> V] : f = G[f]
    <3> HIDE DEF G
    <3> QED BY <2>1, <2>2, <2>3, Recursion
  <2> QED BY <2>4
<1> DEFINE h == CHOOSE f : f = [i \in D |-> Step(f, i)]
<1>5. h = [i \in D |-> Step(h, i)]
  <2> HIDE DEF Step, V
  <2> QED BY <1>4
<1>6. \A top, a : CollectTopLevels(top, maximum, a) = h[<<top, a>>]
  BY DEF CollectTopLevels, CollectStep
<1> HIDE DEF h, Step
<1>7. h = [i \in D |-> CollectTopLevels(i[1], maximum, i[2])]
  <2>1. \A i \in D : i = <<i[1], i[2]>>
    OBVIOUS
  <2>2. \A i \in D : h[i] = CollectTopLevels(i[1], maximum, i[2])
    <3> HIDE DEF D
    <3> QED BY <1>6, <2>1
  <2> HIDE DEF D
  <2> QED BY <1>5, <2>2
<1>8. \A i \in D : h[i] = Step(h, i)
  BY <1>5
<1> QED BY <1>7, <1>8 DEF Step

(* What validateNode does at a node. *)
ValidateStep(f, at) ==
  LET i == at[1]
      lower == at[2]
      upper == at[3]
      n == nodes[i]
      l == f[<<n.left, lower, n.price>>]
      r == f[<<n.right, n.price, upper>>]
      quantity == l.quantity + n.quantity + r.quantity
      levels == l.levels + 1 + r.levels
  IN IF i = nullIndex THEN [ok |-> TRUE, quantity |-> 0, levels |-> 0, height |-> 0]
     ELSE [ok |-> /\ i \in DOMAIN nodes
                  /\ n.quantity > 0 /\ lower < n.price /\ n.price < upper
                  /\ \A child \in {n.left, n.right} \ {nullIndex} :
                       child \in DOMAIN nodes /\ ~HasHigherPriority(nodes, child, i)
                  /\ l.ok /\ r.ok
                  /\ n.subtreeQuantity = quantity /\ n.subtreeLevels = levels,
           quantity |-> quantity, levels |-> levels,
           height |-> 1 + Max({l.height, r.height})]

(* ValidateNode, one node at a time. *)
LEMMA ValidateUnfolds ==
  ASSUME Vector(nodes), Grounded(nodes)
  PROVE  LET f == [i \in Link(nodes) \X Int \X Int |-> ValidateNode(i[1], i[2], i[3])]
         IN \A i \in Link(nodes) \X Int \X Int : f[i] = ValidateStep(f, i)
<1>1. PICK down, N : Ranked(nodes, down, N)
  BY DEF Grounded
<1> DEFINE D == Link(nodes) \X Int \X Int
           V == [ok : BOOLEAN, quantity : Int, levels : Int, height : Int]
           Step(f, i) == ValidateStep(f, i)
           G == [f \in [D -> V] |-> [i \in D |-> Step(f, i)]]
           rank == [x \in D |-> down[x[1]]]
<1>2. ASSUME NEW f, NEW g, NEW i \in D,
             \A j \in D : rank[j] < rank[i] => f[j] = g[j]
      PROVE  Step(f, i) = Step(g, i)
  <2>1. PICK k \in Link(nodes), a \in Int, b \in Int : i = <<k, a, b>>
    OBVIOUS
  <2>2. CASE k \in DOMAIN nodes
    <3>1. /\ nodes[k].left \in Link(nodes) /\ nodes[k].right \in Link(nodes)
          /\ down[nodes[k].left] < down[k] /\ down[nodes[k].right] < down[k]
          /\ nodes[k].price \in Int
      BY <1>1, <2>2, NodeTypes DEF Ranked
    <3>2. /\ f[<<nodes[k].left, a, nodes[k].price>>] = g[<<nodes[k].left, a, nodes[k].price>>]
          /\ f[<<nodes[k].right, nodes[k].price, b>>] = g[<<nodes[k].right, nodes[k].price, b>>]
      BY <1>2, <2>1, <3>1
    <3> QED BY <2>1, <3>2 DEF ValidateStep
  <2>3. CASE k = nullIndex
    BY <2>1, <2>3 DEF ValidateStep
  <2> QED BY <2>2, <2>3 DEF Link
<1>3. ASSUME NEW f \in [D -> V], NEW i \in D PROVE Step(f, i) \in V
  <2>1. PICK k \in Link(nodes), a \in Int, b \in Int : i = <<k, a, b>>
    OBVIOUS
  <2>2. CASE k \in DOMAIN nodes
    <3> DEFINE n == nodes[k]
               l == f[<<n.left, a, n.price>>]
               r == f[<<n.right, n.price, b>>]
    <3>1. /\ n.left \in Link(nodes) /\ n.right \in Link(nodes) /\ n.price \in Int
          /\ n.quantity \in Int /\ k # nullIndex
      BY <2>2, NodeTypes
    <3>2. l \in V /\ r \in V
      BY <1>3, <3>1
    <3>3. l.height \in Int /\ r.height \in Int
      BY <3>2
    <3>4. 1 + Max({l.height, r.height}) \in Int
      <4>1. \A x, y \in Int : 1 + Max({x, y}) \in Int
        BY MaxOfTwo
      <4> HIDE DEF l, r
      <4> QED BY <3>3, <4>1
    <3> DEFINE ok == /\ k \in DOMAIN nodes
                     /\ n.quantity > 0 /\ a < n.price /\ n.price < b
                     /\ \A child \in {n.left, n.right} \ {nullIndex} :
                          child \in DOMAIN nodes /\ ~HasHigherPriority(nodes, child, k)
                     /\ l.ok /\ r.ok
                     /\ n.subtreeQuantity = l.quantity + n.quantity + r.quantity
                     /\ n.subtreeLevels = l.levels + 1 + r.levels
    <3>5. Step(f, i) =
            [ok |-> ok,
             quantity |-> l.quantity + n.quantity + r.quantity,
             levels |-> l.levels + 1 + r.levels,
             height |-> 1 + Max({l.height, r.height})]
      BY <2>1, <3>1, Zenon DEF ValidateStep
    <3>6. ok \in BOOLEAN
      OBVIOUS
    <3> HIDE DEF ok, l, r
    <3> QED BY <3>1, <3>2, <3>4, <3>5, <3>6
  <2>3. CASE k = nullIndex
    BY <2>1, <2>3 DEF ValidateStep
  <2> QED BY <2>2, <2>3 DEF Link
<1>4. \E f : f = [i \in D |-> Step(f, i)]
  <2>1. N \in Nat /\ rank \in [D -> 0 .. N]
    BY <1>1 DEF Ranked, Link
  <2> HIDE DEF Step, V, rank, D
  <2>2. Descends(D, V, rank, G)
    BY <1>2, <1>3 DEF Descends
  <2>3. V # {}
    <3>1. [ok |-> TRUE, quantity |-> 0, levels |-> 0, height |-> 0] \in V
      BY DEF V
    <3> QED BY <3>1
  <2>4. \E f \in [D -> V] : f = G[f]
    <3> HIDE DEF G
    <3> QED BY <2>1, <2>2, <2>3, Recursion
  <2> QED BY <2>4
<1> DEFINE h == CHOOSE f : f = [i \in D |-> Step(f, i)]
<1>5. h = [i \in D |-> Step(h, i)]
  <2> HIDE DEF Step, V
  <2> QED BY <1>4
<1>6. \A top, a, b : ValidateNode(top, a, b) = h[<<top, a, b>>]
  BY DEF ValidateNode, ValidateStep
<1> HIDE DEF h, Step
<1>7. h = [i \in D |-> ValidateNode(i[1], i[2], i[3])]
  <2>1. \A i \in D : i = <<i[1], i[2], i[3]>>
    OBVIOUS
  <2>2. \A i \in D : h[i] = ValidateNode(i[1], i[2], i[3])
    <3> HIDE DEF D
    <3> QED BY <1>6, <2>1
  <2> HIDE DEF D
  <2> QED BY <1>5, <2>2
<1>8. \A i \in D : h[i] = Step(h, i)
  BY <1>5
<1> QED BY <1>7, <1>8 DEF Step

-----------------------------------------------------------------------------
(* The shape, and the map that the treap is.                               *)

(* What is above a node and what it is above: spans are nested, as are the *)
(* treaps under the nodes.                                                 *)
LEMMA SpanOfSpan ==
  ASSUME NEW t, Vector(t), NEW S \in SUBSET DOMAIN t, NEW i \in S, NEW j \in Span(t, S, i)
  PROVE  /\ Span(t, S, j) \subseteq Span(t, S, i)
         /\ Span(t, Span(t, S, i), j) = Span(t, S, j)
<1> DEFINE I == Span(t, S, i)
<1>1. \A k \in S : t[k].price \in Int
  BY NodeTypes
<1>2. j \in S /\ \A k \in S : InRange(t, i, j, k) => k = i \/ HasHigherPriority(t, i, k)
  BY DEF Span
<1>3. InRange(t, i, j, j)
  BY <1>1, <1>2 DEF InRange
<1>4. j = i \/ HasHigherPriority(t, i, j)
  BY <1>2, <1>3
<1>5. ASSUME NEW m \in Span(t, S, j) PROVE m \in I
  <2>1. m \in S /\ \A k \in S : InRange(t, j, m, k) => k = j \/ HasHigherPriority(t, j, k)
    BY DEF Span
  <2>2. ASSUME NEW k \in S, InRange(t, i, m, k) PROVE k = i \/ HasHigherPriority(t, i, k)
    <3>1. InRange(t, i, j, k) \/ InRange(t, j, m, k)
      BY <1>1, <1>2, <2>1, <2>2 DEF InRange
    <3>2. CASE InRange(t, i, j, k)
      BY <1>2, <3>2
    <3>3. CASE InRange(t, j, m, k)
      <4>1. k = j \/ HasHigherPriority(t, j, k)
        BY <2>1, <3>3
      <4> QED BY <1>2, <1>4, <4>1, PriorityOrder
    <3> QED BY <3>1, <3>2, <3>3
  <2> QED BY <2>1, <2>2 DEF Span
<1>6. ASSUME NEW m \in Span(t, S, j) PROVE m \in Span(t, I, j)
  <2>1. m \in I
    BY <1>5, <1>6
  <2>2. \A k \in I : k \in S
    BY DEF Span
  <2> QED BY <1>6, <2>1, <2>2 DEF Span
<1>7. ASSUME NEW m \in Span(t, I, j) PROVE m \in Span(t, S, j)
  <2>1. m \in I /\ \A k \in I : InRange(t, j, m, k) => k = j \/ HasHigherPriority(t, j, k)
    BY DEF Span
  <2>2. m \in S /\ \A k \in S : InRange(t, i, m, k) => k = i \/ HasHigherPriority(t, i, k)
    BY <2>1 DEF Span
  <2>3. ASSUME NEW k \in S, InRange(t, j, m, k) PROVE k \in I
    <3>1. InRange(t, i, j, k) \/ InRange(t, i, m, k)
      BY <1>1, <1>2, <2>2, <2>3 DEF InRange
    <3>2. ASSUME NEW l \in S, InRange(t, i, k, l) PROVE l = i \/ HasHigherPriority(t, i, l)
      <4>1. InRange(t, i, j, l) \/ InRange(t, i, m, l)
        BY <1>1, <1>2, <2>2, <3>1, <3>2 DEF InRange
      <4> QED BY <1>2, <2>2, <4>1
    <3> QED BY <3>2 DEF Span
  <2>4. \A k \in S : InRange(t, j, m, k) => k = j \/ HasHigherPriority(t, j, k)
    BY <2>1, <2>3
  <2> QED BY <2>2, <2>4 DEF Span
<1> QED BY <1>5, <1>6, <1>7

(* The nodes that i is above are a treap with root i. *)
LEMMA TreeUnder ==
  ASSUME NEW t, Vector(t), NEW S, NEW r, Tree(t, S, r), NEW i \in S
  PROVE  Tree(t, Span(t, S, i), i) /\ i \in Span(t, S, i)
<1> DEFINE I == Span(t, S, i)
<1>1. S \in SUBSET DOMAIN t /\ I \subseteq S
  BY DEF Tree, Span
<1>2. \A k \in S : t[k].price \in Int
  BY <1>1, NodeTypes
<1>3. \A k \in S : InRange(t, i, k, k) /\ (InRange(t, i, i, k) => k = i)
  BY <1>2 DEF InRange, Tree
<1>4. i \in I /\ \A k \in I : k = i \/ HasHigherPriority(t, i, k)
  BY <1>3 DEF Span
<1>5. \A j \in I : Span(t, I, j) = Span(t, S, j)
  BY <1>1, SpanOfSpan
<1>6. Tops(t, I, i)
  BY <1>4 DEF Tops
<1> HIDE DEF I
<1>7. Tree(t, I, i)
  BY <1>1, <1>5, <1>6 DEF Tree
<1> QED BY <1>4, <1>7 DEF I

(* Under gathers the nodes of a treap. *)
LEMMA UnderTree ==
  ASSUME Vector(nodes), Grounded(nodes)
  PROVE  \A i \in Link(nodes) : \A S : Tree(nodes, S, i) => Under(i) = S
<1> DEFINE f == [i \in Link(nodes) |-> Under(i)]
           P == {i \in Link(nodes) : \A S \in SUBSET DOMAIN nodes : Tree(nodes, S, i) => f[i] = S}
<1>1. nullIndex \notin DOMAIN nodes
  BY NodeTypes
<1>2. \A i \in Link(nodes) : f[i] = UnderStep(f, i)
  BY UnderUnfolds
<1>3. \A i \in Link(nodes) : f[i] = Under(i)
  OBVIOUS
<1> HIDE DEF f
<1>4. nullIndex \in P
  <2>1. \A S : Tree(nodes, S, nullIndex) => S = {}
    BY TreeEmpty
  <2> QED BY <1>2, <2>1 DEF Link, UnderStep
<1>5. ASSUME NEW i \in DOMAIN nodes, nodes[i].left \in P, nodes[i].right \in P PROVE i \in P
  <2> SUFFICES ASSUME NEW S \in SUBSET DOMAIN nodes, Tree(nodes, S, i) PROVE f[i] = S
    BY DEF Link
  <2> DEFINE L == Lower(nodes, S, nodes[i].price)
             U == Upper(nodes, S, nodes[i].price)
  <2>1. /\ Tree(nodes, L, nodes[i].left) /\ Tree(nodes, U, nodes[i].right)
        /\ S = L \cup U \cup {i}
    BY <1>1, TreeParts
  <2>2. L \in SUBSET DOMAIN nodes /\ U \in SUBSET DOMAIN nodes
    BY DEF Lower, Upper
  <2> HIDE DEF L, U
  <2>3. f[nodes[i].left] = L /\ f[nodes[i].right] = U
    BY <1>5, <2>1, <2>2
  <2>4. f[i] = {i} \cup f[nodes[i].left] \cup f[nodes[i].right]
    BY <1>1, <1>2 DEF Link, UnderStep
  <2> QED BY <2>1, <2>3, <2>4
<1>6. Link(nodes) \subseteq P
  <2> HIDE DEF P
  <2> QED BY <1>1, <1>4, <1>5, UpInduction
<1>7. \A i, S : Tree(nodes, S, i) => S \in SUBSET DOMAIN nodes
  BY DEF Tree
<1> QED BY <1>3, <1>6, <1>7

(* What is under the live nodes. *)
LEMMA UnderLive ==
  ASSUME IInv
  PROVE  Under(root) = Live /\ \A i \in Live : Under(i) = Span(nodes, Live, i)
<1>1. /\ Vector(nodes) /\ Grounded(nodes) /\ root \in Link(nodes)
      /\ Tree(nodes, Live, root) /\ Live \in SUBSET DOMAIN nodes
  BY Shape DEF IInv
<1>2. Under(root) = Live
  BY <1>1, UnderTree
<1>3. ASSUME NEW i \in Live PROVE Under(i) = Span(nodes, Live, i)
  <2>1. i \in Link(nodes)
    BY <1>1 DEF Link
  <2>2. Tree(nodes, Span(nodes, Live, i), i)
    BY <1>1, TreeUnder
  <2> QED BY <1>1, <2>1, <2>2, UnderTree
<1> QED BY <1>2, <1>3

(* The shape of the treap follows from the prices and priorities in it,    *)
(* whatever calls led there (price_level_treap.cpp:160-455).               *)
THEOREM CanonicalShape == Spec => []ShapeIsCanonical
<1>1. ASSUME IInv PROVE ShapeIsCanonical
  <2>1. Under(root) = Live /\ \A i \in Live : Under(i) = Span(nodes, Live, i)
    BY <1>1, UnderLive
  <2>2. \A i \in Live : nodes[i].price \in Int /\ nodes[i].priority \in Int
    BY <1>1, Shape, NodeTypes
  <2>3. \A i, k \in Live : nodes[i].price = nodes[k].price => i = k
    BY <1>1 DEF IInv, Tree
  <2>4. ASSUME NEW i \in Live, NEW k \in Live
        PROVE  k = i \/ HasHigherPriority(nodes, i, k)
               <=> \/ nodes[k].priority < nodes[i].priority
                   \/ nodes[k].priority = nodes[i].priority /\ nodes[k].price <= nodes[i].price
    BY <2>2, <2>3 DEF HasHigherPriority
  <2>5. ASSUME NEW i \in Live, NEW j \in Live
        PROVE  j \in Under(i) <=>
                 \A k \in Live :
                   (nodes[i].price <= nodes[k].price /\ nodes[k].price <= nodes[j].price)
                   \/ (nodes[j].price <= nodes[k].price /\ nodes[k].price <= nodes[i].price)
                   => \/ nodes[k].priority < nodes[i].priority
                      \/ nodes[k].priority = nodes[i].priority /\ nodes[k].price <= nodes[i].price
    BY <2>1, <2>4 DEF Span, InRange
  <2> QED BY <2>1, <2>5 DEF ShapeIsCanonical
<1> QED BY <1>1, Invariance, PTL

(* The map has the price and quantity of every live node. *)
HeldIsLive ==
  /\ DOMAIN Held = {nodes[i].price : i \in Live}
  /\ \A i \in Live : Held[nodes[i].price] = nodes[i].quantity
  /\ Held = [p \in DOMAIN Held |-> Held[p]]

(* What Held says of the live nodes, under the invariant. *)
LEMMA HeldNodes == IInv => HeldIsLive
<1> SUFFICES ASSUME IInv PROVE HeldIsLive
  OBVIOUS
<1>1. Under(root) = Live
  BY UnderLive
<1>2. DOMAIN Held = {nodes[i].price : i \in Live}
  BY <1>1 DEF Held
<1>3. ASSUME NEW i \in Live PROVE Held[nodes[i].price] = nodes[i].quantity
  <2>1. nodes[i].price \in Int /\ Live \in SUBSET DOMAIN nodes
    BY Shape, NodeTypes
  <2> DEFINE k == FindFrom(nodes, root, nodes[i].price)
  <2>2. k \in Live /\ nodes[k].price = nodes[i].price
    BY <2>1, Found
  <2>3. k = i
    BY <2>2 DEF IInv, Tree
  <2>4. nullIndex \notin DOMAIN nodes
    BY Shape
  <2>5. QuantityAtPrice(nodes[i].price) = nodes[i].quantity
    BY <2>1, <2>3, <2>4 DEF QuantityAtPrice
  <2>6. nodes[i].price \in {nodes[j].price : j \in Under(root)}
    BY <1>1
  <2> QED BY <2>5, <2>6 DEF Held
<1>4. Held = [p \in DOMAIN Held |-> Held[p]]
  BY DEF Held
<1> QED BY <1>2, <1>3, <1>4 DEF HeldIsLive

(* What p makes of the members of S. *)
Images(p, S) == {p[x] : x \in S}

(* The images of different things sum to what they do. *)
LEMMA SumOfImages ==
  ASSUME NEW S, IsFiniteSet(S), NEW f, NEW g, NEW p,
         \A x \in S : g[p[x]] = f[x] /\ f[x] \in Int,
         \A x, y \in S : p[x] = p[y] => x = y
  PROVE  /\ IsFiniteSet(Images(p, S))
         /\ SumFunctionOnSet(g, Images(p, S)) = SumFunctionOnSet(f, S)
         /\ Cardinality(Images(p, S)) = Cardinality(S)
<1> DEFINE Image(s) == Images(p, s)
           Same(s) == /\ IsFiniteSet(Image(s))
                      /\ SumFunctionOnSet(g, Image(s)) = SumFunctionOnSet(f, s)
                      /\ Cardinality(Image(s)) = Cardinality(s)
           F == {s \in SUBSET S : ~Same(s)}
<1>1. SUFFICES ASSUME F # {} PROVE FALSE
  OBVIOUS
<1>2. PICK T \in F : \A U \in F : U \subseteq T => U = T
  <2>1. F \in SUBSET SUBSET S
    OBVIOUS
  <2> HIDE DEF F
  <2> QED BY <1>1, <2>1, SmallestMember
<1>3. T # {}
  <2>1. ASSUME T = {} PROVE FALSE
    <3>1. Image(T) = {}
      BY <2>1 DEF Images
    <3>2. Same(T)
      BY <2>1, <3>1, SumEmpty, FS_EmptySet
    <3> QED BY <3>2
  <2> QED BY <2>1
<1>4. PICK z \in T : TRUE
  BY <1>3
<1> DEFINE R == T \ {z}
<1>5. R \subseteq T /\ R # T /\ R \in SUBSET S /\ z \in S /\ z \notin R /\ T = R \cup {z}
  BY <1>4
<1>6. Same(R)
  <2> HIDE DEF Same
  <2> QED BY <1>2, <1>5
<1>7. Image(T) = Image(R) \cup {p[z]} /\ p[z] \notin Image(R)
  <2>1. \A x \in R : p[x] # p[z]
    BY <1>5
  <2>2. T = R \cup {z}
    BY <1>5
  <2> HIDE DEF R
  <2> QED BY <2>1, <2>2 DEF Images
<1>8. IsFiniteSet(R)
  BY <1>5, FS_Subset
<1> HIDE DEF R
<1>9. SumFunctionOnSet(f, T) = SumFunctionOnSet(f, R) + f[z]
  <2>1. \A x \in R \cup {z} : f[x] \in Int
    BY <1>5
  <2>2. z \notin R /\ T = R \cup {z}
    BY <1>5
  <2>3. SumFunctionOnSet(f, R \cup {z}) = SumFunctionOnSet(f, R) + f[z]
    BY <1>8, <2>1, <2>2, SumAdd
  <2> QED BY <2>2, <2>3
<1>10. SumFunctionOnSet(g, Image(T)) = SumFunctionOnSet(g, Image(R)) + f[z]
  <2>1. \A y \in Image(R) \cup {p[z]} : g[y] \in Int
    BY <1>5 DEF Images
  <2>2. g[p[z]] = f[z]
    BY <1>5
  <2>3. IsFiniteSet(Image(R))
    BY <1>6
  <2> HIDE DEF Image
  <2>4. PICK y : y = p[z]
    OBVIOUS
  <2>5. y \notin Image(R) /\ \A x \in Image(R) \cup {y} : g[x] \in Int
    BY <1>7, <2>1, <2>4
  <2>6. SumFunctionOnSet(g, Image(R) \cup {y}) = SumFunctionOnSet(g, Image(R)) + g[y]
    BY <2>3, <2>5, SumAdd
  <2> QED BY <1>7, <2>2, <2>4, <2>6
<1>11. IsFiniteSet(Image(T)) /\ Cardinality(Image(T)) = Cardinality(T)
  <2> HIDE DEF Image
  <2>1. /\ IsFiniteSet(Image(R) \cup {p[z]})
        /\ Cardinality(Image(R) \cup {p[z]}) = Cardinality(Image(R)) + 1
    BY <1>6, <1>7, FS_AddElement
  <2>2. Cardinality(R \cup {z}) = Cardinality(R) + 1
    BY <1>5, <1>8, FS_AddElement
  <2> QED BY <1>5, <1>6, <1>7, <2>1, <2>2
<1>12. Same(T)
  BY <1>6, <1>9, <1>10, <1>11
<1> QED BY <1>12

(* The same for a set of that many. *)
LEMMA SumImage ==
  ASSUME NEW S, IsFiniteSet(S), NEW f, NEW g, NEW p,
         \A x \in S : g[p[x]] = f[x] /\ f[x] \in Int,
         \A x, y \in S : p[x] = p[y] => x = y,
         NEW I, \A y : y \in I <=> \E x \in S : y = p[x]
  PROVE  /\ IsFiniteSet(I)
         /\ SumFunctionOnSet(g, I) = SumFunctionOnSet(f, S)
         /\ Cardinality(I) = Cardinality(S)
<1>1. I = Images(p, S)
  BY DEF Images
<1> QED BY <1>1, SumOfImages

(* The map's total is a sum. *)
LEMMA MapTotal ==
  ASSUME NEW m, NEW P
  PROVE  Map!Total(m, P) = SumFunctionOnSet(m, P)
BY DEF Map!Total, Map!MapThenSumSet, Map!MapThenFoldSet, SumFunctionOnSet, FoldFunctionOnSet,
       MapThenFoldSet

(* What the map gives for the prices of live nodes. *)
LEMMA HeldTotals ==
  ASSUME IInv, NEW T \in SUBSET Live
  PROVE  /\ Map!Total(Held, {nodes[i].price : i \in T}) = Total(nodes, T)
         /\ Cardinality({nodes[i].price : i \in T}) = Cardinality(T)
         /\ IsFiniteSet({nodes[i].price : i \in T})
<1> DEFINE p == [i \in Live |-> nodes[i].price]
           f == Amounts(nodes)
<1>1. HeldIsLive
  BY HeldNodes
<1>2. Vector(nodes) /\ T \in SUBSET DOMAIN nodes
  BY Shape
<1>3. IsFiniteSet(T) /\ \A x \in T : Held[p[x]] = f[x] /\ f[x] \in Int
  BY <1>1, <1>2, TotalType DEF HeldIsLive
<1>4. \A x, y \in T : p[x] = p[y] => x = y
  BY DEF IInv, Tree
<1> DEFINE I == {nodes[i].price : i \in T}
<1>5. \A y : y \in I <=> \E x \in T : y = p[x]
  OBVIOUS
<1> HIDE DEF p, f, I
<1>6. /\ SumFunctionOnSet(Held, I) = SumFunctionOnSet(f, T)
      /\ Cardinality(I) = Cardinality(T) /\ IsFiniteSet(I)
  BY <1>3, <1>4, <1>5, SumImage
<1> QED BY <1>6, MapTotal DEF Total, f, I

(* The map counts as the treap does. *)
LEMMA MapCardinality == \A S : Map!Cardinality(S) = Cardinality(S)
BY DEF Map!Cardinality, Cardinality, Map!IsFiniteSet, IsFiniteSet

(* createNode has room as long as the map holds fewer levels than there    *)
(* are indices: an index that is in the vector is in use or free.          *)
LEMMA RoomIs ==
  ASSUME IInv
  PROVE  /\ Cardinality(DOMAIN Held) \in Nat
         /\ HasRoom <=> Cardinality(DOMAIN Held) < MaxNodes
<1> DEFINE size == Cardinality(DOMAIN nodes)
<1>1. /\ IsFiniteSet(DOMAIN nodes) /\ free \in Seq(DOMAIN nodes) /\ size <= MaxNodes
      /\ Live \subseteq DOMAIN nodes
  BY Shape DEF IInv, Vector
<1>2. size \in Nat /\ MaxNodes \in Nat /\ IsFiniteSet(Live) /\ Cardinality(Live) \in Nat
  BY <1>1, Constants, FS_Subset, FS_CardinalityType
<1>3. Cardinality(DOMAIN Held) = Cardinality(Live)
  BY HeldNodes, HeldTotals DEF HeldIsLive
<1>4. CASE free = << >>
  <2>1. Live = DOMAIN nodes
    <3>1. DOMAIN free = {}
      BY <1>1, <1>4
    <3> QED BY <3>1 DEF Live, ToSet
  <2> QED BY <1>2, <1>3, <1>4, <2>1 DEF HasRoom
<1>5. CASE free # << >>
  <2>1. free[1] \in DOMAIN nodes /\ free[1] \in ToSet(free)
    BY <1>1, <1>5 DEF ToSet
  <2>2. Live # DOMAIN nodes
    BY <2>1 DEF Live
  <2>3. Cardinality(Live) < size
    BY <1>1, <2>2, FS_Subset, FS_CardinalityType
  <2> HIDE DEF size
  <2> QED BY <1>1, <1>2, <1>3, <1>5, <2>3 DEF HasRoom
<1> QED BY <1>4, <1>5

(* Each step of a treap is one of the map, or none: reserve changes        *)
(* nothing that the map has.                                               *)
LEMMA MapStep ==
  ASSUME IInv, IInv', HeldIsLive, HeldIsLive', [Next]_vars
  PROVE  [Map!Next]_<<Held, call>>
<1>1. ASSUME Live' = Live,
             \A i \in Live : nodes'[i].price = nodes[i].price /\ nodes'[i].quantity = nodes[i].quantity
      PROVE  Held' = Held
  <2>1. DOMAIN Held' = DOMAIN Held
    BY <1>1 DEF HeldIsLive
  <2>2. \A p \in DOMAIN Held : Held'[p] = Held[p]
    BY <1>1 DEF HeldIsLive
  <2> QED BY <2>1, <2>2 DEF HeldIsLive
<1>2. CASE UNCHANGED vars
  <2>1. Held' = Held
    BY <1>1, <1>2 DEF vars, Live
  <2> QED BY <1>2, <2>1 DEF vars
<1>3. ASSUME NEW price \in Prices, NEW quantity \in Quantities, SetLevel(price, quantity)
      PROVE  Map!Next
  <2>1. price \in Int /\ quantity \in Int
    BY Constants
  <2>2. call' = <<price, quantity>>
    BY <1>3 DEF SetLevel
  <2>3. CASE quantity < 0 /\ UNCHANGED treapVars
    <3>1. Held' = Held
      BY <1>1, <2>3 DEF treapVars, Live
    <3>2. Map!SetLevel(price, quantity)
      BY <2>1, <2>2, <2>3, <3>1 DEF Map!SetLevel
    <3> QED BY <3>2 DEF Map!Next
  <2>4. CASE quantity = 0 /\ RemoveLevel(price)
    <3>1. Held' = Map!Without(Held, price)
      <4>1. CASE UNCHANGED <<root, nodes, free, capacity>> /\ \A k \in Live : nodes[k].price # price
        <5>1. Held' = Held
          BY <1>1, <4>1 DEF Live
        <5>2. price \notin DOMAIN Held
          BY <4>1 DEF HeldIsLive
        <5>3. DOMAIN Held \ {price} = DOMAIN Held
          BY <5>2
        <5> QED BY <5>1, <5>3 DEF Map!Without, HeldIsLive
      <4>2. ASSUME NEW i \in Live, nodes[i].price = price, Alike(nodes, nodes', Live, i),
                   Live' = Live \ {i}
            PROVE  Held' = Map!Without(Held, price)
        <5>1. \A k \in Live \ {i} :
                /\ nodes'[k].price = nodes[k].price /\ nodes'[k].quantity = nodes[k].quantity
                /\ nodes[k].price # price
          <6>1. \A k \in Live : nodes[k].price = nodes[i].price => k = i
            BY DEF IInv, Tree
          <6> QED BY <4>2, <6>1, Shape DEF Alike
        <5>2. DOMAIN Held' = DOMAIN Held \ {price}
          BY <4>2, <5>1 DEF HeldIsLive
        <5>3. \A p \in DOMAIN Held' : Held'[p] = Held[p]
          BY <4>2, <5>1 DEF HeldIsLive
        <5>4. Held' = [p \in DOMAIN Held' |-> Held'[p]]
          BY DEF HeldIsLive
        <5> QED BY <5>2, <5>3, <5>4 DEF Map!Without
      <4> QED BY <2>4, <4>1, <4>2, LevelRemoved
    <3>2. Map!SetLevel(price, quantity)
      BY <2>2, <2>4, <3>1 DEF Map!SetLevel
    <3> QED BY <3>2 DEF Map!Next
  <2>5. ASSUME quantity > 0, DOMAIN Held' = DOMAIN Held \cup {price},
               price \in DOMAIN Held \/ HasRoom,
               Held'[price] = quantity, \A p \in DOMAIN Held \ {price} : Held'[p] = Held[p]
        PROVE  Map!Next
    <3>1. Held' = [p \in DOMAIN Held' |-> Held'[p]]
      BY DEF HeldIsLive
    <3>2. Held' = Map!With(Held, price, quantity)
      BY <2>5, <3>1 DEF Map!With
    <3>3. price \in DOMAIN Held \/ ~Map!IsFull
      BY <2>5, RoomIs, MapCardinality, Constants DEF Map!IsFull
    <3>4. Map!SetLevel(price, quantity)
      BY <2>1, <2>2, <2>5, <3>2, <3>3 DEF Map!SetLevel
    <3> QED BY <3>4 DEF Map!Next
  <2>6. CASE quantity > 0 /\ ChangeLevel(price, quantity)
    <3>1. Live' = Live
      BY <2>6, LevelChanged
    <3>2. PICK i \in Live :
            /\ nodes[i].price = price /\ Alike(nodes, nodes', Live, i)
            /\ nodes'[i].price = price /\ nodes'[i].quantity = quantity
      BY <2>6, LevelChanged
    <3>3. \A k \in Live \ {i} :
            nodes'[k].price = nodes[k].price /\ nodes'[k].quantity = nodes[k].quantity
      BY <3>2, Shape DEF Alike
    <3>4. DOMAIN Held' = DOMAIN Held \cup {price}
      BY <3>1, <3>2, <3>3 DEF HeldIsLive
    <3>5. Held'[price] = quantity
      BY <3>1, <3>2 DEF HeldIsLive
    <3>6. \A p \in DOMAIN Held \ {price} : Held'[p] = Held[p]
      BY <3>1, <3>2, <3>3 DEF HeldIsLive
    <3>7. price \in DOMAIN Held
      BY <3>2 DEF HeldIsLive
    <3> QED BY <2>5, <2>6, <3>4, <3>5, <3>6, <3>7
  <2>7. CASE quantity > 0 /\ AddLevel(price, quantity)
    <3>1. PICK i \in DOMAIN nodes' : IsAdded(i, price, quantity)
      BY <2>7, LevelAdded
    <3>2. /\ i \notin Live /\ Live' = Live \cup {i}
          /\ nodes'[i].price = price /\ nodes'[i].quantity = quantity
          /\ \A k \in Live : nodes'[k].price = nodes[k].price /\ nodes'[k].quantity = nodes[k].quantity
      BY <3>1, Shape DEF IsAdded
    <3>3. DOMAIN Held' = DOMAIN Held \cup {price}
      BY <3>2 DEF HeldIsLive
    <3>4. Held'[price] = quantity
      BY <3>2 DEF HeldIsLive
    <3>5. \A p \in DOMAIN Held \ {price} : Held'[p] = Held[p]
      BY <3>2 DEF HeldIsLive
    <3>6. HasRoom
      BY <2>7 DEF AddLevel
    <3> QED BY <2>5, <2>7, <3>3, <3>4, <3>5, <3>6
  <2>8. CASE quantity > 0 /\ RefuseLevel(price)
    <3>1. FindFrom(nodes, root, price) = nullIndex /\ ~HasRoom /\ UNCHANGED treapVars
      BY <2>8 DEF RefuseLevel
    <3>2. Held' = Held
      BY <1>1, <3>1 DEF treapVars, Live
    <3>3. price \notin DOMAIN Held
      <4>1. \A k \in Live : nodes[k].price # price
        BY <2>1, <3>1, Shape, Found DEF IInv
      <4> QED BY <4>1 DEF HeldIsLive
    <3>4. Map!IsFull
      BY <3>1, RoomIs, MapCardinality, Constants DEF Map!IsFull
    <3>5. Map!SetLevel(price, quantity)
      BY <2>1, <2>2, <2>8, <3>2, <3>3, <3>4 DEF Map!SetLevel
    <3> QED BY <3>5 DEF Map!Next
  <2> QED BY <1>3, <2>3, <2>4, <2>6, <2>7, <2>8 DEF SetLevel
<1>4. CASE Clear
  <2>1. Live' = {} /\ call' = << >>
    BY <1>4, NoNodes DEF Clear, Live
  <2>2. DOMAIN Held' = {}
    BY <2>1 DEF HeldIsLive
  <2>3. Held' = Map!EmptyMap
    BY <2>2 DEF HeldIsLive, Map!EmptyMap
  <2> QED BY <2>1, <2>3 DEF Map!Next, Map!Clear
<1>5. ASSUME NEW expectedLevels \in Reservations, Reserve(expectedLevels)
      PROVE  UNCHANGED <<Held, call>>
  <2>1. UNCHANGED <<nodes, free, call>>
    BY <1>5 DEF Reserve
  <2> QED BY <1>1, <2>1 DEF Live
<1> QED BY <1>2, <1>3, <1>4, <1>5 DEF Next

(* The treap is the map from price to quantity that its interface promises *)
(* (include/backtester/price_level_treap.hpp:12-105), with room for as     *)
(* many levels as there are indices.                                       *)
THEOREM TreapImplementsMap == Spec => ImplementsMap
<1>1. ASSUME Init PROVE Map!Init
  <2>1. IInv /\ call = << >> /\ free = << >> /\ nodes = EmptyMap
    BY <1>1, IInvInit DEF Init
  <2>2. Live = {}
    BY <2>1, NoNodes DEF Live
  <2>3. HeldIsLive
    BY <2>1, HeldNodes
  <2>4. Held = Map!EmptyMap
    BY <2>2, <2>3 DEF HeldIsLive, Map!EmptyMap
  <2> QED BY <2>1, <2>4 DEF Map!Init
<1>2. IInv /\ IInv' /\ HeldIsLive /\ HeldIsLive' /\ [Next]_vars => [Map!Next]_<<Held, call>>
  BY MapStep
<1>3. IInv => HeldIsLive
  BY HeldNodes
<1> QED BY <1>1, <1>2, <1>3, Invariance, PTL DEF Spec, ImplementsMap, Map!Spec

-----------------------------------------------------------------------------
(* The queries of a range of prices.                                       *)

(* The nodes with a price that is less, or also one that is equal. *)
Beneath(S, price, inclusive) ==
  {k \in S : nodes[k].price < price \/ (inclusive /\ nodes[k].price = price)}

(* Below counts and sums them. *)
LEMMA BelowTree ==
  ASSUME Vector(nodes), Grounded(nodes), NEW price \in Int, NEW inclusive \in BOOLEAN
  PROVE  \A i \in Link(nodes) : \A S : Tree(nodes, S, i) =>
           /\ Below(i, price, inclusive).quantity = Total(nodes, Beneath(S, price, inclusive))
           /\ Below(i, price, inclusive).levels = Cardinality(Beneath(S, price, inclusive))
<1> DEFINE f == [i \in Link(nodes) |-> Below(i, price, inclusive)]
           B(S) == Beneath(S, price, inclusive)
           Claim(S, i) == f[i].quantity = Total(nodes, B(S)) /\ f[i].levels = Cardinality(B(S))
           P == {i \in Link(nodes) : \A S \in SUBSET DOMAIN nodes : Tree(nodes, S, i) => Claim(S, i)}
<1>1. nullIndex \notin DOMAIN nodes
  BY NodeTypes
<1>2. \A i \in Link(nodes) : f[i] = BelowStep(price, inclusive, f, i)
  BY BelowUnfolds
<1>3. \A i \in Link(nodes) : f[i] = Below(i, price, inclusive)
  OBVIOUS
<1> HIDE DEF f
<1>4. nullIndex \in P
  <2>1. \A S : Tree(nodes, S, nullIndex) => S = {}
    BY TreeEmpty
  <2>2. f[nullIndex] = [quantity |-> 0, levels |-> 0] /\ nullIndex \in Link(nodes)
    BY <1>2 DEF Link, BelowStep
  <2>3. B({}) = {}
    BY DEF Beneath
  <2>4. Total(nodes, {}) = 0 /\ Cardinality({}) = 0
    BY TotalType
  <2>5. Claim({}, nullIndex)
    BY <2>2, <2>3, <2>4
  <2> HIDE DEF Claim
  <2> QED BY <2>1, <2>2, <2>5
<1>5. ASSUME NEW i \in DOMAIN nodes, nodes[i].left \in P, nodes[i].right \in P PROVE i \in P
  <2> SUFFICES ASSUME NEW S \in SUBSET DOMAIN nodes, Tree(nodes, S, i) PROVE Claim(S, i)
    BY DEF Link
  <2> DEFINE L == Lower(nodes, S, nodes[i].price)
             U == Upper(nodes, S, nodes[i].price)
  <2>1. /\ Tree(nodes, L, nodes[i].left) /\ Tree(nodes, U, nodes[i].right)
        /\ S = L \cup U \cup {i}
    BY <1>1, TreeParts
  <2>2. /\ L \in SUBSET DOMAIN nodes /\ U \in SUBSET DOMAIN nodes
        /\ \A k \in L : nodes[k].price < nodes[i].price
        /\ \A k \in U : nodes[k].price > nodes[i].price
    BY DEF Lower, Upper
  <2> HIDE DEF L, U
  <2>3. Claim(L, nodes[i].left) /\ Claim(U, nodes[i].right)
    <3> HIDE DEF Claim
    <3> QED BY <1>5, <2>1, <2>2
  <2>4. \A k \in S : nodes[k].price \in Int
    BY NodeTypes
  <2>5. /\ SubtreeQuantity(nodes, nodes[i].left) = Total(nodes, L)
        /\ SubtreeLevels(nodes, nodes[i].left) = Cardinality(L)
    BY <2>1, TreeSums
  <2>6. i # nullIndex /\ i \in Link(nodes) /\ f[i] = BelowStep(price, inclusive, f, i)
    BY <1>1, <1>2 DEF Link
  <2>7. CASE price < nodes[i].price \/ (price = nodes[i].price /\ ~inclusive)
    <3>1. f[i] = f[nodes[i].left]
      BY <2>6, <2>7 DEF BelowStep
    <3>2. B(S) = B(L)
      BY <2>1, <2>2, <2>4, <2>7 DEF Beneath
    <3> QED BY <2>3, <3>1, <3>2
  <2>8. CASE ~(price < nodes[i].price \/ (price = nodes[i].price /\ ~inclusive))
    <3>1. f[i] = [quantity |-> Total(nodes, L) + nodes[i].quantity + f[nodes[i].right].quantity,
                  levels |-> Cardinality(L) + 1 + f[nodes[i].right].levels]
      BY <2>5, <2>6, <2>8 DEF BelowStep
    <3>2. B(S) = L \cup B(U) \cup {i}
      BY <2>1, <2>2, <2>4, <2>8 DEF Beneath
    <3>3. B(U) \in SUBSET DOMAIN nodes /\ L \cap B(U) = {} /\ i \notin L \cup B(U)
      BY <2>1, <2>2, <2>4 DEF Beneath
    <3> HIDE DEF B
    <3>4. /\ Total(nodes, L \cup B(U) \cup {i})
               = Total(nodes, L) + nodes[i].quantity + Total(nodes, B(U))
          /\ Cardinality(L \cup B(U) \cup {i}) = Cardinality(L) + 1 + Cardinality(B(U))
      BY <2>2, <3>3, TotalParts
    <3> QED BY <2>3, <3>1, <3>2, <3>4
  <2> QED BY <2>7, <2>8
<1>6. Link(nodes) \subseteq P
  <2> HIDE DEF P
  <2> QED BY <1>1, <1>4, <1>5, UpInduction
<1>7. \A i, S : Tree(nodes, S, i) => S \in SUBSET DOMAIN nodes
  BY DEF Tree
<1> QED BY <1>3, <1>6, <1>7

(* The live nodes of a range of prices. *)
Between(lowest, highest) ==
  {k \in Live : lowest <= nodes[k].price /\ nodes[k].price <= highest}

(* The two counts of nodes below differ by those between. *)
LEMMA BetweenIs ==
  ASSUME IInv, NEW lowest \in Int, NEW highest \in Int
  PROVE  /\ QuantityBetween(lowest, highest) = Total(nodes, Between(lowest, highest))
         /\ LevelsBetween(lowest, highest) = Cardinality(Between(lowest, highest))
<1>1. /\ Vector(nodes) /\ Grounded(nodes) /\ root \in Link(nodes)
      /\ Tree(nodes, Live, root) /\ Live \in SUBSET DOMAIN nodes
  BY Shape DEF IInv
<1>2. \A k \in Live : nodes[k].price \in Int
  BY <1>1, NodeTypes
<1> DEFINE I == Between(lowest, highest)
           B == Beneath(Live, lowest, FALSE)
           A == Beneath(Live, highest, TRUE)
<1>3. I \in SUBSET DOMAIN nodes /\ B \in SUBSET DOMAIN nodes
  BY <1>1 DEF Between, Beneath
<1>4. CASE lowest > highest
  <2>1. I = {}
    BY <1>2, <1>4 DEF Between
  <2> QED BY <1>1, <1>4, <2>1, TotalType DEF QuantityBetween, LevelsBetween
<1>5. CASE lowest <= highest
  <2>1. A = B \cup I /\ B \cap I = {}
    BY <1>2, <1>5 DEF Beneath, Between
  <2>2. /\ Below(root, highest, TRUE).quantity = Total(nodes, A)
        /\ Below(root, highest, TRUE).levels = Cardinality(A)
        /\ Below(root, lowest, FALSE).quantity = Total(nodes, B)
        /\ Below(root, lowest, FALSE).levels = Cardinality(B)
    BY <1>1, BelowTree
  <2> HIDE DEF A, B, I
  <2>3. /\ IsFiniteSet(I) /\ IsFiniteSet(B) /\ Total(nodes, I) \in Int /\ Total(nodes, B) \in Int
        /\ Cardinality(I) \in Nat /\ Cardinality(B) \in Nat
        /\ \A k \in B \cup I : Amounts(nodes)[k] \in Int
    BY <1>1, <1>3, TotalType
  <2>4. Total(nodes, A) = Total(nodes, B) + Total(nodes, I)
    BY <2>1, <2>3, SumUnion DEF Total
  <2>5. Cardinality(A) = Cardinality(B) + Cardinality(I)
    <3>1. Cardinality(B \cup I) = Cardinality(B) + Cardinality(I) - Cardinality(B \cap I)
      BY <2>3, FS_Union
    <3>2. Cardinality(B \cap I) = 0
      BY <2>1, FS_EmptySet
    <3> QED BY <2>1, <2>3, <3>1, <3>2
  <2>6. QuantityBetween(lowest, highest) = Total(nodes, I) /\ LevelsBetween(lowest, highest) = Cardinality(I)
    <3>1. ~(lowest > highest)
      BY <1>5
    <3>2. /\ QuantityBetween(lowest, highest)
               = Below(root, highest, TRUE).quantity - Below(root, lowest, FALSE).quantity
          /\ LevelsBetween(lowest, highest)
               = Below(root, highest, TRUE).levels - Below(root, lowest, FALSE).levels
      BY <3>1 DEF QuantityBetween, LevelsBetween
    <3>3. /\ QuantityBetween(lowest, highest) = Total(nodes, A) - Total(nodes, B)
          /\ LevelsBetween(lowest, highest) = Cardinality(A) - Cardinality(B)
      BY <2>2, <3>2
    <3> QED BY <2>3, <2>4, <2>5, <3>3
  <2> QED BY <2>6 DEF I
<1> QED BY <1>4, <1>5

(* The lesser of two numbers. *)
LEMMA MinOfTwo ==
  ASSUME NEW a \in Int, NEW b \in Int
  PROVE  Min({a, b}) = IF a <= b THEN a ELSE b
<1>1. \E x \in {a, b} : \A y \in {a, b} : x <= y
  OBVIOUS
<1>2. Min({a, b}) \in {a, b} /\ \A y \in {a, b} : Min({a, b}) <= y
  BY <1>1 DEF Min
<1> QED BY <1>2

(* EndUnder is the price of the best node of a treap, were it of side s. *)
LEMMA EndTree ==
  ASSUME Vector(nodes), Grounded(nodes), NEW s \in Sides
  PROVE  \A i \in DOMAIN nodes : \A S : Tree(nodes, S, i) =>
           \E k \in S : /\ EndUnder(s, i) = nodes[k].price
                        /\ \A m \in S : m = k \/ Better(s, nodes[k].price, nodes[m].price)
<1> DEFINE f == [i \in DOMAIN nodes |-> EndUnder(s, i)]
           Claim(S, i) == \E k \in S : /\ f[i] = nodes[k].price
                                       /\ \A m \in S : m = k \/ Better(s, nodes[k].price, nodes[m].price)
           P == {i \in Link(nodes) : i # nullIndex =>
                   \A S \in SUBSET DOMAIN nodes : Tree(nodes, S, i) => Claim(S, i)}
<1>1. nullIndex \notin DOMAIN nodes
  BY NodeTypes
<1>2. \A i \in DOMAIN nodes : f[i] = EndStep(s, f, i)
  BY EndUnfolds
<1>3. \A i \in DOMAIN nodes : f[i] = EndUnder(s, i)
  OBVIOUS
<1> HIDE DEF f
<1>4. nullIndex \in P
  BY DEF Link
<1>5. ASSUME NEW i \in DOMAIN nodes, nodes[i].left \in P, nodes[i].right \in P PROVE i \in P
  <2> SUFFICES ASSUME NEW S \in SUBSET DOMAIN nodes, Tree(nodes, S, i) PROVE Claim(S, i)
    BY DEF Link
  <2> DEFINE L == Lower(nodes, S, nodes[i].price)
             U == Upper(nodes, S, nodes[i].price)
             c == Towards(s, i)
             B == IF s = "Buy" THEN U ELSE L
             W == IF s = "Buy" THEN L ELSE U
  <2>1. /\ Tree(nodes, L, nodes[i].left) /\ Tree(nodes, U, nodes[i].right)
        /\ S = L \cup U \cup {i}
    BY <1>1, TreeParts
  <2>2. /\ L \in SUBSET DOMAIN nodes /\ U \in SUBSET DOMAIN nodes
        /\ \A k \in L : nodes[k].price < nodes[i].price
        /\ \A k \in U : nodes[k].price > nodes[i].price
    BY DEF Lower, Upper
  <2> HIDE DEF L, U
  <2>3. /\ Tree(nodes, B, c) /\ S = B \cup W \cup {i} /\ c \in P /\ B \in SUBSET DOMAIN nodes
        /\ \A k \in B : Better(s, nodes[k].price, nodes[i].price)
        /\ \A k \in W : Better(s, nodes[i].price, nodes[k].price)
    BY <1>5, <2>1, <2>2 DEF Towards, Better
  <2>4. \A k \in S : nodes[k].price \in Int
    BY NodeTypes
  <2> HIDE DEF B, W
  <2>5. f[i] = EndStep(s, f, i)
    BY <1>2
  <2>6. CASE c = nullIndex
    <3>1. B = {}
      BY <2>3, <2>6, TreeEmpty
    <3>2. f[i] = nodes[i].price
      BY <2>5, <2>6 DEF EndStep
    <3> QED BY <2>3, <3>1, <3>2
  <2>7. CASE c # nullIndex
    <3>1. f[i] = f[c]
      BY <2>5, <2>7 DEF EndStep
    <3>2. Claim(B, c)
      <4> HIDE DEF Claim, c
      <4> QED BY <2>3, <2>7
    <3>3. PICK k \in B : /\ f[c] = nodes[k].price
                         /\ \A m \in B : m = k \/ Better(s, nodes[k].price, nodes[m].price)
      BY <3>2
    <3>4. \A m \in S : m = k \/ Better(s, nodes[k].price, nodes[m].price)
      BY <2>3, <2>4, <3>3 DEF Better
    <3> QED BY <2>3, <3>1, <3>3, <3>4
  <2> QED BY <2>6, <2>7
<1>6. Link(nodes) \subseteq P
  <2> HIDE DEF P
  <2> QED BY <1>1, <1>4, <1>5, UpInduction
<1>7. \A i, S : Tree(nodes, S, i) => S \in SUBSET DOMAIN nodes
  BY DEF Tree
<1> QED BY <1>1, <1>3, <1>6, <1>7 DEF Link

(* The best price of some that are numbers. *)
LEMMA BestIs ==
  ASSUME NEW A, NEW b \in A, \A q \in A : q \in Int, side \in Sides,
         \A q \in A : q = b \/ Better(side, b, q)
  PROVE  Map!Best(A, side) = b
<1> DEFINE Wins(p) == \A q \in A \ {p} : Map!Better(side, p, q)
<1>1. Wins(b)
  BY DEF Map!Better, Better
<1>2. \A p \in A : Wins(p) => p = b
  BY DEF Map!Better, Better
<1>3. Map!Best(A, side) = CHOOSE p \in A : Wins(p)
  BY DEF Map!Best
<1> HIDE DEF Wins
<1> QED BY <1>1, <1>2, <1>3

(* The three ends of a treap, as nodes. *)
LEMMA EndPrices ==
  ASSUME IInv, root # nullIndex
  PROVE  /\ \E k \in Live : /\ LowestPrice = nodes[k].price
                            /\ \A m \in Live : nodes[k].price <= nodes[m].price
         /\ \E k \in Live : /\ HighestPrice = nodes[k].price
                            /\ \A m \in Live : nodes[m].price <= nodes[k].price
         /\ \E k \in Live : /\ BestPrice = nodes[k].price
                            /\ \A m \in Live : m = k \/ Better(side, nodes[k].price, nodes[m].price)
<1>1. /\ Vector(nodes) /\ Grounded(nodes) /\ root \in DOMAIN nodes /\ side \in Sides
      /\ Tree(nodes, Live, root) /\ \A m \in Live : nodes[m].price \in Int
  BY Shape, NodeTypes DEF IInv, Link
<1>2. ASSUME NEW s \in Sides
      PROVE  \E k \in Live : /\ EndUnder(s, root) = nodes[k].price
                             /\ \A m \in Live : m = k \/ Better(s, nodes[k].price, nodes[m].price)
  BY <1>1, EndTree
<1>3. "Sell" \in Sides /\ "Buy" \in Sides
  BY DEF Sides
<1>4. PICK k \in Live : /\ LowestPrice = nodes[k].price
                        /\ \A m \in Live : m = k \/ Better("Sell", nodes[k].price, nodes[m].price)
  BY <1>2, <1>3 DEF LowestPrice
<1>5. \A m \in Live : nodes[k].price <= nodes[m].price
  BY <1>1, <1>4 DEF Better
<1>6. PICK h \in Live : /\ HighestPrice = nodes[h].price
                        /\ \A m \in Live : m = h \/ Better("Buy", nodes[h].price, nodes[m].price)
  BY <1>2, <1>3 DEF HighestPrice
<1>7. \A m \in Live : nodes[m].price <= nodes[h].price
  BY <1>1, <1>6 DEF Better
<1>8. \E b \in Live : /\ BestPrice = nodes[b].price
                      /\ \A m \in Live : m = b \/ Better(side, nodes[b].price, nodes[m].price)
  BY <1>1, <1>4, <1>6 DEF BestPrice, Sides
<1> QED BY <1>4, <1>5, <1>6, <1>7, <1>8

(* Some numbers' least or greatest is what the library takes. *)
LEMMA EndsAre ==
  ASSUME NEW A, \A q \in A : q \in Int, NEW b \in A
  PROVE  /\ (\A q \in A : b <= q) => Min(A) = b
         /\ (\A q \in A : q <= b) => Max(A) = b
<1>1. ASSUME \A q \in A : b <= q PROVE Min(A) = b
  <2>1. Min(A) \in A /\ \A q \in A : Min(A) <= q
    BY <1>1 DEF Min
  <2> QED BY <1>1, <2>1
<1>2. ASSUME \A q \in A : q <= b PROVE Max(A) = b
  <2>1. Max(A) \in A /\ \A q \in A : Max(A) >= q
    BY <1>2 DEF Max
  <2> QED BY <1>2, <2>1
<1> QED BY <1>1, <1>2

(* The three ends of a treap, as prices of the map. *)
LEMMA EndsAgree ==
  ASSUME IInv, root # nullIndex
  PROVE  /\ LowestPrice = Min(DOMAIN Held) /\ HighestPrice = Max(DOMAIN Held)
         /\ BestPrice = Map!Best(DOMAIN Held, side)
<1>1. HeldIsLive /\ side \in Sides
  BY HeldNodes DEF IInv
<1>2. \A q \in DOMAIN Held : q \in Int
  BY <1>1, Constants DEF HeldIsLive, IInv
<1>3. LowestPrice \in DOMAIN Held /\ \A q \in DOMAIN Held : LowestPrice <= q
  BY <1>1, EndPrices DEF HeldIsLive
<1>4. HighestPrice \in DOMAIN Held /\ \A q \in DOMAIN Held : q <= HighestPrice
  BY <1>1, EndPrices DEF HeldIsLive
<1>5. BestPrice \in DOMAIN Held /\ \A q \in DOMAIN Held : q = BestPrice \/ Better(side, BestPrice, q)
  BY <1>1, EndPrices DEF HeldIsLive
<1> QED BY <1>1, <1>2, <1>3, <1>4, <1>5, EndsAre, BestIs

(* The prices of a range, in the map and in the treap. *)
LEMMA HeldBetween ==
  ASSUME IInv, NEW lowest \in Int, NEW highest \in Int, NEW A,
         A = {p \in DOMAIN Held : lowest <= p /\ p <= highest}
  PROVE  /\ QuantityBetween(lowest, highest) = Map!Total(Held, A)
         /\ LevelsBetween(lowest, highest) = Cardinality(A)
<1>1. HeldIsLive
  BY HeldNodes
<1> DEFINE I == Between(lowest, highest)
<1>2. A = {nodes[i].price : i \in I}
  BY <1>1 DEF HeldIsLive, Between
<1>3. I \in SUBSET Live
  BY DEF Between
<1> HIDE DEF I
<1>4. /\ Map!Total(Held, {nodes[i].price : i \in I}) = Total(nodes, I)
      /\ Cardinality({nodes[i].price : i \in I}) = Cardinality(I)
  BY <1>3, HeldTotals
<1> QED BY <1>2, <1>4, BetweenIs DEF I

(* quantityWithinTicks clips its boundaries where no price is. *)
LEMMA TicksAgree ==
  ASSUME IInv, NEW ticks \in 0 .. MaxInt
  PROVE  QuantityWithinTicks(ticks) = Map!WithinTicks(Held, side, ticks)
<1>1. /\ Vector(nodes) /\ Grounded(nodes) /\ root \in Link(nodes) /\ side \in Sides
      /\ Tree(nodes, Live, root) /\ Live \in SUBSET DOMAIN nodes
  BY Shape DEF IInv
<1>2. HeldIsLive
  BY HeldNodes
<1>3. \A p \in DOMAIN Held : p \in Int /\ MinInt <= p /\ p <= MaxInt
  BY <1>2, Constants DEF HeldIsLive, IInv
<1>4. CASE root = nullIndex
  <2>1. Live = {}
    BY <1>1, <1>4, TreeEmpty
  <2>2. DOMAIN Held = {}
    BY <1>2, <2>1 DEF HeldIsLive
  <2>3. ~(ticks < 0)
    BY Constants
  <2> QED BY <1>4, <2>2, <2>3 DEF QuantityWithinTicks, Map!WithinTicks
<1>5. CASE root # nullIndex
  <2>2. PICK k \in Live : /\ BestPrice = nodes[k].price
                          /\ \A m \in Live : m = k \/ Better(side, nodes[k].price, nodes[m].price)
    BY <1>1, <1>5, EndPrices
  <2> DEFINE best == nodes[k].price
             low == IF side = "Buy" THEN Max({best - ticks, MinInt}) ELSE best
             high == IF side = "Buy" THEN best ELSE Min({best + ticks, MaxInt})
             A == {p \in DOMAIN Held : p <= best + ticks /\ p >= best - ticks}
  <2>3. best \in DOMAIN Held /\ DOMAIN Held # {} /\ best \in Int /\ ticks \in Int /\ ticks >= 0
    BY <1>2, <1>3, Constants DEF HeldIsLive
  <2>4. \A q \in DOMAIN Held : q = best \/ Better(side, best, q)
    BY <1>2, <2>2 DEF HeldIsLive
  <2>5. Map!Best(DOMAIN Held, side) = best
    BY <1>1, <1>3, <2>3, <2>4, BestIs
  <2> HIDE DEF best
  <2>6. Map!WithinTicks(Held, side, ticks) = Map!Total(Held, A)
    BY <2>3, <2>5 DEF Map!WithinTicks
  <2>7. QuantityWithinTicks(ticks) = QuantityBetween(low, high)
    <3>1. ~(ticks < 0)
      BY <2>3
    <3> QED BY <1>5, <2>2, <3>1 DEF QuantityWithinTicks, best
  <2>8. /\ Max({best - ticks, MinInt}) = IF best - ticks >= MinInt THEN best - ticks ELSE MinInt
        /\ Min({best + ticks, MaxInt}) = IF best + ticks <= MaxInt THEN best + ticks ELSE MaxInt
    BY <2>3, Constants, MaxOfTwo, MinOfTwo
  <2>9. low \in Int /\ high \in Int
    BY <2>3, <2>8, Constants
  <2>10. A = {p \in DOMAIN Held : low <= p /\ p <= high}
    BY <1>1, <1>3, <2>3, <2>4, <2>8, Constants DEF Better
  <2> HIDE DEF low, high, A
  <2>11. QuantityBetween(low, high) = Map!Total(Held, A)
    BY <2>9, <2>10, HeldBetween
  <2> QED BY <2>6, <2>7, <2>11
<1> QED BY <1>4, <1>5

(* The range queries and the lowest, highest and best price are what they  *)
(* are in the map, also at the limits of int                               *)
(* (price_level_treap.cpp:562-694).                                        *)
THEOREM RangeQueriesCorrect == Spec => []RangeQueriesAgree
<1>1. ASSUME IInv PROVE RangeQueriesAgree
  <2>1. /\ Vector(nodes) /\ Tree(nodes, Live, root) /\ Live \in SUBSET DOMAIN nodes
    BY <1>1, Shape DEF IInv
  <2>2. HeldIsLive
    BY <1>1, HeldNodes
  <2>3. Empty <=> DOMAIN Held = {}
    <3>1. root = nullIndex <=> Live = {}
      BY <2>1, TreeEmpty
    <3> QED BY <2>2, <3>1 DEF HeldIsLive, Empty
  <2>4. LevelCount = Cardinality(DOMAIN Held) /\ TotalQuantity = Map!Total(Held, DOMAIN Held)
    <3>1. /\ Map!Total(Held, {nodes[i].price : i \in Live}) = Total(nodes, Live)
          /\ Cardinality({nodes[i].price : i \in Live}) = Cardinality(Live)
      BY <1>1, HeldTotals
    <3>2. SubtreeQuantity(nodes, root) = Total(nodes, Live) /\ SubtreeLevels(nodes, root) = Cardinality(Live)
      BY <2>1, TreeSums
    <3> QED BY <2>2, <3>1, <3>2 DEF HeldIsLive, LevelCount, TotalQuantity
  <2>5. ASSUME NEW lowest \in Prices, NEW highest \in Prices
        PROVE  LET between == {p \in DOMAIN Held : lowest <= p /\ p <= highest} IN
               /\ QuantityBetween(lowest, highest) = Map!Total(Held, between)
               /\ LevelsBetween(lowest, highest) = Cardinality(between)
    <3>1. lowest \in Int /\ highest \in Int
      BY Constants
    <3> QED BY <1>1, <3>1, HeldBetween
  <2>6. \A ticks \in 0 .. MaxInt : QuantityWithinTicks(ticks) = Map!WithinTicks(Held, side, ticks)
    BY <1>1, TicksAgree
  <2> QED BY <1>1, <2>3, <2>4, <2>5, <2>6, EndsAgree DEF RangeQueriesAgree
<1> QED BY <1>1, Invariance, PTL

-----------------------------------------------------------------------------
(* What validate and height say.                                           *)

(* How many nodes of S are on the way from the top down to i, i included. *)
DepthIn(S, i) == Cardinality({j \in S : i \in Span(nodes, S, j)})

(* The longest way down has h nodes. *)
IsDeepest(S, h) ==
  /\ h \in Nat
  /\ S = {} => h = 0
  /\ S # {} => \E i \in S : DepthIn(S, i) = h
  /\ \A i \in S : DepthIn(S, i) <= h

(* The way to the root is the root; to any other node it is the way from a *)
(* child of the root, and the root.                                        *)
LEMMA DepthParts ==
  ASSUME Vector(nodes), NEW S, NEW r \in DOMAIN nodes, Tree(nodes, S, r)
  PROVE  LET L == Lower(nodes, S, nodes[r].price)
             U == Upper(nodes, S, nodes[r].price)
         IN /\ DepthIn(S, r) = 1
            /\ \A i \in L : DepthIn(S, i) = DepthIn(L, i) + 1 /\ DepthIn(L, i) \in Nat
            /\ \A i \in U : DepthIn(S, i) = DepthIn(U, i) + 1 /\ DepthIn(U, i) \in Nat
<1> DEFINE L == Lower(nodes, S, nodes[r].price)
           U == Upper(nodes, S, nodes[r].price)
<1>1. r # nullIndex
  BY NodeTypes
<1>2. /\ S = L \cup U \cup {r} /\ r \in S /\ S \in SUBSET DOMAIN nodes
      /\ \A k \in S : k = r \/ HasHigherPriority(nodes, r, k)
  BY <1>1, TreeParts DEF Tree
<1>3. L \in SUBSET DOMAIN nodes /\ U \in SUBSET DOMAIN nodes /\ r \notin L /\ r \notin U
      /\ L \cap U = {}
  BY <1>2, NodeTypes DEF Lower, Upper
<1>4. Span(nodes, S, r) = S
  BY <1>2, SpanOfTop
<1>5. /\ \A j \in L : Span(nodes, L, j) = Span(nodes, S, j)
      /\ \A j \in U : Span(nodes, U, j) = Span(nodes, S, j)
  BY <1>2, SpanOfPart
<1>6. \A T, j : Span(nodes, T, j) \subseteq T
  BY DEF Span
<1> HIDE DEF L, U
<1>7. DepthIn(S, r) = 1
  <2>1. {j \in S : r \in Span(nodes, S, j)} = {r}
    BY <1>2, <1>3, <1>4, <1>5, <1>6
  <2> QED BY <2>1, FS_Singleton DEF DepthIn
<1>8. ASSUME NEW T, T = L \/ T = U, NEW i \in T
      PROVE  DepthIn(S, i) = DepthIn(T, i) + 1 /\ DepthIn(T, i) \in Nat
  <2> DEFINE W == {j \in T : i \in Span(nodes, T, j)}
  <2>1. {j \in S : i \in Span(nodes, S, j)} = W \cup {r}
    <3>1. \A j \in T : Span(nodes, T, j) = Span(nodes, S, j)
      BY <1>5, <1>8
    <3>2. ASSUME NEW j \in S, j \notin T, j # r PROVE i \notin Span(nodes, S, j)
      <4> PICK O : (O = L \/ O = U) /\ O # T /\ j \in O
        BY <1>2, <1>8, <3>2
      <4>1. Span(nodes, S, j) = Span(nodes, O, j) /\ Span(nodes, O, j) \subseteq O
        BY <1>5, <1>6
      <4> QED BY <1>3, <1>8, <4>1
    <3>3. i \in Span(nodes, S, r) /\ r \in S /\ T \subseteq S
      BY <1>2, <1>4, <1>8
    <3> QED BY <3>1, <3>2, <3>3
  <2>2. r \notin W /\ W \in SUBSET DOMAIN nodes
    BY <1>3, <1>8
  <2> HIDE DEF W
  <2>3. IsFiniteSet(W) /\ Cardinality(W) \in Nat
    BY <2>2, TotalType
  <2>4. Cardinality(W \cup {r}) = Cardinality(W) + 1
    BY <2>2, <2>3, FS_AddElement
  <2> QED BY <2>1, <2>3, <2>4 DEF DepthIn, W
<1>9. \A i \in L : DepthIn(S, i) = DepthIn(L, i) + 1 /\ DepthIn(L, i) \in Nat
  BY <1>8
<1>10. \A i \in U : DepthIn(S, i) = DepthIn(U, i) + 1 /\ DepthIn(U, i) \in Nat
  BY <1>8
<1> QED BY <1>7, <1>9, <1>10 DEF L, U

(* The longest way down a treap is one node longer than the longer of its  *)
(* children's.                                                             *)
LEMMA DeepestParts ==
  ASSUME Vector(nodes), NEW S, NEW r \in DOMAIN nodes, Tree(nodes, S, r), NEW l, NEW u,
         IsDeepest(Lower(nodes, S, nodes[r].price), l),
         IsDeepest(Upper(nodes, S, nodes[r].price), u)
  PROVE  IsDeepest(S, 1 + Max({l, u}))
<1> DEFINE L == Lower(nodes, S, nodes[r].price)
           U == Upper(nodes, S, nodes[r].price)
<1>1. r # nullIndex
  BY NodeTypes
<1>2. S = L \cup U \cup {r}
  BY <1>1, TreeParts
<1>3. /\ DepthIn(S, r) = 1
      /\ \A i \in L : DepthIn(S, i) = DepthIn(L, i) + 1 /\ DepthIn(L, i) \in Nat
      /\ \A i \in U : DepthIn(S, i) = DepthIn(U, i) + 1 /\ DepthIn(U, i) \in Nat
  BY DepthParts
<1>4. /\ l \in Nat /\ u \in Nat
      /\ L = {} => l = 0
      /\ U = {} => u = 0
      /\ L # {} => \E i \in L : DepthIn(L, i) = l
      /\ U # {} => \E i \in U : DepthIn(U, i) = u
      /\ \A i \in L : DepthIn(L, i) <= l
      /\ \A i \in U : DepthIn(U, i) <= u
  BY DEF IsDeepest
<1> HIDE DEF L, U
<1>5. Max({l, u}) = IF l >= u THEN l ELSE u
  BY <1>4, MaxOfTwo
<1> DEFINE h == 1 + Max({l, u})
<1>6. h = 1 + (IF l >= u THEN l ELSE u)
  BY <1>5
<1> HIDE DEF h
<1>7. h \in Nat /\ r \in S /\ S # {}
  BY <1>2, <1>4, <1>6
<1>8. ASSUME NEW i \in S PROVE DepthIn(S, i) <= h
  BY <1>2, <1>3, <1>4, <1>6, <1>8
<1>9. \E i \in S : DepthIn(S, i) = h
  <2>1. CASE L = {} /\ U = {}
    BY <1>2, <1>3, <1>4, <1>6, <2>1
  <2>2. CASE L # {} /\ l >= u
    <3>1. PICK i \in L : DepthIn(L, i) = l
      BY <1>4, <2>2
    <3>2. h = 1 + l /\ l \in Nat
      BY <1>4, <1>6, <2>2
    <3>3. DepthIn(S, i) = l + 1 /\ i \in S
      BY <1>2, <1>3, <3>1
    <3> QED BY <3>2, <3>3
  <2>3. CASE U # {} /\ u >= l
    <3>1. PICK i \in U : DepthIn(U, i) = u
      BY <1>4, <2>3
    <3>2. h = 1 + u /\ u \in Nat
      BY <1>4, <1>6, <2>3
    <3>3. DepthIn(S, i) = u + 1 /\ i \in S
      BY <1>2, <1>3, <3>1
    <3> QED BY <3>2, <3>3
  <2> QED BY <1>4, <2>1, <2>2, <2>3
<1> QED BY <1>7, <1>8, <1>9 DEF IsDeepest, h

(* Prices strictly between two bounds, and quantities. *)
Fits(S, a, b) == \A k \in S : a < nodes[k].price /\ nodes[k].price < b /\ nodes[k].quantity > 0

(* A treap of levels is found right, and counted. *)
LEMMA ValidTree ==
  ASSUME Vector(nodes), Grounded(nodes)
  PROVE  \A i \in Link(nodes) : \A S : \A a, b \in Int :
           Tree(nodes, S, i) /\ Fits(S, a, b) =>
             /\ ValidateNode(i, a, b).ok
             /\ ValidateNode(i, a, b).levels = Cardinality(S)
             /\ IsDeepest(S, ValidateNode(i, a, b).height)
<1> DEFINE D == Link(nodes) \X Int \X Int
           f == [at \in D |-> ValidateNode(at[1], at[2], at[3])]
           Claim(S, v) == /\ v.ok
                          /\ v.quantity = Total(nodes, S)
                          /\ v.levels = Cardinality(S)
                          /\ IsDeepest(S, v.height)
           P == {i \in Link(nodes) : \A S \in SUBSET DOMAIN nodes : \A a, b \in Int :
                   Tree(nodes, S, i) /\ Fits(S, a, b) => Claim(S, f[<<i, a, b>>])}
<1>1. nullIndex \notin DOMAIN nodes
  BY NodeTypes
<1>2. \A at \in D : f[at] = ValidateStep(f, at)
  BY ValidateUnfolds
<1>3. \A i \in Link(nodes) : \A a, b \in Int : f[<<i, a, b>>] = ValidateNode(i, a, b)
  OBVIOUS
<1> HIDE DEF f
<1>4. nullIndex \in P
  <2> SUFFICES ASSUME NEW S \in SUBSET DOMAIN nodes, NEW a \in Int, NEW b \in Int,
                      Tree(nodes, S, nullIndex)
               PROVE  Claim(S, f[<<nullIndex, a, b>>])
    BY DEF Link
  <2>1. S = {}
    BY TreeEmpty
  <2>2. <<nullIndex, a, b>> \in D
    BY DEF Link
  <2>3. f[<<nullIndex, a, b>>] = [ok |-> TRUE, quantity |-> 0, levels |-> 0, height |-> 0]
    BY <1>2, <2>2 DEF ValidateStep
  <2>4. Total(nodes, {}) = 0 /\ Cardinality({}) = 0
    BY TotalType
  <2>5. IsDeepest({}, 0)
    BY DEF IsDeepest
  <2> QED BY <2>1, <2>3, <2>4, <2>5
<1>5. ASSUME NEW i \in DOMAIN nodes, nodes[i].left \in P, nodes[i].right \in P PROVE i \in P
  <2> SUFFICES ASSUME NEW S \in SUBSET DOMAIN nodes, NEW a \in Int, NEW b \in Int,
                      Tree(nodes, S, i), Fits(S, a, b)
               PROVE  Claim(S, f[<<i, a, b>>])
    BY DEF Link
  <2> DEFINE n == nodes[i]
             L == Lower(nodes, S, n.price)
             U == Upper(nodes, S, n.price)
             l == f[<<n.left, a, n.price>>]
             r == f[<<n.right, n.price, b>>]
  <2>1. /\ Tree(nodes, L, n.left) /\ Tree(nodes, U, n.right) /\ i \in S
        /\ S = L \cup U \cup {i} /\ \A k \in S : k = i \/ HasHigherPriority(nodes, i, k)
        /\ n.subtreeQuantity = Total(nodes, S) /\ n.subtreeLevels = Cardinality(S)
    BY <1>1, TreeParts
  <2>2. /\ L \in SUBSET DOMAIN nodes /\ U \in SUBSET DOMAIN nodes
        /\ L \cap U = {} /\ i \notin L \cup U
    BY NodeTypes DEF Lower, Upper
  <2>3. n.price \in Int /\ i # nullIndex /\ n.left \in Link(nodes) /\ n.right \in Link(nodes)
        /\ a < n.price /\ n.price < b /\ n.quantity > 0
    BY <2>1, NodeTypes DEF Fits
  <2>4. Fits(L, a, n.price) /\ Fits(U, n.price, b)
    BY DEF Fits, Lower, Upper
  <2>5. ASSUME NEW v, IsDeepest(L, v), NEW w, IsDeepest(U, w) PROVE IsDeepest(S, 1 + Max({v, w}))
    BY <2>5, DeepestParts
  <2>6. \A child \in {n.left, n.right} \ {nullIndex} :
          child \in DOMAIN nodes /\ ~HasHigherPriority(nodes, child, i)
    <3>1. ASSUME NEW T, T = L \/ T = U, NEW c, Tree(nodes, T, c), c # nullIndex
          PROVE  c \in DOMAIN nodes /\ ~HasHigherPriority(nodes, c, i)
      <4>1. c \in T /\ c \in S /\ c # i
        BY <2>1, <2>2, <3>1, TreeSums
      <4> QED BY <2>1, <4>1, PriorityOrder
    <3> HIDE DEF L, U
    <3> QED BY <2>1, <3>1
  <2>7. Claim(L, l) /\ Claim(U, r)
    <3> HIDE DEF Claim, L, U
    <3> QED BY <1>5, <2>1, <2>2, <2>3, <2>4
  <2>8. /\ Total(nodes, S) = Total(nodes, L) + n.quantity + Total(nodes, U)
        /\ Cardinality(S) = Cardinality(L) + 1 + Cardinality(U)
    <3> HIDE DEF L, U
    <3> QED BY <2>1, <2>2, TotalParts
  <2> DEFINE ok == /\ i \in DOMAIN nodes
                   /\ n.quantity > 0 /\ a < n.price /\ n.price < b
                   /\ \A child \in {n.left, n.right} \ {nullIndex} :
                        child \in DOMAIN nodes /\ ~HasHigherPriority(nodes, child, i)
                   /\ l.ok /\ r.ok
                   /\ n.subtreeQuantity = l.quantity + n.quantity + r.quantity
                   /\ n.subtreeLevels = l.levels + 1 + r.levels
  <2>9. f[<<i, a, b>>] = [ok |-> ok,
                          quantity |-> l.quantity + n.quantity + r.quantity,
                          levels |-> l.levels + 1 + r.levels,
                          height |-> 1 + Max({l.height, r.height})]
    <3>1. <<i, a, b>> \in D
      BY DEF Link
    <3>2. f[<<i, a, b>>] = ValidateStep(f, <<i, a, b>>)
      BY <1>2, <3>1
    <3> QED BY <2>3, <3>2, Zenon DEF ValidateStep
  <2>10. /\ l.quantity + n.quantity + r.quantity = Total(nodes, S)
         /\ l.levels + 1 + r.levels = Cardinality(S)
    BY <2>7, <2>8
  <2>11. ok
    BY <2>1, <2>3, <2>6, <2>7, <2>10
  <2>12. IsDeepest(S, 1 + Max({l.height, r.height}))
    BY <2>5, <2>7
  <2> HIDE DEF ok, l, r, n
  <2> QED BY <2>9, <2>10, <2>11, <2>12
<1>6. Link(nodes) \subseteq P
  <2> HIDE DEF P
  <2> QED BY <1>1, <1>4, <1>5, UpInduction
<1>7. \A i, S : Tree(nodes, S, i) => S \in SUBSET DOMAIN nodes
  BY DEF Tree
<1>8. ASSUME NEW i \in Link(nodes), NEW S, NEW a \in Int, NEW b \in Int,
             Tree(nodes, S, i), Fits(S, a, b)
      PROVE  Claim(S, ValidateNode(i, a, b))
  <2>1. i \in P /\ S \in SUBSET DOMAIN nodes
    BY <1>6, <1>7, <1>8
  <2>2. f[<<i, a, b>>] = ValidateNode(i, a, b)
    BY <1>3
  <2> HIDE DEF Claim
  <2> QED BY <1>8, <2>1, <2>2
<1> QED BY <1>8

(* After every call, validate finds nothing wrong, and height gives the    *)
(* number of nodes on the longest way down (price_level_treap.cpp:886).    *)
THEOREM ValidAfterEveryCall == Spec => []AlwaysValid
<1>1. ASSUME IInv PROVE AlwaysValid
  <2> DEFINE v == ValidateNode(root, MinInt - 1, MaxInt + 1)
             A == {Cardinality({j \in Live : i \in Under(j)}) : i \in Live}
  <2>1. /\ Vector(nodes) /\ Grounded(nodes) /\ root \in Link(nodes)
        /\ Tree(nodes, Live, root) /\ Live \in SUBSET DOMAIN nodes
    BY <1>1, Shape DEF IInv
  <2>2. MinInt - 1 \in Int /\ MaxInt + 1 \in Int /\ Fits(Live, MinInt - 1, MaxInt + 1)
    BY <1>1, Constants DEF IInv, Fits
  <2>3. v.ok /\ v.levels = Cardinality(Live) /\ IsDeepest(Live, v.height)
    BY <2>1, <2>2, ValidTree
  <2> HIDE DEF v
  <2>4. v.levels + Len(free) = Cardinality(DOMAIN nodes)
    <3>1. /\ free \in Seq(DOMAIN nodes) /\ IsInjective(free) /\ IsFiniteSet(DOMAIN nodes)
      BY <1>1 DEF IInv, Vector
    <3>2. IsFiniteSet(ToSet(free)) /\ Cardinality(ToSet(free)) = Len(free)
      BY <3>1, FreeSize
    <3>3. ToSet(free) \subseteq DOMAIN nodes
      BY <3>1 DEF ToSet
    <3>4. /\ Cardinality(DOMAIN nodes \ ToSet(free)) = Cardinality(DOMAIN nodes) - Cardinality(DOMAIN nodes \cap ToSet(free))
      BY <3>1, FS_Difference
    <3>5. DOMAIN nodes \cap ToSet(free) = ToSet(free)
      BY <3>3
    <3>6. Cardinality(DOMAIN nodes) \in Nat /\ Len(free) \in Nat
      BY <3>1, FS_CardinalityType
    <3>7. Live = DOMAIN nodes \ ToSet(free)
      BY DEF Live
    <3> HIDE DEF Live
    <3>8. Cardinality(Live) = Cardinality(DOMAIN nodes) - Len(free)
      BY <3>2, <3>4, <3>5, <3>7, Zenon
    <3> QED BY <2>3, <3>6, <3>8
  <2>5. \A j \in DOMAIN free : free[j] \in DOMAIN nodes /\ free[j] # root
    <3>1. root \in Live \cup {nullIndex}
      BY <2>1, TreeSums
    <3>2. nullIndex \notin DOMAIN nodes
      BY <1>1, Shape
    <3>3. free \in Seq(DOMAIN nodes) /\ \A j \in DOMAIN free : free[j] \in ToSet(free)
      BY <1>1 DEF IInv, ToSet
    <3> QED BY <3>1, <3>2, <3>3 DEF Live
  <2>6. Validate
    <3>1. IsInjective(free)
      BY <1>1 DEF IInv
    <3> QED BY <2>3, <2>4, <2>5, <3>1 DEF Validate, v
  <2>7. Height = v.height
    BY <2>3 DEF Height, v
  <2>8. A = {DepthIn(Live, i) : i \in Live}
    BY <1>1, UnderLive DEF DepthIn
  <2>9. /\ v.height \in {0} \cup A
        /\ \A x \in {0} \cup A : x \in Int /\ v.height >= x
    <3>1. \A i \in Live : DepthIn(Live, i) \in Nat
      <4> SUFFICES ASSUME NEW i \in Live PROVE DepthIn(Live, i) \in Nat
        OBVIOUS
      <4>1. {j \in Live : i \in Span(nodes, Live, j)} \in SUBSET DOMAIN nodes
        BY <2>1
      <4> QED BY <2>1, <4>1, TotalType DEF DepthIn
    <3>2. v.height \in Nat
      BY <2>3 DEF IsDeepest
    <3>3. v.height \in {0} \cup A
      BY <2>3, <2>8 DEF IsDeepest
    <3> HIDE DEF A
    <3> QED BY <2>3, <2>8, <3>1, <3>2, <3>3 DEF IsDeepest
  <2> HIDE DEF A
  <2>10. Max({0} \cup A) = v.height
    <3> DEFINE B == {0} \cup A
               h == v.height
    <3>1. h \in B /\ \A x \in B : x \in Int /\ h >= x
      BY <2>9
    <3> HIDE DEF B, h
    <3>2. \A x \in B : (\A y \in B : x >= y) => x = h
      BY <3>1
    <3>3. Max(B) = h
      BY <3>1, <3>2 DEF Max
    <3> QED BY <3>3 DEF B, h
  <2> QED BY <2>6, <2>7, <2>10 DEF AlwaysValid, A
<1> QED BY <1>1, Invariance, PTL

-----------------------------------------------------------------------------
(* The queries that go from the best price outward.                        *)

(* The nodes of a treap on the better and the worse side of its root. *)
Parted(S, i, B, W) ==
  /\ B \in SUBSET DOMAIN nodes /\ W \in SUBSET DOMAIN nodes
  /\ B \cap W = {} /\ i \notin B \cup W /\ S = B \cup W \cup {i}
  /\ \A k \in S : nodes[k].price \in Int
  /\ \A k \in B : Better(side, nodes[k].price, nodes[i].price)
  /\ \A k \in W : Better(side, nodes[i].price, nodes[k].price)

(* They are the treaps under the children on those sides. *)
LEMMA Outward ==
  ASSUME Vector(nodes), side \in Sides, NEW S, NEW i \in DOMAIN nodes, Tree(nodes, S, i)
  PROVE  \E B, W : /\ Parted(S, i, B, W)
                   /\ Tree(nodes, B, BetterChild(i)) /\ Tree(nodes, W, WorseChild(i))
<1> DEFINE L == Lower(nodes, S, nodes[i].price)
           U == Upper(nodes, S, nodes[i].price)
<1>1. i # nullIndex
  BY NodeTypes
<1>2. /\ Tree(nodes, L, nodes[i].left) /\ Tree(nodes, U, nodes[i].right)
      /\ S = L \cup U \cup {i} /\ S \in SUBSET DOMAIN nodes
  BY <1>1, TreeParts DEF Tree
<1>3. \A k \in S : nodes[k].price \in Int
  BY <1>2, NodeTypes
<1>4. /\ L \in SUBSET DOMAIN nodes /\ U \in SUBSET DOMAIN nodes
      /\ \A k \in L : nodes[k].price < nodes[i].price
      /\ \A k \in U : nodes[k].price > nodes[i].price
  BY <1>2 DEF Lower, Upper
<1>5. L \cap U = {} /\ i \notin L \cup U
  BY <1>2, <1>3, <1>4
<1> HIDE DEF L, U
<1>6. CASE side = "Buy"
  <2>1. Parted(S, i, U, L)
    BY <1>2, <1>3, <1>4, <1>5, <1>6 DEF Parted, Better
  <2> QED BY <1>2, <1>6, <2>1 DEF BetterChild, WorseChild, Towards
<1>7. CASE side # "Buy"
  <2>1. Parted(S, i, L, U)
    BY <1>2, <1>3, <1>4, <1>5, <1>7 DEF Parted, Better
  <2> QED BY <1>2, <1>7, <2>1 DEF BetterChild, WorseChild, Towards
<1> QED BY <1>6, <1>7

(* What the two sides and the root amount to. *)
LEMMA PartedSums ==
  ASSUME Vector(nodes), NEW S, NEW i \in DOMAIN nodes, NEW B, NEW W, Parted(S, i, B, W)
  PROVE  /\ Total(nodes, S) = Total(nodes, B) + nodes[i].quantity + Total(nodes, W)
         /\ Cardinality(S) = Cardinality(B) + 1 + Cardinality(W)
<1>1. /\ B \in SUBSET DOMAIN nodes /\ W \in SUBSET DOMAIN nodes
      /\ B \cap W = {} /\ i \notin B \cup W
  BY DEF Parted
<1>2. /\ Total(nodes, B \cup W \cup {i}) = Total(nodes, B) + nodes[i].quantity + Total(nodes, W)
      /\ Cardinality(B \cup W \cup {i}) = Cardinality(B) + 1 + Cardinality(W)
  BY <1>1, TotalParts
<1>3. S = B \cup W \cup {i}
  BY DEF Parted
<1> QED BY <1>2, <1>3

(* The nodes of S with a better price than k. *)
AheadOf(S, k) == {m \in S : Better(side, nodes[m].price, nodes[k].price)}

(* What is ahead of the nodes on the two sides and of the root. *)
LEMMA AheadParts ==
  ASSUME Vector(nodes), side \in Sides, NEW S, NEW i \in DOMAIN nodes, NEW B, NEW W,
         Parted(S, i, B, W)
  PROVE  /\ AheadOf(S, i) = B
         /\ \A k \in B : AheadOf(S, k) = AheadOf(B, k) /\ k \notin AheadOf(B, k)
         /\ \A k \in W : AheadOf(S, k) = B \cup AheadOf(W, k) \cup {i}
         /\ \A T, k : AheadOf(T, k) \subseteq T
BY DEF Parted, AheadOf, Better

(* How many there are, and their quantity. *)
LEMMA AheadSums ==
  ASSUME Vector(nodes), side \in Sides, NEW S, NEW i \in DOMAIN nodes, NEW B, NEW W,
         Parted(S, i, B, W)
  PROVE  /\ \A k \in B : /\ Cardinality(AheadOf(S, k)) = Cardinality(AheadOf(B, k))
                         /\ Cardinality(AheadOf(S, k)) < Cardinality(B)
                         /\ Total(nodes, AheadOf(S, k)) = Total(nodes, AheadOf(B, k))
         /\ \A k \in W :
              /\ Cardinality(AheadOf(S, k)) = Cardinality(B) + 1 + Cardinality(AheadOf(W, k))
              /\ Total(nodes, AheadOf(S, k))
                   = Total(nodes, B) + nodes[i].quantity + Total(nodes, AheadOf(W, k))
         /\ \A k \in S : Cardinality(AheadOf(S, k)) \in Nat /\ Total(nodes, AheadOf(S, k)) \in Int
         /\ \A k \in W : Cardinality(AheadOf(W, k)) \in Nat /\ Total(nodes, AheadOf(W, k)) \in Int
<1>1. /\ AheadOf(S, i) = B
      /\ \A k \in B : AheadOf(S, k) = AheadOf(B, k) /\ k \notin AheadOf(B, k)
      /\ \A k \in W : AheadOf(S, k) = B \cup AheadOf(W, k) \cup {i}
      /\ \A T, k : AheadOf(T, k) \subseteq T
  BY AheadParts
<1>2. /\ B \in SUBSET DOMAIN nodes /\ W \in SUBSET DOMAIN nodes
      /\ B \cap W = {} /\ i \notin B \cup W /\ S = B \cup W \cup {i} /\ S \in SUBSET DOMAIN nodes
  BY DEF Parted
<1>3. ASSUME NEW T \in SUBSET DOMAIN nodes, NEW k
      PROVE  /\ IsFiniteSet(T) /\ AheadOf(T, k) \in SUBSET DOMAIN nodes
             /\ Cardinality(AheadOf(T, k)) \in Nat /\ Total(nodes, AheadOf(T, k)) \in Int
  <2>1. AheadOf(T, k) \in SUBSET DOMAIN nodes
    BY <1>1
  <2> QED BY <2>1, TotalType
<1>4. ASSUME NEW k \in B PROVE Cardinality(AheadOf(B, k)) < Cardinality(B)
  <2>1. AheadOf(B, k) \in SUBSET B /\ AheadOf(B, k) # B
    BY <1>1, <1>4
  <2>2. IsFiniteSet(B) /\ Cardinality(B) \in Nat /\ Cardinality(AheadOf(B, k)) \in Nat
    BY <1>2, <1>3, TotalType
  <2>3. /\ Cardinality(AheadOf(B, k)) <= Cardinality(B)
        /\ Cardinality(B) = Cardinality(AheadOf(B, k)) => B = AheadOf(B, k)
    BY <2>1, <2>2, FS_Subset
  <2> QED BY <2>1, <2>2, <2>3
<1>5. ASSUME NEW k \in W
      PROVE  /\ Cardinality(AheadOf(S, k)) = Cardinality(B) + 1 + Cardinality(AheadOf(W, k))
             /\ Total(nodes, AheadOf(S, k))
                  = Total(nodes, B) + nodes[i].quantity + Total(nodes, AheadOf(W, k))
  <2> DEFINE A == AheadOf(W, k)
  <2>1. A \in SUBSET DOMAIN nodes /\ B \cap A = {} /\ i \notin B \cup A
    BY <1>1, <1>2
  <2>2. AheadOf(S, k) = B \cup A \cup {i}
    BY <1>1
  <2> HIDE DEF A
  <2>3. /\ Total(nodes, B \cup A \cup {i}) = Total(nodes, B) + nodes[i].quantity + Total(nodes, A)
        /\ Cardinality(B \cup A \cup {i}) = Cardinality(B) + 1 + Cardinality(A)
    BY <1>2, <2>1, TotalParts
  <2> QED BY <2>2, <2>3 DEF A
<1> QED BY <1>1, <1>2, <1>3, <1>4, <1>5

(* The nodes with fewer than n ahead of them. *)
Firsts(S, n) == {k \in S : Cardinality(AheadOf(S, k)) < n}

(* QuantityWithinBestLevels is what the first n have. *)
LEMMA WithinTree ==
  ASSUME Vector(nodes), Grounded(nodes), side \in Sides
  PROVE  \A i \in Link(nodes) : \A S : \A n \in Nat :
           Tree(nodes, S, i) => QuantityWithinBestLevels(i, n) = Total(nodes, Firsts(S, n))
<1> DEFINE D == Link(nodes) \X Nat
           f == [at \in D |-> QuantityWithinBestLevels(at[1], at[2])]
           P == {i \in Link(nodes) : \A S \in SUBSET DOMAIN nodes : \A n \in Nat :
                   Tree(nodes, S, i) => f[<<i, n>>] = Total(nodes, Firsts(S, n))}
<1>1. nullIndex \notin DOMAIN nodes
  BY NodeTypes
<1>2. \A at \in D : f[at] = WithinStep(f, at)
  BY WithinUnfolds
<1>3. \A i \in Link(nodes) : \A n \in Nat : f[<<i, n>>] = QuantityWithinBestLevels(i, n)
  OBVIOUS
<1> HIDE DEF f
<1>4. nullIndex \in P
  <2> SUFFICES ASSUME NEW S \in SUBSET DOMAIN nodes, NEW n \in Nat, Tree(nodes, S, nullIndex)
               PROVE  f[<<nullIndex, n>>] = Total(nodes, Firsts(S, n))
    BY DEF Link
  <2>1. S = {}
    BY TreeEmpty
  <2>2. Firsts(S, n) = {}
    BY <2>1 DEF Firsts
  <2>3. <<nullIndex, n>> \in D
    BY DEF Link
  <2>4. f[<<nullIndex, n>>] = 0
    BY <1>2, <2>3 DEF WithinStep
  <2> QED BY <2>2, <2>4, TotalType
<1>5. ASSUME NEW i \in DOMAIN nodes, nodes[i].left \in P, nodes[i].right \in P PROVE i \in P
  <2> SUFFICES ASSUME NEW S \in SUBSET DOMAIN nodes, NEW n \in Nat, Tree(nodes, S, i)
               PROVE  f[<<i, n>>] = Total(nodes, Firsts(S, n))
    BY DEF Link
  <2> DEFINE b == BetterChild(i)
             w == WorseChild(i)
  <2>1. PICK B, W : Parted(S, i, B, W) /\ Tree(nodes, B, b) /\ Tree(nodes, W, w)
    BY Outward
  <2>2. b \in P /\ w \in P
    BY <1>5 DEF BetterChild, WorseChild, Towards
  <2>3. /\ B \in SUBSET DOMAIN nodes /\ W \in SUBSET DOMAIN nodes
        /\ B \cap W = {} /\ i \notin B \cup W /\ S = B \cup W \cup {i}
    BY <2>1 DEF Parted
  <2> HIDE DEF b, w
  <2>4. \A m \in Nat : /\ f[<<b, m>>] = Total(nodes, Firsts(B, m))
                       /\ f[<<w, m>>] = Total(nodes, Firsts(W, m))
    BY <2>1, <2>2, <2>3
  <2> DEFINE c == Cardinality(B)
             q == Total(nodes, B)
  <2>5. SubtreeQuantity(nodes, b) = q /\ SubtreeLevels(nodes, b) = c
    BY <2>1, TreeSums
  <2>6. /\ IsFiniteSet(B) /\ c \in Nat /\ q \in Int /\ nodes[i].quantity \in Int
        /\ Total(nodes, {}) = 0
    BY <2>3, TotalType
  <2>7. /\ \A k \in B : /\ Cardinality(AheadOf(S, k)) = Cardinality(AheadOf(B, k))
                        /\ Cardinality(AheadOf(S, k)) < c
        /\ \A k \in W :
             /\ Cardinality(AheadOf(S, k)) = c + 1 + Cardinality(AheadOf(W, k))
             /\ Cardinality(AheadOf(W, k)) \in Nat
        /\ \A k \in S : Cardinality(AheadOf(S, k)) \in Nat
    <3>1. /\ \A k \in B : /\ Cardinality(AheadOf(S, k)) = Cardinality(AheadOf(B, k))
                          /\ Cardinality(AheadOf(S, k)) < Cardinality(B)
                          /\ Total(nodes, AheadOf(S, k)) = Total(nodes, AheadOf(B, k))
          /\ \A k \in W :
               /\ Cardinality(AheadOf(S, k)) = Cardinality(B) + 1 + Cardinality(AheadOf(W, k))
               /\ Total(nodes, AheadOf(S, k))
                    = Total(nodes, B) + nodes[i].quantity + Total(nodes, AheadOf(W, k))
          /\ \A k \in S : Cardinality(AheadOf(S, k)) \in Nat /\ Total(nodes, AheadOf(S, k)) \in Int
          /\ \A k \in W : Cardinality(AheadOf(W, k)) \in Nat /\ Total(nodes, AheadOf(W, k)) \in Int
      BY <2>1, AheadSums, Zenon
    <3> QED BY <3>1
  <2>8. Cardinality(AheadOf(S, i)) = c
    BY <2>1, AheadParts
  <2> HIDE DEF c, q
  <2>9. <<i, n>> \in D /\ i # nullIndex
    BY <1>1 DEF Link
  <2>10. f[<<i, n>>] = WithinStep(f, <<i, n>>)
    BY <1>2, <2>9
  <2>11. CASE n = 0
    <3>1. Firsts(S, n) = {}
      BY <2>7, <2>11 DEF Firsts
    <3>2. f[<<i, n>>] = 0
      BY <2>10, <2>11 DEF WithinStep
    <3> QED BY <2>6, <3>1, <3>2
  <2>12. CASE n # 0 /\ n <= c
    <3>1. Firsts(S, n) = Firsts(B, n)
      BY <2>3, <2>6, <2>7, <2>8, <2>12 DEF Firsts
    <3>2. f[<<i, n>>] = f[<<b, n>>]
      BY <2>5, <2>9, <2>10, <2>12 DEF WithinStep, b
    <3> QED BY <2>4, <3>1, <3>2
  <2>13. CASE n = c + 1
    <3> DEFINE E == {}
    <3>1. Firsts(S, n) = B \cup E \cup {i}
      <4>1. \A k \in B : Cardinality(AheadOf(S, k)) < n
        BY <2>3, <2>6, <2>7, <2>13
      <4>2. \A k \in W : ~(Cardinality(AheadOf(S, k)) < n)
        BY <2>6, <2>7, <2>13
      <4>3. Cardinality(AheadOf(S, i)) < n
        BY <2>6, <2>8, <2>13
      <4> QED BY <2>3, <4>1, <4>2, <4>3 DEF Firsts
    <3>2. f[<<i, n>>] = q + nodes[i].quantity
      <4>1. n # 0 /\ ~(n <= c)
        BY <2>6, <2>13
      <4> QED BY <2>5, <2>9, <2>10, <2>13, <4>1 DEF WithinStep, b
    <3>3. Total(nodes, B \cup E \cup {i}) = q + nodes[i].quantity + Total(nodes, E)
      <4>1. E \in SUBSET DOMAIN nodes /\ B \cap E = {} /\ i \notin B \cup E
        BY <2>3
      <4> HIDE DEF E
      <4> QED BY <2>3, <4>1, TotalParts DEF q
    <3>4. Total(nodes, E) = 0
      BY <2>6
    <3> HIDE DEF E
    <3> QED BY <2>6, <3>1, <3>2, <3>3, <3>4
  <2>14. CASE n > c + 1
    <3> DEFINE m == n - c - 1
               F == Firsts(W, m)
    <3>1. m \in Nat
      BY <2>6, <2>14
    <3>2. Firsts(S, n) = B \cup F \cup {i}
      <4>1. \A k \in B : Cardinality(AheadOf(S, k)) < n
        <5> SUFFICES ASSUME NEW k \in B PROVE Cardinality(AheadOf(S, k)) < n
          OBVIOUS
        <5>1. Cardinality(AheadOf(S, k)) < c /\ Cardinality(AheadOf(S, k)) \in Nat
          BY <2>3, <2>7
        <5> QED BY <2>6, <2>14, <5>1
      <4>2. \A k \in W : Cardinality(AheadOf(S, k)) < n <=> Cardinality(AheadOf(W, k)) < m
        BY <2>6, <2>7, <2>14
      <4>3. Cardinality(AheadOf(S, i)) < n
        BY <2>6, <2>8, <2>14
      <4> HIDE DEF m
      <4> QED BY <2>3, <4>1, <4>2, <4>3 DEF Firsts
    <3>3. F \in SUBSET DOMAIN nodes /\ B \cap F = {} /\ i \notin B \cup F
      BY <2>3 DEF Firsts
    <3>4. f[<<i, n>>] = q + nodes[i].quantity + f[<<w, m>>]
      <4>1. n # 0 /\ ~(n <= c) /\ n # c + 1
        BY <2>6, <2>14
      <4> QED BY <2>5, <2>9, <2>10, <4>1 DEF WithinStep, b, w
    <3> HIDE DEF F, m
    <3>5. Total(nodes, B \cup F \cup {i}) = q + nodes[i].quantity + Total(nodes, F)
      BY <2>3, <3>3, TotalParts DEF q
    <3>6. f[<<w, m>>] = Total(nodes, F)
      BY <2>4, <3>1 DEF F
    <3> QED BY <3>2, <3>4, <3>5, <3>6
  <2> QED BY <2>6, <2>11, <2>12, <2>13, <2>14
<1>6. Link(nodes) \subseteq P
  <2> HIDE DEF P
  <2> QED BY <1>1, <1>4, <1>5, UpInduction
<1>7. \A i, S : Tree(nodes, S, i) => S \in SUBSET DOMAIN nodes
  BY DEF Tree
<1>8. ASSUME NEW i \in Link(nodes), NEW S, NEW n \in Nat, Tree(nodes, S, i)
      PROVE  QuantityWithinBestLevels(i, n) = Total(nodes, Firsts(S, n))
  <2>1. i \in P /\ S \in SUBSET DOMAIN nodes
    BY <1>6, <1>7, <1>8
  <2> QED BY <1>3, <1>8, <2>1
<1> QED BY <1>8

(* With node k the quantity from the best price on is d, and not before it. *)
Reached(S, d, k) ==
  /\ k \in S
  /\ Total(nodes, AheadOf(S, k)) < d
  /\ d <= Total(nodes, AheadOf(S, k)) + nodes[k].quantity

(* DepthUnder finds that node, when there is so much. *)
LEMMA DepthTree ==
  ASSUME Vector(nodes), Grounded(nodes), side \in Sides
  PROVE  \A i \in Link(nodes) : \A S : \A d \in Int :
           Tree(nodes, S, i) /\ 0 < d /\ d <= Total(nodes, S) => Reached(S, d, DepthUnder(i, d))
<1> DEFINE D == Link(nodes) \X Int
           f == [at \in D |-> DepthUnder(at[1], at[2])]
           P == {i \in Link(nodes) : \A S \in SUBSET DOMAIN nodes : \A d \in Int :
                   Tree(nodes, S, i) /\ 0 < d /\ d <= Total(nodes, S) => Reached(S, d, f[<<i, d>>])}
<1>1. nullIndex \notin DOMAIN nodes
  BY NodeTypes
<1>2. \A at \in D : f[at] = DepthStep(f, at)
  BY DepthUnfolds
<1>3. \A i \in Link(nodes) : \A d \in Int : f[<<i, d>>] = DepthUnder(i, d)
  OBVIOUS
<1> HIDE DEF f
<1>4. nullIndex \in P
  <2> SUFFICES ASSUME NEW S \in SUBSET DOMAIN nodes, NEW d \in Int, Tree(nodes, S, nullIndex),
                      0 < d, d <= Total(nodes, S)
               PROVE  FALSE
    BY DEF Link
  <2>1. S = {} /\ Total(nodes, {}) = 0
    BY TreeEmpty, TotalType
  <2> QED BY <2>1
<1>5. ASSUME NEW i \in DOMAIN nodes, nodes[i].left \in P, nodes[i].right \in P PROVE i \in P
  <2> SUFFICES ASSUME NEW S \in SUBSET DOMAIN nodes, NEW d \in Int, Tree(nodes, S, i),
                      0 < d, d <= Total(nodes, S)
               PROVE  Reached(S, d, f[<<i, d>>])
    BY DEF Link
  <2> DEFINE b == BetterChild(i)
             w == WorseChild(i)
  <2>1. PICK B, W : Parted(S, i, B, W) /\ Tree(nodes, B, b) /\ Tree(nodes, W, w)
    BY Outward
  <2>2. b \in P /\ w \in P
    BY <1>5 DEF BetterChild, WorseChild, Towards
  <2>3. /\ B \in SUBSET DOMAIN nodes /\ W \in SUBSET DOMAIN nodes
        /\ B \cap W = {} /\ i \notin B \cup W /\ S = B \cup W \cup {i}
    BY <2>1 DEF Parted
  <2> HIDE DEF b, w
  <2>4. \A e \in Int : 0 < e =>
          /\ e <= Total(nodes, B) => Reached(B, e, f[<<b, e>>])
          /\ e <= Total(nodes, W) => Reached(W, e, f[<<w, e>>])
    BY <2>1, <2>2, <2>3
  <2> DEFINE q == Total(nodes, B)
             mine == nodes[i].quantity
  <2>5. SubtreeQuantity(nodes, b) = q
    BY <2>1, TreeSums
  <2>6. q \in Int /\ mine \in Int /\ Total(nodes, W) \in Int
    BY <2>3, TotalType
  <2>7. /\ \A k \in B : Total(nodes, AheadOf(S, k)) = Total(nodes, AheadOf(B, k))
        /\ \A k \in W :
             /\ Total(nodes, AheadOf(S, k)) = q + mine + Total(nodes, AheadOf(W, k))
             /\ Total(nodes, AheadOf(W, k)) \in Int
    <3>1. /\ \A k \in B : /\ Cardinality(AheadOf(S, k)) = Cardinality(AheadOf(B, k))
                          /\ Cardinality(AheadOf(S, k)) < Cardinality(B)
                          /\ Total(nodes, AheadOf(S, k)) = Total(nodes, AheadOf(B, k))
          /\ \A k \in W :
               /\ Cardinality(AheadOf(S, k)) = Cardinality(B) + 1 + Cardinality(AheadOf(W, k))
               /\ Total(nodes, AheadOf(S, k))
                    = Total(nodes, B) + nodes[i].quantity + Total(nodes, AheadOf(W, k))
          /\ \A k \in S : Cardinality(AheadOf(S, k)) \in Nat /\ Total(nodes, AheadOf(S, k)) \in Int
          /\ \A k \in W : Cardinality(AheadOf(W, k)) \in Nat /\ Total(nodes, AheadOf(W, k)) \in Int
      BY <2>1, AheadSums, Zenon
    <3> QED BY <3>1
  <2>8. Total(nodes, AheadOf(S, i)) = q
    BY <2>1, AheadParts
  <2>9. Total(nodes, S) = q + mine + Total(nodes, W)
    BY <2>1, PartedSums
  <2>10. <<i, d>> \in D /\ i # nullIndex
    BY <1>1 DEF Link
  <2>11. f[<<i, d>>] = DepthStep(f, <<i, d>>)
    BY <1>2, <2>10
  <2> HIDE DEF q, mine
  <2>12. CASE d <= q
    <3>1. f[<<i, d>>] = f[<<b, d>>]
      BY <2>5, <2>10, <2>11, <2>12 DEF DepthStep, b
    <3>2. Reached(B, d, f[<<b, d>>])
      BY <2>4, <2>12 DEF q
    <3> QED BY <2>3, <2>7, <3>1, <3>2 DEF Reached
  <2>13. CASE q < d /\ d <= q + mine
    <3>1. ~(d <= q)
      BY <2>6, <2>13
    <3>2. f[<<i, d>>] = i
      BY <2>5, <2>10, <2>11, <2>13, <3>1 DEF DepthStep, b, mine
    <3> QED BY <2>3, <2>8, <2>13, <3>2 DEF Reached, mine
  <2>14. CASE q < d /\ q + mine < d
    <3> DEFINE e == d - q - mine
               k == f[<<w, e>>]
    <3>1. ~(d <= q) /\ ~(d <= q + mine) /\ e \in Int /\ 0 < e /\ e <= Total(nodes, W)
      BY <2>6, <2>9, <2>14
    <3>2. f[<<i, d>>] = k
      BY <2>5, <2>10, <2>11, <3>1 DEF DepthStep, b, w, mine
    <3>3. Reached(W, e, k)
      <4> HIDE DEF e
      <4> QED BY <2>4, <3>1
    <3>4. /\ k \in W /\ Total(nodes, AheadOf(W, k)) < e
          /\ e <= Total(nodes, AheadOf(W, k)) + nodes[k].quantity
      <4> HIDE DEF e
      <4> QED BY <3>3 DEF Reached
    <3> HIDE DEF k
    <3>5. nodes[k].quantity \in Int
      BY <2>3, <3>4, NodeTypes
    <3>6. /\ Total(nodes, AheadOf(S, k)) = q + mine + Total(nodes, AheadOf(W, k))
          /\ Total(nodes, AheadOf(W, k)) \in Int
      BY <2>7, <3>4
    <3>7. /\ Total(nodes, AheadOf(S, k)) < d
          /\ d <= Total(nodes, AheadOf(S, k)) + nodes[k].quantity
      BY <2>6, <3>4, <3>5, <3>6
    <3> QED BY <2>3, <3>2, <3>4, <3>7 DEF Reached
  <2> QED BY <2>6, <2>12, <2>13, <2>14
<1>6. Link(nodes) \subseteq P
  <2> HIDE DEF P
  <2> QED BY <1>1, <1>4, <1>5, UpInduction
<1>7. \A i, S : Tree(nodes, S, i) => S \in SUBSET DOMAIN nodes
  BY DEF Tree
<1>8. ASSUME NEW i \in Link(nodes), NEW S, NEW d \in Int, Tree(nodes, S, i),
             0 < d, d <= Total(nodes, S)
      PROVE  Reached(S, d, DepthUnder(i, d))
  <2>1. i \in P /\ S \in SUBSET DOMAIN nodes
    BY <1>6, <1>7, <1>8
  <2> QED BY <1>3, <1>8, <2>1
<1> QED BY <1>8

(* One more node adds its quantity. *)
LEMMA TotalAdd ==
  ASSUME NEW t, Vector(t), NEW A \in SUBSET DOMAIN t, NEW i \in DOMAIN t, i \notin A,
         NEW T, T = A \cup {i}
  PROVE  Total(t, T) = Total(t, A) + t[i].quantity
<1>1. IsFiniteSet(A) /\ Amounts(t)[i] = t[i].quantity
  BY TotalType
<1>2. \A x \in A \cup {i} : Amounts(t)[x] \in Int
  BY TotalType
<1>3. SumFunctionOnSet(Amounts(t), A \cup {i}) = SumFunctionOnSet(Amounts(t), A) + Amounts(t)[i]
  BY <1>1, <1>2, SumAdd
<1> QED BY <1>1, <1>3 DEF Total

(* The levels better than a node's are the prices of those ahead of it. *)
LEMMA PlaceIs ==
  ASSUME IInv, NEW i \in Live
  PROVE  /\ Cardinality({q \in DOMAIN Held : Map!Better(side, q, nodes[i].price)})
              = Cardinality(AheadOf(Live, i))
         /\ Map!Total(Held, {q \in DOMAIN Held :
                               q = nodes[i].price \/ Map!Better(side, q, nodes[i].price)})
              = Total(nodes, AheadOf(Live, i)) + nodes[i].quantity
         /\ Cardinality(AheadOf(Live, i)) \in Nat /\ Total(nodes, AheadOf(Live, i)) \in Int
         /\ nodes[i].quantity \in Int /\ nodes[i].price \in Int
<1>1. HeldIsLive
  BY HeldNodes
<1>2. Vector(nodes) /\ Live \in SUBSET DOMAIN nodes /\ \A k \in Live : nodes[k].price \in Int
  BY Shape, NodeTypes
<1>3. \A j, k \in Live : nodes[j].price = nodes[k].price => j = k
  BY DEF IInv, Tree
<1> DEFINE A == AheadOf(Live, i)
           T == A \cup {i}
<1>4. A \in SUBSET Live /\ T \in SUBSET Live
  BY DEF AheadOf
<1>5. i \notin A
  BY <1>2 DEF AheadOf, Better
<1>6. {q \in DOMAIN Held : Map!Better(side, q, nodes[i].price)} = {nodes[k].price : k \in A}
  BY <1>1 DEF HeldIsLive, AheadOf, Map!Better, Better
<1>7. {q \in DOMAIN Held : q = nodes[i].price \/ Map!Better(side, q, nodes[i].price)}
        = {nodes[k].price : k \in T}
  BY <1>1 DEF HeldIsLive, AheadOf, Map!Better, Better
<1> HIDE DEF A
<1>8. Cardinality({nodes[k].price : k \in A}) = Cardinality(A)
  BY <1>4, HeldTotals
<1>9. Map!Total(Held, {nodes[k].price : k \in T}) = Total(nodes, T)
  <2> HIDE DEF T
  <2> QED BY <1>4, HeldTotals
<1>10. IsFiniteSet(A) /\ Cardinality(A) \in Nat /\ Total(nodes, A) \in Int /\ nodes[i].quantity \in Int
  <2>1. A \in SUBSET DOMAIN nodes /\ Live \in SUBSET DOMAIN nodes
    BY <1>2, <1>4
  <2> QED BY <1>2, <2>1, TotalType
<1>11. Total(nodes, T) = Total(nodes, A) + nodes[i].quantity
  <2>1. A \in SUBSET DOMAIN nodes /\ i \in DOMAIN nodes
    BY <1>2, <1>4
  <2> QED BY <1>2, <1>5, <2>1, TotalAdd
<1> QED BY <1>2, <1>6, <1>7, <1>8, <1>9, <1>10, <1>11 DEF A

(* quantityWithinBestLevels gives what the map gives. *)
LEMMA WithinAgrees ==
  ASSUME IInv, NEW n \in Nat
  PROVE  QuantityWithinBestLevels(root, n) = Map!WithinBestLevels(Held, side, n)
<1>1. /\ Vector(nodes) /\ Grounded(nodes) /\ root \in Link(nodes) /\ side \in Sides
      /\ Tree(nodes, Live, root)
  BY Shape DEF IInv
<1>2. HeldIsLive
  BY HeldNodes
<1> DEFINE T == Firsts(Live, n)
           A == {p \in DOMAIN Held :
                   Cardinality({q \in DOMAIN Held : Map!Better(side, q, p)}) < n}
<1>3. T \in SUBSET Live
  BY DEF Firsts
<1>4. \A i \in Live : Cardinality({q \in DOMAIN Held : Map!Better(side, q, nodes[i].price)})
                        = Cardinality(AheadOf(Live, i))
  BY PlaceIs
<1>5. A = {nodes[i].price : i \in T}
  BY <1>2, <1>4 DEF HeldIsLive, Firsts
<1>6. QuantityWithinBestLevels(root, n) = Total(nodes, T)
  BY <1>1, WithinTree
<1>7. Map!WithinBestLevels(Held, side, n) = Map!Total(Held, A)
  BY MapCardinality DEF Map!WithinBestLevels
<1> HIDE DEF T, A
<1>8. Map!Total(Held, {nodes[i].price : i \in T}) = Total(nodes, T)
  BY <1>3, HeldTotals
<1> QED BY <1>5, <1>6, <1>7, <1>8

(* A part of the live nodes has no more than all of it. *)
LEMMA PartOfTotal ==
  ASSUME IInv, NEW T \in SUBSET Live, NEW U \in SUBSET T
  PROVE  Total(nodes, U) <= Total(nodes, T) /\ Total(nodes, U) \in Int /\ Total(nodes, T) \in Int
<1> DEFINE R == T \ U
<1>1. Vector(nodes) /\ T \in SUBSET DOMAIN nodes /\ U \in SUBSET DOMAIN nodes /\ R \in SUBSET DOMAIN nodes
  BY Shape
<1>2. T = U \cup R /\ U \cap R = {}
  OBVIOUS
<1>3. \A i \in R : nodes[i].quantity > 0
  BY DEF IInv
<1> HIDE DEF R
<1>4. /\ IsFiniteSet(U) /\ IsFiniteSet(R)
      /\ Total(nodes, U) \in Int /\ Total(nodes, R) \in Int /\ Total(nodes, T) \in Int
      /\ \A i \in U \cup R : Amounts(nodes)[i] = nodes[i].quantity /\ nodes[i].quantity \in Int
  BY <1>1, TotalType
<1>5. SumFunctionOnSet(Amounts(nodes), R) >= 0
  <2>1. \A x \in R : Amounts(nodes)[x] \in Int /\ Amounts(nodes)[x] > 0
    BY <1>3, <1>4
  <2> QED BY <1>4, <2>1, SumPositive
<1>6. SumFunctionOnSet(Amounts(nodes), U \cup R)
        = SumFunctionOnSet(Amounts(nodes), U) + SumFunctionOnSet(Amounts(nodes), R)
  <2>1. \A x \in U \cup R : Amounts(nodes)[x] \in Int
    BY <1>4
  <2> QED BY <1>2, <1>4, <2>1, SumUnion
<1> QED BY <1>2, <1>4, <1>5, <1>6 DEF Total

(* priceAtDepth gives the price that the map gives. *)
LEMMA DepthAgrees ==
  ASSUME IInv, NEW depth \in Int
  PROVE  LET i == NodeAtDepth(depth)
             deep == Map!DeepEnough(Held, side, depth)
         IN IF depth <= 0 \/ deep = {}
            THEN i = nullIndex
            ELSE i # nullIndex /\ nodes[i].price = Map!Best(deep, side)
<1> DEFINE k == NodeAtDepth(depth)
           deep == Map!DeepEnough(Held, side, depth)
<1>1. /\ Vector(nodes) /\ Grounded(nodes) /\ root \in Link(nodes) /\ side \in Sides
      /\ Tree(nodes, Live, root) /\ Live \in SUBSET DOMAIN nodes /\ nullIndex \notin DOMAIN nodes
  BY Shape DEF IInv
<1>2. HeldIsLive
  BY HeldNodes
<1>3. SubtreeQuantity(nodes, root) = Total(nodes, Live) /\ Total(nodes, Live) \in Int
  BY <1>1, TreeSums, TotalType
<1> DEFINE Through(i) == Total(nodes, AheadOf(Live, i)) + nodes[i].quantity
<1>4. \A i \in Live : /\ Map!Total(Held, {q \in DOMAIN Held :
                             q = nodes[i].price \/ Map!Better(side, q, nodes[i].price)}) = Through(i)
                      /\ Through(i) \in Int
  <2> SUFFICES ASSUME NEW i \in Live
               PROVE  /\ Map!Total(Held, {q \in DOMAIN Held :
                             q = nodes[i].price \/ Map!Better(side, q, nodes[i].price)}) = Through(i)
                      /\ Through(i) \in Int
    OBVIOUS
  <2>1. /\ Map!Total(Held, {q \in DOMAIN Held :
                               q = nodes[i].price \/ Map!Better(side, q, nodes[i].price)})
             = Total(nodes, AheadOf(Live, i)) + nodes[i].quantity
        /\ Total(nodes, AheadOf(Live, i)) \in Int /\ nodes[i].quantity \in Int
    BY PlaceIs
  <2> QED BY <2>1
<1>11. \A i \in Live : nodes[i].price \in Int
  BY <1>1, NodeTypes
<1>5. \A i \in Live : nodes[i].price \in deep <=> Through(i) >= depth
  BY <1>2, <1>4 DEF Map!DeepEnough, HeldIsLive
<1>6. \A p \in deep : \E i \in Live : p = nodes[i].price
  BY <1>2 DEF Map!DeepEnough, HeldIsLive
<1>7. ASSUME NEW i \in Live PROVE Through(i) <= Total(nodes, Live)
  <2> DEFINE A == AheadOf(Live, i)
             T == A \cup {i}
  <2>1. A \in SUBSET Live /\ T \in SUBSET Live
    BY DEF AheadOf
  <2>2. i \notin A
    BY <1>11 DEF AheadOf, Better
  <2>3. A \in SUBSET DOMAIN nodes /\ i \in DOMAIN nodes
    BY <1>1, <2>1
  <2> HIDE DEF A
  <2>4. Total(nodes, T) = Total(nodes, A) + nodes[i].quantity
    BY <1>1, <2>2, <2>3, TotalAdd
  <2> HIDE DEF T
  <2>5. Total(nodes, T) <= Total(nodes, Live)
    BY <2>1, PartOfTotal
  <2> QED BY <2>4, <2>5 DEF A
<1> HIDE DEF deep
<1>8. CASE depth <= 0
  <2>1. k = nullIndex
    BY <1>8 DEF NodeAtDepth
  <2> QED BY <1>8, <2>1 DEF deep
<1>9. CASE depth > Total(nodes, Live)
  <2>1. k = nullIndex
    BY <1>3, <1>9 DEF NodeAtDepth
  <2>2. \A i \in Live : ~(Through(i) >= depth)
    <3> SUFFICES ASSUME NEW i \in Live PROVE ~(Through(i) >= depth)
      OBVIOUS
    <3>1. Through(i) \in Int /\ Through(i) <= Total(nodes, Live)
      BY <1>4, <1>7
    <3> HIDE DEF Through
    <3> QED BY <1>3, <1>9, <3>1
  <2> HIDE DEF Through
  <2>3. deep = {}
    BY <1>5, <1>6, <2>2
  <2> QED BY <2>1, <2>3 DEF deep
<1>10. CASE 0 < depth /\ depth <= Total(nodes, Live)
  <2>1. k = DepthUnder(root, depth)
    <3>1. ~(depth <= 0) /\ ~(depth > Total(nodes, Live))
      BY <1>3, <1>10
    <3> QED BY <1>3, <3>1 DEF NodeAtDepth
  <2>2. Reached(Live, depth, DepthUnder(root, depth))
    BY <1>1, <1>10, DepthTree
  <2>3. k \in Live /\ Total(nodes, AheadOf(Live, k)) < depth /\ Through(k) >= depth
    BY <2>1, <2>2, <1>1, <1>4 DEF Reached
  <2> HIDE DEF k
  <2> DEFINE b == nodes[k].price
  <2>4. b \in deep /\ b \in Int
    BY <1>5, <1>11, <2>3
  <2>5. ASSUME NEW p \in deep PROVE p \in Int /\ (p = b \/ Better(side, b, p))
    <3>1. PICK i \in Live : p = nodes[i].price
      BY <1>6
    <3>2. Through(i) >= depth /\ p \in Int
      BY <1>5, <1>11, <3>1
    <3>3. ASSUME Better(side, p, b) PROVE FALSE
      <4> DEFINE A == AheadOf(Live, i)
                 C == AheadOf(Live, k)
                 T == A \cup {i}
      <4>1. \A m \in A : m \in Live /\ Better(side, nodes[m].price, p)
        BY <3>1 DEF AheadOf
      <4>2. \A m \in Live : m \in C <=> Better(side, nodes[m].price, b)
        BY DEF AheadOf
      <4>3. C \in SUBSET Live /\ A \in SUBSET Live
        BY DEF AheadOf
      <4>4. i \notin A
        BY <1>11, <3>1, <4>1 DEF Better
      <4>5. Total(nodes, C) < depth /\ Total(nodes, A) + nodes[i].quantity >= depth
        BY <2>3, <3>2
      <4> HIDE DEF A, C, b
      <4>6. T \in SUBSET C
        <5>1. ASSUME NEW m \in A PROVE m \in C
          <6>1. Better(side, nodes[m].price, p) /\ m \in Live /\ nodes[m].price \in Int
            BY <1>11, <4>1
          <6>2. Better(side, nodes[m].price, b)
            BY <2>4, <3>2, <3>3, <6>1 DEF Better
          <6> QED BY <4>2, <6>1, <6>2
        <5>2. i \in C
          BY <3>1, <3>3, <4>2
        <5> QED BY <5>1, <5>2
      <4>7. Total(nodes, T) = Total(nodes, A) + nodes[i].quantity
        <5>1. A \in SUBSET DOMAIN nodes /\ i \in DOMAIN nodes
          BY <1>1, <4>3
        <5> QED BY <1>1, <4>4, <5>1, TotalAdd
      <4> HIDE DEF T
      <4>8. Total(nodes, T) <= Total(nodes, C) /\ Total(nodes, T) \in Int /\ Total(nodes, C) \in Int
        BY <4>3, <4>6, PartOfTotal
      <4> QED BY <4>5, <4>7, <4>8
    <3>4. p = b \/ Better(side, b, p) \/ Better(side, p, b)
      BY <2>4, <3>2 DEF Better
    <3> QED BY <3>2, <3>3, <3>4
  <2>6. Map!Best(deep, side) = b
    BY <1>1, <2>4, <2>5, BestIs
  <2>7. k # nullIndex /\ deep # {}
    BY <1>1, <2>3, <2>4
  <2>8. ~(depth <= 0)
    BY <1>10
  <2> QED BY <2>6, <2>7, <2>8 DEF deep, k
<1> QED BY <1>3, <1>8, <1>9, <1>10

(* The level of a node, as the queries return it. *)
LevelOf(k) == [price |-> nodes[k].price, quantity |-> nodes[k].quantity]

(* The levels r are those before, then those of the nodes S from the best  *)
(* on, as far as the maximum allows.                                       *)
Gathered(S, before, maximum, r) ==
  /\ r \in Seq(Level)
  /\ Len(r) = IF Len(before) + Cardinality(S) <= maximum THEN Len(before) + Cardinality(S)
              ELSE IF Len(before) <= maximum THEN maximum ELSE Len(before)
  /\ \A j \in 1 .. Len(before) : r[j] = before[j]
  /\ \A j \in Len(before) + 1 .. Len(r) :
       \E k \in S : Cardinality(AheadOf(S, k)) = j - 1 - Len(before) /\ r[j] = LevelOf(k)

(* Gathering from the better side, then the root, then the worse side. *)
LEMMA GatheredParts ==
  ASSUME Vector(nodes), side \in Sides, NEW S, NEW i \in DOMAIN nodes, NEW B, NEW W,
         Parted(S, i, B, W), NEW maximum \in Nat, NEW before \in Seq(Level),
         Len(before) < maximum, NEW a, Gathered(B, before, maximum, a), NEW r,
         Gathered(W, IF Len(a) < maximum THEN Append(a, LevelOf(i)) ELSE a, maximum, r)
  PROVE  Gathered(S, before, maximum, r)
<1>1. /\ B \in SUBSET DOMAIN nodes /\ W \in SUBSET DOMAIN nodes
      /\ B \cap W = {} /\ i \notin B \cup W /\ S = B \cup W \cup {i}
  BY DEF Parted
<1>2. Cardinality(B) \in Nat /\ Cardinality(W) \in Nat
  BY <1>1, TotalType
<1>3. Cardinality(S) = Cardinality(B) + 1 + Cardinality(W)
  BY PartedSums
<1> DEFINE c == Cardinality(B)
           d == Cardinality(W)
           x == IF Len(a) < maximum THEN Append(a, LevelOf(i)) ELSE a
           l == Len(before)
           Place(k) == Cardinality(AheadOf(S, k))
<1>4. /\ \A k \in B : Place(k) = Cardinality(AheadOf(B, k))
      /\ \A k \in W : Place(k) = c + 1 + Cardinality(AheadOf(W, k)) /\ Cardinality(AheadOf(W, k)) \in Nat
  <2>1. /\ \A k \in B : /\ Cardinality(AheadOf(S, k)) = Cardinality(AheadOf(B, k))
                        /\ Cardinality(AheadOf(S, k)) < Cardinality(B)
                        /\ Total(nodes, AheadOf(S, k)) = Total(nodes, AheadOf(B, k))
        /\ \A k \in W :
             /\ Cardinality(AheadOf(S, k)) = Cardinality(B) + 1 + Cardinality(AheadOf(W, k))
             /\ Total(nodes, AheadOf(S, k))
                  = Total(nodes, B) + nodes[i].quantity + Total(nodes, AheadOf(W, k))
        /\ \A k \in S : Cardinality(AheadOf(S, k)) \in Nat /\ Total(nodes, AheadOf(S, k)) \in Int
        /\ \A k \in W : Cardinality(AheadOf(W, k)) \in Nat /\ Total(nodes, AheadOf(W, k)) \in Int
    BY AheadSums, Zenon
  <2> QED BY <2>1
<1>5. Place(i) = c
  BY AheadParts
<1>6. LevelOf(i) \in Level
  BY LevelType DEF LevelOf
<1>7. /\ a \in Seq(Level) /\ Len(a) \in Nat /\ l \in Nat
      /\ Len(a) = IF l + c <= maximum THEN l + c ELSE IF l <= maximum THEN maximum ELSE l
      /\ \A j \in 1 .. l : a[j] = before[j]
      /\ \A j \in l + 1 .. Len(a) :
           \E k \in B : Cardinality(AheadOf(B, k)) = j - 1 - l /\ a[j] = LevelOf(k)
  BY DEF Gathered
<1>8. /\ r \in Seq(Level) /\ Len(r) \in Nat
      /\ Len(r) = IF Len(x) + d <= maximum THEN Len(x) + d
                  ELSE IF Len(x) <= maximum THEN maximum ELSE Len(x)
      /\ \A j \in 1 .. Len(x) : r[j] = x[j]
      /\ \A j \in Len(x) + 1 .. Len(r) :
           \E k \in W : Cardinality(AheadOf(W, k)) = j - 1 - Len(x) /\ r[j] = LevelOf(k)
  <2>1. Gathered(W, x, maximum, r)
    OBVIOUS
  <2> HIDE DEF c, x, l, Place
  <2> QED BY <2>1 DEF Gathered
<1>9. Len(a) <= maximum /\ l <= Len(a) /\ (Len(a) < maximum => Len(a) = l + c)
      /\ (Len(a) = maximum => l + c >= maximum)
  BY <1>2, <1>7
<1>10. /\ x \in Seq(Level) /\ \A j \in 1 .. Len(a) : x[j] = a[j]
       /\ Len(a) < maximum => /\ x = Append(a, LevelOf(i)) /\ Len(x) = Len(a) + 1
                              /\ x[Len(a) + 1] = LevelOf(i)
       /\ Len(a) = maximum => x = a /\ Len(x) = maximum
  BY <1>6, <1>7
<1> HIDE DEF c, d, x, l, Place
<1>15. c \in Nat /\ d \in Nat
  BY <1>2 DEF c, d
<1>11. Len(r) = IF l + (c + 1 + d) <= maximum THEN l + (c + 1 + d) ELSE maximum
  <2>1. Len(a) < maximum => Len(x) = l + c + 1
    BY <1>9, <1>10
  <2>2. Len(a) = maximum => Len(x) = maximum /\ l + c >= maximum
    BY <1>9, <1>10
  <2>3. Len(a) < maximum \/ Len(a) = maximum
    BY <1>7, <1>9
  <2>4. l \in Nat /\ c \in Nat /\ d \in Nat
    BY <1>7, <1>15
  <2>5. Len(r) = IF Len(x) + d <= maximum THEN Len(x) + d
                 ELSE IF Len(x) <= maximum THEN maximum ELSE Len(x)
    BY <1>8
  <2>6. Len(a) < maximum => l + c + 1 <= maximum
    BY <1>7, <1>9, <2>4
  <2> QED BY <2>1, <2>2, <2>3, <2>4, <2>5, <2>6
<1>12. ASSUME NEW j \in 1 .. l PROVE r[j] = before[j]
  <2>1. Len(a) <= Len(x)
    BY <1>7, <1>9, <1>10
  <2>2. j \in 1 .. Len(a) /\ j \in 1 .. Len(x)
    BY <1>7, <1>8, <1>9, <1>10, <2>1
  <2>3. r[j] = x[j] /\ x[j] = a[j] /\ a[j] = before[j]
    BY <1>7, <1>8, <1>10, <2>2
  <2> QED BY <2>3
<1>13. ASSUME NEW j \in l + 1 .. Len(r)
       PROVE  \E k \in S : Place(k) = j - 1 - l /\ r[j] = LevelOf(k)
  <2>1. CASE j <= Len(a)
    <3>1. j \in l + 1 .. Len(a) /\ j \in 1 .. Len(a) /\ j \in 1 .. Len(x)
      BY <1>7, <1>9, <1>10, <2>1
    <3>2. PICK k \in B : Cardinality(AheadOf(B, k)) = j - 1 - l /\ a[j] = LevelOf(k)
      BY <1>7, <3>1
    <3>3. r[j] = a[j]
      BY <1>8, <1>10, <3>1
    <3> QED BY <1>1, <1>4, <3>2, <3>3
  <2>2. CASE j > Len(a) /\ Len(a) < maximum
    <3>1. Len(a) = l + c /\ Len(x) = l + c + 1 /\ x[l + c + 1] = LevelOf(i)
      BY <1>15, <1>9, <1>10, <2>2
    <3>2. CASE j = l + c + 1
      <4>1. j \in 1 .. Len(x)
        BY <1>15, <1>7, <3>1, <3>2
      <4>2. r[j] = LevelOf(i)
        BY <1>8, <3>1, <3>2, <4>1
      <4>3. Place(i) = j - 1 - l
        BY <1>15, <1>5, <1>7, <3>2
      <4> QED BY <1>1, <4>2, <4>3
    <3>3. CASE j > l + c + 1
      <4>1. j \in Len(x) + 1 .. Len(r)
        BY <1>15, <1>7, <3>1, <3>3
      <4>2. PICK k \in W : Cardinality(AheadOf(W, k)) = j - 1 - Len(x) /\ r[j] = LevelOf(k)
        BY <1>8, <4>1
      <4>3. Place(k) = c + 1 + Cardinality(AheadOf(W, k))
        BY <1>4
      <4>4. Place(k) = j - 1 - l
        BY <1>15, <1>7, <3>1, <4>2, <4>3
      <4> QED BY <1>1, <4>2, <4>4
    <3> QED BY <1>15, <1>7, <2>2, <3>1, <3>2, <3>3
  <2>3. CASE j > Len(a) /\ Len(a) = maximum
    BY <1>15, <1>7, <1>9, <1>11, <2>3
  <2> QED BY <1>7, <1>9, <2>1, <2>2, <2>3
<1>14. Len(r) = IF l + Cardinality(S) <= maximum THEN l + Cardinality(S)
                ELSE IF l <= maximum THEN maximum ELSE l
  BY <1>3, <1>7, <1>9, <1>11 DEF c, d
<1> QED BY <1>8, <1>12, <1>13, <1>14 DEF Gathered, l, Place

(* CollectTopLevels gathers the levels of a treap. *)
LEMMA CollectTree ==
  ASSUME Vector(nodes), Grounded(nodes), side \in Sides, NEW maximum \in Nat
  PROVE  \A i \in Link(nodes) : \A S : \A before \in Seq(Level) :
           Tree(nodes, S, i) => Gathered(S, before, maximum, CollectTopLevels(i, maximum, before))
<1> DEFINE D == Link(nodes) \X Seq(Level)
           f == [at \in D |-> CollectTopLevels(at[1], maximum, at[2])]
           P == {i \in Link(nodes) : \A S \in SUBSET DOMAIN nodes : \A before \in Seq(Level) :
                   Tree(nodes, S, i) => Gathered(S, before, maximum, f[<<i, before>>])}
<1>1. nullIndex \notin DOMAIN nodes
  BY NodeTypes
<1>2. \A at \in D : f[at] = CollectStep(maximum, f, at)
  BY CollectUnfolds
<1>3. \A i \in Link(nodes) : \A before \in Seq(Level) :
        f[<<i, before>>] = CollectTopLevels(i, maximum, before)
  OBVIOUS
<1> HIDE DEF f
<1>4. nullIndex \in P
  <2> SUFFICES ASSUME NEW S \in SUBSET DOMAIN nodes, NEW before \in Seq(Level),
                      Tree(nodes, S, nullIndex)
               PROVE  Gathered(S, before, maximum, f[<<nullIndex, before>>])
    BY DEF Link
  <2>1. S = {} /\ Cardinality({}) = 0
    BY TreeEmpty, TotalType
  <2>2. <<nullIndex, before>> \in D
    BY DEF Link
  <2>3. f[<<nullIndex, before>>] = before
    BY <1>2, <2>2 DEF CollectStep
  <2> QED BY <2>1, <2>3 DEF Gathered
<1>5. ASSUME NEW i \in DOMAIN nodes, nodes[i].left \in P, nodes[i].right \in P PROVE i \in P
  <2> SUFFICES ASSUME NEW S \in SUBSET DOMAIN nodes, NEW before \in Seq(Level), Tree(nodes, S, i)
               PROVE  Gathered(S, before, maximum, f[<<i, before>>])
    BY DEF Link
  <2> DEFINE b == BetterChild(i)
             w == WorseChild(i)
  <2>1. PICK B, W : Parted(S, i, B, W) /\ Tree(nodes, B, b) /\ Tree(nodes, W, w)
    BY Outward
  <2>2. b \in P /\ w \in P
    BY <1>5 DEF BetterChild, WorseChild, Towards
  <2>3. /\ B \in SUBSET DOMAIN nodes /\ W \in SUBSET DOMAIN nodes
        /\ S = B \cup W \cup {i}
    BY <2>1 DEF Parted
  <2> HIDE DEF b, w
  <2>4. <<i, before>> \in D /\ i # nullIndex
    BY <1>1 DEF Link
  <2>5. f[<<i, before>>] = CollectStep(maximum, f, <<i, before>>)
    BY <1>2, <2>4
  <2>6. CASE Len(before) >= maximum
    <3>1. f[<<i, before>>] = before
      BY <2>5, <2>6 DEF CollectStep
    <3>2. Cardinality(S) \in Nat /\ Cardinality(S) # 0
      <4>1. IsFiniteSet(S) /\ Cardinality(S) \in Nat
        BY TotalType
      <4>2. S # {}
        BY <2>3
      <4> QED BY <4>1, <4>2, FS_EmptySet
    <3> QED BY <2>6, <3>1, <3>2 DEF Gathered
  <2>7. CASE Len(before) < maximum
    <3> DEFINE a == f[<<b, before>>]
               x == IF Len(a) < maximum THEN Append(a, LevelOf(i)) ELSE a
    <3>1. f[<<i, before>>] = f[<<w, x>>]
      <4>1. ~(Len(before) >= maximum)
        BY <2>7
      <4> QED BY <2>4, <2>5, <4>1 DEF CollectStep, LevelOf, b, w
    <3>2. Gathered(B, before, maximum, a)
      BY <2>1, <2>2, <2>3
    <3> HIDE DEF a
    <3>3. x \in Seq(Level)
      <4>1. a \in Seq(Level) /\ LevelOf(i) \in Level
        BY <3>2, LevelType DEF Gathered, LevelOf
      <4> QED BY <4>1
    <3>4. Gathered(W, x, maximum, f[<<w, x>>])
      <4> HIDE DEF x
      <4> QED BY <2>1, <2>2, <2>3, <3>3
    <3>5. Gathered(S, before, maximum, f[<<w, x>>])
      <4> DEFINE r == f[<<w, x>>]
      <4>1. Gathered(W, IF Len(a) < maximum THEN Append(a, LevelOf(i)) ELSE a, maximum, r)
        BY <3>4
      <4> HIDE DEF r, x
      <4>2. Gathered(S, before, maximum, r)
        BY <2>1, <2>7, <3>2, <4>1, GatheredParts
      <4> QED BY <4>2 DEF r
    <3> QED BY <3>1, <3>5
  <2> QED BY <2>6, <2>7
<1>6. Link(nodes) \subseteq P
  <2> HIDE DEF P
  <2> QED BY <1>1, <1>4, <1>5, UpInduction
<1>7. \A i, S : Tree(nodes, S, i) => S \in SUBSET DOMAIN nodes
  BY DEF Tree
<1>8. ASSUME NEW i \in Link(nodes), NEW S, NEW before \in Seq(Level), Tree(nodes, S, i)
      PROVE  Gathered(S, before, maximum, CollectTopLevels(i, maximum, before))
  <2>1. i \in P /\ S \in SUBSET DOMAIN nodes
    BY <1>6, <1>7, <1>8
  <2> QED BY <1>3, <1>8, <2>1
<1> QED BY <1>8

(* No two live nodes have the same number ahead of them. *)
LEMMA PlaceUnique ==
  ASSUME IInv, NEW i \in Live, NEW k \in Live,
         Cardinality(AheadOf(Live, i)) = Cardinality(AheadOf(Live, k))
  PROVE  i = k
<1>1. /\ Vector(nodes) /\ Live \in SUBSET DOMAIN nodes
      /\ \A m \in Live : nodes[m].price \in Int
  BY Shape, NodeTypes
<1>2. ASSUME NEW j \in Live, NEW m \in Live, Better(side, nodes[j].price, nodes[m].price)
      PROVE  Cardinality(AheadOf(Live, j)) # Cardinality(AheadOf(Live, m))
  <2>1. AheadOf(Live, j) \in SUBSET AheadOf(Live, m)
    BY <1>1, <1>2 DEF AheadOf, Better
  <2>2. j \in AheadOf(Live, m) /\ j \notin AheadOf(Live, j)
    BY <1>1, <1>2 DEF AheadOf, Better
  <2>3. AheadOf(Live, m) \in SUBSET DOMAIN nodes
    BY <1>1 DEF AheadOf
  <2>4. IsFiniteSet(AheadOf(Live, m))
    BY <1>1, <2>3, TotalType
  <2> QED BY <2>1, <2>2, <2>4, FS_Subset
<1>3. nodes[i].price = nodes[k].price \/ Better(side, nodes[i].price, nodes[k].price)
        \/ Better(side, nodes[k].price, nodes[i].price)
  BY <1>1 DEF Better
<1>4. nodes[i].price = nodes[k].price => i = k
  BY DEF IInv, Tree
<1> QED BY <1>2, <1>3, <1>4

(* topLevels gives what the map gives. *)
LEMMA TopAgrees ==
  ASSUME IInv, NEW n \in Nat
  PROVE  CollectTopLevels(root, n, << >>) = Map!TopLevels(Held, side, n)
<1> DEFINE c == CollectTopLevels(root, n, << >>)
           N == Cardinality(DOMAIN Held)
           best == Map!FromBest(Held, side)
<1>1. /\ Vector(nodes) /\ Grounded(nodes) /\ root \in Link(nodes) /\ side \in Sides
      /\ Tree(nodes, Live, root)
  BY Shape DEF IInv
<1>2. HeldIsLive
  BY HeldNodes
<1>3. << >> \in Seq(Level) /\ Len(<< >>) = 0
  OBVIOUS
<1>4. Gathered(Live, << >>, n, c)
  BY <1>1, <1>3, CollectTree
<1>5. N = Cardinality(Live) /\ N \in Nat
  <2>1. Cardinality({nodes[i].price : i \in Live}) = Cardinality(Live)
    BY HeldTotals
  <2>2. Live \in SUBSET DOMAIN nodes
    BY Shape
  <2>3. Cardinality(Live) \in Nat
    BY <1>1, <2>2, TotalType
  <2> QED BY <1>2, <2>1, <2>3 DEF HeldIsLive
<1> HIDE DEF c
<1>6. /\ c \in Seq(Level) /\ Len(c) \in Nat
      /\ Len(c) = IF N <= n THEN N ELSE n
      /\ \A j \in 1 .. Len(c) :
           \E k \in Live : Cardinality(AheadOf(Live, k)) = j - 1 /\ c[j] = LevelOf(k)
  <2> HIDE DEF N
  <2>1. /\ c \in Seq(Level)
        /\ Len(c) = IF 0 + Cardinality(Live) <= n THEN 0 + Cardinality(Live)
                    ELSE IF 0 <= n THEN n ELSE 0
        /\ \A j \in 0 + 1 .. Len(c) :
             \E k \in Live : Cardinality(AheadOf(Live, k)) = j - 1 - 0 /\ c[j] = LevelOf(k)
    BY <1>3, <1>4 DEF Gathered
  <2> QED BY <1>5, <2>1
<1>7. \A i \in Live : Cardinality({q \in DOMAIN Held : Map!Better(side, q, nodes[i].price)})
                        = Cardinality(AheadOf(Live, i))
  BY PlaceIs
<1> DEFINE Places(p) == Map!Cardinality({q \in DOMAIN Held : Map!Better(side, q, p)})
<1>8. best = [j \in 1 .. N |-> CHOOSE p \in DOMAIN Held : Places(p) = j - 1]
  <2>1. Map!Cardinality(DOMAIN Held) = N
    BY MapCardinality
  <2>2. best = [j \in 1 .. Map!Cardinality(DOMAIN Held) |->
                  CHOOSE p \in DOMAIN Held : Places(p) = j - 1]
    BY DEF Map!FromBest
  <2> HIDE DEF best, N, Places
  <2> QED BY <2>1, <2>2
<1>9. Len(best) = N
  <2> HIDE DEF N, Places, best
  <2> QED BY <1>5, <1>8
<1>10. ASSUME NEW j \in 1 .. N, NEW k \in Live, Cardinality(AheadOf(Live, k)) = j - 1
       PROVE  best[j] = nodes[k].price /\ Held[best[j]] = nodes[k].quantity
  <2>1. \A i \in Live : Places(nodes[i].price) = Cardinality(AheadOf(Live, i))
    BY <1>7, MapCardinality
  <2> HIDE DEF Places, best, N
  <2>2. nodes[k].price \in DOMAIN Held /\ Places(nodes[k].price) = j - 1
    BY <1>2, <1>10, <2>1 DEF HeldIsLive
  <2>3. ASSUME NEW p \in DOMAIN Held, Places(p) = j - 1 PROVE p = nodes[k].price
    <3>1. PICK i \in Live : p = nodes[i].price
      BY <1>2 DEF HeldIsLive
    <3>2. Cardinality(AheadOf(Live, i)) = Cardinality(AheadOf(Live, k))
      BY <1>10, <2>1, <2>3, <3>1
    <3>3. i = k
      BY <3>2, PlaceUnique
    <3> QED BY <3>1, <3>3
  <2>4. best[j] = CHOOSE p \in DOMAIN Held : Places(p) = j - 1
    BY <1>8
  <2>5. best[j] = nodes[k].price
    BY <2>2, <2>3, <2>4
  <2> QED BY <1>2, <2>5 DEF HeldIsLive
<1> DEFINE m == IF n < N THEN n ELSE N
<1>11. Map!TopLevels(Held, side, n)
         = [j \in 1 .. m |-> [price |-> best[j], quantity |-> Held[best[j]]]]
  <2> HIDE DEF N
  <2> QED BY <1>9 DEF Map!TopLevels, Map!Smaller
<1> HIDE DEF N, best
<1>12. Len(c) = m /\ m <= N
  BY <1>5, <1>6
<1>13. ASSUME NEW j \in 1 .. m PROVE c[j] = [price |-> best[j], quantity |-> Held[best[j]]]
  <2>1. j \in 1 .. Len(c) /\ j \in 1 .. N
    BY <1>5, <1>6, <1>12
  <2>2. PICK k \in Live : Cardinality(AheadOf(Live, k)) = j - 1 /\ c[j] = LevelOf(k)
    BY <1>6, <2>1
  <2>3. best[j] = nodes[k].price /\ Held[best[j]] = nodes[k].quantity
    BY <1>10, <2>1, <2>2
  <2> QED BY <2>2, <2>3 DEF LevelOf
<1> HIDE DEF m
<1>14. c = [j \in 1 .. m |-> c[j]]
  BY <1>6, <1>12
<1> QED BY <1>11, <1>13, <1>14 DEF c

(* The queries that go outward from the best price answer what the map     *)
(* does (price_level_treap.cpp:696-884).                                   *)
THEOREM DepthQueriesCorrect == Spec => []DepthQueriesAgree
<1>1. ASSUME IInv PROVE DepthQueriesAgree
  <2>1. Cardinality(DOMAIN Held) \in Nat /\ Map!Total(Held, DOMAIN Held) \in Int
    <3>1. HeldIsLive
      BY <1>1, HeldNodes
    <3>2. /\ Map!Total(Held, {nodes[i].price : i \in Live}) = Total(nodes, Live)
          /\ Cardinality({nodes[i].price : i \in Live}) = Cardinality(Live)
      BY <1>1, HeldTotals
    <3>3. Vector(nodes) /\ Live \in SUBSET DOMAIN nodes
      BY <1>1, Shape
    <3> QED BY <3>1, <3>2, <3>3, TotalType DEF HeldIsLive
  <2>2. ASSUME NEW n \in 0 .. Cardinality(DOMAIN Held) + 1
        PROVE  /\ QuantityWithinBestLevels(root, n) = Map!WithinBestLevels(Held, side, n)
               /\ CollectTopLevels(root, n, << >>) = Map!TopLevels(Held, side, n)
    <3>1. n \in Nat
      BY <2>1
    <3> QED BY <1>1, <3>1, WithinAgrees, TopAgrees
  <2>3. ASSUME NEW depth \in -1 .. Map!Total(Held, DOMAIN Held) + 1
        PROVE  LET i == NodeAtDepth(depth)
                   deep == Map!DeepEnough(Held, side, depth)
               IN IF depth <= 0 \/ deep = {}
                  THEN i = nullIndex
                  ELSE i # nullIndex /\ nodes[i].price = Map!Best(deep, side)
    <3>1. depth \in Int
      BY <2>1
    <3> QED BY <1>1, <3>1, DepthAgrees
  <2> QED BY <2>2, <2>3 DEF DepthQueriesAgree
<1> QED BY <1>1, Invariance, PTL
=============================================================================
