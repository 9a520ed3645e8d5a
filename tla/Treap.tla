-------------------------------- MODULE Treap -------------------------------
(***************************************************************************)
(* src/price_level_treap.cpp: the levels of one side of a symbol's         *)
(* analytics, a search tree on price that is a heap on a random priority,  *)
(* in a vector of nodes with a list of free indices, and with the sums of  *)
(* every subtree in its root.                                              *)
(*                                                                         *)
(* The operators take and return the vector of nodes, which the code       *)
(* changes in place.  A priority is any of Priorities: equal ones happen.  *)
(* A function of the code that descends the tree in a loop or by calling   *)
(* itself is a recursive function of the indices.                          *)
(***************************************************************************)
EXTENDS OrderTypes, FiniteSetsExt, SequencesExt

CONSTANTS
  Prices, Quantities, Priorities,
  MinInt, MaxInt, \* the limits of int
  MaxNodes,     \* the limit of int as that of a node's index
  Reservations  \* what reserve() may be called with

VARIABLES
  side,      \* side_
  root,      \* root_
  nodes,     \* nodes_: index -> Node
  free,      \* freeIndices_
  capacity,  \* freeIndices_.capacity()
  call       \* history: the arguments of the latest setLevel

treapVars == <<side, root, nodes, free, capacity>>
vars == <<side, root, nodes, free, capacity, call>>

ASSUME ConstantsAssumption ==
  /\ MinInt \in Int /\ MaxInt \in Int
  /\ Prices \subseteq MinInt .. MaxInt
  /\ Quantities \subseteq Int /\ Priorities \subseteq Nat
  /\ MaxNodes \in Nat /\ Reservations \subseteq Nat

nullIndex == -1

(* A level as the queries return it. *)
Level == [price : Int, quantity : Int]

Blank ==
  [price |-> 0, quantity |-> 0, subtreeQuantity |-> 0, subtreeLevels |-> 0,
   priority |-> 0, left |-> nullIndex, right |-> nullIndex]

Init ==
  /\ root = nullIndex
  /\ nodes = EmptyMap
  /\ free = << >>
  /\ capacity = 0
  /\ side \in Sides
  /\ call = << >>

-----------------------------------------------------------------------------
SubtreeQuantity(t, i) == IF i = nullIndex THEN 0 ELSE t[i].subtreeQuantity

SubtreeLevels(t, i) == IF i = nullIndex THEN 0 ELSE t[i].subtreeLevels

UpdateAggregates(t, i) ==
  [t EXCEPT ![i].subtreeQuantity =
              SubtreeQuantity(t, t[i].left) + t[i].quantity + SubtreeQuantity(t, t[i].right),
            ![i].subtreeLevels =
              SubtreeLevels(t, t[i].left) + 1 + SubtreeLevels(t, t[i].right)]

(* Mutant: the lower price wins a tie. *)
HasHigherPriorityLowFirst(t, i, j) ==
  \/ t[i].priority > t[j].priority
  \/ t[i].priority = t[j].priority /\ t[i].price < t[j].price

HasHigherPriority(t, i, j) ==
  \/ t[i].priority > t[j].priority
  \/ t[i].priority = t[j].priority /\ t[i].price > t[j].price

(* What empty(), levelCount() and totalQuantity() read off the root. *)
Empty == root = nullIndex

LevelCount == SubtreeLevels(nodes, root)

TotalQuantity == SubtreeQuantity(nodes, root)

(* A node's index, or none: what root_ and the links of a node hold. *)
Link(t) == DOMAIN t \cup {nullIndex}

(* findNode, from node `top' down. *)
FindFrom(t, top, price) ==
  LET find[i \in Link(t)] ==
        IF i = nullIndex \/ t[i].price = price
        THEN i
        ELSE find[IF price < t[i].price THEN t[i].left ELSE t[i].right]
  IN find[top]

(* The nodes under `top' with a price less than `price', and the others. *)
SplitLessThan(t, top, price) ==
  LET split[i \in Link(t)] ==
        IF i = nullIndex
        THEN [nodes |-> t, lower |-> nullIndex, upper |-> nullIndex]
        ELSE IF t[i].price < price
        THEN LET s == split[t[i].right]
             IN [nodes |-> UpdateAggregates([s.nodes EXCEPT ![i].right = s.lower], i),
                 lower |-> i, upper |-> s.upper]
        ELSE LET s == split[t[i].left]
             IN [nodes |-> UpdateAggregates([s.nodes EXCEPT ![i].left = s.upper], i),
                 lower |-> s.lower, upper |-> i]
  IN split[top]

(* Mutant: the sums of the right tree's root are not recomputed. *)
MergeStaleSums(t, left, right) ==
  LET merge[pair \in Link(t) \X Link(t)] ==
        LET l == pair[1]
            r == pair[2]
        IN IF l = nullIndex THEN [nodes |-> t, root |-> r]
           ELSE IF r = nullIndex THEN [nodes |-> t, root |-> l]
           ELSE IF HasHigherPriority(t, l, r)
           THEN LET m == merge[<<t[l].right, r>>]
                IN [nodes |-> UpdateAggregates([m.nodes EXCEPT ![l].right = m.root], l),
                    root |-> l]
           ELSE LET m == merge[<<l, t[r].left>>]
                IN [nodes |-> [m.nodes EXCEPT ![r].left = m.root], root |-> r]
  IN merge[<<left, right>>]

(* One tree of two, every price of the left one less than any of the right. *)
Merge(t, left, right) ==
  LET merge[pair \in Link(t) \X Link(t)] ==
        LET l == pair[1]
            r == pair[2]
        IN IF l = nullIndex THEN [nodes |-> t, root |-> r]
           ELSE IF r = nullIndex THEN [nodes |-> t, root |-> l]
           ELSE IF HasHigherPriority(t, l, r)
           THEN LET m == merge[<<t[l].right, r>>]
                IN [nodes |-> UpdateAggregates([m.nodes EXCEPT ![l].right = m.root], l),
                    root |-> l]
           ELSE LET m == merge[<<l, t[r].left>>]
                IN [nodes |-> UpdateAggregates([m.nodes EXCEPT ![r].left = m.root], r), root |-> r]
  IN merge[<<left, right>>]

InsertNode(t, top, new) ==
  LET insert[i \in Link(t)] ==
        IF i = nullIndex THEN [nodes |-> t, root |-> new]
        ELSE IF HasHigherPriority(t, new, i)
        THEN LET s == SplitLessThan(t, i, t[new].price)
             IN [nodes |-> UpdateAggregates([s.nodes EXCEPT ![new].left = s.lower,
                                                            ![new].right = s.upper], new),
                 root |-> new]
        ELSE IF t[new].price < t[i].price
        THEN LET s == insert[t[i].left]
             IN [nodes |-> UpdateAggregates([s.nodes EXCEPT ![i].left = s.root], i),
                 root |-> i]
        ELSE LET s == insert[t[i].right]
             IN [nodes |-> UpdateAggregates([s.nodes EXCEPT ![i].right = s.root], i),
                 root |-> i]
  IN insert[top]

(* eraseNode; the node it releases is blank in the vector it returns. *)
EraseNode(t, top, price) ==
  LET erase[i \in Link(t)] ==
        IF i = nullIndex THEN [nodes |-> t, root |-> nullIndex]
        ELSE IF price < t[i].price
        THEN LET s == erase[t[i].left]
             IN [nodes |-> UpdateAggregates([s.nodes EXCEPT ![i].left = s.root], i),
                 root |-> i]
        ELSE IF price > t[i].price
        THEN LET s == erase[t[i].right]
             IN [nodes |-> UpdateAggregates([s.nodes EXCEPT ![i].right = s.root], i),
                 root |-> i]
        ELSE LET m == Merge(t, t[i].left, t[i].right)
             IN [nodes |-> [m.nodes EXCEPT ![i] = Blank], root |-> m.root]
  IN erase[top]

(* updateQuantity, from a node down that has one of the price under it, so *)
(* that no call is without a node. *)
UpdateQuantity(t, top, price, quantity) ==
  LET update[i \in Link(t)] ==
        IF i = nullIndex THEN t
        ELSE IF price = t[i].price
        THEN UpdateAggregates([t EXCEPT ![i].quantity = quantity], i)
        ELSE UpdateAggregates(
               update[IF price < t[i].price THEN t[i].left ELSE t[i].right], i)
  IN update[top]

-----------------------------------------------------------------------------
(* Mutant: the limit is asked before the free list. *)
HasRoomInVector == Cardinality(DOMAIN nodes) < MaxNodes

(* Whether createNode has an index for a node, or throws length_error. *)
HasRoom == free # << >> \/ Cardinality(DOMAIN nodes) < MaxNodes

(* Mutant: the free list's capacity is left to its push_back. *)
CreateNodeUnreserved(node) ==
  LET size == Cardinality(DOMAIN nodes) IN
  IF free # << >>
  THEN [index |-> Last(free), nodes |-> [nodes EXCEPT ![Last(free)] = node],
        free |-> Front(free), capacity |-> capacity]
  ELSE [index |-> size, nodes |-> With(nodes, size, node), free |-> free,
        capacity |-> capacity]

(* Mutant: a reused index stays in the free list. *)
CreateNodeStillFree(node) ==
  LET size == Cardinality(DOMAIN nodes) IN
  IF free # << >>
  THEN [index |-> Last(free), nodes |-> [nodes EXCEPT ![Last(free)] = node],
        free |-> free, capacity |-> capacity]
  ELSE [index |-> size, nodes |-> With(nodes, size, node), free |-> free,
        capacity |-> Max({capacity, size + 1, 2 * capacity})]

(* createNode, where it has room: the index of the new node and what       *)
(* becomes of the vectors.  A new index comes with room for it in the free *)
(* list.                                                                   *)
CreateNode(node) ==
  LET size == Cardinality(DOMAIN nodes) IN
  IF free # << >>
  THEN [index |-> Last(free), nodes |-> [nodes EXCEPT ![Last(free)] = node],
        free |-> Front(free), capacity |-> capacity]
  ELSE [index |-> size, nodes |-> With(nodes, size, node), free |-> free,
        capacity |-> IF capacity < size + 1 THEN Max({size + 1, 2 * capacity}) ELSE capacity]

(* setLevel, for a quantity of zero, a price it holds and a new price. *)
RemoveLevel(price) ==
  LET i == FindFrom(nodes, root, price)
      e == EraseNode(nodes, root, price)
  IN IF i = nullIndex THEN UNCHANGED <<root, nodes, free, capacity>>
     ELSE /\ nodes' = e.nodes
          /\ root' = e.root
          /\ free' = Append(free, i)
          /\ capacity' = IF Len(free) = capacity THEN Max({1, 2 * capacity}) ELSE capacity

(* Mutant: a level never shrinks. *)
ChangeLevelUpwards(price, quantity) ==
  LET i == FindFrom(nodes, root, price) IN
  /\ i # nullIndex
  /\ nodes' = IF nodes[i].quantity < quantity
              THEN UpdateQuantity(nodes, root, price, quantity)
              ELSE nodes
  /\ UNCHANGED <<root, free, capacity>>

ChangeLevel(price, quantity) ==
  LET i == FindFrom(nodes, root, price) IN
  /\ i # nullIndex
  /\ nodes' = IF nodes[i].quantity # quantity
              THEN UpdateQuantity(nodes, root, price, quantity)
              ELSE nodes
  /\ UNCHANGED <<root, free, capacity>>

AddLevel(price, quantity) ==
  /\ FindFrom(nodes, root, price) = nullIndex /\ HasRoom
  /\ \E priority \in Priorities :
       LET c == CreateNode([Blank EXCEPT !.price = price, !.quantity = quantity,
                                         !.subtreeQuantity = quantity, !.subtreeLevels = 1,
                                         !.priority = priority])
           n == InsertNode(c.nodes, root, c.index)
       IN /\ nodes' = n.nodes
          /\ root' = n.root
          /\ free' = c.free
          /\ capacity' = c.capacity

(* createNode's exception leaves setLevel before anything has changed. *)
RefuseLevel(price) ==
  /\ FindFrom(nodes, root, price) = nullIndex /\ ~HasRoom
  /\ UNCHANGED treapVars

(* A negative quantity is refused with an exception. *)
SetLevel(price, quantity) ==
  /\ call' = <<price, quantity>>
  /\ UNCHANGED side
  /\ \/ quantity < 0 /\ UNCHANGED treapVars
     \/ quantity = 0 /\ RemoveLevel(price)
     \/ quantity > 0 /\ ChangeLevel(price, quantity)
     \/ quantity > 0 /\ AddLevel(price, quantity)
     \/ quantity > 0 /\ RefuseLevel(price)

Clear ==
  /\ root' = nullIndex
  /\ nodes' = EmptyMap
  /\ free' = << >>
  /\ call' = << >>
  /\ UNCHANGED <<side, capacity>>

(* More levels than there are indices are refused with an exception. *)
Reserve(expectedLevels) ==
  /\ capacity' = IF expectedLevels > MaxNodes THEN capacity ELSE Max({capacity, expectedLevels})
  /\ UNCHANGED <<side, root, nodes, free, call>>

Next ==
  \/ \E price \in Prices, quantity \in Quantities : SetLevel(price, quantity)
  \/ Clear
  \/ \E expectedLevels \in Reservations : Reserve(expectedLevels)

Spec == Init /\ [][Next]_vars

-----------------------------------------------------------------------------
(* The queries. *)

QuantityAtPrice(price) ==
  LET i == FindFrom(nodes, root, price) IN IF i = nullIndex THEN 0 ELSE nodes[i].quantity

(* What is below a price, or also at it, under `top': the four functions   *)
(* quantityStrictlyBelow, quantityAtOrBelow and their counts of levels.    *)
Below(top, price, inclusive) ==
  LET below[i \in Link(nodes)] ==
        IF i = nullIndex THEN [quantity |-> 0, levels |-> 0]
        ELSE IF price < nodes[i].price \/ (price = nodes[i].price /\ ~inclusive)
        THEN below[nodes[i].left]
        ELSE LET right == below[nodes[i].right]
             IN [quantity |-> SubtreeQuantity(nodes, nodes[i].left) + nodes[i].quantity
                                + right.quantity,
                 levels |-> SubtreeLevels(nodes, nodes[i].left) + 1 + right.levels]
  IN below[top]

(* Mutant: the lower boundary is left out. *)
QuantityBetweenOpen(lowest, highest) ==
  IF lowest > highest THEN 0
  ELSE Below(root, highest, TRUE).quantity - Below(root, lowest, TRUE).quantity

QuantityBetween(lowest, highest) ==
  IF lowest > highest THEN 0
  ELSE Below(root, highest, TRUE).quantity - Below(root, lowest, FALSE).quantity

LevelsBetween(lowest, highest) ==
  IF lowest > highest THEN 0
  ELSE Below(root, highest, TRUE).levels - Below(root, lowest, FALSE).levels

(* Where side s has its better prices. *)
Towards(s, i) == IF s = "Buy" THEN nodes[i].right ELSE nodes[i].left

BetterChild(i) == Towards(side, i)

WorseChild(i) == IF side = "Buy" THEN nodes[i].left ELSE nodes[i].right

(* The price furthest to the better side of s under `top'. *)
EndUnder(s, top) ==
  LET end[i \in DOMAIN nodes] ==
        IF Towards(s, i) = nullIndex THEN nodes[i].price ELSE end[Towards(s, i)]
  IN end[top]

(* The three ends, where there is a level. *)
LowestPrice == EndUnder("Sell", root)

HighestPrice == EndUnder("Buy", root)

BestPrice == IF side = "Buy" THEN HighestPrice ELSE LowestPrice

QuantityWithinTicks(ticks) ==
  IF ticks < 0 THEN "invalid_argument"
  ELSE IF root = nullIndex THEN 0
  ELSE IF side = "Buy"
  THEN QuantityBetween(Max({BestPrice - ticks, MinInt}), BestPrice)
  ELSE QuantityBetween(BestPrice, Min({BestPrice + ticks, MaxInt}))

QuantityWithinBestLevels(top, number) ==
  LET within[at \in Link(nodes) \X Nat] ==
        LET i == at[1]
            n == at[2]
            ahead == SubtreeLevels(nodes, BetterChild(i))
            here == SubtreeQuantity(nodes, BetterChild(i)) + nodes[i].quantity
        IN IF i = nullIndex \/ n = 0 THEN 0
           ELSE IF n <= ahead THEN within[<<BetterChild(i), n>>]
           ELSE IF n = ahead + 1 THEN here
           ELSE here + within[<<WorseChild(i), n - ahead - 1>>]
  IN within[<<top, number>>]

DepthUnder(top, cumulative) ==
  LET find[at \in Link(nodes) \X Int] ==
        LET i == at[1]
            depth == at[2]
            ahead == SubtreeQuantity(nodes, BetterChild(i))
        IN IF i = nullIndex THEN nullIndex
           ELSE IF depth <= ahead THEN find[<<BetterChild(i), depth>>]
           ELSE IF depth <= ahead + nodes[i].quantity THEN i
           ELSE find[<<WorseChild(i), depth - ahead - nodes[i].quantity>>]
  IN find[<<top, cumulative>>]

(* Mutant: the node with the requested quantity is passed by one unit. *)
NodeAtDepthLate(depth) ==
  IF depth <= 0 \/ depth >= SubtreeQuantity(nodes, root)
  THEN nullIndex
  ELSE DepthUnder(root, depth + 1)

(* priceAtDepth, as the node that has the price. *)
NodeAtDepth(depth) ==
  IF depth <= 0 \/ depth > SubtreeQuantity(nodes, root)
  THEN nullIndex
  ELSE DepthUnder(root, depth)

(* result, with the levels under `top' that fit into `maximum' behind it. *)
CollectTopLevels(top, maximum, result) ==
  LET collect[at \in Link(nodes) \X Seq(Level)] ==
        LET i == at[1]
            before == at[2]
            ahead == collect[<<BetterChild(i), before>>]
            level == [price |-> nodes[i].price, quantity |-> nodes[i].quantity]
        IN IF i = nullIndex \/ Len(before) >= maximum THEN before
           ELSE collect[<<WorseChild(i),
                          IF Len(ahead) < maximum THEN Append(ahead, level) ELSE ahead>>]
  IN collect[<<top, result>>]

(* validateNode: whether the tree under `top' is right, between two bounds *)
(* that no price is, and what it counts.                                   *)
ValidateNode(top, lowest, highest) ==
  LET validate[at \in Link(nodes) \X Int \X Int] ==
        LET i == at[1]
            lower == at[2]
            upper == at[3]
            n == nodes[i]
            l == validate[<<n.left, lower, n.price>>]
            r == validate[<<n.right, n.price, upper>>]
            quantity == l.quantity + n.quantity + r.quantity
            levels == l.levels + 1 + r.levels
        IN IF i = nullIndex THEN [ok |-> TRUE, quantity |-> 0, levels |-> 0, height |-> 0]
           ELSE [ok |-> /\ i \in DOMAIN nodes
                        /\ n.quantity > 0 /\ lower < n.price /\ n.price < upper
                        /\ \A child \in {n.left, n.right} \ {nullIndex} :
                             child \in DOMAIN nodes /\ ~HasHigherPriority(nodes, child, i)
                        /\ l.ok /\ r.ok
                        /\ n.subtreeQuantity = quantity /\ n.subtreeLevels = levels,
                 quantity |-> quantity, levels |-> levels,
                 height |-> 1 + Max({l.height, r.height})]
  IN validate[<<top, lowest, highest>>]

Validate ==
  LET v == ValidateNode(root, MinInt - 1, MaxInt + 1) IN
  /\ v.ok
  /\ v.levels + Len(free) = Cardinality(DOMAIN nodes)
  /\ \A j \in DOMAIN free : free[j] \in DOMAIN nodes /\ free[j] # root
  /\ IsInjective(free)

Height ==
  LET v == ValidateNode(root, MinInt - 1, MaxInt + 1) IN IF v.ok THEN v.height ELSE 0

-----------------------------------------------------------------------------
(***************************************************************************)
(* Properties.                                                             *)
(***************************************************************************)
Live == DOMAIN nodes \ ToSet(free)

Under(top) ==
  LET under[i \in Link(nodes)] ==
        IF i = nullIndex THEN {} ELSE {i} \cup under[nodes[i].left] \cup under[nodes[i].right]
  IN under[top]

(* Indices are the positions of the vector, the root and the links of the  *)
(* nodes in use are such nodes or none, and a node is blank when its index *)
(* is free: include/backtester/price_level_treap.hpp, lines 109-127.       *)
TypeOK ==
  /\ DOMAIN nodes = 0 .. Cardinality(DOMAIN nodes) - 1
  /\ root \in Live \cup {nullIndex}
  /\ \A i \in Live :
       /\ nodes[i].price \in Prices /\ nodes[i].quantity \in Quantities
       /\ nodes[i].priority \in Priorities
       /\ {nodes[i].left, nodes[i].right} \subseteq Live \cup {nullIndex}
  /\ \A i \in DOMAIN nodes \ Live : nodes[i] = Blank
  /\ capacity \in Nat

(* The header's comment: validate "verif[ies] all Treap invariants", the   *)
(* order of prices and priorities, the sums, the list of free indices, and *)
(* they hold after every call (price_level_treap.cpp:886); height (940) is *)
(* then the number of nodes on the longest way down.                       *)
AlwaysValid ==
  /\ Validate
  /\ Height = Max({0} \cup {Cardinality({j \in Live : i \in Under(j)}) : i \in Live})

(* The shape depends on the prices and priorities that are in the treap,   *)
(* not on how they got there: of the nodes of any interval of prices, the  *)
(* one with the highest priority is above all the others.                  *)
ShapeIsCanonical ==
  /\ Under(root) = Live
  /\ \A i, j \in Live :
       j \in Under(i) <=>
         \A k \in Live :
           (nodes[i].price <= nodes[k].price /\ nodes[k].price <= nodes[j].price)
           \/ (nodes[j].price <= nodes[k].price /\ nodes[k].price <= nodes[i].price)
           => \/ nodes[k].priority < nodes[i].priority
              \/ nodes[k].priority = nodes[i].priority /\ nodes[k].price <= nodes[i].price

(* The comment at price_level_treap.cpp:148: releaseNode, which may not    *)
(* throw, finds room in the free list for the index it returns.            *)
ReleaseNeverAllocates ==
  [][Len(free') > Len(free) => Len(free) < capacity]_vars

-----------------------------------------------------------------------------
(* The map this treap is. *)
Held == [p \in {nodes[i].price : i \in Under(root)} |-> QuantityAtPrice(p)]

Map == INSTANCE PriceLevels WITH levels <- Held, MaxLevels <- MaxNodes

(* Setting and removing levels, in any order and with any priorities, does *)
(* what it would do to a map from price to quantity; a level is refused    *)
(* (price_level_treap.cpp:141) only when as many levels as there are       *)
(* indices are held, however many came and went before.                    *)
ImplementsMap == Map!Spec

(* quantityBetween, levelsBetween and quantityWithinTicks, boundaries      *)
(* included and clipped at the limits of int (price_level_treap.cpp:644),  *)
(* give what the map gives, and so do the three answers read off the root  *)
(* and the lowest, the highest and the best price (593-642).               *)
RangeQueriesAgree ==
  /\ Empty <=> DOMAIN Held = {}
  /\ LevelCount = Cardinality(DOMAIN Held)
  /\ TotalQuantity = Map!Total(Held, DOMAIN Held)
  /\ root # nullIndex =>
       /\ LowestPrice = Min(DOMAIN Held) /\ HighestPrice = Max(DOMAIN Held)
       /\ BestPrice = Map!Best(DOMAIN Held, side)
  /\ \A lowest, highest \in Prices :
       LET between == {p \in DOMAIN Held : lowest <= p /\ p <= highest} IN
       /\ QuantityBetween(lowest, highest) = Map!Total(Held, between)
       /\ LevelsBetween(lowest, highest) = Cardinality(between)
  /\ \A ticks \in 0 .. MaxInt :
       QuantityWithinTicks(ticks) = Map!WithinTicks(Held, side, ticks)

(* quantityWithinBestLevels, priceAtDepth and topLevels, which go by the   *)
(* sums of the subtrees from the best price outward, give what the map     *)
(* gives (price_level_treap.cpp:696-884).                                  *)
DepthQueriesAgree ==
  /\ \A n \in 0 .. Cardinality(DOMAIN Held) + 1 :
       /\ QuantityWithinBestLevels(root, n) = Map!WithinBestLevels(Held, side, n)
       /\ CollectTopLevels(root, n, << >>) = Map!TopLevels(Held, side, n)
  /\ \A depth \in -1 .. Map!Total(Held, DOMAIN Held) + 1 :
       LET i == NodeAtDepth(depth)
           deep == Map!DeepEnough(Held, side, depth)
       IN IF depth <= 0 \/ deep = {}
          THEN i = nullIndex
          ELSE i # nullIndex /\ nodes[i].price = Map!Best(deep, side)
=============================================================================
