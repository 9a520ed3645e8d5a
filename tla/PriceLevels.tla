----------------------------- MODULE PriceLevels ----------------------------
(***************************************************************************)
(* What PriceLevelTreap is a fast form of: a map from price to a positive  *)
(* quantity.  The queries are stated over the map's prices in order.       *)
(***************************************************************************)
EXTENDS OrderTypes, FiniteSetsExt, SequencesExt

CONSTANTS
  Prices, Quantities,
  MaxLevels  \* how many levels there is room for

VARIABLES
  levels,  \* price -> quantity
  call     \* the arguments of the latest SetLevel

Init == levels = EmptyMap /\ call = << >>

IsFull == Cardinality(DOMAIN levels) >= MaxLevels

(* A quantity of zero removes the price level; a negative one is refused,  *)
(* and so is one more level than there is room for.                        *)
SetLevel(price, quantity) ==
  /\ call' = <<price, quantity>>
  /\ levels' = CASE quantity < 0 -> levels
                 [] quantity = 0 -> Without(levels, price)
                 [] quantity > 0 -> IF price \notin DOMAIN levels /\ IsFull
                                    THEN levels ELSE With(levels, price, quantity)

Clear == levels' = EmptyMap /\ call' = << >>

Next == Clear \/ \E price \in Prices, quantity \in Quantities : SetLevel(price, quantity)

Spec == Init /\ [][Next]_<<levels, call>>

-----------------------------------------------------------------------------
(* The reference answers of the queries, for the map m. *)
Total(m, prices) == MapThenSumSet(LAMBDA p : m[p], prices)

(* Prices from best to worse: how many are better is a price's place. *)
FromBest(m, side) ==
  [i \in 1 .. Cardinality(DOMAIN m) |->
     CHOOSE p \in DOMAIN m : Cardinality({q \in DOMAIN m : Better(side, q, p)}) = i - 1]

Best(prices, side) == CHOOSE p \in prices : \A q \in prices \ {p} : Better(side, p, q)

WithinTicks(m, side, ticks) ==
  IF DOMAIN m = {} THEN 0
  ELSE LET best == Best(DOMAIN m, side) IN
       Total(m, {p \in DOMAIN m : p <= best + ticks /\ p >= best - ticks})

WithinBestLevels(m, side, n) ==
  Total(m, {p \in DOMAIN m : Cardinality({q \in DOMAIN m : Better(side, q, p)}) < n})

(* The prices with at least `depth' up to and including them. *)
DeepEnough(m, side, depth) ==
  {p \in DOMAIN m : Total(m, {q \in DOMAIN m : q = p \/ Better(side, q, p)}) >= depth}

TopLevels(m, side, n) ==
  LET best == FromBest(m, side) IN
  [i \in 1 .. Smaller(n, Len(best)) |-> [price |-> best[i], quantity |-> m[best[i]]]]
=============================================================================
