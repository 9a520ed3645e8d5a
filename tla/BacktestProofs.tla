---------------------------- MODULE BacktestProofs ----------------------------
(***************************************************************************)
(* Proofs about modules MatchingRules, Backtest and FairPrice, for any     *)
(* files, valid or invalid configurations, strategies and limits of int.   *)
(* Of one ProcessOrder: a whole call is Submit, then fills one by one,     *)
(* then Finish, so what every fill keeps the call keeps.  Of the backtest: *)
(* the clock stays in int, events act in order and on time, every event is *)
(* answered, and the books, the analytics and the portfolios agree with    *)
(* each other; the strategy of main.cpp stays within its limit, never      *)
(* rests an order while there is no latency, and considers only one side   *)
(* worth taking.                                                           *)
(***************************************************************************)
EXTENDS FairPrice, SumProofs, TLAPS

USE DEF Sides

LastOf(S) == Max(S)

Fills == INSTANCE FoldProofs WITH Op <- FillStep, Pick <- LastOf

(* Book b after k rounds of the matching loop. *)
Matched(b, k) == Fills!Fold([i \in 1 .. k |-> i], b, 1 .. k)

Rounds(e) == IF e.quantity > 0 THEN e.quantity ELSE 0

(* Nothing has been matched before the first round. *)
LEMMA MatchedNone == ASSUME NEW b PROVE Matched(b, 0) = b
<1>1. 1 .. 0 = {}
  OBVIOUS
<1> QED BY <1>1, Fills!FoldEmpty DEF Matched

(* One more round is one more FillNext. *)
LEMMA MatchedNext ==
  ASSUME NEW b, NEW k \in Nat
  PROVE  Matched(b, k + 1) = FillNext(Matched(b, k))
<1> DEFINE f == [i \in 1 .. (k + 1) |-> i]
           g == [i \in 1 .. k |-> i]
<1>1. \A i \in 1 .. k : f[i] = g[i]
  OBVIOUS
<1>2. Fills!PicksLargest
  BY DEF Fills!PicksLargest, Fills!Largest, LastOf, Max
<1> HIDE DEF f, g
<1>3. Fills!Fold(f, b, 1 .. (k + 1)) = FillStep(Fills!Fold(g, b, 1 .. k), f[k + 1])
  BY <1>1, <1>2, Fills!FoldLast
<1> QED BY <1>3 DEF Matched, FillStep, f, g

(* The matching loop is its rounds. *)
LEMMA CallRounds ==
  ASSUME NEW b, NEW e, e.quantity \in Int
  PROVE  /\ Rounds(e) \in Nat
         /\ ProcessOrder(b, e) =
              IF Submit(b, e).taker = Null THEN Submit(b, e)
              ELSE Finish(Matched(Submit(b, e), Rounds(e)))
<1> DEFINE s == [i \in 1 .. e.quantity |-> i]
           t == [i \in 1 .. Rounds(e) |-> i]
<1>1. Rounds(e) \in Nat /\ 1 .. Rounds(e) = 1 .. e.quantity
  BY DEF Rounds
<1>2. s = t /\ DOMAIN s = 1 .. Rounds(e)
  BY <1>1
<1> HIDE DEF s, t
<1>3. \A x : FoldLeft(FillStep, x, s) = Fills!Fold(s, x, DOMAIN s)
  BY DEF FoldLeft, MapThenFoldSet, LastOf, Fills!Fold, Fills!MapThenFoldSet
<1>4. \A x : Matched(x, Rounds(e)) = Fills!Fold(t, x, 1 .. Rounds(e))
  BY DEF Matched, t
<1>5. \A x : FoldLeft(FillStep, x, s) = Matched(x, Rounds(e))
  BY <1>2, <1>3, <1>4
<1> QED BY <1>1, <1>5 DEF ProcessOrder, s

-----------------------------------------------------------------------------
(* The parts of a well-formed book. *)
Orders == [side : Sides, owner_id : Int, price : Int, quantity : Nat \ {0}]

Responses ==
  [type : ResponseEvents, side : Sides, order_id : Int, owner_id : Int,
   quantity : Int, price : Int]

(* An order, which is not Null whatever is left of it. *)
IsOrder(o) ==
  /\ o # Null /\ \A q \in Int : [o EXCEPT !.quantity = q] # Null
  /\ {"side", "order_type", "order_id", "owner_id", "quantity", "price"} \subseteq DOMAIN o
  /\ o.side \in Sides /\ o.order_type \in OrderTypes /\ o.order_id \in Int
  /\ o.owner_id \in Int /\ o.quantity \in Int /\ o.price \in Int

Formed(b) ==
  b = [orders |-> b.orders, before |-> b.before, taker |-> b.taker, responses |-> b.responses]

TypedOrders(orders) ==
  /\ IsFiniteSet(DOMAIN orders)
  /\ DOMAIN orders \subseteq Int
  /\ \A n \in DOMAIN orders : orders[n] \in Orders

SameLevel(orders, m, n) ==
  orders[m].side = orders[n].side /\ orders[m].price = orders[n].price

(* The orders of a level came one after the other. *)
Ranked(orders, before) ==
  /\ \A m, n \in DOMAIN orders : m # n /\ SameLevel(orders, m, n) =>
       (<<m, n>> \in before <=> <<n, m>> \notin before)
  /\ \A l, m, n \in DOMAIN orders :
       <<l, m>> \in before /\ <<m, n>> \in before => <<l, n>> \in before
  /\ \A p \in before : \E m, n \in DOMAIN orders :
       p = <<m, n>> /\ m # n /\ SameLevel(orders, m, n)

Engaged(taker, orders) ==
  taker # Null =>
    IsOrder(taker) /\ taker.order_type # "Cancel" /\ taker.order_id \notin DOMAIN orders

GoodBook(b) ==
  /\ Formed(b)
  /\ TypedOrders(b.orders)
  /\ Ranked(b.orders, b.before)
  /\ Engaged(b.taker, b.orders)
  /\ b.responses \in Seq(Responses)

(* What becomes of the orders and their ranks when one leaves, joins, or   *)
(* has d of its units traded.                                              *)
RankedWithout(before, id) == {p \in before : p[1] # id /\ p[2] # id}

RankedWith(before, orders, id, o) ==
  before \cup {<<m, id>> : m \in {n \in DOMAIN orders : /\ orders[n].side = o.side
                                                       /\ orders[n].price = o.price}}

Less(orders, m, d) == [orders EXCEPT ![m].quantity = @ - d]

(* What Withdraw leaves. *)
LEMMA WithdrawIs ==
  ASSUME NEW b, Formed(b), NEW id
  PROVE  /\ Formed(Withdraw(b, id))
         /\ Withdraw(b, id).orders = Without(b.orders, id)
         /\ Withdraw(b, id).before = RankedWithout(b.before, id)
         /\ Withdraw(b, id).taker = b.taker
         /\ Withdraw(b, id).responses = b.responses
<1> DEFINE X == Without(b.orders, id)
           Y == RankedWithout(b.before, id)
<1>1. Withdraw(b, id) = [orders |-> X, before |-> Y, taker |-> b.taker,
                         responses |-> b.responses]
  <2>1. Withdraw(b, id) = [b EXCEPT !.orders = X, !.before = Y]
    BY DEF Withdraw, RankedWithout
  <2> HIDE DEF X, Y
  <2> QED BY <2>1 DEF Formed
<1> HIDE DEF X, Y
<1>2. /\ Formed(Withdraw(b, id)) /\ Withdraw(b, id).orders = X
      /\ Withdraw(b, id).before = Y /\ Withdraw(b, id).taker = b.taker
      /\ Withdraw(b, id).responses = b.responses
  BY <1>1 DEF Formed
<1> QED BY <1>2 DEF X, Y

(* What Rest adds. *)
LEMMA RestIs ==
  ASSUME NEW b, Formed(b), NEW o
  PROVE  /\ Formed(Rest(b, o))
         /\ Rest(b, o).orders = With(b.orders, o.order_id,
                                     [side |-> o.side, owner_id |-> o.owner_id,
                                      price |-> o.price, quantity |-> o.quantity])
         /\ Rest(b, o).before = RankedWith(b.before, b.orders, o.order_id, o)
         /\ Rest(b, o).taker = b.taker
         /\ Rest(b, o).responses = b.responses
<1> DEFINE X == With(b.orders, o.order_id, [side |-> o.side, owner_id |-> o.owner_id,
                                              price |-> o.price, quantity |-> o.quantity])
           Y == RankedWith(b.before, b.orders, o.order_id, o)
<1>1. Rest(b, o) = [orders |-> X, before |-> Y, taker |-> b.taker, responses |-> b.responses]
  <2>1. Rest(b, o) = [b EXCEPT !.orders = X, !.before = Y]
    BY DEF Rest, RankedWith
  <2> HIDE DEF X, Y
  <2> QED BY <2>1 DEF Formed
<1> HIDE DEF X, Y
<1>2. /\ Formed(Rest(b, o)) /\ Rest(b, o).orders = X /\ Rest(b, o).before = Y
      /\ Rest(b, o).taker = b.taker /\ Rest(b, o).responses = b.responses
  BY <1>1 DEF Formed
<1> QED BY <1>2 DEF X, Y

(* What Engage and Reply set. *)
LEMMA EngageIs ==
  ASSUME NEW b, Formed(b), NEW o, NEW rs
  PROVE  /\ Formed(Engage(b, o, rs)) /\ Formed(Reply(b, rs))
         /\ Engage(b, o, rs).orders = b.orders /\ Reply(b, rs).orders = b.orders
         /\ Engage(b, o, rs).before = b.before /\ Reply(b, rs).before = b.before
         /\ Engage(b, o, rs).taker = o /\ Reply(b, rs).taker = b.taker
         /\ Engage(b, o, rs).responses = rs /\ Reply(b, rs).responses = rs
<1>1. Reply(b, rs) = [orders |-> b.orders, before |-> b.before, taker |-> b.taker,
                      responses |-> rs]
  BY DEF Formed, Reply
<1>2. Engage(b, o, rs) = [orders |-> b.orders, before |-> b.before, taker |-> o,
                          responses |-> rs]
  <2>1. Engage(b, o, rs) = [Reply(b, rs) EXCEPT !.taker = o]
    BY DEF Engage, Reply
  <2> QED BY <1>1, <2>1
<1> QED BY <1>1, <1>2 DEF Formed

(* The quantity that is traded, and the two reports of it. *)
Traded(b, m) == Smaller(b.taker.quantity, b.orders[m].quantity)

TakerReport(b, m) ==
  Fill(b.taker.order_id, b.taker.owner_id, b.taker.side, b.taker.quantity - Traded(b, m),
       Traded(b, m), b.orders[m].price)

MakerReport(b, m) ==
  Fill(m, b.orders[m].owner_id, b.orders[m].side, b.orders[m].quantity - Traded(b, m),
       Traded(b, m), b.orders[m].price)

(* What a fill leaves. *)
LEMMA FillIs ==
  ASSUME NEW b, Formed(b), NEW m
  PROVE  LET c == FillWith(b, m)
             all == b.orders[m].quantity = Traded(b, m)
         IN /\ Formed(c)
            /\ c.orders = IF all THEN Without(b.orders, m)
                          ELSE Less(b.orders, m, Traded(b, m))
            /\ c.before = IF all THEN RankedWithout(b.before, m) ELSE b.before
            /\ c.taker = [b.taker EXCEPT !.quantity = b.taker.quantity - Traded(b, m)]
            /\ c.responses = b.responses \o <<TakerReport(b, m), MakerReport(b, m)>>
<1> DEFINE T == Traded(b, m)
           t1 == TakerReport(b, m)
           t2 == MakerReport(b, m)
           all == b.orders[m].quantity = T
           kept == IF all THEN Withdraw(b, m) ELSE [b EXCEPT !.orders[m].quantity = @ - T]
<1>1. FillWith(b, m) = [kept EXCEPT !.taker.quantity = b.taker.quantity - T,
                                    !.responses = @ \o <<t1, t2>>]
  BY DEF FillWith, Traded, TakerReport, MakerReport
<1>2. /\ Formed(kept) /\ kept.taker = b.taker /\ kept.responses = b.responses
      /\ kept.orders = IF all THEN Without(b.orders, m)
                       ELSE Less(b.orders, m, T)
      /\ kept.before = IF all THEN RankedWithout(b.before, m) ELSE b.before
  <2> HIDE DEF T
  <2>1. CASE all
    BY <2>1, WithdrawIs
  <2>2. CASE ~all
    BY <2>2 DEF Formed, Less
  <2> QED BY <2>1, <2>2
<1> HIDE DEF kept, t1, t2, T
<1>3. LET c == FillWith(b, m)
      IN /\ Formed(c) /\ c.orders = kept.orders /\ c.before = kept.before
         /\ c.taker = [kept.taker EXCEPT !.quantity = b.taker.quantity - T]
         /\ c.responses = kept.responses \o <<t1, t2>>
  BY <1>1, <1>2 DEF Formed
<1> QED BY <1>2, <1>3 DEF T, t1, t2

-----------------------------------------------------------------------------
(* Without one order the rest is still well-formed. *)
LEMMA WithdrawKept ==
  ASSUME NEW orders, NEW before, TypedOrders(orders), Ranked(orders, before), NEW id
  PROVE  /\ TypedOrders(Without(orders, id))
         /\ Ranked(Without(orders, id), RankedWithout(before, id))
         /\ DOMAIN Without(orders, id) = DOMAIN orders \ {id}
         /\ \A n \in DOMAIN orders \ {id} : Without(orders, id)[n] = orders[n]
<1> DEFINE new == Without(orders, id)
           kept == RankedWithout(before, id)
<1>1. DOMAIN new = DOMAIN orders \ {id} /\ \A n \in DOMAIN new : new[n] = orders[n]
  BY DEF Without
<1>2. /\ \A m, n : <<m, n>> \in kept <=> <<m, n>> \in before /\ m # id /\ n # id
      /\ kept \subseteq before
  BY DEF RankedWithout
<1>3. IsFiniteSet(DOMAIN new)
  BY <1>1, FS_Subset DEF TypedOrders
<1>4. TypedOrders(new)
  BY <1>1, <1>3 DEF TypedOrders
<1>5. Ranked(new, kept)
  <2> HIDE DEF new, kept
  <2>1. \A m, n \in DOMAIN new : m # n /\ SameLevel(new, m, n) =>
          (<<m, n>> \in kept <=> <<n, m>> \notin kept)
    BY <1>1, <1>2 DEF Ranked, SameLevel
  <2>2. \A l, m, n \in DOMAIN new :
          <<l, m>> \in kept /\ <<m, n>> \in kept => <<l, n>> \in kept
    BY <1>1, <1>2 DEF Ranked
  <2>3. ASSUME NEW p \in kept
        PROVE  \E m, n \in DOMAIN new : p = <<m, n>> /\ m # n /\ SameLevel(new, m, n)
    <3>1. PICK m, n \in DOMAIN orders : p = <<m, n>> /\ m # n /\ SameLevel(orders, m, n)
      BY <1>2 DEF Ranked
    <3>2. m \in DOMAIN new /\ n \in DOMAIN new
      BY <1>1, <1>2, <3>1
    <3> QED BY <1>1, <3>1, <3>2 DEF SameLevel
  <2> QED BY <2>1, <2>2, <2>3 DEF Ranked
<1> QED BY <1>1, <1>4, <1>5

(* An order that joins its level comes after the others there. *)
LEMMA RestKept ==
  ASSUME NEW orders, NEW before, TypedOrders(orders), Ranked(orders, before),
         NEW o, NEW id \in Int, id \notin DOMAIN orders, o \in Orders
  PROVE  /\ TypedOrders(With(orders, id, o))
         /\ Ranked(With(orders, id, o), RankedWith(before, orders, id, o))
         /\ DOMAIN With(orders, id, o) = DOMAIN orders \cup {id}
         /\ With(orders, id, o)[id] = o
         /\ \A n \in DOMAIN orders : With(orders, id, o)[n] = orders[n]
<1> DEFINE new == With(orders, id, o)
           level == {n \in DOMAIN orders : orders[n].side = o.side /\ orders[n].price = o.price}
           more == before \cup {<<m, id>> : m \in level}
<1>1. /\ DOMAIN new = DOMAIN orders \cup {id} /\ new[id] = o
      /\ \A n \in DOMAIN orders : n # id /\ new[n] = orders[n]
  BY DEF With
<1>2. IsFiniteSet(DOMAIN new)
  BY <1>1, FS_AddElement DEF TypedOrders
<1>3. TypedOrders(new)
  BY <1>1, <1>2 DEF TypedOrders
<1>4. \A m, n : <<m, n>> \in before => m \in DOMAIN orders /\ n \in DOMAIN orders
                                       /\ m # n /\ SameLevel(orders, m, n)
  <2> SUFFICES ASSUME NEW m, NEW n, <<m, n>> \in before
               PROVE  m \in DOMAIN orders /\ n \in DOMAIN orders
                      /\ m # n /\ SameLevel(orders, m, n)
    OBVIOUS
  <2>1. PICK k, l \in DOMAIN orders : <<m, n>> = <<k, l>> /\ k # l /\ SameLevel(orders, k, l)
    BY DEF Ranked
  <2> QED BY <2>1
<1>5. \A m, n : <<m, n>> \in more <=> <<m, n>> \in before \/ (n = id /\ m \in level)
  OBVIOUS
<1>6. \A m : m \in level <=> m \in DOMAIN orders /\ new[m].side = new[id].side
                                                /\ new[m].price = new[id].price
  BY <1>1
<1>7. \A p \in more : \E m, n : p = <<m, n>>
  BY DEF Ranked
<1> HIDE DEF new, level, more
<1>8. \A m, n \in DOMAIN new : m # n /\ SameLevel(new, m, n) =>
          (<<m, n>> \in more <=> <<n, m>> \notin more)
  <2> SUFFICES ASSUME NEW m \in DOMAIN new, NEW n \in DOMAIN new, m # n, SameLevel(new, m, n)
               PROVE  <<m, n>> \in more <=> <<n, m>> \notin more
    OBVIOUS
  <2>1. CASE m = id
    BY <1>1, <1>4, <1>5, <1>6, <2>1 DEF SameLevel
  <2>2. CASE n = id
    BY <1>1, <1>4, <1>5, <1>6, <2>2 DEF SameLevel
  <2>3. CASE m # id /\ n # id
    BY <1>1, <1>5, <2>3 DEF SameLevel, Ranked
  <2> QED BY <2>1, <2>2, <2>3
<1>9. \A l, m, n \in DOMAIN new : <<l, m>> \in more /\ <<m, n>> \in more => <<l, n>> \in more
  <2> SUFFICES ASSUME NEW l \in DOMAIN new, NEW m \in DOMAIN new, NEW n \in DOMAIN new,
                      <<l, m>> \in more, <<m, n>> \in more
               PROVE  <<l, n>> \in more
    OBVIOUS
  <2>1. <<l, m>> \in before /\ m \in DOMAIN orders /\ l \in DOMAIN orders
    BY <1>1, <1>4, <1>5, <1>6
  <2>2. CASE <<m, n>> \in before
    BY <1>4, <1>5, <2>1, <2>2 DEF Ranked
  <2>3. CASE n = id /\ m \in level
    <3>1. l \in level
      BY <1>1, <1>4, <1>6, <2>1, <2>3 DEF SameLevel
    <3> QED BY <1>5, <2>3, <3>1
  <2> QED BY <1>5, <2>2, <2>3
<1>10. ASSUME NEW p \in more
       PROVE  \E m, n \in DOMAIN new : p = <<m, n>> /\ m # n /\ SameLevel(new, m, n)
  <2>1. PICK m, n : p = <<m, n>>
    BY <1>7
  <2>2. m \in DOMAIN new /\ n \in DOMAIN new /\ m # n /\ SameLevel(new, m, n)
    BY <1>1, <1>4, <1>5, <1>6, <2>1 DEF SameLevel
  <2> QED BY <2>1, <2>2
<1>11. Ranked(new, more)
  BY <1>8, <1>9, <1>10 DEF Ranked
<1> QED BY <1>1, <1>3, <1>11 DEF new, more, level, RankedWith

(* A fill of a part of an order leaves it in its place. *)
LEMMA PartKept ==
  ASSUME NEW orders, NEW before, TypedOrders(orders), Ranked(orders, before),
         NEW m \in DOMAIN orders, NEW d \in Nat, d < orders[m].quantity
  PROVE  LET new == Less(orders, m, d)
         IN /\ DOMAIN new = DOMAIN orders
            /\ \A n \in DOMAIN orders :
                 /\ new[n].side = orders[n].side /\ new[n].price = orders[n].price
                 /\ new[n].owner_id = orders[n].owner_id
                 /\ new[n].quantity = IF n = m THEN orders[n].quantity - d
                                      ELSE orders[n].quantity
            /\ TypedOrders(new) /\ Ranked(new, before)
<1> DEFINE new == Less(orders, m, d)
<1>1. orders[m] \in Orders /\ orders[m].quantity - d \in Nat \ {0}
  BY DEF TypedOrders, Orders
<1>2. new = [orders EXCEPT ![m] = [orders[m] EXCEPT !.quantity = orders[m].quantity - d]]
  BY DEF Less
<1>3. /\ DOMAIN new = DOMAIN orders
      /\ new[m] = [orders[m] EXCEPT !.quantity = orders[m].quantity - d]
      /\ \A n \in DOMAIN orders : n # m => new[n] = orders[n]
  BY <1>2
<1> HIDE DEF new
<1>4. /\ new[m].side = orders[m].side /\ new[m].price = orders[m].price
      /\ new[m].owner_id = orders[m].owner_id
      /\ new[m].quantity = orders[m].quantity - d
      /\ new[m] \in Orders
  BY <1>1, <1>3 DEF Orders
<1>5. /\ DOMAIN new = DOMAIN orders
      /\ \A n \in DOMAIN orders :
           /\ new[n].side = orders[n].side /\ new[n].price = orders[n].price
           /\ new[n].owner_id = orders[n].owner_id
           /\ new[n].quantity = IF n = m THEN orders[n].quantity - d ELSE orders[n].quantity
           /\ new[n] \in Orders
  BY <1>3, <1>4 DEF TypedOrders
<1>6. TypedOrders(new)
  BY <1>5 DEF TypedOrders
<1>7. \A k, n \in DOMAIN orders : SameLevel(new, k, n) <=> SameLevel(orders, k, n)
  BY <1>5 DEF SameLevel
<1>8. Ranked(new, before)
  <2>1. \A k, n \in DOMAIN new : k # n /\ SameLevel(new, k, n) =>
          (<<k, n>> \in before <=> <<n, k>> \notin before)
    BY <1>3, <1>7 DEF Ranked
  <2>2. \A l, k, n \in DOMAIN new :
          <<l, k>> \in before /\ <<k, n>> \in before => <<l, n>> \in before
    BY <1>3 DEF Ranked
  <2>3. \A p \in before : \E k, n \in DOMAIN new :
          p = <<k, n>> /\ k # n /\ SameLevel(new, k, n)
    BY <1>3, <1>7 DEF Ranked
  <2> QED BY <2>1, <2>2, <2>3 DEF Ranked
<1> QED BY <1>5, <1>6, <1>8 DEF new

(* Of the orders on a side, one has priority over all the others. *)
LEMMA MakerExists ==
  ASSUME NEW b, TypedOrders(b.orders), Ranked(b.orders, b.before), NEW side \in Sides,
         \E n \in DOMAIN b.orders : b.orders[n].side = side
  PROVE  \E m : IsNextMaker(b, side, m)
<1> DEFINE S == {n \in DOMAIN b.orders : b.orders[n].side = side}
           UpTo(n) == {k \in S : k = n \/ Ahead(b, k, n)}
           F == {UpTo(n) : n \in S}
<1>1. IsFiniteSet(S)
  BY FS_Subset DEF TypedOrders
<1>2. PICK T \in F : \A U \in F : U \subseteq T => U = T
  <2>1. F \in SUBSET SUBSET S
    OBVIOUS
  <2>2. F # {}
    BY ZenonT(40), ZenonT(40)
  <2> HIDE DEF S, UpTo, F
  <2> QED BY <1>1, <2>1, <2>2, SmallestMember
<1>3. PICK m \in S : T = UpTo(m)
  OBVIOUS
<1>4. \A n \in S : b.orders[n].price \in Int /\ n \in DOMAIN b.orders /\ b.orders[n].side = side
  BY DEF TypedOrders, Orders
<1> DEFINE P(n) == b.orders[n].price
<1>a. \A k, n \in S : Ahead(b, k, n) <=> \/ Better(side, P(k), P(n))
                                         \/ P(k) = P(n) /\ <<k, n>> \in b.before
  BY <1>4 DEF Ahead
<1>b. /\ \A p, q \in Int : p = q \/ Better(side, p, q) \/ Better(side, q, p)
      /\ \A p, q \in Int : ~(Better(side, p, q) /\ Better(side, q, p))
      /\ \A p \in Int : ~Better(side, p, p)
      /\ \A p, q, r \in Int : Better(side, p, q) /\ Better(side, q, r) => Better(side, p, r)
  BY DEF Better
<1>c. /\ \A k, n \in S : k # n /\ P(k) = P(n) =>
           (<<k, n>> \in b.before <=> <<n, k>> \notin b.before)
      /\ \A k, l, n \in S :
           <<k, l>> \in b.before /\ <<l, n>> \in b.before => <<k, n>> \in b.before
  BY <1>4 DEF Ranked, SameLevel
<1>d. \A n \in S : P(n) \in Int
  BY <1>4
<1> HIDE DEF P, S
<1>5. \A k, n \in S : k # n => Ahead(b, k, n) \/ Ahead(b, n, k)
  BY <1>a, <1>b, <1>c, <1>d
<1>6. \A k, n \in S : ~(k # n /\ Ahead(b, k, n) /\ Ahead(b, n, k))
  <2> SUFFICES ASSUME NEW k \in S, NEW n \in S, k # n, Ahead(b, k, n), Ahead(b, n, k)
               PROVE  FALSE
    OBVIOUS
  <2>1. P(k) \in Int /\ P(n) \in Int
    BY <1>d
  <2>2. P(k) = P(n)
    BY <1>a, <1>b, <2>1
  <2> QED BY <1>a, <1>b, <1>c, <2>1, <2>2
<1>7. \A k, l, n \in S : Ahead(b, k, l) /\ Ahead(b, l, n) => Ahead(b, k, n)
  <2> SUFFICES ASSUME NEW k \in S, NEW l \in S, NEW n \in S, Ahead(b, k, l), Ahead(b, l, n)
               PROVE  Ahead(b, k, n)
    OBVIOUS
  <2>1. P(k) \in Int /\ P(l) \in Int /\ P(n) \in Int
    BY <1>d
  <2>2. CASE P(k) = P(l) /\ <<k, l>> \in b.before
    BY <1>a, <1>c, <2>2
  <2>3. CASE Better(side, P(k), P(l))
    BY <1>a, <1>b, <2>1, <2>3
  <2> QED BY <1>a, <2>2, <2>3
<1> USE DEF S
<1>8. ASSUME NEW n \in S, n # m, ~Ahead(b, m, n) PROVE FALSE
  <2>1. Ahead(b, n, m)
    BY <1>5, <1>8
  <2>2. \A k \in UpTo(n) : k \in UpTo(m)
    BY <1>7, <1>8, <2>1
  <2>3. UpTo(n) \in F /\ m \in UpTo(m) /\ m \notin UpTo(n)
    BY <1>8
  <2> HIDE DEF UpTo, F
  <2> QED BY <1>2, <1>3, <2>2, <2>3
<1>9. IsNextMaker(b, side, m)
  BY <1>8 DEF IsNextMaker
<1> QED BY <1>9

(* Every field but the quantity of the taker outlives a fill. *)
LEMMA TakerKept ==
  ASSUME NEW o, IsOrder(o), NEW q \in Int
  PROVE  LET p == [o EXCEPT !.quantity = q]
         IN /\ IsOrder(p) /\ p.quantity = q
            /\ p.side = o.side /\ p.order_type = o.order_type /\ p.order_id = o.order_id
            /\ p.owner_id = o.owner_id /\ p.price = o.price
<1> DEFINE p == [o EXCEPT !.quantity = q]
<1>1. /\ DOMAIN p = DOMAIN o /\ p.quantity = q
      /\ p.side = o.side /\ p.order_type = o.order_type /\ p.order_id = o.order_id
      /\ p.owner_id = o.owner_id /\ p.price = o.price
  BY DEF IsOrder
<1>2. \A r \in Int : [p EXCEPT !.quantity = r] = [o EXCEPT !.quantity = r]
  BY DEF IsOrder
<1>3. p # Null /\ \A r \in Int : [o EXCEPT !.quantity = r] # Null
  BY DEF IsOrder
<1>4. \A r \in Int : [p EXCEPT !.quantity = r] # Null
  BY <1>2, <1>3
<1> HIDE DEF p
<1>5. IsOrder(p)
  BY <1>1, <1>3, <1>4 DEF IsOrder
<1> QED BY <1>1, <1>5 DEF p

(* The loop trades with the best order of the other side, if it crosses.   *)
LEMMA FillNextIs ==
  ASSUME NEW b, GoodBook(b)
  PROVE  \/ ~CanFill(b) /\ FillNext(b) = b
         \/ /\ b.taker # Null /\ b.taker.quantity > 0
            /\ \E m : /\ IsNextMaker(b, Opposite(b.taker.side), m)
                      /\ Crosses(b.taker, b.orders[m].price)
                      /\ FillNext(b) = FillWith(b, m)
<1>1. CASE ~CanFill(b)
  BY <1>1 DEF FillNext
<1>2. CASE CanFill(b)
  <2> DEFINE side == Opposite(b.taker.side)
             maker == CHOOSE m \in DOMAIN b.orders : IsNextMaker(b, side, m)
  <2>1. /\ b.taker # Null /\ b.taker.quantity > 0 /\ IsOrder(b.taker) /\ side \in Sides
        /\ FillNext(b) = FillWith(b, maker)
    BY <1>2 DEF CanFill, GoodBook, Engaged, IsOrder, Opposite, FillNext
  <2>2. PICK n \in DOMAIN b.orders : b.orders[n].side = side
                                     /\ Crosses(b.taker, b.orders[n].price)
    BY <1>2 DEF CanFill
  <2>3. \E m : IsNextMaker(b, side, m)
    <3> HIDE DEF side
    <3> QED BY <2>1, <2>2, MakerExists DEF GoodBook
  <2>4. IsNextMaker(b, side, maker)
    <3>1. \E m \in DOMAIN b.orders : IsNextMaker(b, side, m)
      BY <2>3 DEF IsNextMaker
    <3> HIDE DEF side
    <3> QED BY <3>1
  <2> HIDE DEF maker
  <2>5. /\ maker \in DOMAIN b.orders /\ b.orders[maker].side = side
        /\ b.orders[maker].price \in Int /\ b.orders[n].price \in Int
        /\ maker # n => Ahead(b, maker, n)
    BY <2>2, <2>4 DEF IsNextMaker, GoodBook, TypedOrders, Orders
  <2>6. \/ b.orders[maker].price = b.orders[n].price
        \/ Better(side, b.orders[maker].price, b.orders[n].price)
    BY <2>2, <2>5 DEF Ahead
  <2>7. Crosses(b.taker, b.orders[maker].price)
    BY <2>1, <2>2, <2>5, <2>6 DEF Crosses, Better, IsOrder, Opposite
  <2> QED BY <2>1, <2>4, <2>7
<1> QED BY <1>1, <1>2

(* How much is traded, and what the two reports of it are. *)
LEMMA TradeTypes ==
  ASSUME NEW b, GoodBook(b), b.taker # Null, b.taker.quantity > 0, NEW m \in DOMAIN b.orders
  PROVE  /\ b.orders[m] \in Orders /\ IsOrder(b.taker)
         /\ Traded(b, m) \in Nat \ {0}
         /\ Traded(b, m) <= b.taker.quantity /\ Traded(b, m) <= b.orders[m].quantity
         /\ Traded(b, m) = b.taker.quantity \/ Traded(b, m) = b.orders[m].quantity
         /\ TakerReport(b, m) \in Responses /\ MakerReport(b, m) \in Responses
<1>1. b.orders[m] \in Orders /\ m \in Int /\ IsOrder(b.taker)
  BY DEF GoodBook, TypedOrders, Engaged
<1>2. /\ b.orders[m].side \in Sides /\ b.orders[m].owner_id \in Int
      /\ b.orders[m].price \in Int /\ b.orders[m].quantity \in Nat \ {0}
      /\ b.taker.quantity \in Int
  BY <1>1 DEF Orders, IsOrder
<1>3. /\ Traded(b, m) \in Nat \ {0}
      /\ Traded(b, m) <= b.taker.quantity /\ Traded(b, m) <= b.orders[m].quantity
      /\ Traded(b, m) = b.taker.quantity \/ Traded(b, m) = b.orders[m].quantity
  BY <1>2 DEF Traded, Smaller
<1>4. \A id \in Int, owner \in Int, side \in Sides, left, price \in Int :
        Fill(id, owner, side, left, Traded(b, m), price) \in Responses
  BY <1>3 DEF Fill, Responses, ResponseEvents
<1>5. TakerReport(b, m) \in Responses
  <2>1. /\ b.taker.order_id \in Int /\ b.taker.owner_id \in Int /\ b.taker.side \in Sides
        /\ b.taker.quantity - Traded(b, m) \in Int
    BY <1>1, <1>3 DEF IsOrder
  <2> QED BY <1>2, <1>4, <2>1 DEF TakerReport
<1>6. MakerReport(b, m) \in Responses
  <2>1. b.orders[m].quantity - Traded(b, m) \in Int
    BY <1>2, <1>3
  <2> QED BY <1>1, <1>2, <1>4, <2>1, ZenonT(40) DEF MakerReport
<1> QED BY <1>1, <1>3, <1>5, <1>6

(* A fill keeps the book well-formed. *)
LEMMA FillGood ==
  ASSUME NEW b, GoodBook(b), b.taker # Null, b.taker.quantity > 0, NEW m \in DOMAIN b.orders
  PROVE  GoodBook(FillWith(b, m))
<1> DEFINE c == FillWith(b, m)
           T == Traded(b, m)
<1>1. /\ b.orders[m] \in Orders /\ IsOrder(b.taker) /\ T \in Nat \ {0}
      /\ T <= b.taker.quantity /\ T <= b.orders[m].quantity
      /\ TakerReport(b, m) \in Responses /\ MakerReport(b, m) \in Responses
  BY TradeTypes
<1>2. /\ Formed(c)
      /\ c.orders = IF b.orders[m].quantity = T THEN Without(b.orders, m)
                    ELSE Less(b.orders, m, T)
      /\ c.before = IF b.orders[m].quantity = T
                    THEN RankedWithout(b.before, m) ELSE b.before
      /\ c.taker = [b.taker EXCEPT !.quantity = b.taker.quantity - T]
      /\ c.responses = b.responses \o <<TakerReport(b, m), MakerReport(b, m)>>
  BY FillIs DEF GoodBook
<1> HIDE DEF c, T
<1>3. TypedOrders(c.orders) /\ Ranked(c.orders, c.before)
      /\ DOMAIN c.orders \subseteq DOMAIN b.orders
  <2>1. CASE b.orders[m].quantity = T
    <3>1. TypedOrders(b.orders) /\ Ranked(b.orders, b.before)
      BY DEF GoodBook
    <3>2. /\ TypedOrders(Without(b.orders, m))
          /\ Ranked(Without(b.orders, m), RankedWithout(b.before, m))
          /\ DOMAIN Without(b.orders, m) = DOMAIN b.orders \ {m}
      BY <3>1, WithdrawKept
    <3> QED BY <1>2, <2>1, <3>2
  <2>2. CASE b.orders[m].quantity # T
    <3>1. T \in Nat /\ T < b.orders[m].quantity
      BY <1>1, <2>2 DEF Orders
    <3> QED BY <1>2, <2>2, <3>1, PartKept DEF GoodBook
  <2> QED BY <2>1, <2>2
<1>4. Engaged(c.taker, c.orders)
  <2>1. b.taker.quantity - T \in Int
    BY <1>1 DEF IsOrder
  <2>2. IsOrder(c.taker) /\ c.taker.order_type = b.taker.order_type
        /\ c.taker.order_id = b.taker.order_id
    BY <1>1, <1>2, <2>1, TakerKept
  <2> QED BY <1>3, <2>2 DEF Engaged, GoodBook
<1>5. c.responses \in Seq(Responses)
  BY <1>1, <1>2 DEF GoodBook
<1> QED BY <1>2, <1>3, <1>4, <1>5 DEF GoodBook, c

(* A response that repeats an event is well-formed, and one to an order    *)
(* that rests is too.                                                      *)
LEMMA EchoTyped ==
  ASSUME NEW type \in ResponseEvents
  PROVE  /\ \A e : IsOrder(e) => Echo(e, type) \in Responses
         /\ \A b : TypedOrders(b.orders) =>
              \A id \in DOMAIN b.orders : Echo(Resting(b, id), type) \in Responses
BY DEF IsOrder, Echo, Responses, TypedOrders, Orders, Resting

(* Withdraw keeps a book well-formed, without the order withdrawn. *)
LEMMA WithdrawGood ==
  ASSUME NEW b, GoodBook(b), NEW id, b.taker = Null
  PROVE  /\ GoodBook(Withdraw(b, id)) /\ Withdraw(b, id).taker = Null
         /\ DOMAIN Withdraw(b, id).orders = DOMAIN b.orders \ {id}
         /\ \A n \in DOMAIN b.orders \ {id} : Withdraw(b, id).orders[n] = b.orders[n]
<1> DEFINE w == Withdraw(b, id)
<1>1. /\ Formed(w) /\ w.orders = Without(b.orders, id)
      /\ w.before = RankedWithout(b.before, id) /\ w.taker = Null
      /\ w.responses = b.responses
  BY WithdrawIs DEF GoodBook
<1> HIDE DEF w
<1>2. /\ TypedOrders(w.orders) /\ Ranked(w.orders, w.before)
      /\ DOMAIN w.orders = DOMAIN b.orders \ {id}
      /\ \A n \in DOMAIN b.orders \ {id} : w.orders[n] = b.orders[n]
  <2>1. TypedOrders(b.orders) /\ Ranked(b.orders, b.before)
    BY DEF GoodBook
  <2>2. /\ TypedOrders(Without(b.orders, id))
        /\ Ranked(Without(b.orders, id), RankedWithout(b.before, id))
        /\ DOMAIN Without(b.orders, id) = DOMAIN b.orders \ {id}
        /\ \A n \in DOMAIN b.orders \ {id} : Without(b.orders, id)[n] = b.orders[n]
    BY <2>1, WithdrawKept
  <2> QED BY <1>1, <2>2
<1> QED BY <1>1, <1>2 DEF GoodBook, Engaged, w

(* Reply changes the answers and nothing else. *)
LEMMA ReplyGood ==
  ASSUME NEW b, GoodBook(b), NEW rs \in Seq(Responses)
  PROVE  /\ GoodBook(Reply(b, rs)) /\ Reply(b, rs).taker = b.taker
         /\ Reply(b, rs).orders = b.orders /\ Reply(b, rs).responses = rs
<1> DEFINE w == Reply(b, rs)
<1>1. /\ Formed(w) /\ w.orders = b.orders /\ w.before = b.before /\ w.taker = b.taker
      /\ w.responses = rs
  BY EngageIs DEF GoodBook
<1> HIDE DEF w
<1> QED BY <1>1 DEF GoodBook, w

(* Engage makes the event the order to be matched. *)
LEMMA EngageGood ==
  ASSUME NEW b, GoodBook(b), NEW e, Engaged(e, b.orders), NEW rs \in Seq(Responses)
  PROVE  /\ GoodBook(Engage(b, e, rs)) /\ Engage(b, e, rs).taker = e
         /\ Engage(b, e, rs).orders = b.orders /\ Engage(b, e, rs).responses = rs
<1> DEFINE w == Engage(b, e, rs)
<1>1. /\ Formed(w) /\ w.orders = b.orders /\ w.before = b.before /\ w.taker = e
      /\ w.responses = rs
  BY EngageIs DEF GoodBook
<1> HIDE DEF w
<1> QED BY <1>1 DEF GoodBook, Engaged, w

(* The first part of a call keeps the book well-formed, and the order that *)
(* it leaves to be matched is the event.                                   *)
LEMMA SubmitGood ==
  ASSUME NEW b, GoodBook(b), b.taker = Null, NEW e, IsOrder(e)
  PROVE  /\ GoodBook(Submit(b, e))
         /\ Submit(b, e).taker \in {Null, e}
<1> DEFINE id == e.order_id
<1>2. \A type \in ResponseEvents :
        /\ Echo(e, type) \in Responses
        /\ id \in DOMAIN b.orders => Echo(Resting(b, id), type) \in Responses
  BY EchoTyped DEF GoodBook
<1>3. \A r \in Responses : GoodBook(Reply(b, <<r>>)) /\ Reply(b, <<r>>).taker = Null
  <2> SUFFICES ASSUME NEW r \in Responses
               PROVE  GoodBook(Reply(b, <<r>>)) /\ Reply(b, <<r>>).taker = Null
    OBVIOUS
  <2>1. <<r>> \in Seq(Responses)
    OBVIOUS
  <2> QED BY <2>1, ReplyGood
<1>4. ASSUME id \notin DOMAIN b.orders, e.order_type # "Cancel", NEW r \in Responses
      PROVE  GoodBook(Engage(b, e, <<r>>)) /\ Engage(b, e, <<r>>).taker = e
  <2>1. <<r>> \in Seq(Responses)
    OBVIOUS
  <2>2. Engaged(e, b.orders)
    BY <1>4 DEF Engaged
  <2>3. \A rs \in Seq(Responses) : GoodBook(Engage(b, e, rs)) /\ Engage(b, e, rs).taker = e
    BY <2>2, EngageGood
  <2> QED BY <2>1, <2>3
<1>5. LET w == Withdraw(b, id)
      IN GoodBook(w) /\ w.taker = Null /\ id \notin DOMAIN w.orders
  <2> HIDE DEF id
  <2> QED BY WithdrawGood
<1>6. CASE e.order_type = "Add"
  BY <1>2, <1>3, <1>4, <1>6 DEF Submit, SubmitAdd, ResponseEvents
<1>7. CASE e.order_type = "Cancel"
  <2>1. CASE Owns(b, e)
    <3> DEFINE w == Withdraw(b, id)
               r == Echo(Resting(b, id), "OrderCancelled")
    <3>1. Submit(b, e) = Reply(w, <<r>>)
      BY <1>7, <2>1 DEF Submit, SubmitCancel
    <3>2. r \in Responses
      BY <1>2, <2>1 DEF Owns, ResponseEvents
    <3>3. GoodBook(w) /\ w.taker = Null
      BY <1>5
    <3> HIDE DEF w, r
    <3>4. <<r>> \in Seq(Responses)
      BY <3>2
    <3> QED BY <3>1, <3>3, <3>4, ReplyGood
  <2>2. CASE ~Owns(b, e)
    BY <1>2, <1>3, <1>7, <2>2 DEF Submit, SubmitCancel, ResponseEvents
  <2> QED BY <2>1, <2>2
<1>8. CASE e.order_type = "Mod"
  <2>1. CASE e.quantity > 0 /\ e.price > 0 /\ Owns(b, e) /\ b.orders[id].side = e.side
    <3> DEFINE w == Withdraw(b, id)
               r == Echo(Resting(b, id), "OrderModified")
               q == Echo(e, "OrderModifyAccepted")
    <3>1. Submit(b, e) = Engage(w, e, <<r, q>>)
      BY <1>8, <2>1 DEF Submit, SubmitMod
    <3>2. r \in Responses /\ q \in Responses
      BY <1>2, <2>1 DEF Owns, ResponseEvents
    <3>3. GoodBook(w) /\ id \notin DOMAIN w.orders
      BY <1>5
    <3> HIDE DEF w, r, q
    <3>4. <<r, q>> \in Seq(Responses)
      BY <3>2
    <3>5. Engaged(e, w.orders)
      BY <1>8, <3>3 DEF Engaged
    <3>6. \A rs \in Seq(Responses) : GoodBook(Engage(w, e, rs)) /\ Engage(w, e, rs).taker = e
      BY <3>3, <3>5, EngageGood
    <3> QED BY <3>1, <3>4, <3>6
  <2>2. CASE ~(e.quantity > 0 /\ e.price > 0 /\ Owns(b, e) /\ b.orders[id].side = e.side)
    <3>1. Submit(b, e) = Reply(b, <<Echo(e, "OrderModifyFailed")>>)
      BY <1>8, <2>2 DEF Submit, SubmitMod
    <3> QED BY <1>2, <1>3, <3>1 DEF ResponseEvents
  <2> QED BY <2>1, <2>2
<1>9. CASE e.order_type = "IOC"
  BY <1>2, <1>3, <1>4, <1>9 DEF Submit, SubmitIOC, ResponseEvents
<1>10. CASE e.order_type = "Market"
  BY <1>2, <1>3, <1>4, <1>10 DEF Submit, SubmitMarket, ResponseEvents
<1>11. e.order_type \in {"Add", "Cancel", "Mod", "IOC", "Market"}
  BY DEF IsOrder, OrderTypes
<1> QED BY <1>6, <1>7, <1>8, <1>9, <1>10, <1>11

(* What Finish leaves: the rest of the order in the book, an answer that   *)
(* it expired, or neither.                                                 *)
LEMMA FinishIs ==
  ASSUME NEW b, GoodBook(b), b.taker # Null
  PROVE  LET o == b.taker
             f == Finish(b)
         IN /\ Formed(f) /\ f.taker = Null
            /\ \/ /\ o.quantity <= 0
                  /\ f.orders = b.orders /\ f.before = b.before /\ f.responses = b.responses
               \/ /\ o.quantity > 0 /\ o.order_type \in {"Add", "Mod"}
                  /\ f.orders = With(b.orders, o.order_id,
                                     [side |-> o.side, owner_id |-> o.owner_id,
                                      price |-> o.price, quantity |-> o.quantity])
                  /\ f.before = RankedWith(b.before, b.orders, o.order_id, o)
                  /\ f.responses = b.responses
               \/ /\ o.quantity > 0 /\ o.order_type \in {"IOC", "Market"}
                  /\ f.orders = b.orders /\ f.before = b.before
                  /\ f.responses = Append(b.responses, Echo(o, "OrderExpired"))
<1> DEFINE o == b.taker
           free == [b EXCEPT !.taker = Null]
           late == [free EXCEPT !.responses = Append(@, Echo(o, "OrderExpired"))]
<1>1. o.quantity \in Int /\ o.order_type \in {"Add", "Mod", "IOC", "Market"}
  BY DEF GoodBook, Engaged, IsOrder, OrderTypes
<1>2. /\ Formed(free) /\ free.taker = Null /\ free.orders = b.orders
      /\ free.before = b.before /\ free.responses = b.responses
  BY DEF GoodBook, Formed
<1>3. /\ Formed(late) /\ late.taker = Null /\ late.orders = b.orders
      /\ late.before = b.before
      /\ late.responses = Append(b.responses, Echo(o, "OrderExpired"))
  <2>1. late = [orders |-> b.orders, before |-> b.before, taker |-> Null,
                responses |-> Append(b.responses, Echo(o, "OrderExpired"))]
    <3> HIDE DEF free, o
    <3> QED BY <1>2, SMTT(30) DEF Formed
  <2> HIDE DEF late, o
  <2> QED BY <2>1 DEF Formed
<1>4. CASE o.quantity <= 0
  <2>1. Finish(b) = free
    BY <1>1, <1>4 DEF Finish
  <2> QED BY <1>2, <1>4, <2>1
<1>5. CASE o.quantity > 0 /\ o.order_type \in {"Add", "Mod"}
  <2>1. Finish(b) = Rest(free, o)
    BY <1>1, <1>5 DEF Finish
  <2> HIDE DEF free
  <2> QED BY <1>2, <1>5, <2>1, RestIs
<1>6. CASE o.quantity > 0 /\ o.order_type \in {"IOC", "Market"}
  <2>1. Finish(b) = late
    BY <1>1, <1>6 DEF Finish
  <2> QED BY <1>3, <1>6, <2>1
<1> QED BY <1>1, <1>4, <1>5, <1>6

(* The order with the fields that rest. *)
Rested(o) == [side |-> o.side, owner_id |-> o.owner_id, price |-> o.price,
              quantity |-> o.quantity]

(* The end of a call keeps the book well-formed. *)
LEMMA FinishGood ==
  ASSUME NEW b, GoodBook(b), b.taker # Null
  PROVE  GoodBook(Finish(b)) /\ Finish(b).taker = Null
<1> DEFINE o == b.taker
<1>1. IsOrder(o) /\ o.order_id \notin DOMAIN b.orders /\ o.order_id \in Int
  BY DEF GoodBook, Engaged, IsOrder
<1>2. CASE Finish(b).orders = b.orders
  <2>1. /\ Formed(Finish(b)) /\ Finish(b).taker = Null
        /\ Finish(b).before = b.before
        /\ Finish(b).responses \in {b.responses, Append(b.responses, Echo(o, "OrderExpired"))}
    <3>1. o.order_id \in DOMAIN With(b.orders, o.order_id, Rested(o))
      BY DEF With
    <3> HIDE DEF o
    <3> QED BY <1>1, <1>2, <3>1, FinishIs DEF Rested, o
  <2>2. Echo(o, "OrderExpired") \in Responses
    BY <1>1, EchoTyped DEF ResponseEvents
  <2>3. Finish(b).responses \in Seq(Responses)
    BY <2>1, <2>2 DEF GoodBook
  <2> QED BY <1>2, <2>1, <2>3 DEF GoodBook, Engaged
<1>3. CASE /\ o.quantity > 0 /\ o.order_type \in {"Add", "Mod"}
           /\ Finish(b).orders = With(b.orders, o.order_id, Rested(o))
           /\ Finish(b).before = RankedWith(b.before, b.orders, o.order_id, o)
           /\ Finish(b).responses = b.responses
  <2>1. Rested(o) \in Orders
    BY <1>1, <1>3 DEF Orders, Rested, IsOrder
  <2>2. RankedWith(b.before, b.orders, o.order_id, o)
          = RankedWith(b.before, b.orders, o.order_id, Rested(o))
    BY DEF RankedWith, Rested
  <2>3. TypedOrders(Finish(b).orders) /\ Ranked(Finish(b).orders, Finish(b).before)
    <3>1. TypedOrders(b.orders) /\ Ranked(b.orders, b.before)
      BY DEF GoodBook
    <3> HIDE DEF o
    <3>2. \A r \in Orders :
            /\ TypedOrders(With(b.orders, o.order_id, r))
            /\ Ranked(With(b.orders, o.order_id, r),
                      RankedWith(b.before, b.orders, o.order_id, r))
      BY <1>1, <3>1, RestKept
    <3> QED BY <1>3, <2>1, <2>2, <3>2
  <2> QED BY <1>3, <2>3, FinishIs DEF GoodBook, Engaged
<1> QED BY <1>2, <1>3, FinishIs DEF Rested

-----------------------------------------------------------------------------
(* What a call is known to have done by the time it has made book c of b,  *)
(* while it matches event e and at its end.                                *)

(* The first answer is to the event. *)
AnswersFirst(rs, e) ==
  /\ Len(rs) >= 1
  /\ rs[1].order_id = e.order_id /\ rs[1].owner_id = e.owner_id

(* The orders of other owners are as they were, on the event's own side    *)
(* and, when it cancels, on both.                                          *)
SparesOthers(old, new, e) ==
  \A n \in DOMAIN old :
    /\ old[n].owner_id # e.owner_id
    /\ old[n].side = e.side \/ e.order_type = "Cancel"
    => n \in DOMAIN new /\ new[n] = old[n]

(* No order to buy reaches one to sell. *)
Uncrossed(orders) ==
  \A m, n \in DOMAIN orders :
    orders[m].side = "Buy" /\ orders[n].side = "Sell" => orders[m].price < orders[n].price

(* What a response says was bought, and for how much. *)
Units(r) ==
  IF ~IsFill(r) THEN 0 ELSE IF r.side = "Buy" THEN r.quantity ELSE -r.quantity

Cost(r) == Units(r) * r.price

Bought(rs) == SumFunctionOnSet([i \in DOMAIN rs |-> Units(rs[i])], DOMAIN rs)

Paid(rs) == SumFunctionOnSet([i \in DOMAIN rs |-> Cost(rs[i])], DOMAIN rs)

(* Buyers and sellers are told of the same trades. *)
Balanced(rs) == Bought(rs) = 0 /\ Paid(rs) = 0

LevelOf(orders, side, price) ==
  {n \in DOMAIN orders : orders[n].side = side /\ orders[n].price = price}

LevelSame(old, new, side, price) ==
  /\ LevelOf(new, side, price) = LevelOf(old, side, price)
  /\ \A n \in LevelOf(old, side, price) : new[n].quantity = old[n].quantity

(* A response says that something happened at this price. *)
Named(rs, order_type, side, price) ==
  \E i \in 1 .. Len(rs) :
    /\ rs[i].side = side /\ rs[i].price = price
    /\ \/ rs[i].type \in {"OrderCancelled", "OrderModified", "OrderModifyAccepted",
                          "OrderFilled", "OrderPartialFilled"}
       \/ rs[i].type = "OrderAccepted" /\ order_type = "Add"

LevelsNamed(old, new, rs, order_type) ==
  \A side \in Sides, price \in Int :
    Named(rs, order_type, side, price) \/ LevelSame(old, new, side, price)

(* The taker is what is left of the event. *)
LeftOf(o, e) ==
  /\ o.side = e.side /\ o.order_type = e.order_type /\ o.order_id = e.order_id
  /\ o.owner_id = e.owner_id /\ o.price = e.price

Done(b, e, c) ==
  /\ GoodBook(c)
  /\ AnswersFirst(c.responses, e)
  /\ SparesOthers(b.orders, c.orders, e)
  /\ Uncrossed(c.orders)
  /\ Balanced(c.responses)
  /\ LevelsNamed(b.orders, c.orders, c.responses, e.order_type)

Matching(b, e, c) ==
  /\ Done(b, e, c)
  /\ c.taker # Null /\ LeftOf(c.taker, e)
  /\ e.order_type \in {"Add", "Mod"} => Named(c.responses, e.order_type, e.side, e.price)

-----------------------------------------------------------------------------
(* A sequence of answers with two more, as after a trade. *)
LEMMA TwoMore ==
  ASSUME NEW R, NEW s \in Seq(R), NEW x \in R, NEW y \in R
  PROVE  LET t == s \o <<x, y>>
         IN /\ t = Append(Append(s, x), y)
            /\ t \in Seq(R) /\ Len(t) = Len(s) + 2 /\ Len(s) \in Nat
            /\ \A i \in 1 .. Len(s) : t[i] = s[i]
            /\ t[Len(s) + 1] = x /\ t[Len(s) + 2] = y
<1>1. s \o <<x, y>> = Append(Append(s, x), y)
  OBVIOUS
<1> QED BY <1>1

(* What is bought and paid is a number. *)
LEMMA UnitsTyped ==
  ASSUME NEW r \in Responses
  PROVE  Units(r) \in Int /\ Cost(r) \in Int
<1>1. r.quantity \in Int /\ r.price \in Int
  BY DEF Responses
<1>2. Units(r) \in Int
  BY <1>1 DEF Units
<1> QED BY <1>1, <1>2 DEF Cost

(* A sum over the answers grows by the last one's part. *)
LEMMA SumAppend ==
  ASSUME NEW n \in Nat, NEW f, NEW g, \A i \in 1 .. n : f[i] \in Int /\ g[i] = f[i],
         g[n + 1] \in Int
  PROVE  SumFunctionOnSet(g, 1 .. (n + 1)) = SumFunctionOnSet(f, 1 .. n) + g[n + 1]
<1> DEFINE S == 1 .. n
           z == n + 1
<1>1. IsFiniteSet(S)
  BY FS_Interval
<1>2. z \notin S /\ 1 .. (n + 1) = S \cup {z}
  OBVIOUS
<1>3. \A x \in S \cup {z} : g[x] \in Int
  OBVIOUS
<1>4. \A x \in S : f[x] = g[x]
  OBVIOUS
<1> HIDE DEF S, z
<1>5. SumFunctionOnSet(g, S \cup {z}) = SumFunctionOnSet(g, S) + g[z]
  BY <1>1, <1>2, <1>3, SumAdd
<1>6. SumFunctionOnSet(f, S) = SumFunctionOnSet(g, S)
  BY <1>1, <1>4, SumSame
<1> QED BY <1>2, <1>5, <1>6 DEF S, z

(* One more answer adds its units and its cost. *)
LEMMA BoughtAppend ==
  ASSUME NEW rs \in Seq(Responses), NEW r \in Responses
  PROVE  /\ Bought(rs) \in Int /\ Paid(rs) \in Int
         /\ Bought(Append(rs, r)) = Bought(rs) + Units(r)
         /\ Paid(Append(rs, r)) = Paid(rs) + Cost(r)
<1> DEFINE n == Len(rs)
           t == Append(rs, r)
           u == [i \in DOMAIN rs |-> Units(rs[i])]
           v == [i \in DOMAIN t |-> Units(t[i])]
           p == [i \in DOMAIN rs |-> Cost(rs[i])]
           q == [i \in DOMAIN t |-> Cost(t[i])]
<1>1. /\ n \in Nat /\ DOMAIN rs = 1 .. n /\ DOMAIN t = 1 .. (n + 1)
      /\ \A i \in 1 .. n : t[i] = rs[i] /\ rs[i] \in Responses
      /\ t[n + 1] = r
  OBVIOUS
<1>2. /\ \A i \in 1 .. n : u[i] \in Int /\ v[i] = u[i] /\ p[i] \in Int /\ q[i] = p[i]
      /\ v[n + 1] = Units(r) /\ q[n + 1] = Cost(r) /\ Units(r) \in Int /\ Cost(r) \in Int
  <2> HIDE DEF t, n
  <2> QED BY <1>1, UnitsTyped
<1> HIDE DEF n, t, u, v, p, q
<1>3. /\ SumFunctionOnSet(v, 1 .. (n + 1)) = SumFunctionOnSet(u, 1 .. n) + v[n + 1]
      /\ SumFunctionOnSet(q, 1 .. (n + 1)) = SumFunctionOnSet(p, 1 .. n) + q[n + 1]
  BY <1>1, <1>2, SumAppend
<1>4. SumFunctionOnSet(u, 1 .. n) \in Int /\ SumFunctionOnSet(p, 1 .. n) \in Int
  <2>1. IsFiniteSet(1 .. n)
    BY <1>1, FS_Interval
  <2> QED BY <1>2, <2>1, SumType
<1> QED BY <1>1, <1>2, <1>3, <1>4 DEF Bought, Paid, t, u, v, p, q

-----------------------------------------------------------------------------
(* A fill changes the maker's order and nobody else's, and adds the two    *)
(* reports of the trade.                                                   *)
LEMMA FillMoves ==
  ASSUME NEW c, GoodBook(c), c.taker # Null, c.taker.quantity > 0, NEW m \in DOMAIN c.orders
  PROVE  LET d == FillWith(c, m)
         IN /\ GoodBook(d) /\ d.taker # Null
            /\ LeftOf(d.taker, c.taker)
            /\ d.taker.quantity \in Int /\ d.taker.quantity < c.taker.quantity
            /\ DOMAIN d.orders \subseteq DOMAIN c.orders
            /\ \A n \in DOMAIN c.orders \ {m} : n \in DOMAIN d.orders /\ d.orders[n] = c.orders[n]
            /\ m \in DOMAIN d.orders =>
                 /\ d.orders[m].side = c.orders[m].side
                 /\ d.orders[m].price = c.orders[m].price
                 /\ d.orders[m].owner_id = c.orders[m].owner_id
            /\ d.responses = c.responses \o <<TakerReport(c, m), MakerReport(c, m)>>
<1> DEFINE d == FillWith(c, m)
           T == Traded(c, m)
<1>1. /\ c.orders[m] \in Orders /\ IsOrder(c.taker) /\ T \in Nat \ {0}
      /\ T <= c.taker.quantity /\ T <= c.orders[m].quantity
  BY TradeTypes
<1>2. /\ d.orders = IF c.orders[m].quantity = T THEN Without(c.orders, m)
                    ELSE Less(c.orders, m, T)
      /\ d.taker = [c.taker EXCEPT !.quantity = c.taker.quantity - T]
      /\ d.responses = c.responses \o <<TakerReport(c, m), MakerReport(c, m)>>
  BY FillIs DEF GoodBook
<1>3. GoodBook(d)
  BY FillGood
<1> HIDE DEF d, T
<1>4. /\ d.taker # Null /\ LeftOf(d.taker, c.taker)
      /\ d.taker.quantity \in Int /\ d.taker.quantity < c.taker.quantity
  <2>1. c.taker.quantity - T \in Int /\ c.taker.quantity - T < c.taker.quantity
    BY <1>1 DEF IsOrder
  <2>2. LET p == [c.taker EXCEPT !.quantity = c.taker.quantity - T]
        IN /\ IsOrder(p) /\ p.quantity = c.taker.quantity - T
           /\ p.side = c.taker.side /\ p.order_type = c.taker.order_type
           /\ p.order_id = c.taker.order_id
           /\ p.owner_id = c.taker.owner_id /\ p.price = c.taker.price
    BY <1>1, <2>1, TakerKept
  <2> QED BY <1>2, <2>1, <2>2 DEF LeftOf, IsOrder
<1>5. /\ DOMAIN d.orders \subseteq DOMAIN c.orders
      /\ \A n \in DOMAIN c.orders \ {m} : n \in DOMAIN d.orders /\ d.orders[n] = c.orders[n]
      /\ m \in DOMAIN d.orders =>
           /\ d.orders[m].side = c.orders[m].side
           /\ d.orders[m].price = c.orders[m].price
           /\ d.orders[m].owner_id = c.orders[m].owner_id
  <2>0. TypedOrders(c.orders) /\ Ranked(c.orders, c.before)
    BY DEF GoodBook
  <2>1. CASE c.orders[m].quantity = T
    <3>1. d.orders = Without(c.orders, m)
      BY <1>2, <2>1
    <3> QED BY <3>1 DEF Without
  <2>2. CASE c.orders[m].quantity # T
    <3>1. d.orders = Less(c.orders, m, T)
      BY <1>2, <2>2
    <3> QED BY <3>1 DEF Less
  <2> QED BY <2>1, <2>2
<1> QED BY <1>2, <1>3, <1>4, <1>5 DEF d

(* The two reports of a trade. *)
LEMMA ReportsBalance ==
  ASSUME NEW c, GoodBook(c), c.taker # Null, c.taker.quantity > 0, NEW m \in DOMAIN c.orders,
         c.orders[m].side = Opposite(c.taker.side)
  PROVE  LET x == TakerReport(c, m)
             y == MakerReport(c, m)
         IN /\ x \in Responses /\ y \in Responses
            /\ Units(x) + Units(y) = 0 /\ Cost(x) + Cost(y) = 0
            /\ y.side = c.orders[m].side /\ y.price = c.orders[m].price
            /\ y.type \in {"OrderFilled", "OrderPartialFilled"}
            /\ x.type \in {"OrderFilled", "OrderPartialFilled"}
            /\ x.quantity = Traded(c, m) /\ y.quantity = Traded(c, m)
            /\ x.owner_id = c.taker.owner_id /\ y.owner_id = c.orders[m].owner_id
            /\ x.side = c.taker.side
<1> DEFINE x == TakerReport(c, m)
           y == MakerReport(c, m)
           T == Traded(c, m)
<1>1. /\ c.orders[m] \in Orders /\ IsOrder(c.taker) /\ T \in Nat \ {0}
      /\ x \in Responses /\ y \in Responses
  BY TradeTypes
<1>2. /\ x.quantity = T /\ y.quantity = T
      /\ x.price = c.orders[m].price /\ y.price = c.orders[m].price
      /\ x.side = c.taker.side /\ y.side = c.orders[m].side
      /\ x.owner_id = c.taker.owner_id /\ y.owner_id = c.orders[m].owner_id
      /\ x.type \in {"OrderFilled", "OrderPartialFilled"}
      /\ y.type \in {"OrderFilled", "OrderPartialFilled"}
  BY DEF TakerReport, MakerReport, Fill
<1>3. c.taker.side \in Sides /\ c.orders[m].price \in Int
  BY <1>1 DEF IsOrder, Orders
<1> HIDE DEF x, y, T
<1>4. IsFill(x) /\ IsFill(y)
  BY <1>2 DEF IsFill
<1>5. \/ Units(x) = T /\ Units(y) = -T
      \/ Units(x) = -T /\ Units(y) = T
  BY <1>2, <1>3, <1>4 DEF Units, Opposite
<1>6. \A p, t \in Int : t * p + (-t) * p = 0 /\ (-t) * p + t * p = 0 /\ t + -t = 0
  OBVIOUS
<1>7. Units(x) + Units(y) = 0 /\ Cost(x) + Cost(y) = 0
  BY <1>1, <1>2, <1>3, <1>5, <1>6 DEF Cost
<1> QED BY <1>1, <1>2, <1>7 DEF x, y, T

(* What is known of a call outlives every fill. *)
LEMMA FillDone ==
  ASSUME NEW b, NEW e, NEW c, Matching(b, e, c), c.taker.quantity > 0,
         NEW m \in DOMAIN c.orders, c.orders[m].side = Opposite(c.taker.side)
  PROVE  Matching(b, e, FillWith(c, m))
<1> DEFINE d == FillWith(c, m)
           x == TakerReport(c, m)
           y == MakerReport(c, m)
<1>0. GoodBook(c) /\ c.taker # Null /\ IsOrder(c.taker) /\ LeftOf(c.taker, e)
      /\ c.taker.order_type # "Cancel"
  BY DEF Matching, Done, GoodBook, Engaged
<1>1. /\ GoodBook(d) /\ d.taker # Null /\ LeftOf(d.taker, c.taker)
      /\ DOMAIN d.orders \subseteq DOMAIN c.orders
      /\ \A n \in DOMAIN c.orders \ {m} : n \in DOMAIN d.orders /\ d.orders[n] = c.orders[n]
      /\ m \in DOMAIN d.orders =>
           d.orders[m].side = c.orders[m].side /\ d.orders[m].price = c.orders[m].price
      /\ d.responses = c.responses \o <<x, y>>
  BY <1>0, FillMoves
<1>2. /\ x \in Responses /\ y \in Responses
      /\ Units(x) + Units(y) = 0 /\ Cost(x) + Cost(y) = 0
      /\ y.side = c.orders[m].side /\ y.price = c.orders[m].price
      /\ y.type \in {"OrderFilled", "OrderPartialFilled"}
  BY <1>0, ReportsBalance
<1> HIDE DEF d, x, y
<1>3. /\ d.responses = Append(Append(c.responses, x), y)
      /\ d.responses \in Seq(Responses) /\ Len(d.responses) = Len(c.responses) + 2
      /\ Len(c.responses) \in Nat
      /\ \A i \in 1 .. Len(c.responses) : d.responses[i] = c.responses[i]
      /\ d.responses[Len(c.responses) + 2] = y
  <2>1. c.responses \in Seq(Responses)
    BY <1>0 DEF GoodBook
  <2> QED BY <1>1, <1>2, <2>1, TwoMore
<1>4. LeftOf(d.taker, e)
  BY <1>0, <1>1 DEF LeftOf
<1>5. AnswersFirst(d.responses, e)
  BY <1>3 DEF Matching, Done, AnswersFirst
<1>6. SparesOthers(b.orders, d.orders, e)
  <2> SUFFICES ASSUME NEW n \in DOMAIN b.orders, b.orders[n].owner_id # e.owner_id,
                      b.orders[n].side = e.side \/ e.order_type = "Cancel"
               PROVE  n \in DOMAIN d.orders /\ d.orders[n] = b.orders[n]
    BY DEF SparesOthers
  <2>1. n \in DOMAIN c.orders /\ c.orders[n] = b.orders[n]
    BY DEF Matching, Done, SparesOthers
  <2>2. b.orders[n].side = c.taker.side
    BY <1>0 DEF LeftOf
  <2>3. n # m
    BY <1>0, <2>1, <2>2 DEF IsOrder, Opposite
  <2> QED BY <1>1, <2>1, <2>3
<1>7. Uncrossed(d.orders)
  <2>1. \A n \in DOMAIN d.orders : /\ n \in DOMAIN c.orders
                                 /\ d.orders[n].side = c.orders[n].side
                                 /\ d.orders[n].price = c.orders[n].price
    BY <1>1
  <2> QED BY <2>1 DEF Matching, Done, Uncrossed
<1>8. Balanced(d.responses)
  <2>1. c.responses \in Seq(Responses) /\ Append(c.responses, x) \in Seq(Responses)
    BY <1>0, <1>2 DEF GoodBook
  <2>2. /\ Bought(d.responses) = (Bought(c.responses) + Units(x)) + Units(y)
        /\ Paid(d.responses) = (Paid(c.responses) + Cost(x)) + Cost(y)
    BY <1>2, <1>3, <2>1, BoughtAppend
  <2>3. Units(x) \in Int /\ Units(y) \in Int /\ Cost(x) \in Int /\ Cost(y) \in Int
    BY <1>2, UnitsTyped
  <2> QED BY <1>2, <2>2, <2>3 DEF Matching, Done, Balanced
<1>9. \A side, price : Named(c.responses, e.order_type, side, price)
                         => Named(d.responses, e.order_type, side, price)
  <2> SUFFICES ASSUME NEW side, NEW price, Named(c.responses, e.order_type, side, price)
               PROVE  Named(d.responses, e.order_type, side, price)
    OBVIOUS
  <2>1. PICK i \in 1 .. Len(c.responses) :
          /\ c.responses[i].side = side /\ c.responses[i].price = price
          /\ \/ c.responses[i].type \in {"OrderCancelled", "OrderModified",
                  "OrderModifyAccepted", "OrderFilled", "OrderPartialFilled"}
             \/ c.responses[i].type = "OrderAccepted" /\ e.order_type = "Add"
    BY DEF Named
  <2>2. i \in 1 .. Len(d.responses) /\ d.responses[i] = c.responses[i]
    BY <1>3
  <2> QED BY <2>1, <2>2 DEF Named
<1>10. Named(d.responses, e.order_type, c.orders[m].side, c.orders[m].price)
  <2>1. Len(c.responses) + 2 \in 1 .. Len(d.responses)
    BY <1>3
  <2> QED BY <1>2, <1>3, <2>1 DEF Named
<1>11. LevelsNamed(b.orders, d.orders, d.responses, e.order_type)
  <2> SUFFICES ASSUME NEW side \in Sides, NEW price \in Int,
                      ~Named(d.responses, e.order_type, side, price)
               PROVE  LevelSame(b.orders, d.orders, side, price)
    BY DEF LevelsNamed
  <2>1. LevelSame(b.orders, c.orders, side, price)
    BY <1>9 DEF Matching, Done, LevelsNamed
  <2>2. ~(c.orders[m].side = side /\ c.orders[m].price = price)
    BY <1>10
  <2>3. \A n : n \in LevelOf(d.orders, side, price) <=> n \in LevelOf(c.orders, side, price)
    BY <1>1, <2>2 DEF LevelOf
  <2>4. \A n \in LevelOf(c.orders, side, price) : n # m /\ d.orders[n] = c.orders[n]
    BY <1>1, <2>2 DEF LevelOf
  <2>5. LevelOf(d.orders, side, price) = LevelOf(c.orders, side, price)
    BY <2>3
  <2> QED BY <2>1, <2>4, <2>5 DEF LevelSame
<1>12. e.order_type \in {"Add", "Mod"} => Named(d.responses, e.order_type, e.side, e.price)
  BY <1>9 DEF Matching
<1> QED BY <1>1, <1>4, <1>5, <1>6, <1>7, <1>8, <1>11, <1>12 DEF Matching, Done, d

-----------------------------------------------------------------------------
(* The four outcomes of the first part of a call. *)
LEMMA SubmitIs ==
  ASSUME NEW b, NEW e, IsOrder(e)
  PROVE  LET id == e.order_id
             s == Submit(b, e)
         IN \/ \E type \in {"OrderRejected", "OrderCancelFailed", "OrderModifyFailed"} :
                 s = Reply(b, <<Echo(e, type)>>)
            \/ /\ e.order_type \in {"Add", "IOC", "Market"}
               /\ id \notin DOMAIN b.orders
               /\ s = Engage(b, e, <<Echo(e, "OrderAccepted")>>)
            \/ /\ e.order_type = "Cancel" /\ Owns(b, e)
               /\ s = Reply(Withdraw(b, id), <<Echo(Resting(b, id), "OrderCancelled")>>)
            \/ /\ e.order_type = "Mod" /\ Owns(b, e)
               /\ s = Engage(Withdraw(b, id), e, <<Echo(Resting(b, id), "OrderModified"),
                                                  Echo(e, "OrderModifyAccepted")>>)
<1>1. e.order_type \in {"Add", "Cancel", "Mod", "IOC", "Market"}
  BY DEF IsOrder, OrderTypes
<1>2. CASE e.order_type = "Add"
  BY <1>2 DEF Submit, SubmitAdd
<1>3. CASE e.order_type = "Cancel"
  BY <1>3 DEF Submit, SubmitCancel
<1>4. CASE e.order_type = "Mod"
  BY <1>4 DEF Submit, SubmitMod
<1>5. CASE e.order_type = "IOC"
  BY <1>5 DEF Submit, SubmitIOC
<1>6. CASE e.order_type = "Market"
  BY <1>6 DEF Submit, SubmitMarket
<1> QED BY <1>1, <1>2, <1>3, <1>4, <1>5, <1>6

(* Answers that report no trade balance. *)
LEMMA NoTradeBalances ==
  ASSUME NEW x \in Responses, NEW y \in Responses, ~IsFill(x), ~IsFill(y)
  PROVE  Balanced(<<x>>) /\ Balanced(<<x, y>>)
<1> DEFINE none == << >>
           one == <<x>>
           two == <<x, y>>
<1>1. none \in Seq(Responses) /\ one \in Seq(Responses)
      /\ one = Append(none, x) /\ two = Append(one, y) /\ DOMAIN none = {}
  OBVIOUS
<1>2. Units(x) = 0 /\ Units(y) = 0 /\ Cost(x) = 0 /\ Cost(y) = 0
  BY DEF Units, Cost, Responses
<1> HIDE DEF none, one, two
<1>3. Bought(none) = 0 /\ Paid(none) = 0
  BY <1>1, SumEmpty DEF Bought, Paid
<1>4. Bought(one) = 0 /\ Paid(one) = 0
  <2>1. Bought(one) = Bought(none) + Units(x) /\ Paid(one) = Paid(none) + Cost(x)
    BY <1>1, BoughtAppend
  <2> QED BY <1>2, <1>3, <2>1
<1>5. Bought(two) = 0 /\ Paid(two) = 0
  <2>1. Bought(two) = Bought(one) + Units(y) /\ Paid(two) = Paid(one) + Cost(y)
    BY <1>1, BoughtAppend
  <2> QED BY <1>2, <1>4, <2>1
<1> QED BY <1>4, <1>5 DEF Balanced, one, two

(* An echo of the submitter comes first and trades nothing. *)
LEMMA EchoFirst ==
  ASSUME NEW x \in Responses, NEW y \in Responses, ~IsFill(x), ~IsFill(y),
         NEW e, x.order_id = e.order_id, x.owner_id = e.owner_id
  PROVE  /\ AnswersFirst(<<x>>, e) /\ Balanced(<<x>>)
         /\ AnswersFirst(<<x, y>>, e) /\ Balanced(<<x, y>>)
<1>1. /\ Len(<<x>>) = 1 /\ <<x>>[1] = x
      /\ Len(<<x, y>>) = 2 /\ <<x, y>>[1] = x
  OBVIOUS
<1>2. AnswersFirst(<<x>>, e) /\ AnswersFirst(<<x, y>>, e)
  BY <1>1 DEF AnswersFirst
<1> QED BY <1>2, NoTradeBalances

(* What is known of a call after its first part. *)
LEMMA SubmitDone ==
  ASSUME NEW b, GoodBook(b), b.taker = Null, Uncrossed(b.orders), NEW e, IsOrder(e)
  PROVE  LET s == Submit(b, e)
         IN IF s.taker = Null THEN Done(b, e, s) ELSE Matching(b, e, s)
<1> DEFINE id == e.order_id
           s == Submit(b, e)
           w == Withdraw(b, id)
<1>1. GoodBook(s) /\ s.taker \in {Null, e} /\ e # Null /\ e.side \in Sides /\ e.price \in Int
  BY SubmitGood DEF IsOrder
<1>2. LeftOf(e, e)
  BY DEF LeftOf
<1>3. GoodBook(w) /\ w.taker = Null /\ DOMAIN w.orders = DOMAIN b.orders \ {id}
      /\ \A n \in DOMAIN b.orders \ {id} : w.orders[n] = b.orders[n]
  <2> HIDE DEF id
  <2> QED BY WithdrawGood
<1>4. \A type \in ResponseEvents :
        /\ Echo(e, type) \in Responses
        /\ id \in DOMAIN b.orders => Echo(Resting(b, id), type) \in Responses
  BY EchoTyped DEF GoodBook
<1>5. \A rs : /\ GoodBook(b) => /\ Reply(b, rs).orders = b.orders
                                /\ Reply(b, rs).responses = rs
                                /\ Engage(b, e, rs).orders = b.orders
                                /\ Engage(b, e, rs).responses = rs
                                /\ Reply(b, rs).taker = Null
                                /\ Engage(b, e, rs).taker = e
              /\ Reply(w, rs).orders = w.orders
              /\ Reply(w, rs).responses = rs
              /\ Engage(w, e, rs).orders = w.orders
              /\ Engage(w, e, rs).responses = rs
              /\ Reply(w, rs).taker = Null
              /\ Engage(w, e, rs).taker = e
  <2> HIDE DEF w
  <2> QED BY <1>3, EngageIs DEF GoodBook
<1>6. /\ SparesOthers(b.orders, b.orders, e)
      /\ \A rs : LevelsNamed(b.orders, b.orders, rs, e.order_type)
  BY DEF SparesOthers, LevelsNamed, LevelSame
<1> SUFFICES IF s.taker = Null THEN Done(b, e, s) ELSE Matching(b, e, s)
  OBVIOUS
<1> HIDE DEF s, w
<1>7. CASE s.orders = b.orders
           /\ \E type \in {"OrderRejected", "OrderCancelFailed", "OrderModifyFailed"} :
                s = Reply(b, <<Echo(e, type)>>)
  <2>1. PICK type \in {"OrderRejected", "OrderCancelFailed", "OrderModifyFailed"} :
               s = Reply(b, <<Echo(e, type)>>)
    BY <1>7
  <2> DEFINE x == Echo(e, type)
  <2>2. x \in Responses /\ ~IsFill(x) /\ x.order_id = e.order_id /\ x.owner_id = e.owner_id
    BY <1>4 DEF Echo, IsFill, ResponseEvents
  <2> HIDE DEF x
  <2>3. s.responses = <<x>> /\ s.taker = Null
    BY <1>5, <2>1 DEF x
  <2>4. AnswersFirst(s.responses, e) /\ Balanced(s.responses)
    BY <2>2, <2>3, EchoFirst
  <2> QED BY <1>1, <1>6, <1>7, <2>3, <2>4 DEF Done
<1>8. CASE /\ e.order_type \in {"Add", "IOC", "Market"}
           /\ s = Engage(b, e, <<Echo(e, "OrderAccepted")>>)
  <2> DEFINE x == Echo(e, "OrderAccepted")
  <2>2. x \in Responses /\ ~IsFill(x) /\ x.order_id = e.order_id /\ x.owner_id = e.owner_id
        /\ x.side = e.side /\ x.price = e.price /\ x.type = "OrderAccepted"
    BY <1>4 DEF Echo, IsFill, ResponseEvents
  <2> HIDE DEF x
  <2>3. s.responses = <<x>> /\ s.taker = e /\ s.orders = b.orders
    BY <1>5, <1>8 DEF x
  <2>4. AnswersFirst(s.responses, e) /\ Balanced(s.responses)
    BY <2>2, <2>3, EchoFirst
  <2>5. e.order_type \in {"Add", "Mod"} => Named(s.responses, e.order_type, e.side, e.price)
    <3>1. Len(<<x>>) = 1 /\ <<x>>[1] = x
      OBVIOUS
    <3> SUFFICES ASSUME e.order_type = "Add" PROVE Named(<<x>>, e.order_type, e.side, e.price)
      BY <1>8, <2>3
    <3> QED BY <2>2, <3>1 DEF Named
  <2> QED BY <1>1, <1>2, <1>6, <2>3, <2>4, <2>5 DEF Done, Matching
<1>9. CASE Owns(b, e) /\ e.order_type = "Cancel"
           /\ s = Reply(w, <<Echo(Resting(b, id), "OrderCancelled")>>)
  <2> DEFINE x == Echo(Resting(b, id), "OrderCancelled")
  <2>2. x \in Responses /\ ~IsFill(x) /\ x.order_id = e.order_id /\ x.owner_id = e.owner_id
        /\ x.side = b.orders[id].side /\ x.price = b.orders[id].price
        /\ x.type = "OrderCancelled"
    BY <1>4, <1>9 DEF Echo, IsFill, ResponseEvents, Resting, Owns
  <2> HIDE DEF x
  <2>3. s.responses = <<x>> /\ s.taker = Null /\ s.orders = w.orders
    BY <1>5, <1>9 DEF x
  <2>4. AnswersFirst(s.responses, e) /\ Balanced(s.responses)
    BY <2>2, <2>3, EchoFirst
  <2>5. SparesOthers(b.orders, s.orders, e) /\ Uncrossed(s.orders)
    BY <1>3, <1>9, <2>3 DEF SparesOthers, Uncrossed, Owns
  <2>6. LevelsNamed(b.orders, s.orders, s.responses, e.order_type)
    <3> SUFFICES ASSUME NEW side \in Sides, NEW price \in Int,
                        ~Named(<<x>>, e.order_type, side, price)
                 PROVE  LevelSame(b.orders, w.orders, side, price)
      BY <2>3 DEF LevelsNamed
    <3>1. ~(b.orders[id].side = side /\ b.orders[id].price = price)
      <4>1. Len(<<x>>) = 1 /\ <<x>>[1] = x
        OBVIOUS
      <4> QED BY <2>2, <4>1 DEF Named
    <3>2. \A n : n \in LevelOf(w.orders, side, price) <=> n \in LevelOf(b.orders, side, price)
      BY <1>3, <3>1 DEF LevelOf
    <3>3. \A n \in LevelOf(b.orders, side, price) : w.orders[n] = b.orders[n]
      BY <1>3, <3>1 DEF LevelOf
    <3>4. LevelOf(w.orders, side, price) = LevelOf(b.orders, side, price)
      BY <3>2
    <3> QED BY <3>3, <3>4 DEF LevelSame
  <2> QED BY <1>1, <2>3, <2>4, <2>5, <2>6 DEF Done
<1>10. CASE Owns(b, e) /\ e.order_type = "Mod"
            /\ s = Engage(w, e, <<Echo(Resting(b, id), "OrderModified"),
                                  Echo(e, "OrderModifyAccepted")>>)
  <2> DEFINE x == Echo(Resting(b, id), "OrderModified")
             y == Echo(e, "OrderModifyAccepted")
  <2>2. x \in Responses /\ ~IsFill(x) /\ x.order_id = e.order_id /\ x.owner_id = e.owner_id
        /\ x.side = b.orders[id].side /\ x.price = b.orders[id].price
        /\ x.type = "OrderModified"
    BY <1>4, <1>10 DEF Echo, IsFill, ResponseEvents, Resting, Owns
  <2>3. y \in Responses /\ ~IsFill(y) /\ y.side = e.side /\ y.price = e.price
        /\ y.type = "OrderModifyAccepted"
    BY <1>4 DEF Echo, IsFill, ResponseEvents
  <2> HIDE DEF x, y
  <2>4. s.responses = <<x, y>> /\ s.taker = e /\ s.orders = w.orders
    BY <1>5, <1>10 DEF x, y
  <2>5. Len(<<x, y>>) = 2 /\ <<x, y>>[1] = x /\ <<x, y>>[2] = y
    OBVIOUS
  <2>6. AnswersFirst(s.responses, e) /\ Balanced(s.responses)
    BY <2>2, <2>3, <2>4, EchoFirst
  <2>7. SparesOthers(b.orders, s.orders, e) /\ Uncrossed(s.orders)
    BY <1>3, <1>10, <2>4 DEF SparesOthers, Uncrossed, Owns
  <2>8. LevelsNamed(b.orders, s.orders, s.responses, e.order_type)
    <3> SUFFICES ASSUME NEW side \in Sides, NEW price \in Int,
                        ~Named(<<x, y>>, e.order_type, side, price)
                 PROVE  LevelSame(b.orders, w.orders, side, price)
      BY <2>4 DEF LevelsNamed
    <3>1. ~(b.orders[id].side = side /\ b.orders[id].price = price)
      BY <2>2, <2>5 DEF Named
    <3>2. \A n : n \in LevelOf(w.orders, side, price) <=> n \in LevelOf(b.orders, side, price)
      BY <1>3, <3>1 DEF LevelOf
    <3>3. \A n \in LevelOf(b.orders, side, price) : w.orders[n] = b.orders[n]
      BY <1>3, <3>1 DEF LevelOf
    <3>4. LevelOf(w.orders, side, price) = LevelOf(b.orders, side, price)
      BY <3>2
    <3> QED BY <3>3, <3>4 DEF LevelSame
  <2>9. Named(s.responses, e.order_type, e.side, e.price)
    BY <2>3, <2>4, <2>5 DEF Named
  <2> QED BY <1>1, <1>2, <2>4, <2>6, <2>7, <2>8, <2>9 DEF Done, Matching
<1> QED
  <2>1. \A rs : Reply(b, rs).orders = b.orders
    BY <1>5
  <2> QED BY <1>7, <1>8, <1>9, <1>10, <2>1, SubmitIs DEF s, w

-----------------------------------------------------------------------------
(* A response more, which reports no trade, leaves what is known.          *)
LEMMA AnswerDone ==
  ASSUME NEW e, NEW old, NEW new, NEW rs \in Seq(Responses), NEW x \in Responses,
         ~IsFill(x), AnswersFirst(rs, e), Balanced(rs),
         LevelsNamed(old, new, rs, e.order_type)
  PROVE  LET t == Append(rs, x)
         IN AnswersFirst(t, e) /\ Balanced(t) /\ LevelsNamed(old, new, t, e.order_type)
<1> DEFINE t == Append(rs, x)
<1>1. /\ Len(t) = Len(rs) + 1 /\ Len(rs) \in Nat
      /\ \A i \in 1 .. Len(rs) : t[i] = rs[i]
  OBVIOUS
<1>2. Balanced(t)
  <2>1. /\ Bought(t) = Bought(rs) + Units(x) /\ Paid(t) = Paid(rs) + Cost(x)
    BY BoughtAppend
  <2>2. Units(x) = 0 /\ Cost(x) = 0
    BY DEF Units, Cost, Responses
  <2> HIDE DEF t
  <2> QED BY <2>1, <2>2 DEF Balanced
<1> HIDE DEF t
<1>3. AnswersFirst(t, e)
  BY <1>1 DEF AnswersFirst
<1>4. \A side, price : Named(rs, e.order_type, side, price)
                         => Named(t, e.order_type, side, price)
  <2> SUFFICES ASSUME NEW side, NEW price, Named(rs, e.order_type, side, price)
               PROVE  Named(t, e.order_type, side, price)
    OBVIOUS
  <2>1. PICK i \in 1 .. Len(rs) :
          /\ rs[i].side = side /\ rs[i].price = price
          /\ \/ rs[i].type \in {"OrderCancelled", "OrderModified",
                  "OrderModifyAccepted", "OrderFilled", "OrderPartialFilled"}
             \/ rs[i].type = "OrderAccepted" /\ e.order_type = "Add"
    BY DEF Named
  <2>2. i \in 1 .. Len(t) /\ t[i] = rs[i]
    BY <1>1
  <2> QED BY <2>1, <2>2 DEF Named
<1>5. LevelsNamed(old, new, t, e.order_type)
  BY <1>4 DEF LevelsNamed
<1> QED BY <1>2, <1>3, <1>5 DEF t

(* An order that cannot trade may rest.                                    *)
LEMMA RestUncrossed ==
  ASSUME NEW b, GoodBook(b), b.taker # Null, ~CanFill(b), Uncrossed(b.orders),
         b.taker.quantity > 0, b.taker.order_type # "Market"
  PROVE  Uncrossed(With(b.orders, b.taker.order_id, Rested(b.taker)))
<1> DEFINE o == b.taker
           new == With(b.orders, o.order_id, Rested(o))
<1>1. /\ o.order_id \notin DOMAIN b.orders /\ o.side \in Sides /\ o.price \in Int
      /\ \A n \in DOMAIN b.orders : b.orders[n].price \in Int /\ b.orders[n].side \in Sides
  BY DEF GoodBook, Engaged, IsOrder, TypedOrders, Orders
<1>2. \A n \in DOMAIN b.orders :
        b.orders[n].side = Opposite(o.side) => ~Crosses(o, b.orders[n].price)
  BY DEF CanFill
<1>3. /\ DOMAIN new = DOMAIN b.orders \cup {o.order_id}
      /\ new[o.order_id].side = o.side /\ new[o.order_id].price = o.price
      /\ \A n \in DOMAIN b.orders : new[n] = b.orders[n]
  BY <1>1 DEF With, Rested
<1> HIDE DEF new
<1>4. SUFFICES ASSUME NEW m \in DOMAIN new, NEW n \in DOMAIN new,
                      new[m].side = "Buy", new[n].side = "Sell"
               PROVE  new[m].price < new[n].price
  BY DEF Uncrossed, new
<1>5. CASE m \in DOMAIN b.orders /\ n \in DOMAIN b.orders
  BY <1>3, <1>4, <1>5 DEF Uncrossed
<1>6. CASE m = o.order_id /\ n \in DOMAIN b.orders
  BY <1>1, <1>2, <1>3, <1>4, <1>6 DEF Crosses, Opposite
<1>7. CASE m \in DOMAIN b.orders /\ n = o.order_id
  BY <1>1, <1>2, <1>3, <1>4, <1>7 DEF Crosses, Opposite
<1> QED BY <1>3, <1>4, <1>5, <1>6, <1>7

(* What is known of a call at its end.                                     *)
LEMMA FinishDone ==
  ASSUME NEW b, NEW e, NEW c, Matching(b, e, c), ~CanFill(c)
  PROVE  Done(b, e, Finish(c)) /\ Finish(c).taker = Null
<1> DEFINE o == c.taker
           f == Finish(c)
<1>1. /\ GoodBook(c) /\ o # Null /\ IsOrder(o) /\ LeftOf(o, e)
      /\ o.order_id \notin DOMAIN c.orders
      /\ AnswersFirst(c.responses, e) /\ SparesOthers(b.orders, c.orders, e)
      /\ Uncrossed(c.orders) /\ Balanced(c.responses)
      /\ LevelsNamed(b.orders, c.orders, c.responses, e.order_type)
      /\ c.responses \in Seq(Responses)
      /\ e.order_type \in {"Add", "Mod"} => Named(c.responses, e.order_type, e.side, e.price)
  BY DEF Matching, Done, GoodBook, Engaged
<1>2. GoodBook(f) /\ f.taker = Null
  BY <1>1, FinishGood
<1>3. \/ f.orders = c.orders /\ f.responses = c.responses
      \/ /\ o.quantity > 0 /\ o.order_type \in {"Add", "Mod"}
         /\ f.orders = With(c.orders, o.order_id, Rested(o))
         /\ f.responses = c.responses
      \/ /\ f.orders = c.orders
         /\ f.responses = Append(c.responses, Echo(o, "OrderExpired"))
  BY <1>1, FinishIs DEF Rested
<1> HIDE DEF f, o
<1>4. CASE f.orders = c.orders /\ f.responses = c.responses
  BY <1>1, <1>2, <1>4 DEF Done, f
<1>5. CASE /\ f.orders = c.orders
           /\ f.responses = Append(c.responses, Echo(o, "OrderExpired"))
  <2> DEFINE x == Echo(o, "OrderExpired")
  <2>1. x \in Responses
    BY <1>1, EchoTyped DEF ResponseEvents
  <2>2. ~IsFill(x)
    BY DEF IsFill, Echo
  <2> HIDE DEF x
  <2>3. /\ AnswersFirst(Append(c.responses, x), e) /\ Balanced(Append(c.responses, x))
        /\ LevelsNamed(b.orders, c.orders, Append(c.responses, x), e.order_type)
    BY <1>1, <2>1, <2>2, AnswerDone
  <2> QED BY <1>1, <1>2, <1>5, <2>3 DEF Done, f, x
<1>6. CASE /\ o.quantity > 0 /\ o.order_type \in {"Add", "Mod"}
           /\ f.orders = With(c.orders, o.order_id, Rested(o))
           /\ f.responses = c.responses
  <2>1. /\ DOMAIN f.orders = DOMAIN c.orders \cup {o.order_id}
        /\ \A n \in DOMAIN c.orders : f.orders[n] = c.orders[n]
        /\ f.orders[o.order_id].side = e.side /\ f.orders[o.order_id].price = e.price
    BY <1>1, <1>6 DEF With, Rested, LeftOf
  <2>2. SparesOthers(b.orders, f.orders, e)
    BY <1>1, <2>1 DEF SparesOthers
  <2>3. Uncrossed(f.orders)
    BY <1>1, <1>6, RestUncrossed DEF o
  <2>4. Named(f.responses, e.order_type, e.side, e.price)
    BY <1>1, <1>6 DEF LeftOf
  <2>5. LevelsNamed(b.orders, f.orders, f.responses, e.order_type)
    <3> SUFFICES ASSUME NEW side \in Sides, NEW price \in Int,
                        ~Named(f.responses, e.order_type, side, price)
                 PROVE  LevelSame(b.orders, f.orders, side, price)
      BY DEF LevelsNamed
    <3>1. LevelSame(b.orders, c.orders, side, price)
      BY <1>1, <1>6 DEF LevelsNamed
    <3>2. \A n : n \in LevelOf(f.orders, side, price) <=> n \in LevelOf(c.orders, side, price)
      BY <2>1, <2>4 DEF LevelOf
    <3>3. \A n \in LevelOf(c.orders, side, price) : f.orders[n] = c.orders[n]
      BY <2>1 DEF LevelOf
    <3>4. LevelOf(f.orders, side, price) = LevelOf(c.orders, side, price)
      BY <3>2
    <3> QED BY <3>1, <3>3, <3>4 DEF LevelSame
  <2> QED BY <1>1, <1>2, <1>6, <2>2, <2>3, <2>5 DEF Done, f
<1> QED BY <1>3, <1>4, <1>5, <1>6

(* Every round of the loop makes a fill, of a unit at least, or finds none *)
(* to make.                                                                *)
LEMMA RoundDone ==
  ASSUME NEW b, NEW e, NEW c, Matching(b, e, c), NEW left \in Int,
         c.taker.quantity <= left \/ ~CanFill(c)
  PROVE  /\ Matching(b, e, FillNext(c))
         /\ FillNext(c).taker.quantity <= left - 1 \/ ~CanFill(FillNext(c))
<1>1. GoodBook(c)
  BY DEF Matching, Done
<1>2. CASE ~CanFill(c)
  BY <1>2 DEF FillNext
<1>3. CASE CanFill(c)
  <2>1. PICK m : /\ IsNextMaker(c, Opposite(c.taker.side), m)
                 /\ FillNext(c) = FillWith(c, m)
                 /\ c.taker # Null /\ c.taker.quantity > 0
    BY <1>1, <1>3, FillNextIs
  <2>2. m \in DOMAIN c.orders /\ c.orders[m].side = Opposite(c.taker.side)
    BY <2>1 DEF IsNextMaker
  <2>3. Matching(b, e, FillWith(c, m))
    BY <2>1, <2>2, FillDone
  <2>4. FillWith(c, m).taker.quantity = c.taker.quantity - Traded(c, m)
    <3>1. FillWith(c, m).taker = [c.taker EXCEPT !.quantity = c.taker.quantity - Traded(c, m)]
      BY <1>1, FillIs DEF GoodBook
    <3>2. "quantity" \in DOMAIN c.taker
      BY <1>1, <2>1 DEF GoodBook, Engaged, IsOrder
    <3> QED BY <3>1, <3>2
  <2>5. Traded(c, m) \in Nat \ {0} /\ c.taker.quantity \in Int
    BY <1>1, <2>1, <2>2, TradeTypes DEF IsOrder
  <2> QED BY <1>3, <2>1, <2>3, <2>4, <2>5
<1> QED BY <1>2, <1>3

(* After k rounds at least k units are traded, or no more can be.          *)
LEMMA MatchedDone ==
  ASSUME NEW b, NEW e, NEW s, Matching(b, e, s), e.quantity \in Int,
         s.taker.quantity <= e.quantity
  PROVE  \A k \in Nat :
           /\ Matching(b, e, Matched(s, k))
           /\ Matched(s, k).taker.quantity <= e.quantity - k \/ ~CanFill(Matched(s, k))
<1> DEFINE P == {k \in Nat :
                   /\ Matching(b, e, Matched(s, k))
                   /\ \/ Matched(s, k).taker.quantity <= e.quantity - k
                      \/ ~CanFill(Matched(s, k))}
<1>1. 0 \in P
  BY MatchedNone
<1>2. ASSUME NEW k \in Nat, k \in P
      PROVE  k + 1 \in P
  <2> DEFINE c == Matched(s, k)
  <2>1. Matching(b, e, c) /\ (c.taker.quantity <= e.quantity - k \/ ~CanFill(c))
    BY <1>2
  <2>2. Matched(s, k + 1) = FillNext(c)
    BY MatchedNext
  <2>3. /\ Matching(b, e, FillNext(c))
        /\ FillNext(c).taker.quantity <= (e.quantity - k) - 1 \/ ~CanFill(FillNext(c))
    <3>1. e.quantity - k \in Int
      OBVIOUS
    <3> HIDE DEF c
    <3> QED BY <2>1, <3>1, RoundDone
  <2>4. (e.quantity - k) - 1 = e.quantity - (k + 1)
    OBVIOUS
  <2> HIDE DEF c
  <2> QED BY <2>2, <2>3, <2>4
<1> HIDE DEF P
<1>3. Nat \subseteq P
  BY <1>1, <1>2, NatSet
<1> QED BY <1>3 DEF P

(* A whole call of ProcessOrder, on any book it may find: the event is     *)
(* answered first, other owners' orders on its side are spared, the book   *)
(* is not left crossed, the trades balance and every level that changed is *)
(* named.                                                                  *)
THEOREM CallDone ==
  ASSUME NEW b, GoodBook(b), b.taker = Null, Uncrossed(b.orders), NEW e, IsOrder(e)
  PROVE  Done(b, e, ProcessOrder(b, e)) /\ ProcessOrder(b, e).taker = Null
<1> DEFINE s == Submit(b, e)
           n == Rounds(e)
           c == Matched(s, n)
<1>1. IF s.taker = Null THEN Done(b, e, s) ELSE Matching(b, e, s)
  BY SubmitDone
<1>2. s.taker \in {Null, e} /\ e.quantity \in Int
  BY SubmitGood DEF IsOrder
<1> HIDE DEF s
<1>3. n \in Nat /\ ProcessOrder(b, e) = IF s.taker = Null THEN s ELSE Finish(c)
  BY <1>2, CallRounds DEF s
<1>4. CASE s.taker = Null
  BY <1>1, <1>3, <1>4
<1>5. CASE s.taker # Null
  <2>1. Matching(b, e, s) /\ s.taker.quantity <= e.quantity
    BY <1>1, <1>2, <1>5
  <2>2. Matching(b, e, c) /\ (c.taker.quantity <= e.quantity - n \/ ~CanFill(c))
    BY <1>2, <1>3, <2>1, MatchedDone
  <2>3. ~CanFill(c)
    <3>1. c.taker.quantity \in Int
      BY <2>2 DEF Matching, Done, GoodBook, Engaged, IsOrder
    <3>2. e.quantity - n <= 0
      BY <1>2 DEF Rounds
    <3> HIDE DEF c, n
    <3> QED BY <1>2, <1>3, <2>2, <3>1, <3>2 DEF CanFill
  <2> HIDE DEF c
  <2> QED BY <1>3, <1>5, <2>2, <2>3, FinishDone
<1> QED BY <1>4, <1>5

-----------------------------------------------------------------------------
(* Owner w has no order in the book, resting or being matched, and no part *)
(* in the answers.                                                         *)
NotTold(rs, w) == \A i \in 1 .. Len(rs) : rs[i].owner_id # w

NotResting(orders, w) == \A n \in DOMAIN orders : orders[n].owner_id # w

Stranger(c, w) ==
  /\ NotResting(c.orders, w)
  /\ NotTold(c.responses, w)
  /\ c.taker # Null => c.taker.owner_id # w

(* A trade is between the owners of the two orders. *)
LEMMA FillOwners ==
  ASSUME NEW b, GoodBook(b), b.taker # Null, b.taker.quantity > 0, NEW m \in DOMAIN b.orders,
         NEW w, NotResting(b.orders, w)
  PROVE  /\ NotResting(FillWith(b, m).orders, w)
         /\ MakerReport(b, m).owner_id # w
         /\ TakerReport(b, m).owner_id = b.taker.owner_id
         /\ FillWith(b, m).taker.owner_id = b.taker.owner_id
<1> DEFINE c == FillWith(b, m)
           T == Traded(b, m)
<1>1. IsOrder(b.taker) /\ TypedOrders(b.orders)
  BY TradeTypes DEF GoodBook
<1>2. /\ c.orders = IF b.orders[m].quantity = T THEN Without(b.orders, m)
                    ELSE Less(b.orders, m, T)
      /\ c.taker = [b.taker EXCEPT !.quantity = b.taker.quantity - T]
  BY FillIs DEF GoodBook
<1> HIDE DEF c, T
<1>3. NotResting(c.orders, w)
  <2>1. NotResting(Without(b.orders, m), w)
    BY DEF NotResting, Without
  <2>2. NotResting(Less(b.orders, m, T), w)
    BY <1>1 DEF NotResting, Less, TypedOrders, Orders
  <2> QED BY <1>2, <2>1, <2>2
<1>4. c.taker.owner_id = b.taker.owner_id
  BY <1>1, <1>2 DEF IsOrder
<1>5. /\ MakerReport(b, m).owner_id = b.orders[m].owner_id
      /\ TakerReport(b, m).owner_id = b.taker.owner_id
  BY DEF MakerReport, TakerReport, Fill
<1> QED BY <1>3, <1>4, <1>5 DEF NotResting, c

(* A fill between others leaves w out. *)
LEMMA FillStranger ==
  ASSUME NEW b, GoodBook(b), b.taker # Null, b.taker.quantity > 0, NEW m \in DOMAIN b.orders,
         NEW w, Stranger(b, w)
  PROVE  Stranger(FillWith(b, m), w)
<1> DEFINE c == FillWith(b, m)
           x == TakerReport(b, m)
           y == MakerReport(b, m)
           rs == b.responses
<1>1. /\ NotResting(b.orders, w) /\ NotTold(rs, w) /\ b.taker.owner_id # w
      /\ rs \in Seq(Responses)
  BY DEF Stranger, GoodBook
<1>2. /\ NotResting(c.orders, w) /\ y.owner_id # w /\ x.owner_id # w
      /\ c.taker.owner_id # w
  BY <1>1, FillOwners
<1>3. c.responses = rs \o <<x, y>> /\ x \in Responses /\ y \in Responses
  BY FillIs, TradeTypes DEF GoodBook
<1> HIDE DEF c, x, y, rs
<1>4. NotTold(rs \o <<x, y>>, w)
  BY <1>1, <1>2, <1>3, TwoMore DEF NotTold
<1> QED BY <1>2, <1>3, <1>4 DEF Stranger, c

(* So does the first part of a call by somebody else. *)
LEMMA SubmitStranger ==
  ASSUME NEW b, GoodBook(b), b.taker = Null, NEW e, IsOrder(e),
         NEW w, NotResting(b.orders, w), e.owner_id # w
  PROVE  Stranger(Submit(b, e), w)
<1> DEFINE id == e.order_id
           s == Submit(b, e)
<1>1. Formed(b) /\ \A type : Echo(e, type).owner_id # w
  BY DEF GoodBook, Echo
<1>2. \A x, y : x.owner_id # w /\ y.owner_id # w => NotTold(<<x>>, w) /\ NotTold(<<x, y>>, w)
  BY DEF NotTold
<1>3. Owns(b, e) => \A type : Echo(Resting(b, id), type).owner_id # w
  BY DEF Owns, Echo, Resting
<1>4. /\ Formed(Withdraw(b, id)) /\ Withdraw(b, id).orders = Without(b.orders, id)
      /\ Withdraw(b, id).taker = Null /\ NotResting(Withdraw(b, id).orders, w)
  <2>1. NotResting(Without(b.orders, id), w)
    BY DEF NotResting, Without
  <2> QED BY <1>1, <2>1, WithdrawIs
<1>5. ASSUME NEW d, Formed(d), d.taker = Null, NotResting(d.orders, w),
             NEW rs, NotTold(rs, w)
      PROVE  Stranger(Reply(d, rs), w) /\ Stranger(Engage(d, e, rs), w)
  <2>1. /\ Engage(d, e, rs).orders = d.orders /\ Reply(d, rs).orders = d.orders
        /\ Engage(d, e, rs).taker = e /\ Reply(d, rs).taker = d.taker
        /\ Engage(d, e, rs).responses = rs /\ Reply(d, rs).responses = rs
    BY <1>5, EngageIs
  <2> QED BY <1>5, <2>1 DEF Stranger
<1>6. CASE \E type \in {"OrderRejected", "OrderCancelFailed", "OrderModifyFailed"} :
             s = Reply(b, <<Echo(e, type)>>)
  BY <1>1, <1>2, <1>5, <1>6
<1>7. CASE s = Engage(b, e, <<Echo(e, "OrderAccepted")>>)
  BY <1>1, <1>2, <1>5, <1>7
<1>8. CASE Owns(b, e) /\ s = Reply(Withdraw(b, id), <<Echo(Resting(b, id), "OrderCancelled")>>)
  BY <1>2, <1>3, <1>4, <1>5, <1>8
<1>9. CASE Owns(b, e) /\ s = Engage(Withdraw(b, id), e,
                                    <<Echo(Resting(b, id), "OrderModified"),
                                      Echo(e, "OrderModifyAccepted")>>)
  BY <1>1, <1>2, <1>3, <1>4, <1>5, <1>9
<1>10. \/ \E type \in {"OrderRejected", "OrderCancelFailed", "OrderModifyFailed"} :
            s = Reply(b, <<Echo(e, type)>>)
       \/ s = Engage(b, e, <<Echo(e, "OrderAccepted")>>)
       \/ Owns(b, e) /\ s = Reply(Withdraw(b, id), <<Echo(Resting(b, id), "OrderCancelled")>>)
       \/ Owns(b, e) /\ s = Engage(Withdraw(b, id), e,
                                   <<Echo(Resting(b, id), "OrderModified"),
                                     Echo(e, "OrderModifyAccepted")>>)
  BY SubmitIs
<1>11. Stranger(s, w)
  BY <1>6, <1>7, <1>8, <1>9, <1>10
<1> QED BY <1>11

(* And its end. *)
LEMMA FinishStranger ==
  ASSUME NEW b, GoodBook(b), b.taker # Null, NEW w, Stranger(b, w)
  PROVE  Stranger(Finish(b), w)
<1> DEFINE o == b.taker
           f == Finish(b)
<1>1. /\ NotResting(b.orders, w) /\ NotTold(b.responses, w) /\ o.owner_id # w
      /\ b.responses \in Seq(Responses) /\ IsOrder(o)
  BY DEF Stranger, GoodBook, Engaged
<1>2. NotResting(With(b.orders, o.order_id, [side |-> o.side, owner_id |-> o.owner_id,
                                             price |-> o.price, quantity |-> o.quantity]), w)
  BY <1>1 DEF NotResting, With
<1>3. NotTold(Append(b.responses, Echo(o, "OrderExpired")), w)
  <2> DEFINE x == Echo(o, "OrderExpired")
  <2>1. x \in Responses /\ x.owner_id # w
    BY <1>1, EchoTyped DEF ResponseEvents, Echo
  <2> HIDE DEF x
  <2>2. ASSUME NEW rs \in Seq(Responses), NotTold(rs, w)
        PROVE  NotTold(Append(rs, x), w)
    <3>1. /\ Len(Append(rs, x)) = Len(rs) + 1 /\ Len(rs) \in Nat
          /\ \A i \in 1 .. Len(rs) : Append(rs, x)[i] = rs[i]
          /\ Append(rs, x)[Len(rs) + 1] = x
      BY <2>1
    <3> DEFINE t == Append(rs, x)
    <3> HIDE DEF t
    <3>2. \A i \in 1 .. Len(t) : t[i].owner_id # w
      BY <2>1, <2>2, <3>1 DEF NotTold, t
    <3> QED BY <3>2 DEF NotTold, t
  <2> QED BY <1>1, <2>2 DEF x
<1>4. NotResting(f.orders, w) /\ NotTold(f.responses, w) /\ f.taker = Null
  <2> HIDE DEF f
  <2> QED BY <1>1, <1>2, <1>3, FinishIs DEF f
<1> QED BY <1>4 DEF Stranger

(* A call by somebody else, on a book where w has no order, leaves w none  *)
(* and tells w nothing.                                                    *)
THEOREM CallStranger ==
  ASSUME NEW b, GoodBook(b), b.taker = Null, Uncrossed(b.orders), NEW e, IsOrder(e),
         NEW w, NotResting(b.orders, w), e.owner_id # w
  PROVE  /\ NotResting(ProcessOrder(b, e).orders, w)
         /\ NotTold(ProcessOrder(b, e).responses, w)
<1> DEFINE s == Submit(b, e)
           n == Rounds(e)
<1>1. IF s.taker = Null THEN Done(b, e, s) ELSE Matching(b, e, s)
  BY SubmitDone
<1>2. s.taker \in {Null, e} /\ e.quantity \in Int
  BY SubmitGood DEF IsOrder
<1>3. Stranger(s, w)
  BY SubmitStranger
<1> HIDE DEF s
<1>4. n \in Nat /\ ProcessOrder(b, e) = IF s.taker = Null THEN s ELSE Finish(Matched(s, n))
  BY <1>2, CallRounds DEF s
<1>5. CASE s.taker = Null
  BY <1>3, <1>4, <1>5 DEF Stranger
<1>6. CASE s.taker # Null
  <2>1. Matching(b, e, s) /\ s.taker.quantity <= e.quantity
    BY <1>1, <1>2, <1>6
  <2>2. \A k \in Nat : Matching(b, e, Matched(s, k))
    BY <1>2, <2>1, MatchedDone
  <2> DEFINE P == {k \in Nat : Stranger(Matched(s, k), w)}
  <2>3. 0 \in P
    BY <1>3, MatchedNone
  <2>4. ASSUME NEW k \in Nat, k \in P PROVE k + 1 \in P
    <3> DEFINE c == Matched(s, k)
    <3>1. GoodBook(c) /\ Stranger(c, w)
      BY <2>2, <2>4 DEF Matching, Done
    <3>2. Matched(s, k + 1) = FillNext(c)
      BY MatchedNext
    <3> HIDE DEF c
    <3>3. Stranger(FillNext(c), w)
      <4>1. CASE FillNext(c) = c
        BY <3>1, <4>1
      <4>2. CASE /\ c.taker # Null /\ c.taker.quantity > 0
                 /\ \E m \in DOMAIN c.orders : FillNext(c) = FillWith(c, m)
        BY <3>1, <4>2, FillStranger
      <4> QED BY <3>1, <4>1, <4>2, FillNextIs DEF IsNextMaker
    <3> QED BY <3>2, <3>3
  <2> HIDE DEF P
  <2>5. Nat \subseteq P
    BY <2>3, <2>4, NatSet
  <2>6. Stranger(Matched(s, n), w) /\ Matching(b, e, Matched(s, n))
    BY <1>4, <2>2, <2>5 DEF P
  <2> DEFINE c == Matched(s, n)
  <2>7. Stranger(c, w) /\ GoodBook(c) /\ c.taker # Null
    BY <2>6 DEF Matching, Done
  <2> HIDE DEF c
  <2>8. Stranger(Finish(c), w)
    BY <2>7, FinishStranger
  <2> QED BY <1>4, <1>6, <2>8 DEF Stranger, c
<1> QED BY <1>5, <1>6

-----------------------------------------------------------------------------
(* Every order in a book was there before the call, of the same owner, or  *)
(* is the event's own.                                                     *)
NoneFromElsewhere(old, new, e) ==
  \A n \in DOMAIN new :
    \/ n = e.order_id /\ new[n].owner_id = e.owner_id
    \/ n \in DOMAIN old /\ new[n].owner_id = old[n].owner_id

(* A fill moves no order to another id or owner. *)
LEMMA FillFromThere ==
  ASSUME NEW b, GoodBook(b), b.taker # Null, b.taker.quantity > 0, NEW m \in DOMAIN b.orders,
         NEW old, NEW e, NoneFromElsewhere(old, b.orders, e)
  PROVE  NoneFromElsewhere(old, FillWith(b, m).orders, e)
<1> DEFINE c == FillWith(b, m)
           T == Traded(b, m)
<1>1. TypedOrders(b.orders)
  BY DEF GoodBook
<1>2. c.orders = IF b.orders[m].quantity = T THEN Without(b.orders, m) ELSE Less(b.orders, m, T)
  BY FillIs DEF GoodBook
<1> HIDE DEF c, T
<1>3. NoneFromElsewhere(old, Without(b.orders, m), e)
  BY DEF NoneFromElsewhere, Without
<1>4. NoneFromElsewhere(old, Less(b.orders, m, T), e)
  BY <1>1 DEF NoneFromElsewhere, Less, TypedOrders, Orders
<1> QED BY <1>2, <1>3, <1>4 DEF c

(* The first part of a call may remove an order, no more. *)
LEMMA SubmitFromThere ==
  ASSUME NEW b, GoodBook(b), NEW e, IsOrder(e)
  PROVE  NoneFromElsewhere(b.orders, Submit(b, e).orders, e)
<1> DEFINE id == e.order_id
           s == Submit(b, e)
<1>1. Formed(b) /\ Formed(Withdraw(b, id)) /\ Withdraw(b, id).orders = Without(b.orders, id)
  BY WithdrawIs DEF GoodBook
<1>2. ASSUME NEW d, Formed(d), NEW rs
      PROVE  Reply(d, rs).orders = d.orders /\ Engage(d, e, rs).orders = d.orders
  BY <1>2, EngageIs
<1>3. \/ \E rs : s = Reply(b, rs) \/ s = Engage(b, e, rs)
      \/ \E rs : s = Reply(Withdraw(b, id), rs) \/ s = Engage(Withdraw(b, id), e, rs)
  BY SubmitIs
<1>4. /\ NoneFromElsewhere(b.orders, b.orders, e)
      /\ NoneFromElsewhere(b.orders, Without(b.orders, id), e)
  BY DEF NoneFromElsewhere, Without
<1> HIDE DEF s
<1>5. s.orders = b.orders \/ s.orders = Without(b.orders, id)
  BY <1>1, <1>2, <1>3
<1> QED BY <1>4, <1>5 DEF s

(* What rests at the end of a call is what is left of the event. *)
LEMMA FinishFromThere ==
  ASSUME NEW b, GoodBook(b), b.taker # Null, NEW e, LeftOf(b.taker, e),
         NEW old, NoneFromElsewhere(old, b.orders, e)
  PROVE  NoneFromElsewhere(old, Finish(b).orders, e)
<1> DEFINE o == b.taker
           f == Finish(b)
<1>1. f.orders \in {b.orders, With(b.orders, o.order_id,
                                  [side |-> o.side, owner_id |-> o.owner_id,
                                   price |-> o.price, quantity |-> o.quantity])}
  BY FinishIs
<1>2. NoneFromElsewhere(old, With(b.orders, o.order_id,
                                  [side |-> o.side, owner_id |-> o.owner_id,
                                   price |-> o.price, quantity |-> o.quantity]), e)
  BY DEF NoneFromElsewhere, With, LeftOf
<1> QED BY <1>1, <1>2

(* The only order that a call can bring into a book has the id and the     *)
(* owner of its event; every other was in the book, of the same owner.     *)
THEOREM CallFromThere ==
  ASSUME NEW b, GoodBook(b), b.taker = Null, Uncrossed(b.orders), NEW e, IsOrder(e)
  PROVE  NoneFromElsewhere(b.orders, ProcessOrder(b, e).orders, e)
<1> DEFINE s == Submit(b, e)
           n == Rounds(e)
<1>1. IF s.taker = Null THEN Done(b, e, s) ELSE Matching(b, e, s)
  BY SubmitDone
<1>2. s.taker \in {Null, e} /\ e.quantity \in Int
  BY SubmitGood DEF IsOrder
<1>3. NoneFromElsewhere(b.orders, s.orders, e)
  BY SubmitFromThere
<1> HIDE DEF s
<1>4. n \in Nat /\ ProcessOrder(b, e) = IF s.taker = Null THEN s ELSE Finish(Matched(s, n))
  BY <1>2, CallRounds DEF s
<1>5. CASE s.taker = Null
  BY <1>3, <1>4, <1>5
<1>6. CASE s.taker # Null
  <2>1. Matching(b, e, s) /\ s.taker.quantity <= e.quantity
    BY <1>1, <1>2, <1>6
  <2>2. \A k \in Nat : Matching(b, e, Matched(s, k))
    BY <1>2, <2>1, MatchedDone
  <2> DEFINE P == {k \in Nat : NoneFromElsewhere(b.orders, Matched(s, k).orders, e)}
  <2>3. 0 \in P
    BY <1>3, MatchedNone
  <2>4. ASSUME NEW k \in Nat, k \in P PROVE k + 1 \in P
    <3> DEFINE c == Matched(s, k)
    <3>1. GoodBook(c) /\ NoneFromElsewhere(b.orders, c.orders, e)
      BY <2>2, <2>4 DEF Matching, Done
    <3>2. Matched(s, k + 1) = FillNext(c)
      BY MatchedNext
    <3> HIDE DEF c
    <3>3. NoneFromElsewhere(b.orders, FillNext(c).orders, e)
      <4>1. CASE FillNext(c) = c
        BY <3>1, <4>1
      <4>2. CASE /\ c.taker # Null /\ c.taker.quantity > 0
                 /\ \E m \in DOMAIN c.orders : FillNext(c) = FillWith(c, m)
        BY <3>1, <4>2, FillFromThere
      <4> QED BY <3>1, <4>1, <4>2, FillNextIs DEF IsNextMaker
    <3> QED BY <3>2, <3>3
  <2> HIDE DEF P
  <2>5. Nat \subseteq P
    BY <2>3, <2>4, NatSet
  <2> DEFINE c == Matched(s, n)
  <2>6. NoneFromElsewhere(b.orders, c.orders, e) /\ Matching(b, e, c)
    BY <1>4, <2>2, <2>5 DEF P
  <2> HIDE DEF c
  <2>7. NoneFromElsewhere(b.orders, Finish(c).orders, e)
    BY <2>6, FinishFromThere DEF Matching, Done
  <2> QED BY <1>4, <1>6, <2>7 DEF c
<1> QED BY <1>5, <1>6

-----------------------------------------------------------------------------
(* The answers to an order that buys or sells one unit, or is refused.     *)
TakesOne(rs, e) ==
  /\ rs \in Seq(Responses) /\ ~IsFill(rs[1])
  /\ \/ Len(rs) = 1
     \/ /\ Len(rs) = 3
        /\ IsFill(rs[2]) /\ rs[2].owner_id = e.owner_id /\ rs[2].side = e.side
        /\ rs[2].quantity = 1
        /\ rs[3].owner_id # e.owner_id

(* Nothing is left to do for an order that has all been traded. *)
LEMMA FinishTraded ==
  ASSUME NEW b, GoodBook(b), b.taker # Null, b.taker.quantity = 0
  PROVE  Finish(b).orders = b.orders /\ Finish(b).responses = b.responses
<1>1. ~(b.taker.quantity > 0)
  OBVIOUS
<1> QED BY <1>1, FinishIs

ThreeAnswers(rs, x, y, z) ==
  rs \in Seq(Responses) /\ Len(rs) = 3 /\ rs[1] = x /\ rs[2] = y /\ rs[3] = z

(* One answer and the two reports of a trade. *)
LEMMA OneAndTwo ==
  ASSUME NEW t \in Seq(Responses), NEW x, t = <<x>>, NEW y \in Responses, NEW z \in Responses,
         NEW rs, rs = t \o <<y, z>>
  PROVE  ThreeAnswers(rs, x, y, z)
<1>1. Len(t) = 1 /\ t[1] = x
  OBVIOUS
<1>2. /\ rs \in Seq(Responses) /\ Len(rs) = Len(t) + 2
      /\ \A i \in 1 .. Len(t) : rs[i] = t[i]
      /\ rs[Len(t) + 1] = y /\ rs[Len(t) + 2] = z
  BY TwoMore
<1>3. 1 \in 1 .. Len(t) /\ Len(t) + 2 = 3 /\ Len(t) + 1 = 2
  BY <1>1
<1> QED BY <1>1, <1>2, <1>3 DEF ThreeAnswers

(* An order for one unit that reaches the other side of the book trades at *)
(* once with somebody else and never rests, unless its id is refused.      *)
THEOREM MarketableTakes ==
  ASSUME NEW b, GoodBook(b), b.taker = Null, NEW e, IsOrder(e),
         e.order_type = "Add", e.quantity = 1, NotResting(b.orders, e.owner_id),
         NEW n \in DOMAIN b.orders, b.orders[n].side = Opposite(e.side),
         Crosses(e, b.orders[n].price)
  PROVE  /\ NotResting(ProcessOrder(b, e).orders, e.owner_id)
         /\ TakesOne(ProcessOrder(b, e).responses, e)
<1> DEFINE s == Submit(b, e)
           w == e.owner_id
<1>1. /\ \A type \in ResponseEvents : Echo(e, type) \in Responses
      /\ \A type : Echo(e, type).type = type
  BY EchoTyped DEF Echo
<1>2. Rounds(e) = 1 /\ e.quantity \in Int
  BY DEF Rounds
<1>3. ProcessOrder(b, e) = IF s.taker = Null THEN s ELSE Finish(Matched(s, 1))
  BY <1>2, CallRounds
<1>4. \/ \E type \in {"OrderRejected", "OrderCancelFailed", "OrderModifyFailed"} :
           s = Reply(b, <<Echo(e, type)>>)
      \/ /\ e.order_id \notin DOMAIN b.orders
         /\ s = Engage(b, e, <<Echo(e, "OrderAccepted")>>)
  BY SubmitIs
<1>5. Formed(b) /\ e # Null
  BY DEF GoodBook, IsOrder
<1>6. ASSUME NEW type \in {"OrderRejected", "OrderCancelFailed", "OrderModifyFailed"},
             s = Reply(b, <<Echo(e, type)>>)
      PROVE  /\ NotResting(ProcessOrder(b, e).orders, w)
             /\ TakesOne(ProcessOrder(b, e).responses, e)
  <2>1. s.taker = Null /\ s.orders = b.orders /\ s.responses = <<Echo(e, type)>>
    BY <1>5, <1>6, EngageIs
  <2>2. Echo(e, type) \in Responses /\ ~IsFill(Echo(e, type))
    BY <1>1, <1>6 DEF IsFill, ResponseEvents
  <2> HIDE DEF s
  <2>3. TakesOne(s.responses, e)
    <3> DEFINE rs == <<Echo(e, type)>>
    <3>1. rs \in Seq(Responses) /\ Len(rs) = 1 /\ ~IsFill(rs[1])
      BY <2>2
    <3> HIDE DEF rs
    <3>2. TakesOne(rs, e)
      BY <3>1 DEF TakesOne
    <3> QED BY <2>1, <3>2 DEF rs
  <2> QED BY <1>3, <2>1, <2>3
<1>7. CASE /\ e.order_id \notin DOMAIN b.orders
           /\ s = Engage(b, e, <<Echo(e, "OrderAccepted")>>)
  <2> DEFINE x == Echo(e, "OrderAccepted")
  <2>1. x \in Responses /\ ~IsFill(x)
    BY <1>1 DEF IsFill, ResponseEvents
  <2>2. /\ GoodBook(s) /\ s.taker = e /\ s.orders = b.orders /\ s.responses = <<x>>
    <3>1. Engaged(e, b.orders)
      BY <1>7 DEF Engaged
    <3>2. <<x>> \in Seq(Responses)
      BY <2>1
    <3> DEFINE rs == <<x>>
    <3>3. rs \in Seq(Responses) /\ s = Engage(b, e, rs)
      BY <1>7, <3>2
    <3> HIDE DEF rs, s
    <3>4. GoodBook(s) /\ s.taker = e /\ s.orders = b.orders /\ s.responses = rs
      BY <3>1, <3>3, EngageGood
    <3> QED BY <3>4 DEF rs
  <2> HIDE DEF s, x
  <2>3. CanFill(s)
    BY <1>5, <2>2 DEF CanFill
  <2>4. PICK m : /\ IsNextMaker(s, Opposite(s.taker.side), m)
                 /\ FillNext(s) = FillWith(s, m)
    BY <2>2, <2>3, FillNextIs
  <2>5. m \in DOMAIN s.orders
    BY <2>4 DEF IsNextMaker
  <2> DEFINE d == FillWith(s, m)
             y == TakerReport(s, m)
             z == MakerReport(s, m)
  <2>6. Matched(s, 1) = d
    <3>1. Matched(s, 0 + 1) = FillNext(Matched(s, 0))
      BY MatchedNext
    <3> QED BY <2>4, <3>1, MatchedNone
  <2>7. s.taker # Null /\ s.taker.quantity > 0 /\ s.taker.quantity = 1
    BY <1>5, <2>2
  <2>8. GoodBook(d)
    BY <2>2, <2>5, <2>7, FillGood
  <2>9. Traded(s, m) = 1 /\ y \in Responses /\ z \in Responses
    <3>1. /\ Traded(s, m) \in Nat \ {0} /\ Traded(s, m) <= s.taker.quantity
          /\ y \in Responses /\ z \in Responses
      BY <2>2, <2>5, <2>7, TradeTypes
    <3> QED BY <2>7, <3>1
  <2>10. /\ NotResting(d.orders, w) /\ z.owner_id # w /\ y.owner_id = w
         /\ d.taker.owner_id = w
    <3>1. NotResting(s.orders, w)
      BY <2>2
    <3> HIDE DEF w
    <3>2. /\ NotResting(d.orders, w) /\ z.owner_id # w /\ y.owner_id = s.taker.owner_id
          /\ d.taker.owner_id = s.taker.owner_id
      BY <2>2, <2>5, <2>7, <3>1, FillOwners
    <3> QED BY <2>2, <3>2 DEF w
  <2>11. d.taker = [s.taker EXCEPT !.quantity = s.taker.quantity - Traded(s, m)]
         /\ d.responses = s.responses \o <<y, z>>
    BY <2>2, FillIs DEF GoodBook
  <2>12. d.taker # Null /\ d.taker.quantity = 0
    <3>1. s.taker.quantity - Traded(s, m) = 0
      BY <2>7, <2>9
    <3>2. d.taker = [e EXCEPT !.quantity = 0]
      BY <2>2, <2>11, <3>1
    <3> QED BY <3>2 DEF IsOrder
  <2>13. IsFill(y) /\ y.side = e.side /\ y.quantity = 1
    BY <2>2, <2>9 DEF TakerReport, Fill, IsFill
  <2>14. LET rs == d.responses
         IN rs \in Seq(Responses) /\ Len(rs) = 3 /\ rs[1] = x /\ rs[2] = y /\ rs[3] = z
    <3> DEFINE rs == d.responses
               t == s.responses
    <3>1. t \in Seq(Responses) /\ t = <<x>> /\ rs = t \o <<y, z>>
      BY <2>1, <2>2, <2>11
    <3> HIDE DEF t, rs, y, z
    <3>2. ThreeAnswers(rs, x, y, z)
      BY <2>9, <3>1, OneAndTwo
    <3> QED BY <3>2 DEF ThreeAnswers, rs
  <2> HIDE DEF d, y, z
  <2>15. Finish(d).orders = d.orders /\ Finish(d).responses = d.responses
    BY <2>8, <2>12, FinishTraded
  <2>16. TakesOne(d.responses, e)
    BY <2>1, <2>9, <2>10, <2>13, <2>14 DEF TakesOne
  <2>17. ProcessOrder(b, e) = Finish(d)
    BY <1>3, <1>5, <2>2, <2>6
  <2> QED BY <2>10, <2>15, <2>16, <2>17
<1> QED BY <1>4, <1>6, <1>7

HIDE DEF Sides

-----------------------------------------------------------------------------
(* A step of the backtest with whatever a strategy may return.             *)
AnyNext ==
  \/ Construct
  \/ \E c \in OrderCommands \cup {NoCommand} : OnTimeMove(c)
  \/ Loop

(* The loop of run() is between its first and its last statement.          *)
Running == {"poll", "process", "tick", "pollAgain", "processAgain"}

(* An entry of the queue, of dueEvents, or already processed.              *)
IsEntry(x) ==
  /\ x.event.time \in Int
  /\ x.order \in Nat /\ x.order < queue.order_counter

Entries ==
  /\ queue.order_counter \in Nat
  /\ \A x \in queue.events : IsEntry(x)
  /\ \E S : due \in Seq(S)
  /\ \A i \in 1 .. Len(due) : IsEntry(due[i])
  /\ latest # Null => IsEntry(latest)

(* The clock never leaves 0 .. maxTime + 1, and maxTime is less than the   *)
(* largest int.                                                            *)
Clock ==
  /\ at \in Places
  /\ config \in Configs
  /\ now \in Nat /\ now <= MaxInt
  /\ at = "construct" => file \in Files /\ queue.events = {} /\ latest = Null /\ now = 0
  /\ at \in Running => Valid(config) /\ now <= config.maxTime
  /\ at \in {"done", "printed"} => Valid(config) /\ now = config.maxTime + 1
  /\ at \in {"construct", "tick", "done", "printed"} => due = << >>

(* What was processed precedes what is due, in the order of dueEvents, and *)
(* that what is still queued.                                              *)
Sorted ==
  /\ \A i, j \in 1 .. Len(due) : i < j => Precedes(due[i], due[j])
  /\ \A i \in 1 .. Len(due), x \in queue.events : Precedes(due[i], x)
  /\ latest # Null =>
       /\ \A i \in 1 .. Len(due) : Precedes(latest, due[i])
       /\ \A x \in queue.events : Precedes(latest, x)
       /\ latest.event.time <= now

(* dueEvents are due now; in the queue is what is due now or later, and    *)
(* only the first poll of a tick, or the one after a command, finds the    *)
(* former.                                                                 *)
Timely ==
  /\ at \in Running => \A i \in 1 .. Len(due) :
       due[i].event.time = now \/ (due[i].event.time < 0 /\ now = 0)
  /\ at \in {"poll", "pollAgain", "done"} =>
       \A x \in queue.events : x.event.time >= now \/ now = 0
  /\ at \in {"process", "processAgain", "tick"} => \A x \in queue.events : x.event.time > now

(* The inductive invariant.                                                *)
OrderInv == Entries /\ Clock /\ Sorted /\ Timely

-----------------------------------------------------------------------------
(* While the loop runs, neither now_++ nor now_ plus the latency leaves    *)
(* int: what the constructor's checks are for.                             *)
LEMMA NoOverflow ==
  ASSUME Clock, at \in Running
  PROVE  /\ Latency(config) \in Nat
         /\ Int32(now + 1) = now + 1
         /\ Int32(now + Latency(config)) = now + Latency(config)
BY ConfigsAssumption, MaxIntAssumption, SMTT(30) DEF Clock, Valid, Latency, Int32

(* Appending an entry to dueEvents leaves the others where they are.       *)
LEMMA AppendDue ==
  ASSUME \E S : due \in Seq(S), NEW x
  PROVE  /\ \E S : Append(due, x) \in Seq(S)
         /\ Len(Append(due, x)) = Len(due) + 1 /\ Len(due) \in Nat
         /\ \A i \in 1 .. Len(due) : Append(due, x)[i] = due[i]
         /\ Append(due, x)[Len(due) + 1] = x
<1>1. PICK S : due \in Seq(S)
  OBVIOUS
<1>2. due \in Seq(S \cup {x})
  BY <1>1
<1>3. Append(due, x) \in Seq(S \cup {x})
  BY <1>2
<1> QED BY <1>2, <1>3

(* Taking the first of dueEvents moves the others up by one.               *)
LEMMA TailDue ==
  ASSUME \E S : due \in Seq(S), due # << >>
  PROVE  /\ \E S : Tail(due) \in Seq(S)
         /\ Len(due) \in Nat /\ Len(due) > 0
         /\ Len(Tail(due)) = Len(due) - 1
         /\ \A i \in 1 .. Len(due) - 1 : Tail(due)[i] = due[i + 1]
         /\ Head(due) = due[1]
<1>1. PICK S : due \in Seq(S)
  OBVIOUS
<1>2. Tail(due) \in Seq(S) /\ Len(due) \in Nat /\ Len(due) > 0
  BY <1>1
<1> QED BY <1>1, <1>2

(* The backtest starts with nothing due, queued or processed.              *)
LEMMA InitOrder == Init => OrderInv
<1> SUFFICES ASSUME Init PROVE OrderInv
  OBVIOUS
<1>1. due \in Seq({}) /\ Len(due) = 0
  BY DEF Init
<1>2. Entries
  BY <1>1 DEF Init, Entries, EmptyQueue
<1>3. Clock
  BY MaxIntAssumption DEF Init, Clock, Places, Running, EmptyQueue
<1>4. Sorted /\ Timely
  BY <1>1 DEF Init, Sorted, Timely, Running, EmptyQueue
<1> QED BY <1>2, <1>3, <1>4 DEF OrderInv

(* The constructor queues the events of the file in their order.           *)
LEMMA ConstructOrder ==
  ASSUME OrderInv, Construct
  PROVE  OrderInv'
<1>1. /\ at = "construct" /\ due' = due /\ due = << >> /\ now' = now /\ config' = config
      /\ latest' = latest /\ latest = Null /\ now = 0
  BY DEF Construct, OrderInv, Clock, engineVars
<1>2. CASE Accepted /\ queue' = AddEvents(queue, file) /\ at' = "poll"
  <2>1. /\ Len(file) \in Nat /\ DOMAIN file = 1 .. Len(file)
        /\ \A i \in DOMAIN file : file[i].time \in Int
    <3>1. file \in Seq(BackTestEvents)
      BY <1>1, <1>2, FilesAssumption DEF OrderInv, Clock, Accepted
    <3>2. \A e \in BackTestEvents : e.time \in Int
      BY DEF BackTestEvents
    <3> QED BY <3>1, <3>2
  <2>2. queue.order_counter \in Nat /\ queue.events = {}
    BY <1>1 DEF OrderInv, Entries, Clock
  <2>3. /\ queue'.order_counter = queue.order_counter + Len(file)
        /\ queue'.events = {[event |-> file[i], order |-> queue.order_counter + i - 1] :
                              i \in DOMAIN file}
    BY <1>2, <2>2 DEF AddEvents
  <2>4. \A x \in queue'.events :
          x.event.time \in Int /\ x.order \in Nat /\ x.order < queue'.order_counter
    BY <2>1, <2>2, <2>3
  <2>5. Entries'
    <3>1. due' \in Seq({}) /\ Len(due') = 0
      BY <1>1
    <3> QED BY <1>1, <2>1, <2>2, <2>3, <2>4, <3>1 DEF Entries, IsEntry
  <2>6. Clock'
    BY <1>1, <1>2, ConfigsAssumption
       DEF OrderInv, Clock, Accepted, Places, Running, Valid, Latency
  <2>7. Sorted' /\ Timely'
    BY <1>1, <1>2 DEF Sorted, Timely, Running
  <2> QED BY <2>5, <2>6, <2>7 DEF OrderInv
<1>3. CASE at' = "thrown" /\ queue' = queue
  <2>1. Entries'
    BY <1>1, <1>3 DEF OrderInv, Entries, IsEntry
  <2>2. Clock' /\ Sorted' /\ Timely'
    BY <1>1, <1>3 DEF OrderInv, Clock, Places, Running, Sorted, Timely
  <2> QED BY <2>1, <2>2 DEF OrderInv
<1> QED BY <1>2, <1>3 DEF Construct

(* GetEvents takes the first event of the queue if its time has come.      *)
LEMMA PopOrder ==
  ASSUME OrderInv, PopDueEvent
  PROVE  OrderInv'
<1>1. /\ at \in {"poll", "pollAgain"} /\ at' = at /\ now' = now /\ config' = config
      /\ latest' = latest
  BY DEF PopDueEvent, engineVars
<1>2. PICK x \in queue.events : IsDue(queue, x, now) /\ queue' = Pop(queue, x)
                                /\ due' = Append(due, x)
  BY DEF PopDueEvent
<1>3. /\ queue'.events = queue.events \ {x} /\ queue'.order_counter = queue.order_counter
      /\ x.event.time <= now /\ \A y \in queue'.events : Precedes(x, y)
  BY <1>2 DEF Pop, IsDue, OrderInv, Entries
<1>4. /\ \E S : due' \in Seq(S)
      /\ Len(due') = Len(due) + 1 /\ Len(due) \in Nat
      /\ \A i \in 1 .. Len(due) : due'[i] = due[i]
      /\ due'[Len(due) + 1] = x
  BY <1>2, AppendDue DEF OrderInv, Entries
<1>5. \A i \in 1 .. Len(due') : i \in 1 .. Len(due) \/ i = Len(due) + 1
  BY <1>4
<1>6. Entries'
  BY <1>1, <1>3, <1>4, <1>5 DEF OrderInv, Entries, IsEntry
<1>7. Clock'
  BY <1>1 DEF OrderInv, Clock, Running
<1>8. Sorted'
  <2>1. \A i \in 1 .. Len(due) : Precedes(due[i], x)
    BY DEF OrderInv, Sorted
  <2>2. \A i, j \in 1 .. Len(due') : i < j => Precedes(due'[i], due'[j])
    <3> SUFFICES ASSUME NEW i \in 1 .. Len(due'), NEW j \in 1 .. Len(due'), i < j
                 PROVE  Precedes(due'[i], due'[j])
      OBVIOUS
    <3>1. i \in 1 .. Len(due)
      BY <1>4
    <3>2. CASE j \in 1 .. Len(due)
      BY <1>4, <3>1, <3>2 DEF OrderInv, Sorted
    <3>3. CASE j = Len(due) + 1
      BY <1>4, <2>1, <3>1, <3>3
    <3> QED BY <1>5, <3>2, <3>3
  <2>3. \A i \in 1 .. Len(due'), y \in queue'.events : Precedes(due'[i], y)
    BY <1>3, <1>4, <1>5 DEF OrderInv, Sorted
  <2>4. latest # Null => Precedes(latest, x)
    BY DEF OrderInv, Sorted
  <2> QED BY <1>1, <1>3, <1>4, <1>5, <2>2, <2>3, <2>4 DEF OrderInv, Sorted
<1>9. Timely'
  <2>1. x.event.time = now \/ (x.event.time < 0 /\ now = 0)
    BY <1>1, <1>3 DEF OrderInv, Timely, Entries, IsEntry, Clock
  <2> QED BY <1>1, <1>3, <1>4, <1>5, <2>1 DEF OrderInv, Timely, Running
<1> QED BY <1>6, <1>7, <1>8, <1>9 DEF OrderInv

(* GetEvents returns when the rest of the queue is for later ticks.        *)
LEMMA StartOrder ==
  ASSUME OrderInv, StartProcessing
  PROVE  OrderInv'
<1>1. /\ at \in {"poll", "pollAgain"} /\ at' \in {"process", "processAgain"} /\ now' = now
      /\ config' = config /\ latest' = latest /\ due' = due /\ queue' = queue
      /\ \A x \in queue.events : x.event.time > now
  BY DEF StartProcessing, engineVars
<1>2. Entries' /\ Sorted'
  BY <1>1 DEF OrderInv, Entries, IsEntry, Sorted
<1>3. Clock' /\ Timely'
  BY <1>1 DEF OrderInv, Clock, Timely, Running, Places
<1> QED BY <1>2, <1>3 DEF OrderInv

(* processEvent takes the first of dueEvents, on time.                     *)
LEMMA ProcessOrderKept ==
  ASSUME OrderInv, ProcessEvent
  PROVE  /\ OrderInv'
         /\ latest' = due[1]
         /\ latest # Null => Precedes(latest, latest')
         /\ latest'.event.time = now \/ (latest'.event.time < 0 /\ now = 0)
<1>1. /\ at \in {"process", "processAgain"} /\ at' = at /\ now' = now /\ config' = config
      /\ queue' = queue /\ due # << >> /\ due' = Tail(due) /\ latest' = Head(due)
  BY DEF ProcessEvent
<1>2. /\ \E S : due' \in Seq(S)
      /\ Len(due) \in Nat /\ Len(due) > 0 /\ Len(due') = Len(due) - 1
      /\ \A i \in 1 .. Len(due') : due'[i] = due[i + 1]
      /\ latest' = due[1]
  BY <1>1, TailDue DEF OrderInv, Entries
<1>3. IsEntry(due[1]) /\ \A i \in 1 .. Len(due') : IsEntry(due[i + 1])
  BY <1>2 DEF OrderInv, Entries
<1>4. Entries'
  BY <1>1, <1>2, <1>3 DEF OrderInv, Entries, IsEntry
<1>5. Clock'
  BY <1>1 DEF OrderInv, Clock, Running
<1>6. due[1].event.time = now \/ (due[1].event.time < 0 /\ now = 0)
  BY <1>1, <1>2 DEF OrderInv, Timely, Running
<1>7. Sorted'
  <2>1. \A i, j \in 1 .. Len(due') : i < j => Precedes(due'[i], due'[j])
    BY <1>2 DEF OrderInv, Sorted
  <2>2. \A i \in 1 .. Len(due'), x \in queue'.events : Precedes(due'[i], x)
    BY <1>1, <1>2 DEF OrderInv, Sorted
  <2>3. \A i \in 1 .. Len(due') : Precedes(latest', due'[i])
    BY <1>2 DEF OrderInv, Sorted
  <2>4. \A x \in queue'.events : Precedes(latest', x)
    BY <1>1, <1>2 DEF OrderInv, Sorted
  <2>5. latest'.event.time <= now'
    BY <1>1, <1>2, <1>3, <1>6 DEF OrderInv, Clock, IsEntry
  <2> QED BY <2>1, <2>2, <2>3, <2>4, <2>5 DEF Sorted
<1>8. Timely'
  BY <1>1, <1>2 DEF OrderInv, Timely, Running
<1>9. latest # Null => Precedes(latest, latest')
  BY <1>2 DEF OrderInv, Sorted
<1> QED BY <1>2, <1>4, <1>5, <1>6, <1>7, <1>8, <1>9 DEF OrderInv

(* A command joins the queue behind everything that was ever processed.    *)
LEMMA DecideOrder ==
  ASSUME OrderInv, NEW c, OnTimeMove(c)
  PROVE  OrderInv'
<1>1. /\ at = "process" /\ due = << >> /\ due' = due /\ now' = now /\ config' = config
      /\ latest' = latest
  BY DEF OnTimeMove
<1>2. CASE at' \in {"tick", "thrown"} /\ queue' = queue
  <2>1. Entries' /\ Sorted'
    BY <1>1, <1>2 DEF OrderInv, Entries, IsEntry, Sorted
  <2>2. Clock' /\ Timely'
    BY <1>1, <1>2 DEF OrderInv, Clock, Timely, Running, Places
  <2> QED BY <2>1, <2>2 DEF OrderInv
<1>3. CASE Schedule(c)
  <2>1. PICK x : /\ x.event.time = Int32(now + Latency(config))
                 /\ x.order = queue.order_counter
                 /\ queue' = [events |-> queue.events \cup {x},
                              order_counter |-> queue.order_counter + 1]
    <3> DEFINE entry == [event |-> Scheduled(c), order |-> queue.order_counter]
    <3>1. Scheduled(c).time = Int32(now + Latency(config))
      BY DEF Scheduled
    <3>2. queue' = AddEvent(queue, Scheduled(c))
      BY <1>3 DEF Schedule
    <3>3. queue' = [events |-> queue.events \cup {entry},
                    order_counter |-> queue.order_counter + 1]
      BY <3>2 DEF AddEvent
    <3>4. entry.event.time = Int32(now + Latency(config)) /\ entry.order = queue.order_counter
      BY <3>1
    <3> HIDE DEF entry
    <3> QED BY <3>3, <3>4
  <2>2. at' = "pollAgain"
    BY <1>3 DEF Schedule
  <2>3. /\ queue'.events = queue.events \cup {x}
        /\ queue'.order_counter = queue.order_counter + 1
        /\ queue.order_counter \in Nat /\ x.order \in Nat
    BY <2>1 DEF OrderInv, Entries
  <2>4. x.event.time \in Int /\ x.event.time >= now /\ now \in Nat
    BY <1>1, <2>1, NoOverflow DEF OrderInv, Clock, Running
  <2>5. Len(due) = 0
    BY <1>1
  <2>6. Entries'
    BY <1>1, <2>1, <2>3, <2>4, <2>5 DEF OrderInv, Entries, IsEntry
  <2>7. Clock'
    BY <1>1, <2>2 DEF OrderInv, Clock, Running, Places
  <2>8. Sorted'
    <3>1. latest # Null => Precedes(latest, x)
      BY <2>1, <2>3, <2>4 DEF OrderInv, Entries, IsEntry, Sorted, Precedes
    <3> QED BY <1>1, <2>3, <2>5, <3>1 DEF OrderInv, Sorted
  <2>9. Timely'
    <3>1. \A y \in queue'.events : y.event.time >= now
      BY <1>1, <2>3, <2>4 DEF OrderInv, Entries, IsEntry, Timely
    <3> QED BY <1>1, <2>2, <2>5, <3>1 DEF Timely, Running
  <2> QED BY <2>6, <2>7, <2>8, <2>9 DEF OrderInv
<1> QED BY <1>2, <1>3 DEF OnTimeMove

(* now_++: what was for later ticks is now for this or a later one.        *)
LEMMA TickOrder ==
  ASSUME OrderInv, Tick
  PROVE  OrderInv'
<1>1. /\ at \in {"tick", "processAgain"} /\ due = << >> /\ due' = due /\ queue' = queue
      /\ config' = config /\ latest' = latest /\ now' = Int32(now + 1)
      /\ at' = IF now' <= config.maxTime THEN "poll" ELSE "done"
  BY DEF Tick, OrderInv, Clock, engineVars
<1>2. /\ now' = now + 1 /\ now \in Nat /\ now <= config.maxTime /\ config.maxTime \in Int
      /\ now + 1 <= MaxInt
  <2>1. Latency(config) \in Nat /\ config.maxTime <= MaxInt - Latency(config)
    BY <1>1, NoOverflow, ConfigsAssumption, MaxIntAssumption
       DEF OrderInv, Clock, Running, Valid, Latency
  <2> QED BY <1>1, <2>1, NoOverflow, ConfigsAssumption, MaxIntAssumption
          DEF OrderInv, Clock, Running, Valid
<1>3. Len(due) = 0
  BY <1>1
<1>4. Entries'
  BY <1>1 DEF OrderInv, Entries, IsEntry
<1>5. Clock'
  BY <1>1, <1>2 DEF OrderInv, Clock, Running, Places
<1>6. Sorted'
  BY <1>1, <1>2, <1>3 DEF OrderInv, Sorted, Entries, IsEntry
<1>7. Timely'
  <2>1. \A x \in queue'.events : x.event.time >= now'
    BY <1>1, <1>2 DEF OrderInv, Timely, Entries, IsEntry
  <2> QED BY <1>1, <1>3, <2>1 DEF Timely, Running
<1> QED BY <1>4, <1>5, <1>6, <1>7 DEF OrderInv

(* Every step of the backtest keeps the invariant.                         *)
LEMMA NextOrder == OrderInv /\ [AnyNext]_vars => OrderInv'
<1> SUFFICES ASSUME OrderInv, [AnyNext]_vars PROVE OrderInv'
  OBVIOUS
<1>1. CASE Construct
  BY <1>1, ConstructOrder
<1>2. ASSUME NEW c \in OrderCommands \cup {NoCommand}, OnTimeMove(c)
      PROVE  OrderInv'
  BY <1>2, DecideOrder
<1>3. CASE PopDueEvent \/ StartProcessing \/ ProcessEvent \/ Tick
  BY <1>3, PopOrder, StartOrder, ProcessOrderKept, TickOrder
<1>4. CASE PrintSummary
  <2>1. /\ at = "done" /\ at' = "printed" /\ now' = now /\ config' = config /\ due' = due
        /\ queue' = queue /\ latest' = latest
    BY <1>4 DEF PrintSummary
  <2>2. Entries' /\ Sorted'
    BY <2>1 DEF OrderInv, Entries, IsEntry, Sorted
  <2>3. Clock' /\ Timely'
    BY <2>1 DEF OrderInv, Clock, Timely, Running, Places
  <2> QED BY <2>2, <2>3 DEF OrderInv
<1>5. CASE UNCHANGED vars
  BY <1>5 DEF vars, OrderInv, Entries, IsEntry, Clock, Sorted, Timely
<1> QED BY <1>1, <1>2, <1>3, <1>4, <1>5 DEF AnyNext, Loop

(* The commands of a strategy are what any strategy may return.            *)
LEMMA NextIsAny == Next => AnyNext
BY CommandsAssumption DEF Next, AnyNext

-----------------------------------------------------------------------------
(* The order, the times and the clock of a run, for any configuration,     *)
(* file and strategy.                                                      *)
THEOREM OrderInvariant == Spec => []OrderInv
<1>1. OrderInv /\ [Next]_vars => OrderInv'
  BY NextOrder, NextIsAny
<1> QED BY <1>1, InitOrder, PTL DEF Spec

(* Nothing whose time has come waits when the strategy decides, when a     *)
(* tick ends (backtest.cpp:82-102) or when the run does.                   *)
THEOREM NothingIsOverdue == Spec => []NothingOverdue
<1>1. OrderInv => NothingOverdue
  <2> SUFFICES ASSUME OrderInv PROVE NothingOverdue
    OBVIOUS
  <2>1. at \in {"process", "processAgain", "tick"} => \A x \in queue.events : x.event.time > now
    BY DEF OrderInv, Timely
  <2>2. at = "done" => due = << >> /\ \A x \in queue.events : x.event.time > config.maxTime
    <3> SUFFICES ASSUME at = "done"
                 PROVE  due = << >> /\ \A x \in queue.events : x.event.time > config.maxTime
      OBVIOUS
    <3>1. due = << >> /\ now = config.maxTime + 1 /\ config.maxTime \in Nat
      BY ConfigsAssumption DEF OrderInv, Clock, Valid
    <3>2. \A x \in queue.events : x.event.time \in Int /\ x.event.time >= now
      BY <3>1 DEF OrderInv, Timely, Entries, IsEntry
    <3> QED BY <3>1, <3>2
  <2> QED BY <2>1, <2>2 DEF NothingOverdue
<1> QED BY <1>1, OrderInvariant, PTL

(* README, "Deterministic event ordering": events act in the order of      *)
(* their times and their insertion, each in its own tick.                  *)
THEOREM EventsAreOnTime == Spec => EventsActOnTime
<1> DEFINE OnTime ==
      latest' # latest =>
       /\ latest # Null =>
            \/ latest.event.time < latest'.event.time
            \/ latest.event.time = latest'.event.time /\ latest.order < latest'.order
       /\ latest'.event.time = now \/ (latest'.event.time < 0 /\ now = 0)
<1>1. OrderInv /\ [Next]_vars => [OnTime]_vars
  <2> SUFFICES ASSUME OrderInv, Next PROVE OnTime
    BY DEF vars
  <2>1. CASE ProcessEvent
    BY <2>1, ProcessOrderKept DEF Precedes
  <2>2. CASE Construct \/ PopDueEvent \/ StartProcessing \/ Tick
    BY <2>2 DEF Construct, PopDueEvent, StartProcessing, Tick, engineVars
  <2>3. CASE PrintSummary \/ \E c \in Commands \cup {NoCommand} : OnTimeMove(c)
    BY <2>3 DEF PrintSummary, OnTimeMove
  <2> QED BY <2>1, <2>2, <2>3 DEF Next, Loop
<1> QED BY <1>1, OrderInvariant, PTL DEF Spec, EventsActOnTime

-----------------------------------------------------------------------------
(* What a BackTestEvent is to a book.                                      *)
LEMMA EventIsOrder ==
  ASSUME NEW e \in BackTestEvents
  PROVE  IsOrder(e)
<1>1. \A q \in Int : [e EXCEPT !.quantity = q] \in BackTestEvents
  BY DEF BackTestEvents
<1>2. \A x \in BackTestEvents : x # Null
  BY NullAssumption
<1>3. e # Null /\ \A q \in Int : [e EXCEPT !.quantity = q] # Null
  BY <1>1, <1>2
<1>4. /\ {"side", "order_type", "order_id", "owner_id", "quantity", "price"} \subseteq DOMAIN e
      /\ e.side \in Sides /\ e.order_type \in OrderTypes /\ e.order_id \in Int
      /\ e.owner_id \in Int /\ e.quantity \in Int /\ e.price \in Int
  BY DEF BackTestEvents
<1> QED BY <1>3, <1>4 DEF IsOrder

(* What waits, in the queue and in dueEvents, are events.                  *)
EventsTyped ==
  /\ nextStrategyOrderId \in -MaxInt - 1 .. MaxInt
  /\ \A x \in queue.events : x.event \in BackTestEvents
  /\ \A i \in 1 .. Len(due) : due[i].event \in BackTestEvents

(* A generated id leaves the counter in int.                               *)
LEMMA GeneratedTyped ==
  ASSUME EventsTyped, NEW c, GenerateId(c)
  PROVE  nextStrategyOrderId' \in -MaxInt - 1 .. MaxInt
BY MaxIntAssumption DEF EventsTyped, GenerateId, Int32

(* What scheduleCommand makes of a command is an event.                    *)
LEMMA ScheduledTyped ==
  ASSUME OrderInv, EventsTyped, NEW c \in OrderCommands, at = "process"
  PROVE  /\ Scheduled(c) \in BackTestEvents
         /\ Scheduled(c).symbol = c.symbol /\ Scheduled(c).side = c.side
         /\ Scheduled(c).order_type = c.order_type
         /\ Scheduled(c).owner_id = config.strategyOwnerId
         /\ Scheduled(c).quantity = c.quantity /\ Scheduled(c).price = c.price
         /\ Scheduled(c).time = now + Latency(config)
<1>1. /\ c.symbol \in Symbols /\ c.side \in Sides /\ c.order_type \in OrderTypes
      /\ c.quantity \in Int /\ c.price \in Int /\ c.order_id \in Int
  BY DEF OrderCommands
<1>2. OrderId(c) \in Int
  BY <1>1, MaxIntAssumption DEF EventsTyped, OrderId
<1>3. config.strategyOwnerId \in Int
  BY ConfigsAssumption DEF OrderInv, Clock
<1>4. Int32(now + Latency(config)) = now + Latency(config) /\ now + Latency(config) \in Int
  BY NoOverflow DEF OrderInv, Clock, Running
<1>5. Scheduled(c) \in BackTestEvents
  BY <1>1, <1>2, <1>3, <1>4 DEF BackTestEvents, Scheduled
<1> QED BY <1>4, <1>5 DEF Scheduled

(* The events stay events.                                                 *)
LEMMA NextEvents == OrderInv /\ EventsTyped /\ [AnyNext]_vars => EventsTyped'
<1> SUFFICES ASSUME OrderInv, EventsTyped, [AnyNext]_vars PROVE EventsTyped'
  OBVIOUS
<1>1. CASE Construct
  <2>1. /\ nextStrategyOrderId' = nextStrategyOrderId /\ due' = due /\ due = << >>
        /\ at = "construct" /\ queue.events = {}
    BY <1>1 DEF Construct, OrderInv, Clock
  <2>2. CASE Accepted /\ queue' = AddEvents(queue, file)
    <3>1. file \in Seq(BackTestEvents)
      BY <2>1, <2>2, FilesAssumption DEF Accepted, OrderInv, Clock
    <3>2. \A i \in DOMAIN file : file[i] \in BackTestEvents
      BY <3>1
    <3>3. queue'.events = {[event |-> file[i], order |-> queue.order_counter + i - 1] :
                             i \in DOMAIN file}
      BY <2>1, <2>2 DEF AddEvents
    <3> QED BY <2>1, <3>2, <3>3 DEF EventsTyped
  <2>3. CASE queue' = queue
    BY <2>1, <2>3 DEF EventsTyped
  <2> QED BY <1>1, <2>2, <2>3 DEF Construct
<1>2. ASSUME NEW c \in OrderCommands \cup {NoCommand}, OnTimeMove(c)
      PROVE  EventsTyped'
  <2>1. due' = due
    BY <1>2 DEF OnTimeMove
  <2>2. nextStrategyOrderId' = nextStrategyOrderId \/ GenerateId(c)
    BY <1>2 DEF OnTimeMove
  <2>3. nextStrategyOrderId' \in -MaxInt - 1 .. MaxInt
    BY <2>2, GeneratedTyped DEF EventsTyped
  <2>4. CASE queue' = queue
    BY <2>1, <2>3, <2>4 DEF EventsTyped
  <2>5. CASE c # NoCommand /\ Schedule(c)
    <3>1. at = "process" /\ c \in OrderCommands
      BY <1>2, <2>5 DEF OnTimeMove
    <3>2. Scheduled(c) \in BackTestEvents /\ queue' = AddEvent(queue, Scheduled(c))
      BY <2>5, <3>1, ScheduledTyped DEF Schedule
    <3>3. queue'.events = queue.events
                            \cup {[event |-> Scheduled(c), order |-> queue.order_counter]}
      BY <3>2 DEF AddEvent
    <3> QED BY <2>1, <2>3, <3>2, <3>3 DEF EventsTyped
  <2> QED BY <1>2, <2>4, <2>5 DEF OnTimeMove
<1>3. CASE PopDueEvent
  <2>1. PICK x \in queue.events : queue' = Pop(queue, x) /\ due' = Append(due, x)
    BY <1>3 DEF PopDueEvent
  <2>2. queue'.events = queue.events \ {x}
    BY <2>1, <1>3 DEF Pop, PopDueEvent, IsDue, OrderInv, Entries
  <2>3. /\ Len(due') = Len(due) + 1 /\ Len(due) \in Nat
        /\ \A i \in 1 .. Len(due) : due'[i] = due[i]
        /\ due'[Len(due) + 1] = x
    BY <2>1, AppendDue DEF OrderInv, Entries
  <2>4. nextStrategyOrderId' = nextStrategyOrderId
    BY <1>3 DEF PopDueEvent
  <2>5. \A i \in 1 .. Len(due') : due'[i].event \in BackTestEvents
    <3> SUFFICES ASSUME NEW i \in 1 .. Len(due') PROVE due'[i].event \in BackTestEvents
      OBVIOUS
    <3>1. i \in 1 .. Len(due) \/ i = Len(due) + 1
      BY <2>3
    <3> QED BY <2>3, <3>1 DEF EventsTyped
  <2> QED BY <2>2, <2>4, <2>5 DEF EventsTyped
<1>4. CASE ProcessEvent
  <2>1. due' = Tail(due) /\ due # << >> /\ queue' = queue
        /\ nextStrategyOrderId' = nextStrategyOrderId
    BY <1>4 DEF ProcessEvent
  <2>2. /\ Len(due) \in Nat /\ Len(due') = Len(due) - 1
        /\ \A i \in 1 .. Len(due) - 1 : due'[i] = due[i + 1]
    BY <2>1, TailDue DEF OrderInv, Entries
  <2>3. \A i \in 1 .. Len(due) - 1 : i + 1 \in 1 .. Len(due)
    BY <2>2
  <2> QED BY <2>1, <2>2, <2>3 DEF EventsTyped
<1>5. CASE StartProcessing \/ Tick \/ PrintSummary \/ UNCHANGED vars
  BY <1>5 DEF StartProcessing, Tick, PrintSummary, vars, EventsTyped
<1> QED BY <1>1, <1>2, <1>3, <1>4, <1>5 DEF AnyNext, Loop

-----------------------------------------------------------------------------
(* A portfolio, and an event the strategy is shown.                        *)
Folio(p) ==
  /\ p = [cash |-> p.cash, positions |-> p.positions]
  /\ p.cash \in Int
  /\ DOMAIN p.positions \subseteq Symbols /\ IsFiniteSet(DOMAIN p.positions)
  /\ \A symbol \in DOMAIN p.positions : p.positions[symbol] \in Int

Notes == [symbol : Symbols, event : Responses]

(* A position is a number.                                                 *)
LEMMA PositionTyped ==
  ASSUME NEW p, Folio(p), NEW symbol
  PROVE  Position(p, symbol) \in Int
BY DEF Folio, Position

(* The fee that response r costs, and what it adds to the position in s.   *)
Charged(r, fee) == IF IsFill(r) THEN fee * r.quantity ELSE 0

Moved(r, symbol, s) == IF s = symbol THEN Units(r) ELSE 0

(* Portfolio::apply adds the units to the position and takes their cost    *)
(* and the fee from the cash.                                              *)
LEMMA ApplyIs ==
  ASSUME NEW p, Folio(p), NEW symbol \in Symbols, NEW r \in Responses, NEW fee \in Int
  PROVE  /\ Folio(Apply(p, symbol, r, fee))
         /\ Apply(p, symbol, r, fee).cash = p.cash - Cost(r) - Charged(r, fee)
         /\ \A s : Position(Apply(p, symbol, r, fee), s) = Position(p, s) + Moved(r, symbol, s)
<1>1. /\ r.quantity \in Int /\ r.price \in Int /\ p.cash \in Int /\ Units(r) \in Int
      /\ Cost(r) \in Int /\ \A s : Position(p, s) \in Int
  BY UnitsTyped, PositionTyped DEF Responses, Folio
<1>2. CASE ~IsFill(r)
  <2>1. Apply(p, symbol, r, fee) = p /\ Units(r) = 0 /\ Cost(r) = 0
    BY <1>1, <1>2 DEF Apply, Units, Cost
  <2> QED BY <1>1, <1>2, <2>1 DEF Charged, Moved
<1>3. CASE IsFill(r)
  <2> DEFINE cash == p.cash - Units(r) * r.price - fee * r.quantity
             held == With(p.positions, symbol, Position(p, symbol) + Units(r))
             q == [cash |-> cash, positions |-> held]
  <2>1. Apply(p, symbol, r, fee) = q
    BY <1>3 DEF Apply, Units
  <2>2. cash \in Int /\ Cost(r) = Units(r) * r.price
    BY <1>1 DEF Cost
  <2>3. /\ DOMAIN held = DOMAIN p.positions \cup {symbol}
        /\ held[symbol] = Position(p, symbol) + Units(r)
        /\ \A s \in DOMAIN p.positions \ {symbol} : held[s] = p.positions[s]
    BY DEF With
  <2>4. IsFiniteSet(DOMAIN held)
    BY <2>3, FS_AddElement DEF Folio
  <2> HIDE DEF cash, held
  <2>5. Folio(q)
    BY <1>1, <2>2, <2>3, <2>4 DEF Folio
  <2>6. \A s : Position(q, s) = Position(p, s) + IF s = symbol THEN Units(r) ELSE 0
    BY <1>1, <2>3 DEF Position
  <2>7. q.cash = p.cash - Cost(r) - fee * r.quantity
    BY <2>2 DEF cash
  <2> HIDE DEF q
  <2>8. LET a == Apply(p, symbol, r, fee)
        IN /\ Folio(a) /\ a.cash = p.cash - Cost(r) - fee * r.quantity
           /\ \A s : Position(a, s) = Position(p, s) + IF s = symbol THEN Units(r) ELSE 0
    BY <2>1, <2>5, <2>6, <2>7
  <2> QED BY <1>3, <2>8 DEF Charged, Moved
<1> QED BY <1>2, <1>3

(* The portfolio that a strategy that held p works out from the events of  *)
(* box, one by one, is q.                                                  *)
Counts(fee, p, box, q) ==
  \E h : /\ h[0] = p /\ h[Len(box)] = q
         /\ \A n \in 0 .. Len(box) - 1 :
              h[n + 1] = Apply(h[n], box[n + 1].symbol, box[n + 1].event, fee)

Shown == INSTANCE FoldProofs WITH Op <- Count, Pick <- LastOf

Received == INSTANCE FoldProofs WITH Op <- Receive, Pick <- LastOf

(* Both are folds from the first to the last.                              *)
LEMMA FoldsInOrder == Shown!PicksLargest /\ Received!PicksLargest
BY DEF Shown!PicksLargest, Shown!Largest, Received!PicksLargest, Received!Largest, LastOf, Max

(* What a strategy works out is the fold of Count.                         *)
LEMMA CountIs ==
  ASSUME NEW p, NEW S, NEW box \in Seq(S), NEW q
  PROVE  Counts(config.feeTicks, p, box, q) <=> FoldLeft(Count, p, box) = q
<1> DEFINE f(n) == Shown!Fold(box, p, 1 .. n)
           last == Len(box)
<1>1. FoldLeft(Count, p, box) = Shown!Fold(box, p, DOMAIN box)
  BY DEF FoldLeft, MapThenFoldSet, LastOf, Shown!Fold, Shown!MapThenFoldSet
<1>2. last \in Nat /\ DOMAIN box = 1 .. last
  OBVIOUS
<1>3. f(0) = p
  <2>1. 1 .. 0 = {}
    OBVIOUS
  <2> QED BY <2>1, Shown!FoldEmpty
<1>4. \A n \in Nat : f(n + 1) = Apply(f(n), box[n + 1].symbol, box[n + 1].event, config.feeTicks)
  <2> SUFFICES ASSUME NEW n \in Nat
               PROVE  f(n + 1) = Count(f(n), box[n + 1])
    BY DEF Count
  <2> QED BY FoldsInOrder, Shown!FoldLast
<1> HIDE DEF f, last
<1>5. ASSUME f(last) = q PROVE Counts(config.feeTicks, p, box, q)
  <2> DEFINE h == [n \in Nat |-> f(n)]
  <2>1. h[0] = p /\ h[last] = q
    BY <1>2, <1>3, <1>5
  <2>2. \A n \in 0 .. last - 1 :
          h[n + 1] = Apply(h[n], box[n + 1].symbol, box[n + 1].event, config.feeTicks)
    BY <1>2, <1>4
  <2> HIDE DEF h
  <2> QED BY <2>1, <2>2 DEF Counts, last
<1>6. ASSUME Counts(config.feeTicks, p, box, q) PROVE f(last) = q
  <2>1. PICK h :
          /\ h[0] = p /\ h[last] = q
          /\ \A n \in 0 .. last - 1 :
               h[n + 1] = Apply(h[n], box[n + 1].symbol, box[n + 1].event, config.feeTicks)
    BY <1>6 DEF Counts, last
  <2> DEFINE P == {n \in Nat : n <= last => h[n] = f(n)}
  <2>2. 0 \in P
    BY <1>3, <2>1
  <2>3. ASSUME NEW n \in Nat, n \in P PROVE n + 1 \in P
    <3> SUFFICES ASSUME n + 1 <= last PROVE h[n + 1] = f(n + 1)
      OBVIOUS
    <3>1. h[n] = f(n) /\ n \in 0 .. last - 1
      BY <1>2, <2>3
    <3>2. h[n + 1] = Apply(h[n], box[n + 1].symbol, box[n + 1].event, config.feeTicks)
      BY <2>1, <3>1
    <3>3. f(n + 1) = Apply(f(n), box[n + 1].symbol, box[n + 1].event, config.feeTicks)
      BY <1>4
    <3> QED BY <3>1, <3>2, <3>3
  <2> HIDE DEF P
  <2>4. Nat \subseteq P
    BY <2>2, <2>3, NatSet
  <2> QED BY <1>2, <2>1, <2>4 DEF P
<1> QED BY <1>1, <1>2, <1>5, <1>6 DEF f

(* With one more event the strategy works out one more change.             *)
LEMMA CountMore ==
  ASSUME NEW fee, NEW p, NEW S, NEW box \in Seq(S), NEW q, Counts(fee, p, box, q), NEW x
  PROVE  Counts(fee, p, Append(box, x), Apply(q, x.symbol, x.event, fee))
<1> DEFINE n == Len(box)
           more == Append(box, x)
           r == Apply(q, x.symbol, x.event, fee)
<1>1. PICK h : /\ h[0] = p /\ h[n] = q
               /\ \A k \in 0 .. n - 1 :
                    h[k + 1] = Apply(h[k], box[k + 1].symbol, box[k + 1].event, fee)
  BY DEF Counts
<1>2. /\ n \in Nat /\ Len(more) = n + 1 /\ more[n + 1] = x
      /\ \A k \in 1 .. n : more[k] = box[k]
  OBVIOUS
<1> DEFINE g == [k \in Nat |-> IF k = n + 1 THEN r ELSE h[k]]
<1> HIDE DEF n, more
<1>3. g[0] = p /\ g[n + 1] = r
  BY <1>1, <1>2
<1>4. \A k \in 0 .. n : g[k + 1] = Apply(g[k], more[k + 1].symbol, more[k + 1].event, fee)
  <2> SUFFICES ASSUME NEW k \in 0 .. n
               PROVE  g[k + 1] = Apply(g[k], more[k + 1].symbol, more[k + 1].event, fee)
    OBVIOUS
  <2>1. CASE k = n
    BY <1>1, <1>2, <2>1
  <2>2. CASE k \in 0 .. n - 1
    BY <1>1, <1>2, <2>2
  <2> QED BY <1>2, <2>1, <2>2
<1> HIDE DEF g
<1>5. n + 1 - 1 = n
  BY <1>2
<1> QED BY <1>2, <1>3, <1>4, <1>5 DEF Counts, more

-----------------------------------------------------------------------------
(* What processEvent accumulates over the responses of a call.             *)
Account(a) ==
  /\ a = [inbox |-> a.inbox, portfolio |-> a.portfolio, others |-> a.others,
          traded |-> a.traded]
  /\ a.inbox \in Seq(Notes)
  /\ Folio(a.portfolio) /\ Folio(a.others)
  /\ a.traded \in Int

UnitsTo(rs, k) == SumFunctionOnSet([i \in DOMAIN rs |-> Units(rs[i])], 1 .. k)

CostTo(rs, k) == SumFunctionOnSet([i \in DOMAIN rs |-> Cost(rs[i])], 1 .. k)

(* What p and o bought in all, and the cash they hold.                     *)
Together(p, o, symbol, units, cash) ==
  /\ \A s \in Symbols :
       Position(p, s) + Position(o, s) = IF s = symbol THEN units ELSE 0
  /\ p.cash + o.cash = cash

(* After k of the responses rs, of a call for this symbol that began with  *)
(* m events for the strategy, the owner, which had worked out bel before   *)
(* those: the answer to the strategy's own event is there, what it works   *)
(* out is the portfolio, and what it traded the others did.                *)
Heard(owner, fee, m, bel, symbol, rs, k, a) ==
  /\ Account(a)
  /\ Len(a.inbox) >= m /\ (k = 0 => Len(a.inbox) = m)
  /\ k > 0 /\ rs[1].owner_id = owner =>
       Len(a.inbox) > m /\ a.inbox[m + 1] = [symbol |-> symbol, event |-> rs[1]]
  /\ Counts(fee, bel, a.inbox, a.portfolio)
  /\ Together(a.portfolio, a.others, symbol, UnitsTo(rs, k),
              -(fee * a.traded) - CostTo(rs, k))

(* The sums over the responses grow one by one.                            *)
LEMMA SumsGrow ==
  ASSUME NEW rs \in Seq(Responses), NEW k \in Nat, k < Len(rs)
  PROVE  /\ UnitsTo(rs, k) \in Int /\ CostTo(rs, k) \in Int
         /\ UnitsTo(rs, k + 1) = UnitsTo(rs, k) + Units(rs[k + 1])
         /\ CostTo(rs, k + 1) = CostTo(rs, k) + Cost(rs[k + 1])
<1> DEFINE u == [i \in DOMAIN rs |-> Units(rs[i])]
           c == [i \in DOMAIN rs |-> Cost(rs[i])]
<1>1. \A i \in 1 .. (k + 1) :
        i \in DOMAIN rs /\ rs[i] \in Responses /\ k + 1 \in 1 .. (k + 1)
  OBVIOUS
<1>2. /\ \A i \in 1 .. (k + 1) : u[i] \in Int /\ c[i] \in Int
      /\ u[k + 1] = Units(rs[k + 1]) /\ c[k + 1] = Cost(rs[k + 1])
  BY <1>1, UnitsTyped
<1> HIDE DEF u, c
<1>3. \A i \in 1 .. k : u[i] \in Int /\ c[i] \in Int
  BY <1>2
<1>4. IsFiniteSet(1 .. k) /\ k + 1 \in 1 .. (k + 1)
  BY FS_Interval
<1>5. SumFunctionOnSet(u, 1 .. k) \in Int /\ SumFunctionOnSet(c, 1 .. k) \in Int
  BY <1>3, <1>4, SumType
<1>6. /\ SumFunctionOnSet(u, 1 .. (k + 1)) = SumFunctionOnSet(u, 1 .. k) + u[k + 1]
      /\ SumFunctionOnSet(c, 1 .. (k + 1)) = SumFunctionOnSet(c, 1 .. k) + c[k + 1]
  BY <1>2, <1>3, <1>4, SumAppend
<1> QED BY <1>2, <1>5, <1>6 DEF UnitsTo, CostTo, u, c

(* A response that one of the two is told of moves the two together.       *)
LEMMA ApplyTogether ==
  ASSUME NEW p, Folio(p), NEW o, Folio(o), NEW symbol \in Symbols, NEW r \in Responses,
         NEW fee \in Int, NEW units \in Int, NEW cash \in Int,
         Together(p, o, symbol, units, cash)
  PROVE  /\ Together(Apply(p, symbol, r, fee), o, symbol, units + Units(r),
                     cash - Cost(r) - Charged(r, fee))
         /\ Together(p, Apply(o, symbol, r, 0), symbol, units + Units(r), cash - Cost(r))
<1> DEFINE q == Apply(p, symbol, r, fee)
           w == Apply(o, symbol, r, 0)
<1>1. /\ q.cash = p.cash - Cost(r) - Charged(r, fee)
      /\ \A s : Position(q, s) = Position(p, s) + Moved(r, symbol, s)
  BY ApplyIs
<1>2. /\ w.cash = o.cash - Cost(r) - Charged(r, 0)
      /\ \A s : Position(w, s) = Position(o, s) + Moved(r, symbol, s)
  BY ApplyIs
<1>3. /\ r.quantity \in Int /\ Units(r) \in Int /\ Cost(r) \in Int
  BY UnitsTyped DEF Responses
<1>4. Charged(r, 0) = 0 /\ Charged(r, fee) \in Int
  BY <1>3 DEF Charged
<1>5. p.cash \in Int /\ o.cash \in Int
  BY DEF Folio
<1>6. \A s : Position(p, s) \in Int /\ Position(o, s) \in Int
  BY PositionTyped
<1> HIDE DEF q, w
<1>7. ASSUME NEW s \in Symbols
      PROVE  /\ Position(q, s) + Position(o, s) = IF s = symbol THEN units + Units(r) ELSE 0
             /\ Position(p, s) + Position(w, s) = IF s = symbol THEN units + Units(r) ELSE 0
  <2>1. Position(p, s) + Position(o, s) = IF s = symbol THEN units ELSE 0
    BY DEF Together
  <2>2. Moved(r, symbol, s) = IF s = symbol THEN Units(r) ELSE 0
    BY DEF Moved
  <2>3. Position(q, s) = Position(p, s) + Moved(r, symbol, s)
    BY <1>1
  <2>4. Position(w, s) = Position(o, s) + Moved(r, symbol, s)
    BY <1>2
  <2> QED BY <1>3, <1>6, <2>1, <2>2, <2>3, <2>4
<1>8. /\ q.cash + o.cash = cash - Cost(r) - Charged(r, fee)
      /\ p.cash + w.cash = cash - Cost(r)
  <2>1. p.cash + o.cash = cash
    BY DEF Together
  <2> QED BY <1>1, <1>2, <1>3, <1>4, <1>5, <2>1
<1> QED BY <1>7, <1>8 DEF Together, q, w

(* The fee grows with the units traded.                                    *)
LEMMA FeeGrows ==
  ASSUME NEW fee \in Int, NEW n \in Int, NEW r \in Responses
  PROVE  fee * (IF IsFill(r) THEN n + r.quantity ELSE n) = fee * n + Charged(r, fee)
<1>1. r.quantity \in Int /\ \A t, q \in Int : fee * (t + q) = fee * t + fee * q
  BY DEF Responses
<1> QED BY <1>1 DEF Charged

(* One response more, to the strategy.                                     *)
LEMMA ReceiveMine ==
  ASSUME NEW owner, NEW fee \in Int, NEW m \in Nat, NEW bel, NEW symbol \in Symbols,
         NEW rs \in Seq(Responses), NEW k \in Nat, k < Len(rs), NEW a,
         Heard(owner, fee, m, bel, symbol, rs, k, a),
         NEW r \in Responses, r = rs[k + 1],
         NEW note, note = [symbol |-> symbol, event |-> r]
  PROVE  Heard(owner, fee, m, bel, symbol, rs, k + 1,
               [inbox |-> Append(a.inbox, note),
                portfolio |-> Apply(a.portfolio, symbol, r, fee),
                others |-> a.others,
                traded |-> IF IsFill(r) THEN a.traded + r.quantity ELSE a.traded])
<1> DEFINE p == Apply(a.portfolio, symbol, r, fee)
           box == Append(a.inbox, note)
           units == IF IsFill(r) THEN a.traded + r.quantity ELSE a.traded
           z == [inbox |-> box, portfolio |-> p, others |-> a.others, traded |-> units]
<1>1. /\ a.inbox \in Seq(Notes) /\ Folio(a.portfolio) /\ Folio(a.others)
      /\ a.traded \in Int /\ Len(a.inbox) >= m
      /\ Counts(fee, bel, a.inbox, a.portfolio)
      /\ k = 0 => Len(a.inbox) = m
      /\ k > 0 /\ rs[1].owner_id = owner =>
           Len(a.inbox) > m /\ a.inbox[m + 1] = [symbol |-> symbol, event |-> rs[1]]
      /\ Together(a.portfolio, a.others, symbol, UnitsTo(rs, k),
                  -(fee * a.traded) - CostTo(rs, k))
  BY DEF Heard, Account
<1>2. note \in Notes /\ note.symbol = symbol /\ note.event = r
  BY DEF Notes
<1>3. /\ UnitsTo(rs, k) \in Int /\ CostTo(rs, k) \in Int
      /\ UnitsTo(rs, k + 1) = UnitsTo(rs, k) + Units(r)
      /\ CostTo(rs, k + 1) = CostTo(rs, k) + Cost(r)
  BY SumsGrow
<1>4. /\ units \in Int /\ fee * units = fee * a.traded + Charged(r, fee)
      /\ fee * a.traded \in Int /\ Charged(r, fee) \in Int /\ Cost(r) \in Int
  <2>1. r.quantity \in Int /\ Cost(r) \in Int
    BY UnitsTyped DEF Responses
  <2>2. Charged(r, fee) \in Int /\ units \in Int /\ fee * a.traded \in Int
    BY <1>1, <2>1, SMTT(30) DEF Charged
  <2> QED BY <1>1, <2>1, <2>2, FeeGrows
<1>5. Folio(p)
  BY <1>1, ApplyIs
<1>6. Together(p, a.others, symbol, UnitsTo(rs, k) + Units(r),
               -(fee * a.traded) - CostTo(rs, k) - Cost(r) - Charged(r, fee))
  <2> DEFINE cash == -(fee * a.traded) - CostTo(rs, k)
  <2>1. cash \in Int
    BY <1>3, <1>4
  <2> HIDE DEF cash
  <2>2. Together(p, a.others, symbol, UnitsTo(rs, k) + Units(r),
                 cash - Cost(r) - Charged(r, fee))
    BY <1>1, <1>3, <2>1, ApplyTogether DEF cash
  <2> QED BY <2>2 DEF cash
<1>7. Counts(fee, bel, box, p)
  BY <1>1, <1>2, CountMore
<1>8. /\ box \in Seq(Notes) /\ Len(box) = Len(a.inbox) + 1 /\ Len(a.inbox) \in Nat
      /\ box[Len(a.inbox) + 1] = note
      /\ \A i \in 1 .. Len(a.inbox) : box[i] = a.inbox[i]
  BY <1>1, <1>2
<1> HIDE DEF p, box, units
<1>9. -(fee * units) - CostTo(rs, k + 1)
        = -(fee * a.traded) - CostTo(rs, k) - Cost(r) - Charged(r, fee)
  <2> DEFINE x == fee * units
             y == fee * a.traded
  <2>1. x = y + Charged(r, fee) /\ y \in Int
    BY <1>4
  <2> HIDE DEF x, y
  <2>2. -x - CostTo(rs, k + 1) = -y - CostTo(rs, k) - Cost(r) - Charged(r, fee)
    BY <1>3, <1>4, <2>1
  <2> QED BY <2>2 DEF x, y
<1>10. rs[1].owner_id = owner => Len(box) > m /\ box[m + 1] = [symbol |-> symbol, event |-> rs[1]]
  <2>1. CASE k = 0
    BY <1>1, <1>8, <2>1
  <2>2. CASE k > 0
    <3> SUFFICES ASSUME rs[1].owner_id = owner
                 PROVE  Len(box) > m /\ box[m + 1] = [symbol |-> symbol, event |-> rs[1]]
      OBVIOUS
    <3>1. Len(a.inbox) > m /\ a.inbox[m + 1] = [symbol |-> symbol, event |-> rs[1]]
      BY <1>1, <2>2
    <3>2. m + 1 \in 1 .. Len(a.inbox) /\ Len(box) > m
      BY <1>8, <3>1
    <3> QED BY <1>8, <3>1, <3>2
  <2> QED BY <2>1, <2>2
<1>11. /\ z.inbox = box /\ z.portfolio = p /\ z.others = a.others /\ z.traded = units
       /\ z = [inbox |-> z.inbox, portfolio |-> z.portfolio, others |-> z.others,
               traded |-> z.traded]
  OBVIOUS
<1> HIDE DEF z
<1>12. Account(z) /\ Len(z.inbox) >= m /\ k + 1 # 0
  <2>1. z.inbox \in Seq(Notes) /\ Len(z.inbox) >= m
    BY <1>1, <1>8, <1>11
  <2>2. Folio(z.portfolio) /\ Folio(z.others) /\ z.traded \in Int
    BY <1>1, <1>4, <1>5, <1>11 DEF Account
  <2> QED BY <1>11, <2>1, <2>2 DEF Account
<1>13. Heard(owner, fee, m, bel, symbol, rs, k + 1, z)
  BY <1>3, <1>6, <1>7, <1>9, <1>10, <1>11, <1>12 DEF Heard
<1> QED BY <1>13 DEF z, p, box, units

(* One response more, to somebody else.                                    *)
LEMMA ReceiveOther ==
  ASSUME NEW owner, NEW fee \in Int, NEW m \in Nat, NEW bel, NEW symbol \in Symbols,
         NEW rs \in Seq(Responses), NEW k \in Nat, k < Len(rs), NEW a,
         Heard(owner, fee, m, bel, symbol, rs, k, a),
         NEW r \in Responses, r = rs[k + 1], r.owner_id # owner
  PROVE  Heard(owner, fee, m, bel, symbol, rs, k + 1,
               [a EXCEPT !.others = Apply(a.others, symbol, r, 0)])
<1> DEFINE p == Apply(a.others, symbol, r, 0)
           z == [a EXCEPT !.others = p]
<1>1. /\ a.inbox \in Seq(Notes) /\ Folio(a.portfolio) /\ Folio(a.others)
      /\ a.traded \in Int /\ Len(a.inbox) >= m
      /\ Counts(fee, bel, a.inbox, a.portfolio)
      /\ k > 0 /\ rs[1].owner_id = owner =>
           Len(a.inbox) > m /\ a.inbox[m + 1] = [symbol |-> symbol, event |-> rs[1]]
      /\ Together(a.portfolio, a.others, symbol, UnitsTo(rs, k),
                  -(fee * a.traded) - CostTo(rs, k))
      /\ a = [inbox |-> a.inbox, portfolio |-> a.portfolio, others |-> a.others,
              traded |-> a.traded]
  BY DEF Heard, Account
<1>3. /\ UnitsTo(rs, k) \in Int /\ CostTo(rs, k) \in Int
      /\ UnitsTo(rs, k + 1) = UnitsTo(rs, k) + Units(r)
      /\ CostTo(rs, k + 1) = CostTo(rs, k) + Cost(r)
  BY SumsGrow
<1>4. fee * a.traded \in Int /\ Cost(r) \in Int
  BY <1>1, UnitsTyped, SMTT(30)
<1>5. Folio(p)
  <2>1. Folio(a.others) /\ 0 \in Int
    BY <1>1
  <2>2. Folio(Apply(a.others, symbol, r, 0))
    BY ONLY <2>1, ApplyIs, symbol \in Symbols, r \in Responses
  <2> QED BY <2>2
<1>6. Together(a.portfolio, p, symbol, UnitsTo(rs, k) + Units(r),
               -(fee * a.traded) - CostTo(rs, k) - Cost(r))
  <2> DEFINE cash == -(fee * a.traded) - CostTo(rs, k)
  <2>1. cash \in Int
    BY <1>3, <1>4
  <2> HIDE DEF cash
  <2>2. Together(a.portfolio, p, symbol, UnitsTo(rs, k) + Units(r), cash - Cost(r))
    BY <1>1, <1>3, <2>1, ApplyTogether DEF cash
  <2> QED BY <2>2 DEF cash
<1> HIDE DEF p
<1>9. -(fee * a.traded) - CostTo(rs, k + 1)
        = -(fee * a.traded) - CostTo(rs, k) - Cost(r)
  <2> DEFINE y == fee * a.traded
  <2>1. y \in Int
    BY <1>4
  <2> HIDE DEF y
  <2>2. -y - CostTo(rs, k + 1) = -y - CostTo(rs, k) - Cost(r)
    BY <1>3, <1>4, <2>1
  <2> QED BY <2>2 DEF y
<1>10. rs[1].owner_id = owner =>
         Len(a.inbox) > m /\ a.inbox[m + 1] = [symbol |-> symbol, event |-> rs[1]]
  <2>1. CASE k = 0
    BY <2>1
  <2>2. CASE k > 0
    BY <1>1, <2>2
  <2> QED BY <2>1, <2>2
<1>11. /\ z.inbox = a.inbox /\ z.portfolio = a.portfolio /\ z.others = p
       /\ z.traded = a.traded
       /\ z = [inbox |-> z.inbox, portfolio |-> z.portfolio, others |-> z.others,
               traded |-> z.traded]
  BY <1>1, SMTT(30)
<1> HIDE DEF z
<1>12. Account(z) /\ Len(z.inbox) >= m /\ k + 1 # 0
  BY <1>1, <1>4, <1>5, <1>11 DEF Account
<1>13. Heard(owner, fee, m, bel, symbol, rs, k + 1, z)
  BY <1>1, <1>3, <1>6, <1>9, <1>10, <1>11, <1>12 DEF Heard
<1> QED BY <1>13 DEF z, p

(* The loop of processEvent makes z of a, response by response.            *)
Receives(a, rs, z) ==
  \E h : /\ h[0] = a /\ h[Len(rs)] = z
         /\ \A k \in 0 .. Len(rs) - 1 : h[k + 1] = Receive(h[k], rs[k + 1])

(* What processEvent accumulates is the fold of Receive.                   *)
LEMMA ReceivedSteps ==
  ASSUME NEW S, NEW rs \in Seq(S), NEW a
  PROVE  Receives(a, rs, FoldLeft(Receive, a, rs))
<1> DEFINE f(k) == Received!Fold(rs, a, 1 .. k)
           last == Len(rs)
           h == [k \in Nat |-> f(k)]
<1>1. FoldLeft(Receive, a, rs) = Received!Fold(rs, a, DOMAIN rs)
  BY DEF FoldLeft, MapThenFoldSet, LastOf, Received!Fold, Received!MapThenFoldSet
<1>2. last \in Nat /\ DOMAIN rs = 1 .. last
  OBVIOUS
<1>3. f(0) = a
  <2>1. 1 .. 0 = {}
    OBVIOUS
  <2> QED BY <2>1, Received!FoldEmpty
<1>4. \A k \in Nat : f(k + 1) = Receive(f(k), rs[k + 1])
  BY FoldsInOrder, Received!FoldLast
<1> HIDE DEF f, last
<1>5. /\ h[0] = a /\ h[last] = FoldLeft(Receive, a, rs)
      /\ \A k \in 0 .. last - 1 : h[k + 1] = Receive(h[k], rs[k + 1])
  BY <1>1, <1>2, <1>3, <1>4 DEF f
<1> HIDE DEF h
<1> QED BY <1>5 DEF last, Receives

(* All the responses.                                                      *)
LEMMA ReceiveAll ==
  ASSUME config.feeTicks \in Int, Head(due).event.symbol \in Symbols,
         NEW m \in Nat, NEW bel, NEW rs \in Seq(Responses), NEW a,
         Heard(config.strategyOwnerId, config.feeTicks, m, bel, Head(due).event.symbol, rs, 0, a)
  PROVE  Heard(config.strategyOwnerId, config.feeTicks, m, bel, Head(due).event.symbol, rs,
               Len(rs), FoldLeft(Receive, a, rs))
<1> DEFINE last == Len(rs)
           z == FoldLeft(Receive, a, rs)
           symbol == Head(due).event.symbol
           owner == config.strategyOwnerId
           fee == config.feeTicks
<1>1. Receives(a, rs, z)
  BY ReceivedSteps
<1> HIDE DEF z
<1>2. PICK h : /\ h[0] = a /\ h[last] = z
               /\ \A k \in 0 .. last - 1 : h[k + 1] = Receive(h[k], rs[k + 1])
  BY <1>1 DEF Receives
<1>3. last \in Nat /\ symbol \in Symbols /\ fee \in Int
  OBVIOUS
<1>4. \A x, r : Receive(x, r) =
          IF r.owner_id = owner
          THEN [inbox |-> Append(x.inbox, [symbol |-> symbol, event |-> r]),
                portfolio |-> Apply(x.portfolio, symbol, r, fee), others |-> x.others,
                traded |-> IF IsFill(r) THEN x.traded + r.quantity ELSE x.traded]
          ELSE [x EXCEPT !.others = Apply(x.others, symbol, r, 0)]
  BY DEF Receive
<1> HIDE DEF symbol, owner, fee
<1> DEFINE P == {k \in Nat : k <= last => Heard(owner, fee, m, bel, symbol, rs, k, h[k])}
<1>5. 0 \in P
  BY <1>2 DEF symbol, owner, fee
<1>6. ASSUME NEW k \in Nat, k \in P PROVE k + 1 \in P
  <2> SUFFICES ASSUME k + 1 <= last
               PROVE  Heard(owner, fee, m, bel, symbol, rs, k + 1, h[k + 1])
    OBVIOUS
  <2>1. k < Len(rs) /\ k \in 0 .. last - 1 /\ Heard(owner, fee, m, bel, symbol, rs, k, h[k])
    BY <1>3, <1>6
  <2> DEFINE r == rs[k + 1]
             note == [symbol |-> symbol, event |-> r]
             x == h[k]
  <2>2. r \in Responses
    BY <2>1
  <2>3. h[k + 1] = Receive(x, r)
    BY <1>2, <2>1
  <2>4. Receive(x, r) =
          IF r.owner_id = owner
          THEN [inbox |-> Append(x.inbox, note), portfolio |-> Apply(x.portfolio, symbol, r, fee),
                others |-> x.others,
                traded |-> IF IsFill(r) THEN x.traded + r.quantity ELSE x.traded]
          ELSE [x EXCEPT !.others = Apply(x.others, symbol, r, 0)]
    BY <1>4
  <2> HIDE DEF x
  <2>5. Heard(owner, fee, m, bel, symbol, rs, k + 1, Receive(x, r))
    <3>0. Heard(owner, fee, m, bel, symbol, rs, k, x)
      BY <2>1 DEF x
    <3>1. CASE r.owner_id = owner
      BY <1>3, <2>1, <2>2, <2>4, <3>0, <3>1, ReceiveMine, ZenonT(40)
    <3>2. CASE r.owner_id # owner
      BY <1>3, <2>1, <2>2, <2>4, <3>0, <3>2, ReceiveOther
    <3> QED BY <3>1, <3>2
  <2> QED BY <2>3, <2>5
<1> HIDE DEF P
<1>7. Nat \subseteq P
  BY <1>5, <1>6, NatSet
<1>8. Heard(owner, fee, m, bel, symbol, rs, last, z)
  BY <1>2, <1>3, <1>7 DEF P
<1> QED BY <1>8 DEF owner, fee, symbol, last, z

-----------------------------------------------------------------------------
(* The quantity at a price, and whether there is any.                      *)
LEMMA QuantityTyped ==
  ASSUME NEW b, TypedOrders(b.orders), NEW side, NEW price
  PROVE  /\ QuantityAtPrice(b, side, price) \in Int
         /\ IF price \in Prices(b, side) THEN QuantityAtPrice(b, side, price) > 0
            ELSE QuantityAtPrice(b, side, price) = 0
<1> DEFINE f == [n \in DOMAIN b.orders |-> b.orders[n].quantity]
           S == {n \in DOMAIN b.orders : b.orders[n].side = side /\ b.orders[n].price = price}
<1>1. IsFiniteSet(S)
  BY FS_Subset DEF TypedOrders
<1>2. \A n \in S : f[n] \in Int /\ f[n] > 0
  BY DEF TypedOrders, Orders
<1>3. QuantityAtPrice(b, side, price) = SumFunctionOnSet(f, S)
  BY DEF QuantityAtPrice
<1>4. price \in Prices(b, side) <=> S # {}
  BY DEF Prices
<1> HIDE DEF f, S
<1>5. SumFunctionOnSet(f, S) \in Int
  BY <1>1, <1>2, SumType
<1>6. S # {} => SumFunctionOnSet(f, S) > 0
  BY <1>1, <1>2, SumPositive
<1>7. S = {} => SumFunctionOnSet(f, S) = 0
  BY SumEmpty
<1> QED BY <1>3, <1>4, <1>5, <1>6, <1>7

(* A level that stays the same has the quantity it had, and orders if it   *)
(* had any.                                                                *)
LEMMA LevelSameQuantity ==
  ASSUME NEW b, NEW c, TypedOrders(b.orders), NEW side, NEW price,
         LevelSame(b.orders, c.orders, side, price)
  PROVE  /\ QuantityAtPrice(c, side, price) = QuantityAtPrice(b, side, price)
         /\ price \in Prices(c, side) <=> price \in Prices(b, side)
<1> DEFINE f == [n \in DOMAIN b.orders |-> b.orders[n].quantity]
           g == [n \in DOMAIN c.orders |-> c.orders[n].quantity]
           S == LevelOf(b.orders, side, price)
<1>1. IsFiniteSet(S)
  BY FS_Subset DEF TypedOrders, LevelOf
<1>2. LevelOf(c.orders, side, price) = S /\ \A n \in S : g[n] = f[n]
  BY DEF LevelSame, LevelOf
<1>3. /\ QuantityAtPrice(b, side, price) = SumFunctionOnSet(f, S)
      /\ QuantityAtPrice(c, side, price) = SumFunctionOnSet(g, S)
  BY <1>2 DEF QuantityAtPrice, LevelOf
<1>4. /\ price \in Prices(b, side) <=> S # {}
      /\ price \in Prices(c, side) <=> LevelOf(c.orders, side, price) # {}
  BY DEF Prices, LevelOf
<1> HIDE DEF f, g, S
<1>5. SumFunctionOnSet(f, S) = SumFunctionOnSet(g, S)
  BY <1>1, <1>2, SumSame
<1> QED BY <1>2, <1>3, <1>4, <1>5

(* Analytics that hold what the book does.                                 *)
Mirror(levels, b) ==
  \A side \in Sides :
    levels[side] = [p \in Prices(b, side) |-> QuantityAtPrice(b, side, p)]

(* After a call that names every level it changed, refreshing those that   *)
(* it named is enough.                                                     *)
LEMMA RefreshMirrors ==
  ASSUME NEW levels, NEW b, NEW c, NEW order_type, Mirror(levels, b),
         TypedOrders(b.orders), TypedOrders(c.orders),
         NEW rs \in Seq(Responses),
         LevelsNamed(b.orders, c.orders, rs, order_type)
  PROVE  Mirror(Refresh(levels, c, rs, order_type), c)
<1> SUFFICES ASSUME NEW side \in Sides
             PROVE  Refresh(levels, c, rs, order_type)[side]
                      = [p \in Prices(c, side) |-> QuantityAtPrice(c, side, p)]
  BY DEF Mirror
<1> DEFINE changed == ChangedPrices(rs, order_type, side)
           Q(p) == QuantityAtPrice(c, side, p)
           left == {p \in changed : Q(p) # 0}
<1>1. Refresh(levels, c, rs, order_type)[side]
        = [p \in (DOMAIN levels[side] \ changed) \cup left |->
             IF p \in changed THEN Q(p) ELSE levels[side][p]]
  BY DEF Refresh, SetLevels
<1>2. /\ DOMAIN levels[side] = Prices(b, side)
      /\ \A p \in Prices(b, side) : levels[side][p] = QuantityAtPrice(b, side, p)
  BY DEF Mirror
<1>3. \A p \in Int : p \notin changed =>
        /\ Q(p) = QuantityAtPrice(b, side, p)
        /\ p \in Prices(c, side) <=> p \in Prices(b, side)
  <2> SUFFICES ASSUME NEW p \in Int, p \notin changed
               PROVE  /\ Q(p) = QuantityAtPrice(b, side, p)
                      /\ p \in Prices(c, side) <=> p \in Prices(b, side)
    OBVIOUS
  <2>1. ~Named(rs, order_type, side, p)
    <3>1. DOMAIN rs = 1 .. Len(rs)
      OBVIOUS
    <3> QED BY <3>1 DEF Named, ChangedPrices, Announces
  <2>2. LevelSame(b.orders, c.orders, side, p)
    BY <2>1 DEF LevelsNamed
  <2> QED BY <2>2, LevelSameQuantity
<1>4. \A p : IF p \in Prices(c, side) THEN Q(p) > 0 ELSE Q(p) = 0
  BY QuantityTyped
<1>5. \A p : Q(p) \in Int
  BY QuantityTyped
<1>6. Prices(b, side) \subseteq Int /\ Prices(c, side) \subseteq Int
  BY DEF Prices, TypedOrders, Orders
<1> HIDE DEF changed, Q
<1>7. (DOMAIN levels[side] \ changed) \cup left = Prices(c, side)
  <2>1. \A p \in changed : p \in left <=> p \in Prices(c, side)
    BY <1>4, <1>5
  <2> QED BY <1>2, <1>3, <1>6, <2>1
<1>8. \A p \in Prices(c, side) : (IF p \in changed THEN Q(p) ELSE levels[side][p]) = Q(p)
  BY <1>2, <1>3, <1>6
<1> QED BY <1>1, <1>7, <1>8 DEF Q

-----------------------------------------------------------------------------
(* The book of a symbol between two calls.                                 *)
Idle(b) == GoodBook(b) /\ b.taker = Null /\ b.responses = << >> /\ Uncrossed(b.orders)

(* A new book has no orders.                                               *)
LEMMA EmptyIdle ==
  /\ Idle(EmptyBook)
  /\ Mirror([side \in Sides |-> EmptyMap], EmptyBook)
<1>1. DOMAIN EmptyBook.orders = {} /\ EmptyBook.before = {} /\ EmptyBook.taker = Null
      /\ EmptyBook.responses = << >> /\ Formed(EmptyBook)
  BY DEF EmptyBook, EmptyMap, Formed
<1>2. TypedOrders(EmptyBook.orders)
  BY <1>1, FS_EmptySet DEF TypedOrders
<1>3. Ranked(EmptyBook.orders, EmptyBook.before)
  BY <1>1 DEF Ranked
<1>4. Idle(EmptyBook)
  BY <1>1, <1>2, <1>3 DEF Idle, GoodBook, Engaged, Uncrossed
<1>5. \A side : Prices(EmptyBook, side) = {}
  BY <1>1 DEF Prices
<1> HIDE DEF EmptyBook
<1>6. ASSUME NEW side \in Sides
      PROVE  EmptyMap = [p \in Prices(EmptyBook, side) |-> QuantityAtPrice(EmptyBook, side, p)]
  BY <1>5 DEF EmptyMap
<1> QED BY <1>4, <1>6 DEF Mirror

(* What outlives every step of the backtest besides its order and times.   *)
MarketInv ==
  /\ IsFiniteSet(DOMAIN books) /\ DOMAIN books \subseteq Symbols
  /\ DOMAIN analytics = DOMAIN books
  /\ \A symbol \in DOMAIN books :
       Idle(books[symbol]) /\ Mirror(analytics[symbol], books[symbol])

(* The strategy, which had worked out bel before the events of a.inbox,    *)
(* works out its portfolio, and what it traded the others did.             *)
Settled(fee, bel, a) ==
  /\ Account(a)
  /\ Counts(fee, bel, a.inbox, a.portfolio)
  /\ \A s \in Symbols : Position(a.portfolio, s) + Position(a.others, s) = 0
  /\ a.portfolio.cash + a.others.cash = -(fee * a.traded)

Books == [inbox |-> inbox, portfolio |-> portfolio, others |-> others, traded |-> traded]

Accounts == Settled(config.feeTicks, believed, Books)

(* What is settled is what is heard before the first response.             *)
LEMMA SettledIsHeard ==
  ASSUME NEW owner, NEW fee \in Int, NEW bel, NEW a, Settled(fee, bel, a),
         NEW symbol \in Symbols, NEW rs \in Seq(Responses)
  PROVE  Len(a.inbox) \in Nat /\ Heard(owner, fee, Len(a.inbox), bel, symbol, rs, 0, a)
<1>1. 1 .. 0 = {}
  OBVIOUS
<1>2. UnitsTo(rs, 0) = 0 /\ CostTo(rs, 0) = 0
  BY <1>1, SumEmpty DEF UnitsTo, CostTo
<1>3. /\ Account(a) /\ Counts(fee, bel, a.inbox, a.portfolio) /\ fee * a.traded \in Int
      /\ \A s \in Symbols : Position(a.portfolio, s) + Position(a.others, s) = 0
      /\ a.portfolio.cash + a.others.cash = -(fee * a.traded)
  BY DEF Settled, Account
<1>4. Len(a.inbox) \in Nat
  BY <1>3 DEF Account
<1>5. Together(a.portfolio, a.others, symbol, UnitsTo(rs, 0), -(fee * a.traded) - CostTo(rs, 0))
  <2> DEFINE y == fee * a.traded
  <2>1. y \in Int /\ a.portfolio.cash + a.others.cash = -y
    BY <1>3
  <2> HIDE DEF y
  <2>2. -y - CostTo(rs, 0) = -y
    BY <1>2, <2>1
  <2>3. Together(a.portfolio, a.others, symbol, 0, -y)
    BY <1>3, <2>1 DEF Together
  <2> QED BY <1>2, <2>2, <2>3 DEF y
<1> QED BY <1>3, <1>4, <1>5 DEF Heard

(* When the whole of a balanced call is heard all is settled again.        *)
LEMMA HeardIsSettled ==
  ASSUME NEW owner, NEW fee \in Int, NEW m \in Nat, NEW bel, NEW symbol \in Symbols,
         NEW rs \in Seq(Responses), NEW a,
         Heard(owner, fee, m, bel, symbol, rs, Len(rs), a), Balanced(rs)
  PROVE  Settled(fee, bel, a)
<1>1. DOMAIN rs = 1 .. Len(rs)
  OBVIOUS
<1>2. UnitsTo(rs, Len(rs)) = 0 /\ CostTo(rs, Len(rs)) = 0
  BY <1>1 DEF Balanced, Bought, Paid, UnitsTo, CostTo
<1>3. /\ Account(a) /\ Counts(fee, bel, a.inbox, a.portfolio) /\ fee * a.traded \in Int
      /\ Together(a.portfolio, a.others, symbol, 0, -(fee * a.traded) - 0)
  BY <1>2 DEF Heard, Account
<1>4. \A s \in Symbols : Position(a.portfolio, s) + Position(a.others, s) = 0
  BY <1>3 DEF Together
<1>5. a.portfolio.cash + a.others.cash = -(fee * a.traded)
  <2> DEFINE y == fee * a.traded
  <2>1. y \in Int /\ a.portfolio.cash + a.others.cash = -y - 0
    BY <1>3 DEF Together
  <2> HIDE DEF y
  <2>2. a.portfolio.cash + a.others.cash = -y
    BY <2>1
  <2> QED BY <2>2 DEF y
<1> QED BY <1>3, <1>4, <1>5 DEF Settled

-----------------------------------------------------------------------------
(* What processEvent does for a symbol: a whole call of its book, and the  *)
(* responses to it, shown to whom they belong.                             *)
Processed(e, c) ==
  /\ Done(BookOf(e.symbol), e, c) /\ c.taker = Null
  /\ books' = With(books, e.symbol, Reply(c, << >>))
  /\ analytics' = With(analytics, e.symbol,
                       Refresh(AnalyticsOf(e.symbol), c, c.responses, e.order_type))
  /\ Books' = [inbox |-> inbox', portfolio |-> portfolio', others |-> others',
               traded |-> traded']
  /\ inbox' = FoldLeft(Receive, Books, c.responses).inbox
  /\ portfolio' = FoldLeft(Receive, Books, c.responses).portfolio
  /\ others' = FoldLeft(Receive, Books, c.responses).others
  /\ traded' = FoldLeft(Receive, Books, c.responses).traded

(* A book between two calls, also one that is not there yet.               *)
LEMMA BookIsIdle ==
  ASSUME MarketInv, NEW symbol
  PROVE  Idle(BookOf(symbol)) /\ Mirror(AnalyticsOf(symbol), BookOf(symbol))
BY EmptyIdle DEF MarketInv, BookOf, AnalyticsOf

(* The event comes to an idle book, which is left idle.                    *)
LEMMA EventProcessed ==
  ASSUME OrderInv, EventsTyped, MarketInv, ProcessEvent
  PROVE  \E e, c :
           /\ e \in BackTestEvents /\ e = Head(due).event /\ e = latest'.event
           /\ c = ProcessOrder(BookOf(e.symbol), e)
           /\ Processed(e, c)
<1> DEFINE e == Head(due).event
           b == BookOf(e.symbol)
           c == ProcessOrder(b, e)
<1>1. latest' = Head(due) /\ due # << >> /\ Head(due) = due[1] /\ Len(due) \in Nat /\ Len(due) > 0
  BY TailDue DEF ProcessEvent, OrderInv, Entries
<1>2. e \in BackTestEvents
  <2>1. 1 \in 1 .. Len(due)
    BY <1>1
  <2> QED BY <1>1, <2>1 DEF EventsTyped
<1>3. IsOrder(e)
  BY <1>2, EventIsOrder
<1>4. Idle(b)
  BY BookIsIdle
<1>5. /\ books' = With(books, e.symbol, Reply(c, << >>))
      /\ analytics' = With(analytics, e.symbol,
                           Refresh(AnalyticsOf(e.symbol), c, c.responses, e.order_type))
      /\ inbox' = FoldLeft(Receive, Books, c.responses).inbox
      /\ portfolio' = FoldLeft(Receive, Books, c.responses).portfolio
      /\ others' = FoldLeft(Receive, Books, c.responses).others
      /\ traded' = FoldLeft(Receive, Books, c.responses).traded
  BY DEF ProcessEvent, Books
<1>6. Done(b, e, c) /\ c.taker = Null
  <2> HIDE DEF b, e
  <2> QED BY <1>3, <1>4, CallDone DEF Idle
<1>7. Books' = [inbox |-> inbox', portfolio |-> portfolio', others |-> others',
                traded |-> traded']
  BY DEF Books
<1>8. c = ProcessOrder(BookOf(e.symbol), e)
  OBVIOUS
<1> HIDE DEF c
<1>9. Processed(e, c)
  BY <1>5, <1>6, <1>7 DEF Processed
<1> QED BY <1>1, <1>2, <1>8, <1>9

(* The analytics of every symbol hold what its book does.                  *)
LEMMA MarketProcessed ==
  ASSUME MarketInv, NEW e \in BackTestEvents, NEW c, Processed(e, c)
  PROVE  MarketInv'
<1> DEFINE b == BookOf(e.symbol)
           levels == AnalyticsOf(e.symbol)
           left == Reply(c, << >>)
           fresh == Refresh(levels, c, c.responses, e.order_type)
<1>1. Idle(b) /\ Mirror(levels, b)
  BY BookIsIdle
<1>2. Done(b, e, c) /\ c.taker = Null
  BY DEF Processed
<1>3. books' = With(books, e.symbol, left) /\ analytics' = With(analytics, e.symbol, fresh)
  BY DEF Processed
<1>4. /\ GoodBook(left) /\ left.taker = Null /\ left.responses = << >>
      /\ left.orders = c.orders
  <2>1. GoodBook(c) /\ << >> \in Seq(Responses)
    BY <1>2 DEF Done
  <2> QED BY <1>2, <2>1, ReplyGood
<1>5. Idle(left)
  BY <1>2, <1>4 DEF Idle, Done
<1>6. Mirror(fresh, c)
  <2>1. /\ TypedOrders(b.orders) /\ TypedOrders(c.orders) /\ c.responses \in Seq(Responses)
        /\ LevelsNamed(b.orders, c.orders, c.responses, e.order_type)
    BY <1>1, <1>2 DEF Done, GoodBook, Idle
  <2> HIDE DEF b, levels
  <2> QED BY <1>1, <2>1, RefreshMirrors
<1>7. Mirror(fresh, left)
  <2>1. ASSUME NEW x, NEW y, NEW l, x.orders = y.orders, Mirror(l, y)
        PROVE  Mirror(l, x)
    <3>1. ASSUME NEW side \in Sides
          PROVE  l[side] = [p \in Prices(x, side) |-> QuantityAtPrice(x, side, p)]
      <4>1. Prices(x, side) = Prices(y, side)
        BY <2>1 DEF Prices
      <4>2. \A p : QuantityAtPrice(x, side, p) = QuantityAtPrice(y, side, p)
        BY <2>1 DEF QuantityAtPrice
      <4> QED BY <2>1, <4>1, <4>2 DEF Mirror
    <3> QED BY <3>1 DEF Mirror
  <2> HIDE DEF left, fresh
  <2> QED BY <1>4, <1>6, <2>1
<1>8. e.symbol \in Symbols
  BY DEF BackTestEvents
<1> HIDE DEF left, fresh
<1>9. /\ DOMAIN books' = DOMAIN books \cup {e.symbol}
      /\ DOMAIN analytics' = DOMAIN analytics \cup {e.symbol}
      /\ books'[e.symbol] = left /\ analytics'[e.symbol] = fresh
      /\ \A s \in DOMAIN books \ {e.symbol} : books'[s] = books[s]
      /\ \A s \in DOMAIN analytics \ {e.symbol} : analytics'[s] = analytics[s]
  BY <1>3 DEF With
<1>10. IsFiniteSet(DOMAIN books')
  BY <1>9, FS_AddElement DEF MarketInv
<1> QED BY <1>5, <1>7, <1>8, <1>9, <1>10 DEF MarketInv

(* The strategy is told of what happened to its orders, and what it traded *)
(* others did; the first answer to an event of its own comes first.        *)
LEMMA AccountsProcessed ==
  ASSUME OrderInv, Accounts, UNCHANGED <<config, believed>>,
         NEW e \in BackTestEvents, e = Head(due).event, NEW c, Processed(e, c)
  PROVE  /\ Accounts'
         /\ e.owner_id = config.strategyOwnerId =>
              \E i \in Len(inbox) + 1 .. Len(inbox') :
                /\ inbox'[i].symbol = e.symbol
                /\ inbox'[i].event.order_id = e.order_id
<1> DEFINE rs == c.responses
           owner == config.strategyOwnerId
           fee == config.feeTicks
           m == Len(inbox)
           z == FoldLeft(Receive, Books, rs)
<1>1. rs \in Seq(Responses) /\ Balanced(rs) /\ AnswersFirst(rs, e)
  BY DEF Processed, Done, GoodBook
<1>2. fee \in Int
  BY ConfigsAssumption DEF OrderInv, Clock
<1>3. e.symbol \in Symbols
  BY DEF BackTestEvents
<1>4. Settled(fee, believed, Books) /\ Books.inbox = inbox
  BY DEF Accounts, Books
<1>5. m \in Nat /\ Heard(owner, fee, m, believed, e.symbol, rs, 0, Books)
  BY <1>1, <1>2, <1>3, <1>4, SettledIsHeard
<1>6. Heard(owner, fee, m, believed, e.symbol, rs, Len(rs), z)
  <2> HIDE DEF rs, m
  <2> QED BY <1>1, <1>2, <1>3, <1>5, ReceiveAll
<1>7. Settled(fee, believed, z)
  <2> HIDE DEF rs, m, z, owner, fee
  <2> QED BY <1>1, <1>2, <1>3, <1>5, <1>6, HeardIsSettled
<1>8. z = Books'
  <2>1. /\ Books' = [inbox |-> inbox', portfolio |-> portfolio', others |-> others',
                     traded |-> traded']
        /\ inbox' = z.inbox /\ portfolio' = z.portfolio /\ others' = z.others
        /\ traded' = z.traded
    BY DEF Processed
  <2>2. z = [inbox |-> z.inbox, portfolio |-> z.portfolio, others |-> z.others,
             traded |-> z.traded]
    BY <1>7 DEF Settled, Account
  <2> HIDE DEF z
  <2> QED BY <2>1, <2>2
<1>9. Accounts'
  BY <1>7, <1>8 DEF Accounts
<1>10. ASSUME e.owner_id = config.strategyOwnerId
       PROVE  \E i \in Len(inbox) + 1 .. Len(inbox') :
                /\ inbox'[i].symbol = e.symbol
                /\ inbox'[i].event.order_id = e.order_id
  <2>1. Len(rs) > 0 /\ rs[1].owner_id = owner /\ rs[1].order_id = e.order_id
    BY <1>1, <1>10 DEF AnswersFirst
  <2>2. Len(z.inbox) > m /\ z.inbox[m + 1] = [symbol |-> e.symbol, event |-> rs[1]]
    BY <1>6, <2>1 DEF Heard
  <2>3. z.inbox = inbox' /\ Len(z.inbox) \in Nat
    BY <1>7 DEF Processed, Settled, Account
  <2>4. m + 1 \in Len(inbox) + 1 .. Len(inbox')
    BY <1>5, <2>2, <2>3
  <2>5. inbox'[m + 1].symbol = e.symbol /\ inbox'[m + 1].event.order_id = e.order_id
    BY <2>1, <2>2, <2>3
  <2> QED BY <2>4, <2>5
<1> QED BY <1>9, <1>10

(* Nothing is counted from no events.                                      *)
LEMMA CountNone ==
  ASSUME NEW fee, NEW p
  PROVE  Counts(fee, p, << >>, p)
<1> DEFINE h == [n \in {0} |-> p]
<1>1. h[0] = p /\ h[Len(<< >>)] = p /\ 0 .. Len(<< >>) - 1 = {}
  OBVIOUS
<1> HIDE DEF h
<1> QED BY <1>1 DEF Counts

(* After onTimeMove the strategy has worked out its portfolio.             *)
LEMMA ShownAccounts ==
  ASSUME Accounts, ShowInbox, UNCHANGED <<config, portfolio, others, traded>>
  PROVE  Accounts'
<1>1. Settled(config.feeTicks, believed, Books)
  BY DEF Accounts
<1>2. /\ inbox \in Seq(Notes) /\ Folio(portfolio) /\ Folio(others) /\ traded \in Int
      /\ Counts(config.feeTicks, believed, inbox, portfolio)
      /\ \A s \in Symbols : Position(portfolio, s) + Position(others, s) = 0
      /\ portfolio.cash + others.cash = -(config.feeTicks * traded)
  BY <1>1 DEF Settled, Account, Books
<1>3. believed' = portfolio /\ inbox' = << >>
  BY <1>2, CountIs DEF ShowInbox
<1>4. /\ Counts(config'.feeTicks, believed', inbox', portfolio') /\ inbox' \in Seq(Notes)
      /\ portfolio' = portfolio /\ others' = others /\ traded' = traded
      /\ config'.feeTicks = config.feeTicks
  BY <1>3, CountNone
<1>5. Settled(config'.feeTicks, believed', Books')
  BY <1>2, <1>4 DEF Settled, Account, Books
<1> QED BY <1>5 DEF Accounts

(* Accounts change only where events are processed or shown.               *)
LEMMA SameAccounts ==
  ASSUME Accounts,
         UNCHANGED <<config, inbox, portfolio, believed, others, traded>>
  PROVE  Accounts'
BY DEF Accounts, Books

(* The inductive invariant.                                                *)
RunInv == OrderInv /\ EventsTyped /\ MarketInv /\ Accounts

(* The backtest starts with no books and empty portfolios.                 *)
LEMMA InitRun == Init => RunInv
<1> SUFFICES ASSUME Init PROVE RunInv
  OBVIOUS
<1>1. OrderInv
  BY InitOrder
<1>2. EventsTyped
  <2>1. Len(due) = 0
    BY DEF Init
  <2> QED BY <2>1, FirstIdAssumption, MaxIntAssumption DEF Init, EventsTyped, EmptyQueue
<1>3. DOMAIN EmptyMap = {} /\ IsFiniteSet({})
  BY FS_EmptySet DEF EmptyMap
<1>4. MarketInv
  BY <1>3 DEF Init, MarketInv
<1>5. Folio(EmptyPortfolio) /\ \A s : Position(EmptyPortfolio, s) = 0
  <2>1. /\ EmptyPortfolio.cash = 0 /\ EmptyPortfolio.positions = EmptyMap
        /\ EmptyPortfolio = [cash |-> EmptyPortfolio.cash,
                             positions |-> EmptyPortfolio.positions]
    BY DEF EmptyPortfolio
  <2> HIDE DEF EmptyPortfolio
  <2> QED BY <1>3, <2>1 DEF Folio, Position
<1>6. Accounts
  <2>1. /\ inbox = << >> /\ inbox \in Seq(Notes) /\ portfolio = EmptyPortfolio
        /\ others = EmptyPortfolio /\ believed = EmptyPortfolio /\ traded = 0
        /\ config.feeTicks \in Int /\ EmptyPortfolio.cash = 0
    BY ConfigsAssumption DEF Init, EmptyPortfolio
  <2>2. config.feeTicks * traded = 0
    BY <2>1
  <2>3. Counts(config.feeTicks, believed, inbox, portfolio)
    BY <2>1, CountNone
  <2> HIDE DEF EmptyPortfolio
  <2> QED BY <1>5, <2>1, <2>2, <2>3 DEF Accounts, Settled, Account, Books
<1> QED BY <1>1, <1>2, <1>4, <1>6 DEF RunInv

(* Every step of the backtest keeps the invariant.                         *)
LEMMA NextRun == RunInv /\ [AnyNext]_vars => RunInv'
<1> SUFFICES ASSUME RunInv, [AnyNext]_vars PROVE RunInv'
  OBVIOUS
<1>1. OrderInv' /\ EventsTyped'
  BY NextOrder, NextEvents DEF RunInv
<1>2. CASE Construct \/ PopDueEvent \/ StartProcessing \/ Tick \/ UNCHANGED vars
  <2>1. UNCHANGED <<config, books, analytics, inbox, portfolio, believed, others, traded>>
    BY <1>2 DEF Construct, PopDueEvent, StartProcessing, Tick, engineVars, vars
  <2>2. MarketInv'
    BY <2>1 DEF RunInv, MarketInv
  <2> QED BY <1>1, <2>1, <2>2, SameAccounts DEF RunInv
<1>3. CASE PrintSummary
  <2>1. UNCHANGED <<config, books, analytics, inbox, portfolio, believed, others, traded>>
    BY <1>3 DEF PrintSummary
  <2>2. MarketInv'
    BY <2>1 DEF RunInv, MarketInv
  <2> QED BY <1>1, <2>1, <2>2, SameAccounts DEF RunInv
<1>4. ASSUME NEW c \in OrderCommands \cup {NoCommand}, OnTimeMove(c)
      PROVE  RunInv'
  <2>1. UNCHANGED <<config, books, analytics, portfolio, others, traded>> /\ ShowInbox
    BY <1>4 DEF OnTimeMove
  <2>2. MarketInv'
    BY <2>1 DEF RunInv, MarketInv
  <2> QED BY <1>1, <2>1, <2>2, ShownAccounts DEF RunInv
<1>5. CASE ProcessEvent
  <2>1. UNCHANGED <<config, believed>>
    BY <1>5 DEF ProcessEvent
  <2>2. PICK e, c : e \in BackTestEvents /\ e = Head(due).event /\ Processed(e, c)
    BY <1>5, EventProcessed DEF RunInv
  <2>3. MarketInv'
    BY <2>2, MarketProcessed DEF RunInv
  <2>4. Accounts'
    BY <2>1, <2>2, AccountsProcessed DEF RunInv
  <2> QED BY <1>1, <2>3, <2>4 DEF RunInv
<1> QED BY <1>2, <1>3, <1>4, <1>5 DEF AnyNext, Loop

(* The books, the analytics and the portfolios of a run, for any           *)
(* configuration, file and strategy.                                       *)
THEOREM RunInvariant == Spec => []RunInv
<1>1. RunInv /\ [Next]_vars => RunInv'
  BY NextRun, NextIsAny
<1> QED BY <1>1, InitRun, PTL DEF Spec

(* The types of include/backtester/backtest.hpp:33-57, TypeOK, hold: in    *)
(* particular no event is due and still queued, between two calls no book  *)
(* holds an order that is being matched, and now_ stays in int.            *)
THEOREM BacktestTyped == Spec => []TypeOK
<1>1. RunInv => TypeOK
  <2> SUFFICES ASSUME RunInv PROVE TypeOK
    OBVIOUS
  <2>1. at \in Places /\ config \in Configs /\ now \in -MaxInt - 1 .. MaxInt
    BY MaxIntAssumption DEF RunInv, OrderInv, Clock
  <2>2. nextStrategyOrderId \in -MaxInt - 1 .. MaxInt
    BY DEF RunInv, EventsTyped
  <2>3. /\ \A x \in queue.events : x.order \in 0 .. queue.order_counter - 1
        /\ latest = Null \/ latest.order \in 0 .. queue.order_counter - 1
    <3>1. \A x : IsEntry(x) => x.order \in 0 .. queue.order_counter - 1
      BY DEF IsEntry, RunInv, OrderInv, Entries
    <3> QED BY <3>1 DEF RunInv, OrderInv, Entries
  <2>4. \A i \in DOMAIN due : due[i] \notin queue.events
    <3>1. DOMAIN due = 1 .. Len(due)
      BY DEF RunInv, OrderInv, Entries
    <3>2. \A i \in 1 .. Len(due) : IsEntry(due[i])
      BY DEF RunInv, OrderInv, Entries
    <3>3. \A x : IsEntry(x) => ~Precedes(x, x)
      BY DEF IsEntry, Precedes
    <3> QED BY <3>1, <3>2, <3>3 DEF RunInv, OrderInv, Sorted
  <2>5. /\ \A symbol \in DOMAIN books :
             books[symbol].taker = Null /\ books[symbol].responses = << >>
        /\ DOMAIN analytics = DOMAIN books
    BY DEF RunInv, MarketInv, Idle
  <2>6. \A i \in DOMAIN inbox : inbox[i].event.type \in ResponseEvents
    <3>1. inbox \in Seq(Notes)
      BY DEF RunInv, Accounts, Settled, Account, Books
    <3>2. \A i \in DOMAIN inbox : inbox[i] \in Notes
      BY <3>1
    <3>3. \A r \in Responses : r.type \in ResponseEvents
      BY DEF Responses
    <3>4. \A x \in Notes : x.event \in Responses
      BY DEF Notes
    <3> QED BY <3>2, <3>3, <3>4
  <2> QED BY <2>1, <2>2, <2>3, <2>4, <2>5, <2>6 DEF TypeOK
<1> QED BY <1>1, RunInvariant, PTL

(* Refreshing the levels that the responses name (backtest.cpp:182-203) is *)
(* enough: the analytics of every symbol hold the quantities of its book.  *)
THEOREM AnalyticsAreCurrent == Spec => []AnalyticsMirrorBooks
<1>1. RunInv => AnalyticsMirrorBooks
  <2> SUFFICES ASSUME RunInv, NEW symbol \in DOMAIN books, NEW side \in Sides
               PROVE  analytics[symbol][side] =
                        [p \in Prices(books[symbol], side) |->
                           QuantityAtPrice(books[symbol], side, p)]
    BY DEF AnalyticsMirrorBooks, Prices
  <2> QED BY DEF RunInv, MarketInv, Mirror
<1> QED BY <1>1, RunInvariant, PTL

(* The portfolio onTimeMove is given is the one the strategy works out     *)
(* from all the events it was ever shown and is shown now                  *)
(* (backtest.cpp:82-101).                                                  *)
THEOREM PortfolioIsExplained == Spec => []PortfolioFollowsEvents
<1>1. RunInv => PortfolioFollowsEvents
  <2> SUFFICES ASSUME RunInv PROVE FoldLeft(Count, believed, inbox) = portfolio
    BY DEF PortfolioFollowsEvents
  <2>1. inbox \in Seq(Notes) /\ Counts(config.feeTicks, believed, inbox, portfolio)
    BY DEF RunInv, Accounts, Settled, Account, Books
  <2> QED BY <2>1, CountIs
<1> QED BY <1>1, RunInvariant, PTL

(* What the strategy bought the other owners sold, for the same cash but   *)
(* for the fees (Book::Fill and Portfolio::apply).                         *)
THEOREM TradesAreBalanced == Spec => []TradesBalance
<1>1. RunInv => TradesBalance
  <2> SUFFICES ASSUME RunInv PROVE TradesBalance
    OBVIOUS
  <2>1. /\ \A s \in Symbols : Position(portfolio, s) + Position(others, s) = 0
        /\ portfolio.cash + others.cash = -(config.feeTicks * traded)
        /\ traded \in Int /\ DOMAIN books \subseteq Symbols
    BY DEF RunInv, Accounts, MarketInv, Settled, Account, Books
  <2>2. config.feeTicks \in Int
    BY ConfigsAssumption DEF RunInv, OrderInv, Clock
  <2>3. -config.feeTicks * traded = -(config.feeTicks * traded)
    <3>1. \A x, y \in Int : -x * y = -(x * y)
      OBVIOUS
    <3> QED BY <2>1, <2>2, <3>1
  <2> QED BY <2>1, <2>3 DEF TradesBalance
<1> QED BY <1>1, RunInvariant, PTL

-----------------------------------------------------------------------------
(* The counter is positive until it overflows; the id it generates then    *)
(* ends the run.                                                           *)
CounterPositive ==
  nextStrategyOrderId > 0 \/ nextStrategyOrderId = -MaxInt - 1 \/ at = "thrown"

IdsInv == StrategyIdsPositive /\ CounterPositive

(* What scheduleCommand queues has a positive id. *)
LEMMA ScheduledPositive ==
  ASSUME EventsTyped, CounterPositive, NEW c \in OrderCommands, at = "process", Schedulable(c)
  PROVE  Scheduled(c).order_id > 0
<1>1. Scheduled(c).order_id = OrderId(c) /\ c.order_id \in Int
  BY DEF Scheduled, OrderCommands
<1>2. nextStrategyOrderId \in Int /\ (nextStrategyOrderId > 0 \/ nextStrategyOrderId < 0)
  BY MaxIntAssumption DEF EventsTyped, CounterPositive
<1> QED BY <1>1, <1>2 DEF Schedulable, OrderId, Generates

(* And it leaves the counter as it should be. *)
LEMMA GeneratedPositive ==
  ASSUME EventsTyped, CounterPositive, NEW c \in OrderCommands, at = "process", GenerateId(c),
         Schedulable(c)
  PROVE  nextStrategyOrderId' > 0 \/ nextStrategyOrderId' = -MaxInt - 1
<1>1. nextStrategyOrderId \in -MaxInt - 1 .. MaxInt
  BY DEF EventsTyped
<1>2. CASE Generates(c)
  <2>1. nextStrategyOrderId >= 0
    BY <1>2 DEF Schedulable, OrderId, Generates
  <2>2. nextStrategyOrderId > 0
    BY <1>1, <2>1, MaxIntAssumption DEF CounterPositive
  <2> QED BY <1>1, <1>2, <2>2, MaxIntAssumption DEF GenerateId, Int32
<1>3. CASE ~Generates(c)
  BY <1>3 DEF GenerateId, CounterPositive
<1> QED BY <1>2, <1>3

(* The strategy's ids stay positive. *)
LEMMA NextIds == RunInv /\ IdsInv /\ [AnyNext]_vars => IdsInv'
<1> SUFFICES ASSUME RunInv, IdsInv, [AnyNext]_vars PROVE IdsInv'
  OBVIOUS
<1> DEFINE Positive(x) == x.event.owner_id = config.strategyOwnerId => x.event.order_id > 0
           InBooks == \A symbol \in DOMAIN books : \A n \in DOMAIN books[symbol].orders :
                        books[symbol].orders[n].owner_id = config.strategyOwnerId => n > 0
<1>1. OrderInv /\ EventsTyped /\ MarketInv /\ OrderInv'
  BY NextOrder DEF RunInv
<1>2. /\ \A x \in queue.events : Positive(x)
      /\ \A i \in DOMAIN due : Positive(due[i])
      /\ InBooks /\ CounterPositive
  BY DEF IdsInv, StrategyIdsPositive, ToSet
<1>3. config' = config
  BY DEF AnyNext, Construct, OnTimeMove, Loop, PopDueEvent, StartProcessing, ProcessEvent, Tick,
         PrintSummary, vars
<1>4. DOMAIN due = 1 .. Len(due) /\ DOMAIN due' = 1 .. Len(due')
  BY <1>1 DEF OrderInv, Entries
<1>5. ASSUME \A x \in queue'.events : Positive(x), \A i \in DOMAIN due' : Positive(due'[i]),
             InBooks', CounterPositive'
      PROVE  IdsInv'
  BY <1>3, <1>5 DEF IdsInv, StrategyIdsPositive, ToSet
<1>6. CASE Construct
  <2>1. UNCHANGED <<due, books, nextStrategyOrderId>> /\ (at' = "thrown" \/ CounterPositive')
    BY <1>2, <1>6 DEF Construct, engineVars, CounterPositive
  <2>2. at = "construct" /\ queue.events = {}
    BY <1>1, <1>6 DEF Construct, OrderInv, Clock
  <2>3. \A x \in queue'.events : Positive(x)
    <3>1. CASE Accepted /\ queue' = AddEvents(queue, file)
      <4>1. queue'.events = {[event |-> file[i], order |-> queue.order_counter + i - 1] :
                               i \in DOMAIN file}
        BY <2>2, <3>1 DEF AddEvents
      <4> QED BY <3>1, <4>1 DEF Accepted, UsesReservedOwner
    <3> QED BY <1>2, <1>6, <3>1 DEF Construct
  <2>4. InBooks' /\ CounterPositive'
    BY <1>2, <1>3, <2>1 DEF CounterPositive
  <2> QED BY <1>2, <1>5, <2>1, <2>3, <2>4
<1>7. ASSUME NEW c \in OrderCommands \cup {NoCommand}, OnTimeMove(c)
      PROVE  IdsInv'
  <2>1. UNCHANGED <<due, books>> /\ at = "process"
    BY <1>7 DEF OnTimeMove
  <2>2. InBooks' /\ \A i \in DOMAIN due' : Positive(due'[i])
    BY <1>2, <1>3, <2>1
  <2>3. CASE c = NoCommand \/ ~Schedulable(c)
    <3>1. queue' = queue /\ (at' = "thrown" \/ nextStrategyOrderId' = nextStrategyOrderId)
      BY <1>7, <2>3 DEF OnTimeMove
    <3>2. CounterPositive'
      BY <1>2, <2>1, <3>1 DEF CounterPositive
    <3> QED BY <1>2, <1>5, <2>2, <3>1, <3>2
  <2>4. CASE c # NoCommand /\ Schedulable(c)
    <3>1. GenerateId(c) /\ Schedule(c) /\ c \in OrderCommands
      BY <1>7, <2>4 DEF OnTimeMove
    <3>2. CounterPositive'
      BY <1>1, <1>2, <2>1, <2>4, <3>1, GeneratedPositive DEF CounterPositive
    <3>3. Scheduled(c).order_id > 0
      BY <1>1, <1>2, <2>1, <2>4, <3>1, ScheduledPositive
    <3>4. queue'.events = queue.events
                            \cup {[event |-> Scheduled(c), order |-> queue.order_counter]}
      BY <3>1 DEF Schedule, AddEvent
    <3>5. \A x \in queue'.events : Positive(x)
      BY <1>2, <3>3, <3>4
    <3> QED BY <1>5, <2>2, <3>2, <3>5
  <2> QED BY <2>3, <2>4
<1>8. CASE PopDueEvent
  <2>1. PICK x \in queue.events : queue' = Pop(queue, x) /\ due' = Append(due, x)
    BY <1>8 DEF PopDueEvent
  <2>2. queue'.events \subseteq queue.events
    BY <2>1 DEF Pop
  <2>3. \A i \in DOMAIN due' : Positive(due'[i])
    <3>1. /\ Len(due') = Len(due) + 1 /\ Len(due) \in Nat
          /\ \A i \in 1 .. Len(due) : due'[i] = due[i]
          /\ due'[Len(due) + 1] = x
      BY <1>1, <2>1, AppendDue DEF OrderInv, Entries
    <3>2. \A i \in 1 .. Len(due') : i \in 1 .. Len(due) \/ i = Len(due) + 1
      BY <3>1
    <3> QED BY <1>2, <1>4, <3>1, <3>2
  <2>4. UNCHANGED <<at, books, nextStrategyOrderId>>
    BY <1>8 DEF PopDueEvent, engineVars
  <2>5. InBooks' /\ CounterPositive'
    BY <1>2, <1>3, <2>4 DEF CounterPositive
  <2> QED BY <1>2, <1>5, <2>2, <2>3, <2>5
<1>9. CASE ProcessEvent
  <2>1. UNCHANGED <<at, queue, nextStrategyOrderId>> /\ due' = Tail(due) /\ due # << >>
    BY <1>9 DEF ProcessEvent
  <2>2. PICK e, c : /\ e \in BackTestEvents /\ e = Head(due).event
                    /\ c = ProcessOrder(BookOf(e.symbol), e) /\ Processed(e, c)
    BY <1>1, <1>9, EventProcessed
  <2>3. /\ Len(due) \in Nat /\ Len(due) > 0 /\ Len(due') = Len(due) - 1 /\ Head(due) = due[1]
        /\ \A i \in 1 .. Len(due) - 1 : due'[i] = due[i + 1]
    BY <1>1, <2>1, TailDue DEF OrderInv, Entries
  <2>4. \A i \in DOMAIN due' : Positive(due'[i])
    <3>1. \A i \in 1 .. Len(due') : i + 1 \in 1 .. Len(due) /\ due'[i] = due[i + 1]
      BY <2>3
    <3> QED BY <1>2, <1>4, <3>1
  <2>5. e.owner_id = config.strategyOwnerId => e.order_id > 0
    <3>1. 1 \in DOMAIN due
      BY <1>4, <2>3
    <3> QED BY <1>2, <2>2, <2>3, <3>1
  <2>6. NoneFromElsewhere(BookOf(e.symbol).orders, c.orders, e)
    <3> DEFINE b == BookOf(e.symbol)
    <3>1. GoodBook(b) /\ b.taker = Null /\ Uncrossed(b.orders) /\ IsOrder(e)
      BY <1>1, <2>2, BookIsIdle, EventIsOrder DEF Idle
    <3> HIDE DEF b
    <3> QED BY <2>2, <3>1, CallFromThere DEF b
  <2>7. /\ DOMAIN books' = DOMAIN books \cup {e.symbol}
        /\ books'[e.symbol].orders = c.orders
        /\ \A s \in DOMAIN books \ {e.symbol} : books'[s] = books[s]
    <3>1. Formed(c) /\ books' = With(books, e.symbol, Reply(c, << >>))
      BY <2>2 DEF Processed, Done, GoodBook
    <3> QED BY <3>1, EngageIs DEF With
  <2>8. \A n \in DOMAIN BookOf(e.symbol).orders :
          BookOf(e.symbol).orders[n].owner_id = config.strategyOwnerId => n > 0
    BY <1>2 DEF BookOf, EmptyBook, EmptyMap
  <2>9. InBooks'
    <3> SUFFICES ASSUME NEW symbol \in DOMAIN books', NEW n \in DOMAIN books'[symbol].orders,
                        books'[symbol].orders[n].owner_id = config.strategyOwnerId
                 PROVE  n > 0
      BY <1>3
    <3>1. CASE symbol = e.symbol
      BY <2>5, <2>6, <2>7, <2>8, <3>1 DEF NoneFromElsewhere
    <3>2. CASE symbol # e.symbol
      BY <1>2, <2>7, <3>2
    <3> QED BY <3>1, <3>2
  <2> QED BY <1>2, <1>5, <2>1, <2>4, <2>9 DEF CounterPositive
<1>10. CASE StartProcessing \/ Tick \/ PrintSummary \/ UNCHANGED vars
  <2>1. /\ UNCHANGED <<queue, due, books, nextStrategyOrderId>>
        /\ at # "thrown" \/ at' = "thrown"
    BY <1>10 DEF StartProcessing, Tick, PrintSummary, engineVars, vars
  <2>2. CounterPositive'
    BY <1>2, <2>1 DEF CounterPositive
  <2>3. InBooks'
    BY <1>2, <1>3, <2>1
  <2> QED BY <1>2, <1>5, <2>1, <2>2, <2>3
<1> QED BY <1>6, <1>7, <1>8, <1>9, <1>10 DEF AnyNext, Loop

(* The id of every order of the strategy, queued, due or resting, is       *)
(* positive, whatever becomes of the counter (backtest.cpp:206-227).       *)
THEOREM StrategyIdsArePositive == Spec => []StrategyIdsPositive
<1>1. Init => IdsInv
  <2> SUFFICES ASSUME Init PROVE IdsInv
    OBVIOUS
  <2>1. queue.events = {} /\ ToSet(due) = {} /\ DOMAIN books = {}
    BY DEF Init, EmptyQueue, ToSet, EmptyMap
  <2> QED BY <2>1, FirstIdAssumption DEF Init, IdsInv, StrategyIdsPositive, CounterPositive
<1>2. RunInv /\ IdsInv /\ [Next]_vars => IdsInv'
  BY NextIds, NextIsAny
<1> QED BY <1>1, <1>2, RunInvariant, PTL DEF Spec, IdsInv

(* An event leaves the orders of the other owners on its own side alone,   *)
(* also where an id that was generated is the id of another order.         *)
THEOREM OthersAreLeftAlone == Spec => OthersLeftAlone
<1> DEFINE LeftAlone ==
      latest' # latest =>
       LET e == latest'.event
           old == BookOf(e.symbol).orders
           new == books'[e.symbol].orders
       IN \A n \in DOMAIN old :
            /\ old[n].owner_id # e.owner_id
            /\ old[n].side = e.side \/ e.order_type = "Cancel"
            => n \in DOMAIN new /\ new[n] = old[n]
<1>1. RunInv /\ [Next]_vars => [LeftAlone]_vars
  <2> SUFFICES ASSUME RunInv, Next PROVE LeftAlone
    BY DEF vars
  <2>1. CASE ProcessEvent
    <3>1. PICK e, c : e \in BackTestEvents /\ e = latest'.event /\ Processed(e, c)
      BY <2>1, EventProcessed DEF RunInv
    <3>2. SparesOthers(BookOf(e.symbol).orders, c.orders, e) /\ Formed(c)
      BY <3>1 DEF Processed, Done, GoodBook
    <3>3. books'[e.symbol].orders = c.orders
      <4>1. books'[e.symbol] = Reply(c, << >>)
        BY <3>1 DEF Processed, With
      <4> QED BY <3>2, <4>1, EngageIs
    <3>4. SparesOthers(BookOf(e.symbol).orders, books'[e.symbol].orders, e)
      BY <3>2, <3>3
    <3> QED BY <3>1, <3>4 DEF SparesOthers
  <2>2. CASE Construct \/ PopDueEvent \/ StartProcessing \/ Tick
    BY <2>2 DEF Construct, PopDueEvent, StartProcessing, Tick, engineVars
  <2>3. CASE PrintSummary \/ \E c \in Commands \cup {NoCommand} : OnTimeMove(c)
    BY <2>3 DEF PrintSummary, OnTimeMove
  <2> QED BY <2>1, <2>2, <2>3 DEF Next, Loop
<1> QED BY <1>1, RunInvariant, PTL DEF Spec, OthersLeftAlone

(* An event of the strategy is answered in the step in which it acts, and  *)
(* the answer waits for the next onTimeMove (backtest.cpp:176-182).        *)
THEOREM EveryCommandIsAnswered == Spec => EveryCommandAnswered
<1> DEFINE Answered ==
      latest' # latest /\ latest'.event.owner_id = config.strategyOwnerId =>
       \E i \in Len(inbox) + 1 .. Len(inbox') :
         /\ inbox'[i].symbol = latest'.event.symbol
         /\ inbox'[i].event.order_id = latest'.event.order_id
<1>1. RunInv /\ [Next]_vars => [Answered]_vars
  <2> SUFFICES ASSUME RunInv, Next PROVE Answered
    BY DEF vars
  <2>1. CASE ProcessEvent
    <3>1. PICK e, c : /\ e \in BackTestEvents
                      /\ e = Head(due).event /\ e = latest'.event /\ Processed(e, c)
      BY <2>1, EventProcessed DEF RunInv
    <3>2. UNCHANGED <<config, believed>>
      BY <2>1 DEF ProcessEvent
    <3>3. e.owner_id = config.strategyOwnerId =>
              \E i \in Len(inbox) + 1 .. Len(inbox') :
                /\ inbox'[i].symbol = e.symbol
                /\ inbox'[i].event.order_id = e.order_id
      BY <3>1, <3>2, AccountsProcessed DEF RunInv
    <3> QED BY <3>1, <3>3
  <2>2. CASE Construct \/ PopDueEvent \/ StartProcessing \/ Tick
    BY <2>2 DEF Construct, PopDueEvent, StartProcessing, Tick, engineVars
  <2>3. CASE PrintSummary \/ \E c \in Commands \cup {NoCommand} : OnTimeMove(c)
    BY <2>3 DEF PrintSummary, OnTimeMove
  <2> QED BY <2>1, <2>2, <2>3 DEF Next, Loop
<1> QED BY <1>1, RunInvariant, PTL DEF Spec, EveryCommandAnswered

-----------------------------------------------------------------------------
(* A side with orders has a best price, with orders of its own.            *)
LEMMA BestPriceIs ==
  ASSUME NEW b, GoodBook(b), NEW side \in Sides, Prices(b, side) # {}
  PROVE  /\ BestPrice(b, side) \in Prices(b, side) /\ BestPrice(b, side) \in Int
         /\ \A q \in Prices(b, side) \ {BestPrice(b, side)} : Better(side, BestPrice(b, side), q)
         /\ QuantityAtPrice(b, side, BestPrice(b, side)) \in Int
         /\ QuantityAtPrice(b, side, BestPrice(b, side)) > 0
<1>1. TypedOrders(b.orders) /\ Ranked(b.orders, b.before)
  BY DEF GoodBook
<1>2. \E n \in DOMAIN b.orders : b.orders[n].side = side
  BY DEF Prices
<1>3. PICK m : IsNextMaker(b, side, m)
  BY <1>1, <1>2, MakerExists
<1> DEFINE p == b.orders[m].price
<1>4. m \in DOMAIN b.orders /\ b.orders[m].side = side /\ p \in Prices(b, side)
  BY <1>3 DEF IsNextMaker, Prices
<1>5. \A q \in Prices(b, side) \ {p} : Better(side, p, q)
  <2> SUFFICES ASSUME NEW q \in Prices(b, side) \ {p} PROVE Better(side, p, q)
    OBVIOUS
  <2>1. PICK n \in DOMAIN b.orders : b.orders[n].side = side /\ b.orders[n].price = q
    BY DEF Prices
  <2>2. n # m
    BY <2>1
  <2>3. Ahead(b, m, n)
    BY <1>3, <2>1, <2>2 DEF IsNextMaker
  <2> QED BY <1>4, <2>1, <2>3 DEF Ahead
<1> DEFINE best == BestPrice(b, side)
<1>6. best \in Prices(b, side) /\ \A q \in Prices(b, side) \ {best} : Better(side, best, q)
  <2> HIDE DEF p
  <2> QED BY <1>4, <1>5 DEF BestPrice
<1>7. Prices(b, side) \subseteq Int
  BY <1>1 DEF Prices, TypedOrders, Orders
<1> HIDE DEF best
<1>8. QuantityAtPrice(b, side, best) \in Int /\ QuantityAtPrice(b, side, best) > 0
  BY <1>1, <1>6, QuantityTyped
<1> QED BY <1>6, <1>7, <1>8 DEF best

(* topOfBook gives a quote when both sides have orders.                    *)
LEMMA QuoteIs ==
  ASSUME NEW b, GoodBook(b)
  PROVE  HasQuote(b) <=> \A side \in Sides : Prices(b, side) # {}
BY BestPriceIs DEF HasQuote

(* Twice the mark is the highest bid and the lowest ask.                   *)
LEMMA MarkIs ==
  ASSUME NEW b, GoodBook(b), \A side \in Sides : Prices(b, side) # {}
  PROVE  /\ TwiceMark(b) = Max(Prices(b, "Buy")) + Min(Prices(b, "Sell"))
         /\ TwiceMark(b) \in Int
<1> DEFINE bid == BestPrice(b, "Buy")
           ask == BestPrice(b, "Sell")
           bids == Prices(b, "Buy")
           asks == Prices(b, "Sell")
<1>0. \A side \in Sides :
        /\ BestPrice(b, side) \in Prices(b, side) /\ BestPrice(b, side) \in Int
        /\ \A q \in Prices(b, side) \ {BestPrice(b, side)} : Better(side, BestPrice(b, side), q)
  BY BestPriceIs
<1>1. bid \in bids /\ bid \in Int /\ \A q \in bids \ {bid} : bid > q
  BY <1>0 DEF Better, Sides
<1>2. ask \in asks /\ ask \in Int /\ \A q \in asks \ {ask} : ask < q
  BY <1>0 DEF Better, Sides
<1>3. bids \subseteq Int /\ asks \subseteq Int
  BY DEF Prices, GoodBook, TypedOrders, Orders
<1>4. TwiceMark(b) = bid + ask
  BY DEF TwiceMark
<1> HIDE DEF bid, ask, bids, asks
<1>5. Max(bids) = bid
  <2>1. \A x \in bids : (\A y \in bids : x >= y) <=> x = bid
    BY <1>1, <1>3
  <2> QED BY <1>1, <2>1 DEF Max
<1>6. Min(asks) = ask
  <2>1. \A x \in asks : (\A y \in asks : x <= y) <=> x = ask
    BY <1>2, <1>3
  <2> QED BY <1>2, <2>1 DEF Min
<1> QED BY <1>1, <1>2, <1>4, <1>5, <1>6 DEF bids, asks

(* The symbols that have a bid and an ask.                                 *)
Quoted == {symbol \in DOMAIN books : \A side \in Sides : Prices(books[symbol], side) # {}}

(* What the positions are worth, from the other side of the trades.        *)
Explained ==
  [symbol \in Quoted |-> -Position(others, symbol) * (Max(Prices(books[symbol], "Buy"))
                                                        + Min(Prices(books[symbol], "Sell")))]

Valued == [symbol \in DOMAIN portfolio.positions |-> TwiceValue(symbol)]

(* Both ways to add up the positions give the same.                        *)
LEMMA ValueExplained ==
  ASSUME MarketInv, Accounts
  PROVE  /\ SumFunction(Valued) = SumFunction(Explained)
         /\ SumFunction(Valued) \in Int
<1> DEFINE D == DOMAIN portfolio.positions
           Q == Quoted
           all == D \cup Q
           h == [s \in all |-> IF s \in Q THEN Position(portfolio, s) * TwiceMark(books[s]) ELSE 0]
<1>1. /\ Folio(portfolio) /\ Folio(others)
      /\ \A s \in Symbols : Position(portfolio, s) + Position(others, s) = 0
  BY DEF Accounts, Settled, Account, Books
<1>2. /\ IsFiniteSet(D) /\ D \subseteq Symbols /\ IsFiniteSet(Q) /\ Q \subseteq Symbols
      /\ IsFiniteSet(all) /\ Q \subseteq DOMAIN books
  <2>1. IsFiniteSet(D) /\ D \subseteq Symbols
    BY <1>1 DEF Folio
  <2>2. IsFiniteSet(Q) /\ Q \subseteq Symbols /\ Q \subseteq DOMAIN books
    BY FS_Subset DEF MarketInv, Quoted
  <2> QED BY <2>1, <2>2, FS_Union
<1>3. \A s \in DOMAIN books : GoodBook(books[s])
  BY DEF MarketInv, Idle
<1>4. \A s : Position(portfolio, s) \in Int /\ Position(others, s) \in Int
  BY <1>1, PositionTyped
<1>5. \A s \in Q : /\ TwiceMark(books[s]) \in Int
                   /\ TwiceMark(books[s]) = Max(Prices(books[s], "Buy"))
                                              + Min(Prices(books[s], "Sell"))
  <2> SUFFICES ASSUME NEW s \in Q
               PROVE  /\ TwiceMark(books[s]) \in Int
                      /\ TwiceMark(books[s]) = Max(Prices(books[s], "Buy"))
                                                 + Min(Prices(books[s], "Sell"))
    OBVIOUS
  <2>1. GoodBook(books[s]) /\ \A side \in Sides : Prices(books[s], side) # {}
    BY <1>3 DEF Quoted
  <2> QED BY <2>1, MarkIs
<1>6. \A s : s \in DOMAIN books /\ HasQuote(books[s]) <=> s \in Q
  BY <1>3, QuoteIs DEF Quoted
<1>7. \A x, y \in Int : x * y \in Int /\ 0 * y = 0 /\ (x + y = 0 => x = -y)
  OBVIOUS
<1>8. \A s \in all : h[s] \in Int
  BY <1>4, <1>5, <1>7
<1>9. \A s \in D : Valued[s] = h[s]
  BY <1>6 DEF Valued, TwiceValue
<1>10. \A s \in all \ D : h[s] = 0
  <2> SUFFICES ASSUME NEW s \in all \ D PROVE h[s] = 0
    OBVIOUS
  <2>1. Position(portfolio, s) = 0
    BY DEF Position
  <2> QED BY <1>5, <1>7, <2>1
<1>11. \A s \in all \ Q : h[s] = 0
  OBVIOUS
<1>12. \A s \in Q : Explained[s] = h[s]
  <2> SUFFICES ASSUME NEW s \in Q PROVE Explained[s] = h[s]
    OBVIOUS
  <2>1. Position(portfolio, s) = -Position(others, s)
    BY <1>1, <1>2, <1>4, <1>7
  <2>2. Explained[s] = -Position(others, s) * TwiceMark(books[s])
    BY <1>5 DEF Explained
  <2>3. h[s] = Position(portfolio, s) * TwiceMark(books[s])
    OBVIOUS
  <2>4. \A x, y \in Int : -x * y = (-x) * y
    OBVIOUS
  <2> HIDE DEF h
  <2> QED BY <1>4, <1>5, <2>1, <2>2, <2>3, <2>4
<1>13. /\ SumFunction(Valued) = SumFunctionOnSet(Valued, D)
       /\ SumFunction(Explained) = SumFunctionOnSet(Explained, Q)
  BY DEF SumFunction, Valued, Explained
<1> HIDE DEF h, D, Q, all
<1> DEFINE v == Valued
           x == Explained
<1>14. /\ \A s \in D : v[s] = h[s]
       /\ \A s \in Q : x[s] = h[s]
       /\ SumFunction(Valued) = SumFunctionOnSet(v, D)
       /\ SumFunction(Explained) = SumFunctionOnSet(x, Q)
  BY <1>9, <1>12, <1>13
<1> HIDE DEF v, x
<1>15. SumFunctionOnSet(v, D) = SumFunctionOnSet(h, D)
  BY <1>2, <1>14, SumSame
<1>16. SumFunctionOnSet(x, Q) = SumFunctionOnSet(h, Q)
  BY <1>2, <1>14, SumSame
<1>17. D \subseteq all /\ Q \subseteq all
  BY DEF all
<1>18. SumFunctionOnSet(h, D) = SumFunctionOnSet(h, all)
  BY <1>2, <1>8, <1>10, <1>17, SumNonzero
<1>19. SumFunctionOnSet(h, Q) = SumFunctionOnSet(h, all)
  BY <1>2, <1>8, <1>11, <1>17, SumNonzero
<1>20. SumFunctionOnSet(h, all) \in Int
  BY <1>2, <1>8, SumType
<1> QED BY <1>14, <1>15, <1>16, <1>18, <1>19, <1>20

(* What printSummary prints (backtest.cpp:106-142) is what the other side  *)
(* of the strategy's trades explains, whatever the books it ends with.     *)
THEOREM SummaryIsExplained == Spec => []SummaryExplained
<1>1. Init => SummaryExplained
  BY DEF Init, SummaryExplained
<1>2. RunInv /\ SummaryExplained /\ [Next]_vars => SummaryExplained'
  <2> SUFFICES ASSUME RunInv, SummaryExplained, [Next]_vars PROVE SummaryExplained'
    OBVIOUS
  <2>1. CASE PrintSummary
    <3>1. UNCHANGED <<config, books, portfolio, others, traded>>
      BY <2>1 DEF PrintSummary
    <3>2. /\ summary'.cash = portfolio.cash
          /\ summary'.twiceEquity = 2 * portfolio.cash + SumFunction(Valued)
      BY <2>1 DEF PrintSummary, Valued
    <3>3. SumFunction(Valued) = SumFunction(Explained) /\ SumFunction(Valued) \in Int
      BY ValueExplained DEF RunInv
    <3>4. /\ portfolio.cash \in Int /\ others.cash \in Int /\ traded \in Int
          /\ portfolio.cash + others.cash = -(config.feeTicks * traded)
      BY DEF RunInv, Accounts, Settled, Account, Books, Folio
    <3>5. config.feeTicks * traded \in Int
      BY <3>4, ConfigsAssumption DEF RunInv, OrderInv, Clock
    <3> DEFINE fees == config.feeTicks * traded
    <3>6. summary'.cash = -others.cash - fees
      <4>1. fees \in Int /\ portfolio.cash + others.cash = -fees
        BY <3>4, <3>5
      <4> HIDE DEF fees
      <4> QED BY <3>2, <3>4, <4>1
    <3>7. summary'.twiceEquity - 2 * summary'.cash = SumFunction(Explained)
      BY <3>2, <3>3, <3>4
    <3>8. /\ config'.feeTicks * traded' = config.feeTicks * traded
          /\ others'.cash = others.cash
          /\ Explained' = Explained
      BY <3>1 DEF Explained, Quoted, Prices
    <3>9. SumFunction(Explained') = SumFunction(Explained)
      BY <3>8
    <3> QED BY <3>6, <3>7, <3>8, <3>9 DEF SummaryExplained, Explained, Quoted
  <2>2. CASE UNCHANGED vars
    BY <2>2 DEF vars, SummaryExplained, Prices
  <2>3. CASE Construct \/ PopDueEvent \/ StartProcessing \/ ProcessEvent \/ Tick
    <3>1. at' # "printed"
      BY <2>3 DEF Construct, PopDueEvent, StartProcessing, ProcessEvent, Tick
    <3> QED BY <3>1 DEF SummaryExplained
  <2>4. CASE \E c \in Commands \cup {NoCommand} : OnTimeMove(c)
    <3>1. at' # "printed"
      BY <2>4 DEF OnTimeMove, Schedule
    <3> QED BY <3>1 DEF SummaryExplained
  <2> QED BY <2>1, <2>2, <2>3, <2>4 DEF Next, Loop
<1> QED BY <1>1, <1>2, RunInvariant, PTL DEF Spec

-----------------------------------------------------------------------------
(* Whichever side is wanted, the limit leaves room on it and the book has  *)
(* a quote.                                                                *)
LEMMA CommandAllowed == FairPriceCommand \in AnyEdgeCommands
<1> DEFINE position == Position(portfolio, TradedSymbol)
           Wants(side) == HasQuote(TopBook) /\ Room(side, position) /\ Reaches(side, position)
<1>1. \A side \in Sides : Wants(side) => Take(side) \in AnyEdgeCommands
  BY DEF AnyEdgeCommands
<1>2. NoCommand \in AnyEdgeCommands
  BY DEF AnyEdgeCommands
<1>3. CASE Wants("Buy")
  <2>1. FairPriceCommand = Take("Buy")
    BY <1>3 DEF FairPriceCommand
  <2> QED BY <1>1, <1>3, <2>1 DEF Sides
<1>4. CASE ~Wants("Buy") /\ Wants("Sell")
  <2>1. FairPriceCommand = Take("Sell")
    BY <1>4 DEF FairPriceCommand
  <2> QED BY <1>1, <1>4, <2>1 DEF Sides
<1>5. CASE ~Wants("Buy") /\ ~Wants("Sell")
  <2>1. FairPriceCommand = NoCommand
    BY <1>5 DEF FairPriceCommand
  <2> QED BY <1>2, <2>1
<1> QED BY <1>3, <1>4, <1>5

(* FairPriceStrategy::onTimeMove (fair_price_strategy.cpp:5-63) implements *)
(* the strategy that takes one unit on a side with room, or waits: what is *)
(* true of that one whatever the edges is true of it.                      *)
THEOREM DecisionsWithinLimit == FairPriceSpec => ImplementsAnyEdge
<1>1. [FairPriceNext]_strategyVars => [AnyEdgeNext]_strategyVars
  BY CommandAllowed DEF FairPriceNext, AnyEdgeNext
<1> QED BY <1>1, PTL DEF FairPriceSpec, ImplementsAnyEdge, AnyEdgeSpec

(* The book the strategy trades in has a best price on both sides.         *)
LEMMA TopIs ==
  ASSUME MarketInv, HasQuote(TopBook), NEW side \in Sides
  PROVE  /\ GoodBook(TopBook) /\ Prices(TopBook, side) # {}
         /\ BestPrice(TopBook, side) \in Prices(TopBook, side)
         /\ BestPrice(TopBook, side) \in Int
         /\ TopQuantity(side) \in Int /\ TopQuantity(side) > 0
<1>1. GoodBook(TopBook)
  BY BookIsIdle DEF TopBook, Idle
<1>2. Prices(TopBook, side) # {}
  BY DEF HasQuote
<1> QED BY <1>1, <1>2, BestPriceIs DEF TopQuantity

(* What the strategy returns is an order command, for one unit at the best *)
(* price of the other side.                                                *)
LEMMA TakeTyped ==
  ASSUME MarketInv, NEW c \in AnyEdgeCommands, c # NoCommand
  PROVE  /\ c \in OrderCommands /\ HasQuote(TopBook)
         /\ c.symbol = TradedSymbol /\ c.order_type = "Add" /\ c.quantity = 1
         /\ c.price = BestPrice(TopBook, Opposite(c.side))
         /\ Room(c.side, Position(portfolio, TradedSymbol))
<1>1. HasQuote(TopBook)
  BY DEF AnyEdgeCommands
<1>2. PICK side \in Sides : c = Take(side) /\ Room(side, Position(portfolio, TradedSymbol))
  BY <1>1 DEF AnyEdgeCommands
<1>3. BestPrice(TopBook, Opposite(side)) \in Int
  BY <1>1, TopIs DEF Opposite, Sides
<1> DEFINE price == BestPrice(TopBook, Opposite(side))
<1> HIDE DEF price
<1>4. c = [symbol |-> TradedSymbol, order_type |-> "Add", order_id |-> 0, side |-> side,
           quantity |-> 1, price |-> price]
  BY <1>2 DEF Take, price
<1>5. /\ c.symbol = TradedSymbol /\ c.order_type = "Add" /\ c.quantity = 1
      /\ c.side = side /\ c.price = price
  BY <1>4
<1>6. c \in OrderCommands
  BY <1>3, <1>4, TradedSymbolAssumption DEF OrderCommands, OrderTypes, price
<1> QED BY <1>1, <1>2, <1>5, <1>6 DEF price

(* A step with this strategy is a step with some strategy.                 *)
LEMMA AnyEdgeIsAny == RunInv /\ [AnyEdgeNext]_strategyVars => [AnyNext]_vars
<1> SUFFICES ASSUME RunInv, [AnyEdgeNext]_strategyVars PROVE [AnyNext]_vars
  OBVIOUS
<1>1. CASE UNCHANGED strategyVars
  BY <1>1 DEF strategyVars
<1>2. CASE Construct \/ Loop
  BY <1>2 DEF AnyNext
<1>3. ASSUME NEW c \in AnyEdgeCommands, OnTimeMove(c)
      PROVE  AnyNext
  <2>1. c \in OrderCommands \cup {NoCommand}
    BY TakeTyped DEF RunInv
  <2> QED BY <1>3, <2>1 DEF AnyNext
<1> QED BY <1>1, <1>2, <1>3 DEF AnyEdgeNext

(* All that is true of a run with any strategy is true of one with this.   *)
THEOREM AnyEdgeRuns == AnyEdgeSpec => []RunInv
<1>1. FairPriceInit => RunInv
  BY InitRun DEF FairPriceInit
<1>2. RunInv /\ [AnyEdgeNext]_strategyVars => RunInv'
  BY AnyEdgeIsAny, NextRun
<1> QED BY <1>1, <1>2, PTL DEF AnyEdgeSpec

StrategyTyped == strategy \in StrategyConfigs

(* The strategy's parameters are those it was made with.                   *)
LEMMA StrategyKept == AnyEdgeSpec => []StrategyTyped
<1>1. FairPriceInit => StrategyTyped
  BY DEF FairPriceInit, StrategyTyped
<1>2. StrategyTyped /\ [AnyEdgeNext]_strategyVars => StrategyTyped'
  BY DEF AnyEdgeNext, strategyVars, StrategyTyped
<1> QED BY <1>1, <1>2, PTL DEF AnyEdgeSpec

-----------------------------------------------------------------------------
(* While it decides, both quantities at the top are positive and the best  *)
(* bid is lower than the best ask.                                         *)
LEMMA DecidingIs ==
  ASSUME MarketInv, Deciding
  PROVE  /\ Scale \in Int /\ Scale > 0
         /\ BestPrice(TopBook, "Buy") \in Int /\ BestPrice(TopBook, "Sell") \in Int
         /\ BestPrice(TopBook, "Buy") < BestPrice(TopBook, "Sell")
<1> DEFINE bid == BestPrice(TopBook, "Buy")
           ask == BestPrice(TopBook, "Sell")
           b == TopQuantity("Buy")
           a == TopQuantity("Sell")
<1>1. /\ bid \in Prices(TopBook, "Buy") /\ ask \in Prices(TopBook, "Sell")
      /\ bid \in Int /\ ask \in Int /\ b \in Int /\ b > 0 /\ a \in Int /\ a > 0
  BY TopIs DEF Deciding, Sides
<1>2. bid < ask
  <2>1. Uncrossed(TopBook.orders)
    BY BookIsIdle DEF TopBook, Idle
  <2> HIDE DEF bid, ask
  <2> QED BY <1>1, <2>1 DEF Uncrossed, Prices
<1>3. Scale = 2 * (b + a)
  BY DEF Scale
<1> HIDE DEF bid, ask, b, a
<1>4. Scale \in Int /\ Scale > 0
  BY <1>1, <1>3
<1> QED BY <1>1, <1>2, <1>4 DEF bid, ask

(* The edges and what is required of them are whole numbers.               *)
LEMMA EdgesTyped ==
  ASSUME MarketInv, StrategyTyped, Deciding
  PROVE  /\ FairPrice \in Int
         /\ strategy.baseEdge \in Int /\ strategy.inventoryPenalty \in Int
<1> DEFINE b == TopQuantity("Buy")
           a == TopQuantity("Sell")
           mark == TwiceMark(TopBook)
<1>1. b \in Int /\ a \in Int
  BY TopIs DEF Deciding, Sides
<1>2. mark \in Int
  BY DecidingIs DEF TwiceMark
<1>3. /\ strategy.bias \in Int /\ strategy.imbalanceWeight \in Int
      /\ strategy.baseEdge \in Int /\ strategy.inventoryPenalty \in Int
  BY StrategyConfigsAssumption DEF StrategyTyped
<1>4. Scale \in Int
  BY DecidingIs
<1> HIDE DEF b, a, mark
<1>5. /\ (b + a) * mark \in Int
      /\ Scale * strategy.bias \in Int
      /\ 2 * strategy.imbalanceWeight * (b - a) \in Int
  <2>1. \A x, y \in Int : x * y \in Int
    OBVIOUS
  <2> QED BY <1>1, <1>2, <1>3, <1>4, <2>1
<1>6. FairPrice = (b + a) * mark + Scale * strategy.bias
                    + 2 * strategy.imbalanceWeight * (b - a)
  BY DEF FairPrice, b, a, mark
<1> QED BY <1>3, <1>5, <1>6

(* No book of a run makes both sides worth taking at once, so it does not  *)
(* matter that buying is tested first (fair_price_strategy.cpp:52-61).     *)
THEOREM OnlyOneSide == FairPriceSpec => []OneSideOnly
<1>1. RunInv /\ StrategyTyped => OneSideOnly
  <2> SUFFICES ASSUME RunInv, StrategyTyped, Deciding, strategy.baseEdge >= 0,
                      Reaches("Buy", Position(portfolio, TradedSymbol)),
                      Reaches("Sell", Position(portfolio, TradedSymbol))
               PROVE  FALSE
    BY DEF OneSideOnly
  <2> DEFINE s == Scale
             bid == BestPrice(TopBook, "Buy")
             ask == BestPrice(TopBook, "Sell")
             base == strategy.baseEdge
             p == Position(portfolio, TradedSymbol)
             u == p * strategy.inventoryPenalty
             F == FairPrice
  <2>1. s \in Int /\ s > 0 /\ bid \in Int /\ ask \in Int /\ bid < ask
    BY DecidingIs DEF RunInv
  <2>2. F \in Int /\ base \in Int /\ strategy.inventoryPenalty \in Int
    BY EdgesTyped DEF RunInv
  <2>3. p \in Int
    BY PositionTyped DEF RunInv, Accounts, Settled, Account, Books
  <2>4. u \in Int /\ (-p) * strategy.inventoryPenalty = -u
    <3>1. \A x, y \in Int : x * y \in Int /\ (-x) * y = -(x * y)
      OBVIOUS
    <3> QED BY <2>2, <2>3, <3>1
  <2>5. F - s * ask >= s * (base + u)
    BY DEF Reaches, Edge, RequiredEdge
  <2>6. s * bid - F >= s * (base + -u)
    <3>1. s * bid - F >= s * (base + (-p) * strategy.inventoryPenalty)
      BY DEF Reaches, Edge, RequiredEdge
    <3> HIDE DEF u
    <3> QED BY <2>4, <3>1
  <2> HIDE DEF s, bid, ask, base, p, u, F
  <2>7. /\ s * (base + u) = s * base + s * u /\ s * (base + -u) = s * base - s * u
        /\ s * base \in Int /\ s * u \in Int /\ s * ask \in Int /\ s * bid \in Int
    <3>1. \A x, y, z \in Int : /\ x * y \in Int /\ x * (y + z) = x * y + x * z
                               /\ x * (y + -z) = x * y - x * z
      OBVIOUS
    <3> QED BY <2>1, <2>2, <2>4, <3>1
  <2>8. s * base >= 0
    <3>1. base >= 0
      BY DEF base
    <3>2. \A x, y \in Nat : x * y >= 0
      OBVIOUS
    <3> QED BY <2>1, <2>2, <3>1, <3>2
  <2>9. s * bid < s * ask
    <3>1. \A x, y, z \in Int : x > 0 /\ y < z => x * y < x * z
      OBVIOUS
    <3> QED BY <2>1, <3>1
  <2> DEFINE sb == s * base
             su == s * u
             sask == s * ask
             sbid == s * bid
             l == s * (base + u)
             r == s * (base + -u)
  <2>10. /\ F - sask >= l /\ sbid - F >= r /\ l = sb + su /\ r = sb - su
         /\ sb \in Int /\ su \in Int /\ sask \in Int /\ sbid \in Int
         /\ sb >= 0 /\ sbid < sask
    BY <2>5, <2>6, <2>7, <2>8, <2>9
  <2> HIDE DEF sb, su, sask, sbid, l, r
  <2> QED BY <2>2, <2>10
<1> QED BY <1>1, AnyEdgeRuns, StrategyKept, DecisionsWithinLimit, PTL DEF ImplementsAnyEdge

(* README: the required edge makes it "harder to keep increasing an        *)
(* already large position" (fair_price_strategy.cpp:46-50).                *)
THEOREM EdgeIsHarder == FairPriceSpec => []HarderToExtend
<1>1. RunInv /\ StrategyTyped => HarderToExtend
  <2> SUFFICES ASSUME RunInv, StrategyTyped, Deciding, strategy.inventoryPenalty >= 0
               PROVE  LET position == Position(portfolio, TradedSymbol) IN
                      /\ \A p \in 0 .. position : Reaches("Buy", position) => Reaches("Buy", p)
                      /\ \A p \in position .. 0 : Reaches("Sell", position) => Reaches("Sell", p)
    BY DEF HarderToExtend
  <2> DEFINE position == Position(portfolio, TradedSymbol)
             pen == strategy.inventoryPenalty
             base == strategy.baseEdge
             s == Scale
  <2>1. /\ s \in Int /\ s > 0
        /\ BestPrice(TopBook, "Buy") \in Int /\ BestPrice(TopBook, "Sell") \in Int
    BY DecidingIs DEF RunInv
  <2>2. FairPrice \in Int /\ base \in Int /\ pen \in Int /\ pen >= 0
    BY EdgesTyped DEF RunInv
  <2>3. position \in Int
    BY PositionTyped DEF RunInv, Accounts, Settled, Account, Books
  <2>4. ASSUME NEW x \in Int, NEW y \in Int, x <= y, NEW edge \in Int,
               edge >= s * (base + y * pen)
        PROVE  edge >= s * (base + x * pen)
    <3> HIDE DEF s, base, pen
    <3>1. \A i, j, k \in Int : i <= j /\ k >= 0 => i * k <= j * k /\ k * i <= k * j
      OBVIOUS
    <3>2. \A i, j \in Int : i * j \in Int
      OBVIOUS
    <3>3. x * pen <= y * pen /\ x * pen \in Int /\ y * pen \in Int
      BY <2>2, <2>4, <3>1, <3>2
    <3>4. /\ base + x * pen <= base + y * pen
          /\ base + x * pen \in Int /\ base + y * pen \in Int
      BY <2>2, <3>3
    <3>5. /\ s * (base + x * pen) <= s * (base + y * pen)
          /\ s * (base + x * pen) \in Int /\ s * (base + y * pen) \in Int
      BY <2>1, <3>1, <3>2, <3>4
    <3> DEFINE l == s * (base + x * pen)
               r == s * (base + y * pen)
    <3>6. l <= r /\ l \in Int /\ r \in Int /\ edge >= r
      BY <2>4, <3>5
    <3> HIDE DEF l, r
    <3>7. edge >= l
      BY <2>4, <3>6
    <3> QED BY <3>7 DEF l
  <2>5. Edge("Buy") \in Int /\ Edge("Sell") \in Int
    <3>1. \A i, j \in Int : i * j \in Int
      OBVIOUS
    <3> QED BY <2>1, <2>2, <3>1 DEF Edge
  <2>6. \A p : /\ Reaches("Buy", p) <=> Edge("Buy") >= s * (base + p * pen)
               /\ Reaches("Sell", p) <=> Edge("Sell") >= s * (base + (-p) * pen)
    BY DEF Reaches, RequiredEdge
  <2> HIDE DEF position, pen, base, s
  <2>7. \A p \in 0 .. position : Reaches("Buy", position) => Reaches("Buy", p)
    BY <2>3, <2>4, <2>5, <2>6
  <2>8. \A p \in position .. 0 : Reaches("Sell", position) => Reaches("Sell", p)
    <3> SUFFICES ASSUME NEW p \in position .. 0, Reaches("Sell", position)
                 PROVE  Reaches("Sell", p)
      OBVIOUS
    <3>1. -p \in Int /\ -position \in Int /\ -p <= -position
      BY <2>3
    <3>2. Edge("Sell") >= s * (base + (-position) * pen)
      BY <2>6
    <3> DEFINE x == -p
               y == -position
    <3> HIDE DEF x, y
    <3>3. Edge("Sell") >= s * (base + x * pen)
      BY <2>4, <2>5, <3>1, <3>2 DEF x, y
    <3> QED BY <2>6, <3>3 DEF x
  <2> QED BY <2>7, <2>8 DEF position
<1> QED BY <1>1, AnyEdgeRuns, StrategyKept, DecisionsWithinLimit, PTL DEF ImplementsAnyEdge

-----------------------------------------------------------------------------
IsAccount(a) ==
  a = [inbox |-> a.inbox, portfolio |-> a.portfolio, others |-> a.others, traded |-> a.traded]

(* Only the strategy's own responses reach its portfolio.                  *)
LEMMA ReceiveIs ==
  ASSUME NEW a, IsAccount(a), NEW r
  PROVE  /\ IsAccount(Receive(a, r))
         /\ r.owner_id = config.strategyOwnerId =>
              Receive(a, r).portfolio
                = Apply(a.portfolio, Head(due).event.symbol, r, config.feeTicks)
         /\ r.owner_id # config.strategyOwnerId => Receive(a, r).portfolio = a.portfolio
<1>1. CASE r.owner_id = config.strategyOwnerId
  BY <1>1 DEF Receive, IsAccount
<1>2. CASE r.owner_id # config.strategyOwnerId
  <2> DEFINE w == Apply(a.others, Head(due).event.symbol, r, 0)
  <2>1. Receive(a, r) = [a EXCEPT !.others = w]
    BY <1>2 DEF Receive
  <2> HIDE DEF w
  <2>2. \A p, q, o, t, v :
          [[inbox |-> p, portfolio |-> q, others |-> o, traded |-> t] EXCEPT !.others = v]
            = [inbox |-> p, portfolio |-> q, others |-> v, traded |-> t]
    OBVIOUS
  <2>3. Receive(a, r) = [inbox |-> a.inbox, portfolio |-> a.portfolio, others |-> w,
                         traded |-> a.traded]
    BY <2>1, <2>2 DEF IsAccount
  <2> QED BY <1>2, <2>3 DEF IsAccount
<1> QED BY <1>1, <1>2

(* A call that does not tell the strategy anything leaves its portfolio.   *)
LEMMA ToldNothing ==
  ASSUME NEW a, IsAccount(a), NEW S, NEW rs \in Seq(S), NotTold(rs, config.strategyOwnerId)
  PROVE  FoldLeft(Receive, a, rs).portfolio = a.portfolio
<1> DEFINE last == Len(rs)
           z == FoldLeft(Receive, a, rs)
<1>0. Receives(a, rs, z)
  BY ReceivedSteps
<1> HIDE DEF z
<1>1. PICK h : /\ h[0] = a /\ h[last] = z
               /\ \A k \in 0 .. last - 1 : h[k + 1] = Receive(h[k], rs[k + 1])
  BY <1>0 DEF Receives
<1>2. last \in Nat /\ \A i \in 1 .. last : rs[i].owner_id # config.strategyOwnerId
  BY DEF NotTold
<1> DEFINE P == {k \in Nat : k <= last => IsAccount(h[k]) /\ h[k].portfolio = a.portfolio}
<1> HIDE DEF last
<1>3. 0 \in P
  BY <1>1
<1>4. ASSUME NEW k \in Nat, k \in P PROVE k + 1 \in P
  <2> SUFFICES ASSUME k + 1 <= last
               PROVE  IsAccount(h[k + 1]) /\ h[k + 1].portfolio = a.portfolio
    OBVIOUS
  <2>1. k \in 0 .. last - 1 /\ k + 1 \in 1 .. last
    BY <1>2
  <2>2. IsAccount(h[k]) /\ h[k].portfolio = a.portfolio
    BY <1>2, <1>4, <2>1
  <2>3. h[k + 1] = Receive(h[k], rs[k + 1]) /\ rs[k + 1].owner_id # config.strategyOwnerId
    BY <1>1, <1>2, <2>1
  <2>4. /\ IsAccount(Receive(h[k], rs[k + 1]))
        /\ Receive(h[k], rs[k + 1]).portfolio = h[k].portfolio
    BY <2>2, <2>3, ReceiveIs
  <2> QED BY <2>2, <2>3, <2>4
<1> HIDE DEF P
<1>5. Nat \subseteq P
  BY <1>3, <1>4, NatSet
<1> QED BY <1>1, <1>2, <1>5 DEF P, z

Unit(side) == IF side = "Buy" THEN 1 ELSE -1

(* A call that takes one unit for the strategy adds it to its position, or *)
(* nothing when the order was refused.                                     *)
LEMMA UnitTaken ==
  ASSUME NEW a, IsAccount(a), Folio(a.portfolio), config.feeTicks \in Int,
         NEW e \in BackTestEvents, e = Head(due).event, e.owner_id = config.strategyOwnerId,
         NEW rs, TakesOne(rs, e)
  PROVE  LET before == Position(a.portfolio, e.symbol)
         IN Position(FoldLeft(Receive, a, rs).portfolio, e.symbol)
              \in {before, before + Unit(e.side)}
<1>1. rs \in Seq(Responses) /\ e.symbol \in Symbols /\ e.side \in Sides
  BY DEF TakesOne, BackTestEvents
<1> DEFINE z == FoldLeft(Receive, a, rs)
           last == Len(rs)
<1>0. Receives(a, rs, z)
  BY <1>1, ReceivedSteps
<1> HIDE DEF z
<1>2. PICK h : /\ h[0] = a /\ h[last] = z
               /\ \A k \in 0 .. last - 1 : h[k + 1] = Receive(h[k], rs[k + 1])
  BY <1>0 DEF Receives
<1>3. (last = 1 \/ last = 3) /\ \A i \in 1 .. last : rs[i] \in Responses
  BY <1>1 DEF TakesOne
<1>10. /\ \/ last = 1
          \/ /\ last = 3
             /\ IsFill(rs[2]) /\ rs[2].owner_id = e.owner_id /\ rs[2].side = e.side
             /\ rs[2].quantity = 1 /\ rs[3].owner_id # e.owner_id
       /\ ~IsFill(rs[1])
  BY DEF TakesOne
<1> HIDE DEF last
<1>4. 1 \in 1 .. last /\ h[1] = Receive(a, rs[1])
  <2>1. 0 \in 0 .. last - 1 /\ 0 + 1 = 1
    BY <1>3
  <2>2. h[0 + 1] = Receive(h[0], rs[0 + 1])
    BY <1>2, <2>1
  <2> QED BY <1>2, <1>3, <2>1, <2>2
<1>5. IsAccount(h[1]) /\ h[1].portfolio = a.portfolio
  <2>1. ~IsFill(rs[1])
    BY <1>10
  <2>2. Apply(a.portfolio, e.symbol, rs[1], config.feeTicks) = a.portfolio
    BY <2>1 DEF Apply
  <2> QED BY <1>4, <2>2, ReceiveIs
<1>6. CASE last = 1
  BY <1>2, <1>5, <1>6 DEF z
<1>7. CASE last = 3
  <2>1. /\ IsFill(rs[2]) /\ rs[2].owner_id = e.owner_id /\ rs[2].side = e.side
        /\ rs[2].quantity = 1 /\ rs[3].owner_id # e.owner_id
        /\ rs[2] \in Responses
    BY <1>3, <1>7, <1>10
  <2>2. h[2] = Receive(h[1], rs[2]) /\ h[3] = Receive(h[2], rs[3])
    <3>1. 1 \in 0 .. last - 1 /\ 2 \in 0 .. last - 1 /\ 1 + 1 = 2 /\ 2 + 1 = 3
      BY <1>7
    <3>2. h[1 + 1] = Receive(h[1], rs[1 + 1]) /\ h[2 + 1] = Receive(h[2], rs[2 + 1])
      BY <1>2, <3>1
    <3> QED BY <3>1, <3>2
  <2>3. /\ IsAccount(h[2])
        /\ h[2].portfolio = Apply(a.portfolio, e.symbol, rs[2], config.feeTicks)
    <3>1. rs[2].owner_id = config.strategyOwnerId
      BY <2>1
    <3>2. /\ IsAccount(Receive(h[1], rs[2]))
          /\ Receive(h[1], rs[2]).portfolio
               = Apply(h[1].portfolio, e.symbol, rs[2], config.feeTicks)
      BY <1>5, <3>1, ReceiveIs
    <3> QED BY <1>5, <2>2, <3>2
  <2>4. h[3].portfolio = h[2].portfolio
    <3>1. rs[3].owner_id # config.strategyOwnerId
      BY <2>1
    <3>2. Receive(h[2], rs[3]).portfolio = h[2].portfolio
      BY <2>3, <3>1, ReceiveIs
    <3> QED BY <2>2, <3>2
  <2>5. Position(h[2].portfolio, e.symbol)
          = Position(a.portfolio, e.symbol) + Moved(rs[2], e.symbol, e.symbol)
    BY <1>1, <2>1, <2>3, ApplyIs
  <2>6. Moved(rs[2], e.symbol, e.symbol) = Unit(e.side)
    BY <1>1, <2>1 DEF Moved, Units, Unit
  <2>7. h[last] = h[3]
    BY <1>7
  <2> QED BY <1>2, <2>4, <2>5, <2>6, <2>7 DEF z
<1> QED BY <1>3, <1>6, <1>7

-----------------------------------------------------------------------------
Ours(x) == x.event.owner_id = config.strategyOwnerId

Later(x) == x.event.time > now /\ ~Ours(x)

(* An order of this owner for one unit that the other side of book b will  *)
(* fill, and for which the limit leaves room.                              *)
Fits(e, owner, b, position, limit) ==
  /\ e.symbol = TradedSymbol /\ e.order_type = "Add" /\ e.quantity = 1
  /\ e.owner_id = owner
  /\ HasQuote(b) /\ e.price = BestPrice(b, Opposite(e.side))
  /\ IF e.side = "Buy" THEN position < limit ELSE position > -limit

Marketable(e) ==
  Fits(e, config.strategyOwnerId, TopBook, Position(portfolio, TradedSymbol),
       strategy.maxPosition)

(* Without latency the strategy has at most one order under way, from the  *)
(* moment it decides until the order acts, and nothing comes in between.   *)
OneTake ==
  IF at = "pollAgain"
  THEN \/ /\ due = << >>
          /\ \E y \in queue.events :
               /\ Marketable(y.event) /\ y.event.time <= now
               /\ \A x \in queue.events \ {y} : Later(x)
       \/ /\ Len(due) = 1 /\ Marketable(due[1].event)
          /\ \A x \in queue.events : Later(x)
  ELSE /\ \A x \in queue.events : ~Ours(x)
       /\ IF at = "processAgain"
          THEN due # << >> => Len(due) = 1 /\ Marketable(due[1].event)
          ELSE \A i \in 1 .. Len(due) : ~Ours(due[i])

Limited ==
  Position(portfolio, TradedSymbol) \in {0} \cup -strategy.maxPosition .. strategy.maxPosition

NoneRest == \A symbol \in DOMAIN books : NotResting(books[symbol].orders, config.strategyOwnerId)

(* The inductive invariant. *)
LimitInv == Latency(config) = 0 => Limited /\ NoneRest /\ OneTake

(* What the limit looks at, when nothing of it changes.                    *)
LEMMA LimitFrame ==
  ASSUME UNCHANGED <<config, books, portfolio, strategy>>
  PROVE  /\ Limited => Limited'
         /\ NoneRest => NoneRest'
         /\ \A e : Marketable(e) => Marketable(e)'
         /\ TopBook' = TopBook
         /\ Position(portfolio', TradedSymbol) = Position(portfolio, TradedSymbol)
<1>1. /\ TopBook' = TopBook
      /\ Position(portfolio', TradedSymbol) = Position(portfolio, TradedSymbol)
  BY DEF TopBook, BookOf
<1>2. (Limited => Limited') /\ (NoneRest => NoneRest')
  BY <1>1 DEF Limited, NoneRest
<1>3. \A e : Marketable(e) => Marketable(e)'
  BY <1>1 DEF Marketable
<1> QED BY <1>1, <1>2, <1>3

(* No event of the file is the strategy's.                                 *)
LEMMA ConstructTake ==
  ASSUME OrderInv, Construct
  PROVE  OneTake'
<1>1. /\ at = "construct" /\ due' = due /\ due = << >> /\ config' = config /\ queue.events = {}
      /\ file \in Files
  BY DEF Construct, OrderInv, Clock
<1>2. Len(due') = 0
  BY <1>1
<1>3. CASE Accepted /\ queue' = AddEvents(queue, file) /\ at' = "poll"
  <2>1. /\ file \in Seq(BackTestEvents)
        /\ \A i \in DOMAIN file : file[i].owner_id # config.strategyOwnerId
    BY <1>1, <1>3, FilesAssumption DEF Accepted, UsesReservedOwner
  <2>2. queue'.events = {[event |-> file[i], order |-> queue.order_counter + i - 1] :
                           i \in DOMAIN file}
    BY <1>1, <1>3 DEF AddEvents
  <2>3. \A x \in queue'.events : x.event.owner_id # config'.strategyOwnerId
    BY <1>1, <2>1, <2>2
  <2> QED BY <1>2, <1>3, <2>3 DEF OneTake, Ours
<1>4. CASE at' = "thrown" /\ queue' = queue
  BY <1>1, <1>2, <1>4 DEF OneTake, Ours
<1> QED BY <1>3, <1>4 DEF Construct

(* After a command GetEvents finds the strategy's order and nothing else.  *)
LEMMA PopTake ==
  ASSUME OrderInv, OneTake, PopDueEvent, UNCHANGED strategy
  PROVE  OneTake'
<1>1. /\ at \in {"poll", "pollAgain"} /\ at' = at /\ now' = now
      /\ UNCHANGED <<config, books, portfolio, strategy>>
  BY DEF PopDueEvent, engineVars
<1>2. PICK x \in queue.events : IsDue(queue, x, now) /\ queue' = Pop(queue, x)
                                /\ due' = Append(due, x)
  BY DEF PopDueEvent
<1>3. /\ queue'.events = queue.events \ {x}
      /\ x.event.time <= now /\ x.event.time \in Int /\ now \in Int
  BY <1>2 DEF Pop, IsDue, OrderInv, Entries, Clock, IsEntry
<1>4. /\ Len(due') = Len(due) + 1 /\ Len(due) \in Nat
      /\ \A i \in 1 .. Len(due) : due'[i] = due[i]
      /\ due'[Len(due) + 1] = x
  BY <1>2, AppendDue DEF OrderInv, Entries
<1>5. /\ TopBook' = TopBook
      /\ Position(portfolio', TradedSymbol) = Position(portfolio, TradedSymbol)
  BY <1>1, LimitFrame
<1>6. CASE at = "poll"
  <2>1. /\ \A y \in queue.events : ~Ours(y)
        /\ \A i \in 1 .. Len(due) : ~Ours(due[i])
    BY <1>6 DEF OneTake
  <2>2. \A i \in 1 .. Len(due') : ~Ours(due[i])'
    <3> SUFFICES ASSUME NEW i \in 1 .. Len(due') PROVE ~Ours(due[i])'
      OBVIOUS
    <3>1. i \in 1 .. Len(due) \/ i = Len(due) + 1
      BY <1>4
    <3> QED BY <1>1, <1>4, <2>1, <3>1 DEF Ours
  <2>3. \A y \in queue'.events : ~Ours(y)'
    BY <1>1, <1>3, <2>1 DEF Ours
  <2> QED BY <1>1, <1>6, <2>2, <2>3 DEF OneTake
<1>7. CASE at = "pollAgain"
  <2>1. CASE Len(due) = 1 /\ \A y \in queue.events : Later(y)
    BY <1>3, <2>1 DEF Later
  <2>2. ASSUME due = << >>, NEW y \in queue.events, Marketable(y.event),
               \A z \in queue.events \ {y} : Later(z)
        PROVE  OneTake'
    <3>1. x = y /\ Len(due) = 0
      BY <1>3, <2>2 DEF Later
    <3>2. Len(due') = 1 /\ due'[1] = y
      BY <1>4, <3>1
    <3>3. Marketable(due[1].event)'
      BY <1>1, <1>5, <2>2, <3>2 DEF Marketable
    <3>4. \A z \in queue'.events : Later(z)'
      BY <1>1, <1>3, <2>2, <3>1 DEF Later, Ours
    <3> QED BY <1>1, <1>7, <3>2, <3>3, <3>4 DEF OneTake
  <2> QED BY <1>7, <2>1, <2>2 DEF OneTake
<1> QED BY <1>1, <1>6, <1>7

(* It is then all that is due.                                             *)
LEMMA StartTake ==
  ASSUME OrderInv, OneTake, StartProcessing, UNCHANGED strategy
  PROVE  OneTake'
<1>1. /\ at \in {"poll", "pollAgain"} /\ now' = now /\ due' = due /\ queue' = queue
      /\ at' = IF at = "poll" THEN "process" ELSE "processAgain"
      /\ UNCHANGED <<config, books, portfolio, strategy>>
      /\ \A x \in queue.events : x.event.time > now /\ x.event.time \in Int /\ now \in Int
  BY DEF StartProcessing, engineVars, OrderInv, Entries, IsEntry, Clock
<1>2. /\ TopBook' = TopBook
      /\ Position(portfolio', TradedSymbol) = Position(portfolio, TradedSymbol)
  BY <1>1, LimitFrame
<1>3. CASE at = "poll"
  BY <1>1, <1>3 DEF OneTake, Ours
<1>4. CASE at = "pollAgain"
  <2>1. Len(due) = 1 /\ Marketable(due[1].event) /\ \A x \in queue.events : Later(x)
    BY <1>1, <1>4 DEF OneTake
  <2>2. Marketable(due[1].event)'
    BY <1>1, <1>2, <2>1 DEF Marketable
  <2>3. \A x \in queue'.events : ~Ours(x)'
    BY <1>1, <2>1 DEF Later, Ours
  <2> QED BY <1>1, <1>4, <2>1, <2>2, <2>3 DEF OneTake
<1> QED BY <1>1, <1>3, <1>4

(* A decision puts one order in the queue, which is due at once.           *)
LEMMA DecideTake ==
  ASSUME RunInv, Latency(config) = 0, OneTake, NEW c \in AnyEdgeCommands, OnTimeMove(c),
         UNCHANGED strategy
  PROVE  OneTake'
<1>1. /\ at = "process" /\ due = << >> /\ due' = due /\ now' = now
      /\ UNCHANGED <<config, books, portfolio, strategy>>
  BY DEF OnTimeMove
<1>2. /\ \A x \in queue.events : ~Ours(x) /\ x.event.time > now
      /\ Len(due) = 0 /\ now \in Int
  BY <1>1 DEF OneTake, RunInv, OrderInv, Timely, Clock
<1>3. CASE at' \in {"tick", "thrown"} /\ queue' = queue
  BY <1>1, <1>2, <1>3 DEF OneTake, Ours
<1>4. CASE c # NoCommand /\ Schedule(c)
  <2>1. /\ c \in OrderCommands /\ HasQuote(TopBook)
        /\ c.symbol = TradedSymbol /\ c.order_type = "Add" /\ c.quantity = 1
        /\ c.price = BestPrice(TopBook, Opposite(c.side))
        /\ Room(c.side, Position(portfolio, TradedSymbol))
    BY <1>4, TakeTyped DEF RunInv
  <2> PICK e : e = Scheduled(c)
    OBVIOUS
  <2>2. /\ queue' = AddEvent(queue, e)
        /\ e.symbol = c.symbol /\ e.side = c.side /\ e.order_type = c.order_type
        /\ e.owner_id = config.strategyOwnerId
        /\ e.quantity = c.quantity /\ e.price = c.price
        /\ e.time = now + Latency(config)
    BY <1>1, <1>4, <2>1, ScheduledTyped DEF RunInv, Schedule
  <2>3. Marketable(e)
    BY <2>1, <2>2 DEF Marketable, Fits, Room
  <2>4. PICK y : queue'.events = queue.events \cup {y} /\ y.event = e
    <3>1. [event |-> e, order |-> queue.order_counter].event = e
      OBVIOUS
    <3> QED BY <2>2, <3>1 DEF AddEvent
  <2>5. Marketable(y.event)' /\ y.event.time <= now'
    <3>1. Marketable(e)'
      BY <1>1, <2>3, LimitFrame
    <3> QED BY <1>1, <1>2, <2>2, <2>4, <3>1
  <2>6. y \in queue'.events /\ \A x \in queue'.events \ {y} : Later(x)'
    BY <1>1, <1>2, <2>4 DEF Later, Ours
  <2>7. at' = "pollAgain"
    BY <1>4 DEF Schedule
  <2> QED BY <1>1, <2>5, <2>6, <2>7 DEF OneTake
<1> QED BY <1>3, <1>4 DEF OnTimeMove

(* An order that fits the book is filled at its best price.                *)
LEMMA FitCrosses ==
  ASSUME NEW e, e.side \in Sides, NEW b, GoodBook(b), NEW owner, NEW position, NEW limit,
         Fits(e, owner, b, position, limit)
  PROVE  \E n \in DOMAIN b.orders :
           b.orders[n].side = Opposite(e.side) /\ Crosses(e, b.orders[n].price)
<1>1. Opposite(e.side) \in Sides /\ HasQuote(b) /\ e.price = BestPrice(b, Opposite(e.side))
  BY DEF Fits, Opposite, Sides
<1>2. Prices(b, Opposite(e.side)) # {}
  BY <1>1 DEF HasQuote
<1>3. e.price \in Prices(b, Opposite(e.side)) /\ e.price \in Int
  BY <1>1, <1>2, BestPriceIs
<1>4. PICK n \in DOMAIN b.orders :
        b.orders[n].side = Opposite(e.side) /\ b.orders[n].price = e.price
  BY <1>3 DEF Prices
<1> QED BY <1>3, <1>4 DEF Crosses, Sides

(* The order acts in the book it was made for.                             *)
LEMMA ProcessTake ==
  ASSUME RunInv, StrategyTyped, Limited, NoneRest, OneTake, ProcessEvent, UNCHANGED strategy
  PROVE  Limited' /\ NoneRest' /\ OneTake'
<1> DEFINE owner == config.strategyOwnerId
<1>1. /\ at \in {"process", "processAgain"} /\ at' = at /\ due # << >> /\ due' = Tail(due)
      /\ config' = config /\ queue' = queue
  BY DEF ProcessEvent
<1>2. /\ \E S : Tail(due) \in Seq(S)
      /\ Len(due) \in Nat /\ Len(due) > 0 /\ Len(due') = Len(due) - 1
      /\ \A i \in 1 .. Len(due) - 1 : due'[i] = due[i + 1]
      /\ Head(due) = due[1] /\ 1 \in 1 .. Len(due)
  BY <1>1, TailDue DEF RunInv, OrderInv, Entries
<1>3. PICK e, c :
        /\ e \in BackTestEvents /\ e = Head(due).event
        /\ c = ProcessOrder(BookOf(e.symbol), e)
        /\ Processed(e, c)
  BY EventProcessed DEF RunInv
<1> DEFINE b == BookOf(e.symbol)
<1>4. GoodBook(b) /\ b.taker = Null /\ Uncrossed(b.orders)
  BY BookIsIdle DEF RunInv, Idle
<1>5. IsOrder(e) /\ e.side \in Sides /\ e.quantity \in Int
  BY <1>3, EventIsOrder DEF BackTestEvents
<1>6. NotResting(b.orders, owner)
  <2>1. DOMAIN EmptyBook.orders = {}
    BY DEF EmptyBook, EmptyMap
  <2> QED BY <2>1 DEF NoneRest, BookOf, NotResting
<1>7. c.responses \in Seq(Responses) /\ Formed(c)
  BY <1>3 DEF Processed, Done, GoodBook
<1>8. books' = With(books, e.symbol, Reply(c, << >>)) /\ Reply(c, << >>).orders = c.orders
  BY <1>3, <1>7, EngageIs DEF Processed
<1>9. portfolio' = FoldLeft(Receive, Books, c.responses).portfolio
  BY <1>3 DEF Processed
<1>10. /\ IsAccount(Books) /\ Books.portfolio = portfolio /\ Folio(portfolio)
       /\ config.feeTicks \in Int
  BY ConfigsAssumption DEF IsAccount, Books, RunInv, Accounts, Settled, Account, OrderInv, Clock
<1>11. ASSUME NotResting(c.orders, owner) PROVE NoneRest'
  <2> DEFINE done == Reply(c, << >>)
  <2>1. NotResting(done.orders, owner)
    BY <1>8, <1>11
  <2> HIDE DEF done
  <2>2. books' = With(books, e.symbol, done)
    BY <1>8 DEF done
  <2>3. \A symbol \in DOMAIN books' : NotResting(books'[symbol].orders, owner)
    BY <2>1, <2>2 DEF With, NoneRest
  <2> QED BY <1>1, <2>3 DEF NoneRest
<1>12. CASE at = "process"
  <2>1. /\ \A x \in queue.events : ~Ours(x)
        /\ \A i \in 1 .. Len(due) : ~Ours(due[i])
    BY <1>12 DEF OneTake
  <2>2. e.owner_id # owner
    BY <1>2, <1>3, <2>1 DEF Ours
  <2>3. NotResting(c.orders, owner) /\ NotTold(c.responses, owner)
    <3> HIDE DEF b, owner
    <3>1. c = ProcessOrder(b, e)
      BY <1>3 DEF b
    <3> QED BY <1>4, <1>5, <1>6, <2>2, <3>1, CallStranger
  <2>4. portfolio' = portfolio
    BY <1>7, <1>9, <1>10, <2>3, ToldNothing
  <2>5. Limited'
    BY <2>4 DEF Limited
  <2>6. OneTake'
    <3>1. \A i \in 1 .. Len(due') : ~Ours(due[i])'
      <4> SUFFICES ASSUME NEW i \in 1 .. Len(due') PROVE ~Ours(due[i])'
        OBVIOUS
      <4>1. i + 1 \in 1 .. Len(due) /\ due'[i] = due[i + 1]
        BY <1>2
      <4> QED BY <1>1, <2>1, <4>1 DEF Ours
    <3>2. \A x \in queue'.events : ~Ours(x)'
      BY <1>1, <2>1 DEF Ours
    <3> QED BY <1>1, <1>12, <3>1, <3>2 DEF OneTake
  <2> QED BY <1>11, <2>3, <2>5, <2>6
<1>13. CASE at = "processAgain"
  <2>1. Len(due) = 1 /\ Marketable(due[1].event) /\ \A x \in queue.events : ~Ours(x)
    BY <1>1, <1>13 DEF OneTake
  <2>2. Fits(e, owner, TopBook, Position(portfolio, TradedSymbol), strategy.maxPosition)
    BY <1>2, <1>3, <2>1 DEF Marketable
  <2>3. /\ e.symbol = TradedSymbol /\ e.order_type = "Add" /\ e.quantity = 1
        /\ e.owner_id = owner /\ b = TopBook
        /\ IF e.side = "Buy" THEN Position(portfolio, TradedSymbol) < strategy.maxPosition
           ELSE Position(portfolio, TradedSymbol) > -strategy.maxPosition
    BY <2>2 DEF Fits, TopBook
  <2>4. NotResting(c.orders, owner) /\ TakesOne(c.responses, e)
    <3> HIDE DEF b, owner
    <3>1. c = ProcessOrder(b, e)
      BY <1>3 DEF b
    <3>2. PICK n \in DOMAIN b.orders :
            b.orders[n].side = Opposite(e.side) /\ Crosses(e, b.orders[n].price)
      BY <1>4, <1>5, <2>2, <2>3, FitCrosses
    <3> QED BY <1>4, <1>5, <1>6, <2>3, <3>1, <3>2, MarketableTakes
  <2>5. LET before == Position(portfolio, e.symbol)
        IN Position(portfolio', e.symbol) \in {before, before + Unit(e.side)}
    BY <1>3, <1>9, <1>10, <2>3, <2>4, UnitTaken
  <2>6. Limited'
    <3> DEFINE p == Position(portfolio, TradedSymbol)
               q == Position(portfolio', TradedSymbol)
               limit == strategy.maxPosition
    <3>1. p \in Int /\ limit \in Int
      BY <1>10, PositionTyped, StrategyConfigsAssumption DEF StrategyTyped
    <3>2. p \in {0} \cup -limit .. limit
      BY DEF Limited
    <3>3. /\ q = p \/ q = p + Unit(e.side)
          /\ IF e.side = "Buy" THEN p < limit ELSE p > -limit
      BY <2>3, <2>5
    <3> HIDE DEF p, q, limit
    <3>4. q \in {0} \cup -limit .. limit
      BY <3>1, <3>2, <3>3 DEF Unit
    <3> QED BY <3>4 DEF Limited, q, limit
  <2>7. due' = << >>
    BY <1>1, <1>2, <2>1
  <2>8. OneTake'
    <3>1. \A x \in queue'.events : ~Ours(x)'
      BY <1>1, <2>1 DEF Ours
    <3> QED BY <1>1, <1>13, <2>7, <3>1 DEF OneTake
  <2> QED BY <1>11, <2>4, <2>6, <2>8
<1> QED BY <1>1, <1>12, <1>13

(* The backtest starts with no position and no orders.                     *)
LEMMA InitLimit == FairPriceInit => LimitInv
<1> SUFFICES ASSUME FairPriceInit PROVE LimitInv
  OBVIOUS
<1>1. DOMAIN EmptyMap = {}
  BY DEF EmptyMap
<1>2. Position(EmptyPortfolio, TradedSymbol) = 0
  <2>1. EmptyPortfolio.positions = EmptyMap
    BY DEF EmptyPortfolio
  <2> QED BY <1>1, <2>1 DEF Position
<1>3. Limited
  BY <1>2 DEF FairPriceInit, Init, Limited
<1>4. NoneRest
  BY <1>1 DEF FairPriceInit, Init, NoneRest
<1>5. OneTake
  <2>1. Len(due) = 0 /\ at = "construct" /\ queue.events = {}
    BY DEF FairPriceInit, Init, EmptyQueue
  <2> QED BY <2>1 DEF OneTake
<1> QED BY <1>3, <1>4, <1>5 DEF LimitInv

(* Every step of the strategy that takes one unit keeps the invariant.     *)
LEMMA NextLimit == RunInv /\ StrategyTyped /\ LimitInv /\ [AnyEdgeNext]_strategyVars => LimitInv'
<1> SUFFICES ASSUME RunInv, StrategyTyped, LimitInv, [AnyEdgeNext]_strategyVars,
                    Latency(config)' = 0
             PROVE  Limited' /\ NoneRest' /\ OneTake'
  BY DEF LimitInv
<1>1. config' = config
  BY DEF AnyEdgeNext, strategyVars, vars, Construct, OnTimeMove, Loop, PopDueEvent,
         StartProcessing, ProcessEvent, Tick, PrintSummary
<1>2. Latency(config) = 0 /\ Limited /\ NoneRest /\ OneTake
  BY <1>1 DEF LimitInv, Latency
<1>3. CASE UNCHANGED strategyVars
  <2>1. UNCHANGED <<config, books, portfolio, strategy, at, due, queue, now>>
    BY <1>3 DEF strategyVars, vars
  <2>2. /\ TopBook' = TopBook
        /\ Position(portfolio', TradedSymbol) = Position(portfolio, TradedSymbol)
        /\ Limited' /\ NoneRest'
    BY <1>2, <2>1, LimitFrame
  <2>3. OneTake'
    BY <1>2, <2>1, <2>2 DEF OneTake, Later, Ours, Marketable
  <2> QED BY <2>2, <2>3
<1>4. CASE Construct /\ UNCHANGED strategy
  <2>1. UNCHANGED <<config, books, portfolio, strategy>>
    BY <1>4 DEF Construct, engineVars
  <2> QED BY <1>2, <1>4, <2>1, LimitFrame, ConstructTake DEF RunInv
<1>5. CASE (PopDueEvent \/ StartProcessing) /\ UNCHANGED strategy
  <2>1. UNCHANGED <<config, books, portfolio, strategy>>
    BY <1>5 DEF PopDueEvent, StartProcessing, engineVars
  <2> QED BY <1>2, <1>5, <2>1, LimitFrame, PopTake, StartTake DEF RunInv
<1>6. CASE ProcessEvent /\ UNCHANGED strategy
  BY <1>2, <1>6, ProcessTake
<1>7. CASE (Tick \/ PrintSummary) /\ UNCHANGED strategy
  <2>1. /\ at \in {"tick", "processAgain", "done"} /\ at' \in {"poll", "done", "printed"}
        /\ UNCHANGED <<config, books, portfolio, strategy, due, queue>>
    BY <1>7 DEF Tick, PrintSummary, engineVars
  <2>2. due = << >> /\ Len(due) = 0
    BY <1>7, <2>1 DEF Tick, PrintSummary, RunInv, OrderInv, Clock
  <2>3. OneTake'
    BY <1>2, <2>1, <2>2 DEF OneTake, Ours
  <2> QED BY <1>2, <2>1, <2>3, LimitFrame
<1>8. ASSUME NEW c \in AnyEdgeCommands, OnTimeMove(c), UNCHANGED strategy
      PROVE  Limited' /\ NoneRest' /\ OneTake'
  <2>1. UNCHANGED <<config, books, portfolio, strategy>>
    BY <1>8 DEF OnTimeMove
  <2> QED BY <1>2, <1>8, <2>1, LimitFrame, DecideTake
<1> QED BY <1>3, <1>4, <1>5, <1>6, <1>7, <1>8 DEF AnyEdgeNext, Loop

(* The limit, the books and the one order under way, whatever the edges.   *)
THEOREM LimitInvariant == AnyEdgeSpec => []LimitInv
BY InitLimit, NextLimit, AnyEdgeRuns, StrategyKept, PTL DEF AnyEdgeSpec

(* Without latency the position never leaves the limit, although only the  *)
(* position is looked at (fair_price_strategy.cpp:52-61): no order is      *)
(* under way when the strategy decides.                                    *)
THEOREM PositionIsLimited == AnyEdgeSpec => []PositionWithinLimit
<1>1. LimitInv => PositionWithinLimit
  BY DEF LimitInv, Limited, PositionWithinLimit
<1> QED BY <1>1, LimitInvariant, PTL

(* Without latency an order of the strategy never rests: the price it is   *)
(* sent at is still the best when it arrives (backtest.cpp:82-101).        *)
THEOREM OrdersNeverRest == AnyEdgeSpec => []NeverRests
<1>1. LimitInv => NeverRests
  BY DEF LimitInv, NoneRest, NotResting, NeverRests
<1> QED BY <1>1, LimitInvariant, PTL

(* What holds whatever the edges holds of the edges the code computes.     *)
THEOREM FairPriceWithinLimit == FairPriceSpec => [](PositionWithinLimit /\ NeverRests)
BY DecisionsWithinLimit, PositionIsLimited, OrdersNeverRest, PTL DEF ImplementsAnyEdge
=============================================================================
