-------------------------- MODULE BookPromisesProofs --------------------------
(***************************************************************************)
(* Proofs of what module Book promises to its callers, for any ids, owners *)
(* and events:                                                             *)
(*   - it implements module PriceTimeBook: whatever src/book.cpp does with *)
(*     its maps, lists and index is, call by call and fill by fill, what   *)
(*     price-time priority asks of a book that has none of them;           *)
(*   - the responses of a call name every price whose quantity it changes; *)
(*   - topOfBook and quantityAtPrice answer what the resting orders say;   *)
(*   - the walk of Book::~Book (module BookDestructor) deletes each node   *)
(*     exactly once.                                                       *)
(***************************************************************************)
EXTENDS BookDestructor, BookProofs, SumProofs

USE DEF Sides

-----------------------------------------------------------------------------
(* The refinement.                                                         *)


(* The abstract book's orders: what rests under each id. *)
Orders ==
  [n \in DOMAIN location |->
     [side |-> location[n].side, owner_id |-> location[n].owner_id,
      price |-> location[n].price, quantity |-> nodes[n].quantity]]

(* What the abstract book sees of an order that rests. *)
LEMMA EngineOrders ==
  /\ Engine.orders = Orders
  /\ DOMAIN Orders = DOMAIN location
  /\ \A n \in DOMAIN location :
       /\ Orders[n].side = location[n].side
       /\ Orders[n].owner_id = location[n].owner_id
       /\ Orders[n].price = location[n].price
       /\ Orders[n].quantity = nodes[n].quantity
  /\ Engine.before = before
  /\ Engine.taker = taker
  /\ Engine.responses = responses
BY DEF Engine, Orders

-----------------------------------------------------------------------------
(* The operators of the abstract book, on a book given by its fields.      *)

(* A book in the form of MatchingRules. *)
Fields(O, B, T, R) == [orders |-> O, before |-> B, taker |-> T, responses |-> R]

(* The abstract book, before and after a step. *)
LEMMA EngineFields ==
  /\ Engine = Fields(Orders, before, taker, responses)
  /\ Engine' = Fields(Orders', before', taker', responses')
BY DEF Engine, Orders, Fields

(* The arrivals that do not concern order id. *)
Others(B, id) == {pair \in B : pair[1] # id /\ pair[2] # id}

(* Order m with d units less to trade. *)
Reduced(O, m, d) == [O EXCEPT ![m].quantity = @ - d]

(* What Reply changes. *)
LEMMA ReplyFields ==
  ASSUME NEW O, NEW B, NEW T, NEW R, NEW rs
  PROVE  PriceTime!Reply(Fields(O, B, T, R), rs) = Fields(O, B, T, rs)
BY DEF Fields, PriceTime!Reply

(* What Engage changes. *)
LEMMA EngageFields ==
  ASSUME NEW O, NEW B, NEW T, NEW R, NEW o, NEW rs
  PROVE  PriceTime!Engage(Fields(O, B, T, R), o, rs) = Fields(O, B, o, rs)
<1> DEFINE b == Fields(O, B, T, R)
<1>1. PICK c : c = [b EXCEPT !.taker = o]
  OBVIOUS
<1>2. c = Fields(O, B, o, R)
  BY <1>1 DEF Fields
<1>3. PriceTime!Engage(b, o, rs) = [c EXCEPT !.responses = rs]
  <2> HIDE DEF b
  <2> QED BY <1>1 DEF PriceTime!Engage
<1> QED BY <1>2, <1>3 DEF Fields

(* What Withdraw changes. *)
LEMMA WithdrawFields ==
  ASSUME NEW O, NEW B, NEW T, NEW R, NEW id
  PROVE  PriceTime!Withdraw(Fields(O, B, T, R), id) =
           Fields(Without(O, id), Others(B, id), T, R)
<1> DEFINE b == Fields(O, B, T, R)
           S == {pair \in B : pair[1] # id /\ pair[2] # id}
           W == Without(O, id)
<1>1. PICK c : c = [b EXCEPT !.orders = W]
  OBVIOUS
<1>2. b.orders = O /\ b.before = B
  BY DEF Fields
<1>3. PriceTime!Withdraw(b, id) = [b EXCEPT !.orders = W, !.before = S]
  BY <1>2 DEF PriceTime!Withdraw, PriceTime!Without, Without
<1> HIDE DEF S, W
<1>4. c = Fields(W, B, T, R)
  BY <1>1 DEF Fields
<1>5. [b EXCEPT !.orders = W, !.before = S] = [c EXCEPT !.before = S]
  <2> HIDE DEF b
  <2> QED BY <1>1
<1> QED BY <1>3, <1>4, <1>5 DEF Fields, Others, S, W

(* What FillWith changes: maker m is withdrawn when it has nothing left.   *)
LEMMA FillWithFields ==
  ASSUME NEW O, NEW B, NEW T, NEW R, NEW m
  PROVE  LET delta == Smaller(T.quantity, O[m].quantity)
             remaining == T.quantity - delta
             f1 == Fill(T.order_id, T.owner_id, T.side, remaining, delta, O[m].price)
             f2 == Fill(m, O[m].owner_id, O[m].side, O[m].quantity - delta,
                        delta, O[m].price)
         IN PriceTime!FillWith(Fields(O, B, T, R), m) =
              IF O[m].quantity = delta
              THEN Fields(Without(O, m), Others(B, m),
                          [T EXCEPT !.quantity = remaining], R \o <<f1, f2>>)
              ELSE Fields(Reduced(O, m, delta), B,
                          [T EXCEPT !.quantity = remaining], R \o <<f1, f2>>)
<1> DEFINE b == Fields(O, B, T, R)
           delta == Smaller(T.quantity, O[m].quantity)
           remaining == T.quantity - delta
           f1 == Fill(T.order_id, T.owner_id, T.side, remaining, delta, O[m].price)
           f2 == Fill(m, O[m].owner_id, O[m].side, O[m].quantity - delta,
                      delta, O[m].price)
           kept == IF O[m].quantity = delta
                   THEN PriceTime!Withdraw(b, m)
                   ELSE [b EXCEPT !.orders[m].quantity = @ - delta]
           rs == <<f1, f2>>
<1>1. b.orders = O /\ b.taker = T
  BY DEF Fields
<1>2. PriceTime!FillWith(b, m) =
        [kept EXCEPT !.taker.quantity = remaining, !.responses = @ \o rs]
  BY <1>1 DEF PriceTime!FillWith, PriceTime!Smaller, Smaller, PriceTime!Fill, Fill
<1>3. ASSUME NEW O2, NEW B2, kept = Fields(O2, B2, T, R)
      PROVE  PriceTime!FillWith(b, m) =
               Fields(O2, B2, [T EXCEPT !.quantity = remaining], R \o rs)
  <2> HIDE DEF b, rs, delta, remaining
  <2>1. PICK c : c = [kept EXCEPT !.taker.quantity = remaining]
    OBVIOUS
  <2>2. c = Fields(O2, B2, [T EXCEPT !.quantity = remaining], R)
    BY <1>3, <2>1 DEF Fields
  <2>3. kept.responses = R
    BY <1>3 DEF Fields
  <2>4. PriceTime!FillWith(b, m) = [c EXCEPT !.responses = R \o rs]
    <3> HIDE DEF kept
    <3> QED BY <1>2, <2>1, <2>3
  <2> QED BY <2>2, <2>4 DEF Fields
<1>4. CASE O[m].quantity = delta
  <2>1. kept = Fields(Without(O, m), Others(B, m), T, R)
    BY <1>4, WithdrawFields
  <2> HIDE DEF kept
  <2> QED BY <1>3, <1>4, <2>1
<1>5. CASE O[m].quantity # delta
  <2>1. kept = Fields(Reduced(O, m, delta), B, T, R)
    BY <1>5 DEF Fields, Reduced
  <2> HIDE DEF kept
  <2> QED BY <1>3, <1>5, <2>1
<1> QED BY <1>4, <1>5

(* What joins the book, and the arrivals it makes, when order o rests. *)
Joined(O, o) ==
  With(O, o.order_id, [side |-> o.side, owner_id |-> o.owner_id,
                       price |-> o.price, quantity |-> o.quantity])

Behind(O, B, o) ==
  B \cup {<<m, o.order_id>> :
             m \in {n \in DOMAIN O : O[n].side = o.side /\ O[n].price = o.price}}

(* What Rest changes. *)
LEMMA RestFields ==
  ASSUME NEW O, NEW B, NEW T, NEW R, NEW o
  PROVE  PriceTime!Rest(Fields(O, B, T, R), o) = Fields(Joined(O, o), Behind(O, B, o), T, R)
<1> DEFINE b == Fields(O, B, T, R)
           J == Joined(O, o)
           S == Behind(O, B, o)
<1>1. PICK c : c = [b EXCEPT !.orders = J]
  OBVIOUS
<1>2. b.orders = O /\ b.before = B
  BY DEF Fields
<1>3. PriceTime!Rest(b, o) = [b EXCEPT !.orders = J, !.before = S]
  BY <1>2 DEF PriceTime!Rest, PriceTime!With, With, Joined, Behind
<1> HIDE DEF S, J
<1>4. c = Fields(J, B, T, R)
  BY <1>1 DEF Fields
<1>5. [b EXCEPT !.orders = J, !.before = S] = [c EXCEPT !.before = S]
  <2> HIDE DEF b
  <2> QED BY <1>1
<1>6. [c EXCEPT !.before = S] = Fields(J, S, T, R)
  BY <1>4 DEF Fields
<1> QED BY <1>3, <1>5, <1>6 DEF S, J

(* What Finish changes. *)
LEMMA FinishFields ==
  ASSUME NEW O, NEW B, NEW T, NEW R, T.quantity \in Int
  PROVE  LET b == Fields(O, B, T, R) IN
         /\ T.quantity <= 0 => PriceTime!Finish(b) = Fields(O, B, Null, R)
         /\ T.quantity > 0 /\ T.order_type \in {"Add", "Mod"} =>
              PriceTime!Finish(b) = Fields(Joined(O, T), Behind(O, B, T), Null, R)
         /\ T.quantity > 0 /\ T.order_type \in {"IOC", "Market"} =>
              PriceTime!Finish(b) = Fields(O, B, Null, Append(R, Echo(T, "OrderExpired")))
<1> DEFINE b == Fields(O, B, T, R)
           free == [b EXCEPT !.taker = Null]
           expired == [free EXCEPT !.responses = Append(@, Echo(T, "OrderExpired"))]
<1>1. b.taker = T
  BY DEF Fields
<1>2. free = Fields(O, B, Null, R)
  BY DEF Fields
<1>3. PriceTime!Finish(b) =
        CASE T.quantity <= 0 -> free
          [] T.quantity > 0 /\ T.order_type \in {"Add", "Mod"} -> PriceTime!Rest(free, T)
          [] T.quantity > 0 /\ T.order_type \in {"IOC", "Market"} -> expired
  BY <1>1, Zenon DEF PriceTime!Finish, PriceTime!Echo, Echo
<1>4. PriceTime!Rest(free, T) = Fields(Joined(O, T), Behind(O, B, T), Null, R)
  BY <1>2, RestFields
<1>5. expired = Fields(O, B, Null, Append(R, Echo(T, "OrderExpired")))
  <2>1. free.responses = R
    BY <1>2 DEF Fields
  <2>2. expired = [free EXCEPT !.responses = Append(R, Echo(T, "OrderExpired"))]
    BY <2>1
  <2> HIDE DEF free
  <2> QED BY <1>2, <2>2 DEF Fields
<1> HIDE DEF free, expired, b
<1>6. ASSUME T.quantity <= 0
      PROVE  PriceTime!Finish(b) = free
  <2>1. ~(T.quantity > 0)
    BY <1>6
  <2> QED BY <1>3, <1>6, <2>1, Zenon
<1>7. ASSUME T.quantity > 0, T.order_type \in {"Add", "Mod"}
      PROVE  PriceTime!Finish(b) = PriceTime!Rest(free, T)
  <2>1. ~(T.quantity <= 0) /\ ~(T.order_type \in {"IOC", "Market"})
    BY <1>7
  <2> QED BY <1>3, <1>7, <2>1, Zenon
<1>8. ASSUME T.quantity > 0, T.order_type \in {"IOC", "Market"}
      PROVE  PriceTime!Finish(b) = expired
  <2>1. ~(T.quantity <= 0) /\ ~(T.order_type \in {"Add", "Mod"})
    BY <1>8
  <2> QED BY <1>3, <1>8, <2>1, Zenon
<1> QED BY <1>2, <1>4, <1>5, <1>6, <1>7, <1>8 DEF b

-----------------------------------------------------------------------------
(* A handler that only answers is a Reply of the abstract book. *)
LEMMA ReplyMaps ==
  ASSUME NEW rs, UNCHANGED bookVars, Reply(rs)
  PROVE  Engine' = PriceTime!Reply(Engine, rs)
<1>1. Orders' = Orders
  BY DEF Orders, bookVars
<1> QED BY <1>1, EngineFields, ReplyFields DEF Reply, bookVars

(* A handler that goes on to match is an Engage of the abstract book. *)
LEMMA EngageMaps ==
  ASSUME NEW o, NEW rs, UNCHANGED bookVars, Engage(o, rs)
  PROVE  Engine' = PriceTime!Engage(Engine, o, rs)
<1>1. Orders' = Orders
  BY DEF Orders, bookVars
<1> QED BY <1>1, EngineFields, EngageFields DEF Engage, bookVars

(* The abstract book echoes an event as the book does. *)
LEMMA EchoMaps ==
  ASSUME NEW o, NEW type
  PROVE  PriceTime!Echo(o, type) = Echo(o, type)
BY DEF PriceTime!Echo, Echo

(* An empty book is an empty abstract book. *)
LEMMA InitMaps == Init => PriceTime!Init
BY DEF Init, PriceTime!Init, PriceTime!EmptyBook, Engine, EmptyMap, PriceTime!EmptyMap

(* removeFromSide succeeds exactly for the owner of an order that rests:   *)
(* the level its index entry names is always there.                        *)
LEMMA OwnsMaps ==
  ASSUME IInv, NEW e
  PROVE  PriceTime!Owns(Engine, e) <=> Removable(e.order_id, e.owner_id)
BY EngineOrders
   DEF PriceTime!Owns, Removable, Known, IInv, WellFormed, IndexMatchesNodes

(* The order that removeFromSide returns is the one that rested. *)
LEMMA RestingMaps ==
  ASSUME IInv, NEW id \in DOMAIN location
  PROVE  PriceTime!Resting(Engine, id) = Removed(id)
<1>1. /\ Engine.orders[id].side = location[id].side
      /\ Engine.orders[id].owner_id = location[id].owner_id
      /\ Engine.orders[id].price = location[id].price
      /\ Engine.orders[id].quantity = nodes[id].quantity
  BY EngineOrders
<1>2. location[id].owner_id = nodes[id].owner_id
  BY DEF IInv, WellFormed, IndexMatchesNodes
<1> QED BY <1>1, <1>2, Zenon DEF PriceTime!Resting, Removed

(* Unlinking a node takes one order out of the abstract book, and leaves   *)
(* every other one, whose links it may have changed, the same.             *)
LEMMA UnlinkMaps ==
  ASSUME IInv, NEW id \in DOMAIN location, Unlink(id)
  PROVE  Orders' = Without(Orders, id)
<1>1. DOMAIN nodes = DOMAIN location
  BY DEF IInv, WellFormed, IndexMatchesNodes
<1>2. location' = Without(location, id)
  BY DEF Unlink
<1>3. \A n \in DOMAIN location \ {id} : nodes'[n].quantity = nodes[n].quantity
  <2> DEFINE unlinked == nodes[id]
  <2>1. nodes' = [n \in DOMAIN nodes \ {id} |->
                    [nodes[n] EXCEPT
                       !.nxt = IF n = unlinked.prev THEN unlinked.nxt ELSE @,
                       !.prev = IF n = unlinked.nxt THEN unlinked.prev ELSE @]]
    BY DEF Unlink
  <2> HIDE DEF unlinked
  <2> QED BY <1>1, <2>1, ZenonT(40) DEF IInv, StateTypes, Node
<1> QED BY <1>2, <1>3 DEF Orders, Without

(* ProcessAdd, up to its matching loop, submits an ADD. *)
LEMMA AddMaps ==
  ASSUME NEW e \in Events, ProcessAdd(e)
  PROVE  Engine' = PriceTime!SubmitAdd(Engine, e)
BY ReplyMaps, EngageMaps, EchoMaps, EngineOrders DEF ProcessAdd, PriceTime!SubmitAdd, Known

(* ProcessCancel submits a CANCEL. *)
LEMMA CancelMaps ==
  ASSUME IInv, NEW e \in Events, ProcessCancel(e)
  PROVE  Engine' = PriceTime!SubmitCancel(Engine, e)
<1>1. CASE ~Removable(e.order_id, e.owner_id)
  BY <1>1, OwnsMaps, ReplyMaps, EchoMaps DEF ProcessCancel, PriceTime!SubmitCancel
<1>2. CASE Removable(e.order_id, e.owner_id)
  <2> DEFINE id == e.order_id
             rs == <<Echo(Removed(id), "OrderCancelled")>>
  <2>1. id \in DOMAIN location /\ Unlink(id) /\ Reply(rs)
    BY <1>2 DEF ProcessCancel, Removable, Known
  <2>2. Orders' = Without(Orders, id)
    BY <2>1, UnlinkMaps
  <2>3. /\ before' = Others(before, id)
        /\ taker' = taker /\ responses' = rs
    BY <2>1 DEF Unlink, Reply, Others
  <2>4. PriceTime!SubmitCancel(Engine, e) = PriceTime!Reply(PriceTime!Withdraw(Engine, id), rs)
    BY <1>2, <2>1, OwnsMaps, RestingMaps, EchoMaps DEF PriceTime!SubmitCancel
  <2> HIDE DEF id, rs
  <2> QED BY <2>2, <2>3, <2>4, EngineFields, WithdrawFields, ReplyFields
<1> QED BY <1>1, <1>2

(* ProcessMod, up to its matching loop, submits a MOD. *)
LEMMA ModMaps ==
  ASSUME IInv, NEW e \in Events, ProcessMod(e)
  PROVE  Engine' = PriceTime!SubmitMod(Engine, e)
<1>1. Modifiable(e) /\ Removable(e.order_id, e.owner_id)
        <=> /\ e.quantity > 0 /\ e.price > 0
            /\ PriceTime!Owns(Engine, e)
            /\ Engine.orders[e.order_id].side = e.side
  BY OwnsMaps, EngineOrders
     DEF Modifiable, Removable, Known, IInv, WellFormed, IndexMatchesNodes
<1>2. CASE ~(Modifiable(e) /\ Removable(e.order_id, e.owner_id))
  BY <1>1, <1>2, ReplyMaps, EchoMaps DEF ProcessMod, PriceTime!SubmitMod
<1>3. CASE Modifiable(e) /\ Removable(e.order_id, e.owner_id)
  <2> DEFINE id == e.order_id
             rs == <<Echo(Removed(id), "OrderModified"), Echo(e, "OrderModifyAccepted")>>
  <2>1. id \in DOMAIN location /\ Unlink(id) /\ Engage(e, rs)
    BY <1>3 DEF ProcessMod, Removable, Known
  <2>2. Orders' = Without(Orders, id)
    BY <2>1, UnlinkMaps
  <2>3. /\ before' = Others(before, id)
        /\ taker' = e /\ responses' = rs
    BY <2>1 DEF Unlink, Engage, Others
  <2>4. PriceTime!SubmitMod(Engine, e) =
          PriceTime!Engage(PriceTime!Withdraw(Engine, id), e, rs)
    BY <1>1, <1>3, <2>1, RestingMaps, EchoMaps DEF PriceTime!SubmitMod
  <2> HIDE DEF id, rs
  <2> QED BY <2>2, <2>3, <2>4, EngineFields, WithdrawFields, EngageFields
<1> QED BY <1>2, <1>3

(* ProcessIOC, up to its matching loop, submits an IOC. *)
LEMMA IOCMaps ==
  ASSUME NEW e \in Events, ProcessIOC(e)
  PROVE  Engine' = PriceTime!SubmitIOC(Engine, e)
BY ReplyMaps, EngageMaps, EchoMaps, EngineOrders, EventType
   DEF ProcessIOC, PriceTime!SubmitIOC, Known

(* ProcessMarket, up to its matching loop, submits a MARKET. *)
LEMMA MarketMaps ==
  ASSUME NEW e \in Events, ProcessMarket(e)
  PROVE  Engine' = PriceTime!SubmitMarket(Engine, e)
BY ReplyMaps, EngageMaps, EchoMaps, EngineOrders, EventType
   DEF ProcessMarket, PriceTime!SubmitMarket, Known

(* A call of ProcessOrder, up to its matching loop, is a Receive. *)
LEMMA ReceiveMaps ==
  ASSUME IInv, NEW e \in Events, ProcessOrder(e)
  PROVE  PriceTime!Receive(e)
<1>1. Engine.taker = Null /\ request' = e
  BY EngineOrders
     DEF ProcessOrder, ProcessAdd, ProcessCancel, ProcessMod, ProcessIOC, ProcessMarket, Idle
<1>2. CASE ProcessAdd(e)
  <2>1. e.order_type = "Add"
    BY <1>2 DEF ProcessAdd
  <2> QED BY <1>1, <1>2, <2>1, AddMaps DEF PriceTime!Receive, PriceTime!Submit
<1>3. CASE ProcessCancel(e)
  <2>1. e.order_type = "Cancel"
    BY <1>3 DEF ProcessCancel
  <2> QED BY <1>1, <1>3, <2>1, CancelMaps DEF PriceTime!Receive, PriceTime!Submit
<1>4. CASE ProcessMod(e)
  <2>1. e.order_type = "Mod"
    BY <1>4 DEF ProcessMod
  <2> QED BY <1>1, <1>4, <2>1, ModMaps DEF PriceTime!Receive, PriceTime!Submit
<1>5. CASE ProcessIOC(e)
  <2>1. e.order_type = "IOC"
    BY <1>5 DEF ProcessIOC
  <2> QED BY <1>1, <1>5, <2>1, IOCMaps DEF PriceTime!Receive, PriceTime!Submit
<1>6. CASE ProcessMarket(e)
  <2>1. e.order_type = "Market"
    BY <1>6 DEF ProcessMarket
  <2> QED BY <1>1, <1>6, <2>1, MarketMaps DEF PriceTime!Receive, PriceTime!Submit
<1> QED BY <1>2, <1>3, <1>4, <1>5, <1>6 DEF ProcessOrder
-----------------------------------------------------------------------------
(* The order an iteration trades with: the head of the best level's list,  *)
(* or the cursor, is ahead of every other order of its side.               *)
LEMMA MakerHasPriority ==
  ASSUME IInv, NEW side \in Sides, NEW p \in DOMAIN levels[side], CanMatch(side, p)
  PROVE  LET maker == IF it = Null THEN levels[side][p].first ELSE it IN
         /\ maker \in DOMAIN location /\ At(maker, side, p)
         /\ PriceTime!CanFill(Engine)
         /\ PriceTime!IsNextMaker(Engine, PriceTime!Opposite(Engine.taker.side), maker)
<1> DEFINE maker == IF it = Null THEN levels[side][p].first ELSE it
<1>1. /\ taker \in EventRecord /\ taker # Null
      /\ taker.quantity > 0
      /\ taker.side = Opposite(side) /\ PriceTime!Opposite(taker.side) = side
  BY DEF CanMatch, HasLeft, IInv, StateTypes, Opposite, PriceTime!Opposite
<1>2. /\ maker = Oldest(side, p) /\ maker \in DOMAIN nodes
      /\ At(maker, side, p) /\ Crosses(taker, p)
  BY <1>1, MakerIsOldest DEF IInv
<1>3. DOMAIN nodes = DOMAIN location
  BY DEF IInv, WellFormed, IndexMatchesNodes
<1> HIDE DEF maker
<1>4. PriceTime!CanFill(Engine)
  <2>1. Orders[maker].side = side /\ Orders[maker].price = p
    BY <1>2, <1>3, EngineOrders DEF At
  <2>2. PriceTime!Crosses(taker, p)
    BY <1>2 DEF Crosses, PriceTime!Crosses
  <2> QED BY <1>1, <1>2, <1>3, <2>1, <2>2, EngineOrders DEF PriceTime!CanFill
<1>5. ASSUME NEW n \in DOMAIN location \ {maker}, location[n].side = side
      PROVE  PriceTime!Ahead(Engine, maker, n)
  <2> DEFINE q == location[n].price
  <2>1. q \in DOMAIN levels[side]
    BY <1>3, <1>5 DEF IInv, WellFormed, IndexMatchesNodes
  <2>2. CASE q # p
    <3>1. Better(side, p, q)
      BY <2>1, <2>2 DEF CanMatch, IsBest
    <3>2. /\ Orders[maker].side = side /\ Orders[maker].price = p
          /\ Orders[n].price = q
      BY <1>2, <1>3, <1>5, EngineOrders DEF At
    <3> QED BY <3>1, <3>2, EngineOrders DEF PriceTime!Ahead, PriceTime!Better, Better
  <2>3. CASE q = p
    <3>1. <<Oldest(side, p), n>> \in before
      BY <1>2, <1>3, <1>5, <2>3 DEF IInv, WellFormed, ListsAreFifo
    <3>2. Orders[maker].price = Orders[n].price
      BY <1>2, <1>3, <1>5, <2>3, EngineOrders DEF At
    <3> QED BY <1>2, <3>1, <3>2, EngineOrders DEF PriceTime!Ahead
  <2> QED BY <2>2, <2>3
<1>6. PriceTime!IsNextMaker(Engine, side, maker)
  BY <1>2, <1>3, <1>5, EngineOrders DEF PriceTime!IsNextMaker, At
<1> QED BY <1>1, <1>2, <1>3, <1>4, <1>6, EngineOrders DEF maker

(* An iteration of an inner loop is the trade the abstract book asks for. *)
LEMMA MatchMaps ==
  ASSUME IInv, NEW side \in Sides, NEW p \in DOMAIN levels[side],
         CanMatch(side, p), Match(side, p)
  PROVE  LET maker == IF it = Null THEN levels[side][p].first ELSE it
         IN  Engine' = PriceTime!FillWith(Engine, maker)
<1> DEFINE maker == IF it = Null THEN levels[side][p].first ELSE it
           delta == Smaller(taker.quantity, nodes[maker].quantity)
           remaining == taker.quantity - delta
           kept  == nodes[maker].quantity - delta
           cursor == IF kept = 0 THEN nodes[maker].nxt ELSE maker
           ends  == remaining = 0 \/ cursor = Null
           freed == IF kept = 0 THEN {maker} ELSE {}
           f1 == Fill(taker.order_id, taker.owner_id, taker.side, remaining, delta, p)
           f2 == Fill(maker, nodes[maker].owner_id, side, kept, delta, p)
<1>1. /\ maker \in DOMAIN location /\ maker \in DOMAIN nodes
      /\ location[maker].side = side /\ location[maker].price = p
      /\ DOMAIN nodes = DOMAIN location
      /\ location[maker].owner_id = nodes[maker].owner_id
  BY MakerHasPriority DEF At, IInv, WellFormed, IndexMatchesNodes
<1>2. /\ nodes[maker] \in Node /\ nodes[maker].quantity \in Int
      /\ taker \in EventRecord /\ taker.quantity \in Int
      /\ delta \in Int /\ remaining \in Int /\ kept \in Int
  <2>1. /\ nodes[maker] \in Node /\ nodes[maker].quantity \in Int
        /\ taker \in EventRecord /\ taker.quantity \in Int
    BY <1>1 DEF IInv, StateTypes, CanMatch, Node, EventRecord
  <2> HIDE DEF maker
  <2> QED BY <2>1 DEF Smaller
<1>3. /\ nodes' = [n \in DOMAIN nodes \ freed |->
                    [nodes[n] EXCEPT
                       !.quantity = IF n = maker THEN kept ELSE @,
                       !.prev = IF ends /\ n = cursor THEN Null ELSE @]]
      /\ location' = [n \in DOMAIN location \ freed |-> location[n]]
      /\ before' = {pair \in before : pair[1] \notin freed /\ pair[2] \notin freed}
      /\ taker' = [taker EXCEPT !.quantity = remaining]
      /\ responses' = responses \o <<f1, f2>>
  BY DEF Match
<1>4. /\ Orders[maker].side = side /\ Orders[maker].price = p
      /\ Orders[maker].owner_id = nodes[maker].owner_id
      /\ Orders[maker].quantity = nodes[maker].quantity
      /\ DOMAIN Orders = DOMAIN location
  BY <1>1, EngineOrders
<1>5. PriceTime!FillWith(Engine, maker) =
           IF Orders[maker].quantity = delta
           THEN Fields(Without(Orders, maker), Others(before, maker),
                       [taker EXCEPT !.quantity = remaining], responses \o <<f1, f2>>)
           ELSE Fields(Reduced(Orders, maker, delta), before,
                       [taker EXCEPT !.quantity = remaining], responses \o <<f1, f2>>)
  <2>1. /\ delta = Smaller(taker.quantity, Orders[maker].quantity)
        /\ remaining = taker.quantity - delta
        /\ f1 = Fill(taker.order_id, taker.owner_id, taker.side, remaining, delta,
                     Orders[maker].price)
        /\ f2 = Fill(maker, Orders[maker].owner_id, Orders[maker].side,
                     Orders[maker].quantity - delta, delta, Orders[maker].price)
    BY <1>4
  <2> DEFINE D == Smaller(taker.quantity, Orders[maker].quantity)
             F1 == Fill(taker.order_id, taker.owner_id, taker.side,
                        taker.quantity - D, D, Orders[maker].price)
             F2 == Fill(maker, Orders[maker].owner_id, Orders[maker].side,
                        Orders[maker].quantity - D, D, Orders[maker].price)
  <2>2. PriceTime!FillWith(Fields(Orders, before, taker, responses), maker) =
           IF Orders[maker].quantity = D
           THEN Fields(Without(Orders, maker), Others(before, maker),
                       [taker EXCEPT !.quantity = taker.quantity - D],
                       responses \o <<F1, F2>>)
           ELSE Fields(Reduced(Orders, maker, D), before,
                       [taker EXCEPT !.quantity = taker.quantity - D],
                       responses \o <<F1, F2>>)
    <3> HIDE DEF maker
    <3> QED BY FillWithFields
  <2>3. D = delta /\ F1 = f1 /\ F2 = f2
    BY <2>1
  <2>4. taker.quantity - D = remaining
    BY <2>3
  <2> HIDE DEF maker, D, delta, remaining, F1, F2, f1, f2
  <2> QED BY <2>2, <2>3, <2>4, EngineFields, Zenon
<1>6. kept = 0 <=> Orders[maker].quantity = delta
  BY <1>2, <1>4
<1>7. kept = nodes[maker].quantity - delta /\ freed = IF kept = 0 THEN {maker} ELSE {}
  OBVIOUS
<1> HIDE DEF maker, delta, remaining, kept, cursor, ends, freed, f1, f2
<1>8. \A n \in DOMAIN location \ freed :
        nodes'[n].quantity = IF n = maker THEN kept ELSE nodes[n].quantity
  BY <1>1, <1>3 DEF IInv, StateTypes, Node
<1>9. CASE kept = 0
  <2>1. freed = {maker}
    BY <1>7, <1>9
  <2>2. Orders' = Without(Orders, maker)
    BY <1>3, <1>8, <2>1 DEF Orders, Without
  <2>3. before' = Others(before, maker)
    BY <1>3, <2>1 DEF Others
  <2> QED BY <1>3, <1>5, <1>6, <1>9, <2>2, <2>3, EngineFields DEF maker
<1>10. CASE kept # 0
  <2>1. freed = {}
    BY <1>7, <1>10
  <2>2. Orders' = Reduced(Orders, maker, delta)
    BY <1>1, <1>3, <1>7, <1>8, <2>1 DEF Orders, Reduced
  <2>3. before' = before
    BY <1>3, <2>1
  <2> QED BY <1>3, <1>5, <1>6, <1>10, <2>2, <2>3, EngineFields DEF maker
<1> QED BY <1>9, <1>10

(* An iteration of an inner loop is a Trade. *)
LEMMA TradeMaps ==
  ASSUME IInv, NEW side \in Sides, NEW p \in DOMAIN levels[side],
         CanMatch(side, p), Match(side, p), UNCHANGED request
  PROVE  PriceTime!Trade
<1> DEFINE maker == IF it = Null THEN levels[side][p].first ELSE it
<1>1. /\ PriceTime!CanFill(Engine)
      /\ PriceTime!IsNextMaker(Engine, PriceTime!Opposite(Engine.taker.side), maker)
      /\ maker \in DOMAIN Engine.orders
  BY MakerHasPriority, EngineOrders
<1>2. Engine' = PriceTime!FillWith(Engine, maker)
  BY MatchMaps
<1> HIDE DEF maker
<1> QED BY <1>1, <1>2 DEF PriceTime!Trade

-----------------------------------------------------------------------------
(* When the outer loop ends, no order that rests can trade with the taker. *)
LEMMA LoopEndsMaps ==
  ASSUME IInv, LoopEnds
  PROVE  Engine.taker # Null /\ ~PriceTime!CanFill(Engine)
<1>1. Engine.taker = taker /\ taker # Null /\ taker \in EventRecord
  BY EngineOrders DEF LoopEnds, IInv, StateTypes
<1>2. CASE ~HasLeft(taker)
  BY <1>1, <1>2 DEF HasLeft, PriceTime!CanFill
<1>3. CASE \A p \in DOMAIN levels[Opposite(taker.side)] : ~Crosses(taker, p)
  <2> SUFFICES ASSUME NEW m \in DOMAIN location,
                      Orders[m].side = PriceTime!Opposite(taker.side),
                      PriceTime!Crosses(taker, Orders[m].price)
               PROVE  FALSE
    BY <1>1, EngineOrders DEF PriceTime!CanFill
  <2>1. /\ location[m].side = Opposite(taker.side)
        /\ Crosses(taker, location[m].price)
    BY EngineOrders DEF Opposite, PriceTime!Opposite, Crosses, PriceTime!Crosses
  <2>2. location[m].price \in DOMAIN levels[location[m].side]
    BY DEF IInv, WellFormed, IndexMatchesNodes
  <2> QED BY <1>3, <2>1, <2>2
<1> QED BY <1>1, <1>2, <1>3 DEF LoopEnds

(* rest_order adds one order to the abstract book, behind every order at   *)
(* its price, and leaves every other one the same.                         *)
LEMMA RestMaps ==
  ASSUME IInv, NEW o \in EventRecord, ~Known(o.order_id), it = Null, RestOrder(o)
  PROVE  Orders' = Joined(Orders, o) /\ before' = Behind(Orders, before, o)
<1> DEFINE id == o.order_id
           last == levels[o.side][o.price].last
<1>1. DOMAIN nodes = DOMAIN location /\ id \notin DOMAIN location
  BY DEF IInv, WellFormed, IndexMatchesNodes, Known
<1>2. location' = With(location, id,
                       [side |-> o.side, owner_id |-> o.owner_id, price |-> o.price])
  BY DEF RestOrder
<1>3. /\ nodes'[id].quantity = o.quantity
      /\ \A n \in DOMAIN location : nodes'[n].quantity = nodes[n].quantity
  <2>1. CASE InitLevel(o)
    BY <1>1, <2>1 DEF InitLevel, With, NewNode
  <2>2. CASE AddOrder(o)
    <3>1. nodes' = With([nodes EXCEPT ![last].nxt = id], id, NewNode(o, last))
      BY <2>2 DEF AddOrder
    <3> HIDE DEF id, last
    <3>2. nodes'[id].quantity = o.quantity
      BY <3>1 DEF With, NewNode
    <3>3. \A n \in DOMAIN location : nodes'[n].quantity = nodes[n].quantity
      BY <1>1, <3>1 DEF With, IInv, StateTypes, Node
    <3> QED BY <3>2, <3>3
  <2> QED BY <2>1, <2>2 DEF RestOrder
<1>4. Orders' = Joined(Orders, o)
  <2> HIDE DEF id
  <2> QED BY <1>1, <1>2, <1>3 DEF Orders, Joined, With, id
<1>5. before' = before \cup {<<m, id>> :
                  m \in {n \in DOMAIN location :
                           /\ location[n].side = o.side
                           /\ location[n].price = o.price}}
  BY DEF RestOrder
<1>6. {n \in DOMAIN location : location[n].side = o.side /\ location[n].price = o.price}
        = {n \in DOMAIN Orders : Orders[n].side = o.side /\ Orders[n].price = o.price}
  BY EngineOrders
<1>7. before' = Behind(Orders, before, o)
  BY <1>5, <1>6 DEF Behind
<1> QED BY <1>4, <1>7

(* ProcessAdd and ProcessMod return as the abstract book does. *)
LEMMA ReturnRestedMaps ==
  ASSUME IInv, ReturnRested, UNCHANGED request
  PROVE  PriceTime!Return
<1>1. /\ LoopEnds /\ it = Null /\ taker \in EventRecord /\ taker.quantity \in Int
      /\ taker.order_type \in {"Add", "Mod"}
      /\ responses' = responses
  BY DEF ReturnRested, LoopEnds, IInv, StateTypes, EventRecord
<1>2. ~Known(taker.order_id)
  BY <1>1 DEF IInv, NeverThrows, LoopEnds, Known
<1>3. CASE ~HasLeft(taker)
  <2>1. taker.quantity <= 0 /\ Orders' = Orders /\ before' = before /\ taker' = Null
    BY <1>1, <1>3 DEF HasLeft, ReturnRested, bookVars, Orders
  <2>2. Engine' = PriceTime!Finish(Engine)
    BY <1>1, <2>1, FinishFields, EngineFields
  <2> QED BY <1>1, <2>2, LoopEndsMaps DEF PriceTime!Return
<1>4. CASE HasLeft(taker)
  <2>1. taker.quantity > 0 /\ RestOrder(taker) /\ taker' = Null
    BY <1>2, <1>4 DEF HasLeft, ReturnRested
  <2>2. Orders' = Joined(Orders, taker) /\ before' = Behind(Orders, before, taker)
    BY <1>1, <1>2, <2>1, RestMaps
  <2>3. Engine' = PriceTime!Finish(Engine)
    BY <1>1, <2>1, <2>2, FinishFields, EngineFields
  <2> QED BY <1>1, <2>3, LoopEndsMaps DEF PriceTime!Return
<1> QED BY <1>3, <1>4

(* ProcessIOC and ProcessMarket return as the abstract book does. *)
LEMMA ReturnExpiredMaps ==
  ASSUME IInv, ReturnExpired, UNCHANGED request
  PROVE  PriceTime!Return
<1>1. /\ LoopEnds /\ taker \in EventRecord /\ taker.quantity \in Int
      /\ taker.order_type \in {"IOC", "Market"}
      /\ responses' = IF HasLeft(taker)
                      THEN Append(responses, Echo(taker, "OrderExpired"))
                      ELSE responses
      /\ taker' = Null
  BY DEF ReturnExpired, LoopEnds, IInv, StateTypes, EventRecord
<1>2. Orders' = Orders /\ before' = before
  BY DEF ReturnExpired, bookVars, Orders
<1>3. Engine' = PriceTime!Finish(Engine)
  <2>1. CASE HasLeft(taker)
    BY <1>1, <1>2, <2>1, FinishFields, EngineFields DEF HasLeft
  <2>2. CASE ~HasLeft(taker)
    BY <1>1, <1>2, <2>2, FinishFields, EngineFields DEF HasLeft
  <2> QED BY <2>1, <2>2
<1> QED BY <1>1, <1>3, LoopEndsMaps DEF PriceTime!Return

-----------------------------------------------------------------------------
(* Every step of the book is a step of the abstract book, or none. *)
LEMMA NextMaps == IInv /\ [Next]_vars => [PriceTime!Next]_(PriceTime!vars)
<1> SUFFICES ASSUME IInv, [Next]_vars PROVE [PriceTime!Next]_(PriceTime!vars)
  OBVIOUS
<1>1. ASSUME NEW e \in Events, ProcessOrder(e) PROVE PriceTime!Next
  BY <1>1, ReceiveMaps DEF PriceTime!Next
<1>2. ASSUME UNCHANGED request, MatchBuy \/ MarketBuy PROVE PriceTime!Next
  <2>1. PICK p \in DOMAIN levels["Sell"] : CanMatch("Sell", p) /\ Match("Sell", p)
    BY <1>2 DEF MatchBuy, MarketBuy
  <2> QED BY <1>2, <2>1, TradeMaps DEF PriceTime!Next
<1>3. ASSUME UNCHANGED request, MatchSell \/ MarketSell PROVE PriceTime!Next
  <2>1. PICK p \in DOMAIN levels["Buy"] : CanMatch("Buy", p) /\ Match("Buy", p)
    BY <1>3 DEF MatchSell, MarketSell
  <2> QED BY <1>3, <2>1, TradeMaps DEF PriceTime!Next
<1>4. ASSUME UNCHANGED request, ReturnRested \/ ReturnExpired PROVE PriceTime!Next
  BY <1>4, ReturnRestedMaps, ReturnExpiredMaps DEF PriceTime!Next
<1>5. CASE UNCHANGED vars
  BY <1>5 DEF vars, PriceTime!vars, Engine
<1> QED BY <1>1, <1>2, <1>3, <1>4, <1>5 DEF Next, Call

(* README line 44, "Price-time priority / FIFO within a price level": the  *)
(* book of src/book.cpp implements the abstract one.                       *)
THEOREM BookImplementsPriceTime == Spec => ImplementsPriceTime
<1>1. Init => PriceTime!Init
  BY InitMaps
<1>2. IInv /\ [Next]_vars => [PriceTime!Next]_(PriceTime!vars)
  BY NextMaps
<1> QED BY <1>1, <1>2, BookInvariant, PTL DEF Spec, ImplementsPriceTime, PriceTime!Spec

-----------------------------------------------------------------------------
(* The responses.                                                          *)


(* While an order that may rest is being matched, the responses of its     *)
(* call already accept it, at the price at which it would rest.  This is   *)
(* what makes a rest announced: it is the one change of a level that adds  *)
(* no response of its own.                                                 *)
RestAnnounced ==
  taker # Null /\ taker.order_type \in {"Add", "Mod"} =>
    /\ request.order_type = taker.order_type
    /\ \E i \in DOMAIN responses :
         /\ responses[i].side = taker.side
         /\ responses[i].price = taker.price
         /\ responses[i].type =
              IF taker.order_type = "Add" THEN "OrderAccepted" ELSE "OrderModifyAccepted"

(* A handler that goes on to match an ADD or a MOD has accepted it.        *)
LEMMA HandlerAnnounces ==
  ASSUME IInv, NEW e \in Events, ProcessOrder(e)
  PROVE  RestAnnounced'
<1>1. e # Null /\ taker = Null /\ request' = e
  BY EventType
     DEF ProcessOrder, ProcessAdd, ProcessCancel, ProcessMod, ProcessIOC, ProcessMarket, Idle
<1>2. CASE ProcessAdd(e)
  <2>1. CASE Reply(<<Echo(e, "OrderRejected")>>)
    BY <1>1, <2>1 DEF Reply, RestAnnounced
  <2>2. CASE Engage(e, <<Echo(e, "OrderAccepted")>>)
    <3>1. taker' = e /\ responses' = <<Echo(e, "OrderAccepted")>> /\ e.order_type = "Add"
      BY <1>2, <2>2 DEF Engage, ProcessAdd
    <3>2. /\ 1 \in DOMAIN responses'
          /\ responses'[1].side = e.side /\ responses'[1].price = e.price
          /\ responses'[1].type = "OrderAccepted"
      BY <3>1 DEF Echo
    <3> QED BY <1>1, <3>1, <3>2 DEF RestAnnounced
  <2> QED BY <1>2, <2>1, <2>2 DEF ProcessAdd
<1>3. CASE ProcessMod(e)
  <2>1. CASE Reply(<<Echo(e, "OrderModifyFailed")>>)
    BY <1>1, <2>1 DEF Reply, RestAnnounced
  <2>2. CASE Engage(e, <<Echo(Removed(e.order_id), "OrderModified"),
                         Echo(e, "OrderModifyAccepted")>>)
    <3> DEFINE first == Echo(Removed(e.order_id), "OrderModified")
    <3>1. /\ taker' = e /\ e.order_type = "Mod"
          /\ responses' = <<first, Echo(e, "OrderModifyAccepted")>>
      BY <1>3, <2>2 DEF Engage, ProcessMod
    <3> HIDE DEF first
    <3>2. /\ 2 \in DOMAIN responses'
          /\ responses'[2].side = e.side /\ responses'[2].price = e.price
          /\ responses'[2].type = "OrderModifyAccepted"
      BY <3>1 DEF Echo
    <3> QED BY <1>1, <3>1, <3>2 DEF RestAnnounced
  <2> QED BY <1>3, <2>1, <2>2 DEF ProcessMod
<1>4. CASE ProcessCancel(e)
  BY <1>1, <1>4 DEF ProcessCancel, Reply, RestAnnounced
<1>5. CASE ProcessIOC(e) \/ ProcessMarket(e)
  BY <1>1, <1>5 DEF ProcessIOC, ProcessMarket, Reply, Engage, RestAnnounced
<1> QED BY <1>2, <1>3, <1>4, <1>5 DEF ProcessOrder

(* The two reports of an iteration follow the responses there are, and the *)
(* second one, to the maker, names the level.                              *)
LEMMA MatchAnnounces ==
  ASSUME IInv, NEW side \in Sides, NEW p \in DOMAIN levels[side],
         CanMatch(side, p), Match(side, p)
  PROVE  /\ \A i \in DOMAIN responses : i \in DOMAIN responses' /\ responses'[i] = responses[i]
         /\ taker \in EventRecord /\ taker' \in EventRecord
         /\ taker'.side = taker.side /\ taker'.price = taker.price
         /\ taker'.order_type = taker.order_type
         /\ \E i \in DOMAIN responses' :
              /\ responses'[i].side = side /\ responses'[i].price = p
              /\ responses'[i].type \in {"OrderFilled", "OrderPartialFilled"}
<1> DEFINE maker == IF it = Null THEN levels[side][p].first ELSE it
           delta == Smaller(taker.quantity, nodes[maker].quantity)
           remaining == taker.quantity - delta
           kept  == nodes[maker].quantity - delta
           f1 == Fill(taker.order_id, taker.owner_id, taker.side, remaining, delta, p)
           f2 == Fill(maker, nodes[maker].owner_id, side, kept, delta, p)
<1>1. responses' = responses \o <<f1, f2>> /\ taker' = [taker EXCEPT !.quantity = remaining]
  BY DEF Match
<1>2. /\ taker \in EventRecord /\ responses \in Seq(OrderEvent)
      /\ taker' \in EventRecord
  <2>1. taker \in EventRecord /\ responses \in Seq(OrderEvent)
    BY DEF IInv, StateTypes, CanMatch
  <2> QED BY <2>1, MatchTypes DEF IInv
<1>3. /\ f2.side = side /\ f2.price = p
      /\ f2.type \in {"OrderFilled", "OrderPartialFilled"}
  BY DEF Fill
<1> HIDE DEF maker, delta, remaining, kept, f1, f2
<1>4. Len(responses) + 2 \in DOMAIN responses' /\ responses'[Len(responses) + 2] = f2
  BY <1>1, <1>2
<1>5. \A i \in DOMAIN responses : i \in DOMAIN responses' /\ responses'[i] = responses[i]
  BY <1>1, <1>2
<1>6. /\ taker'.side = taker.side /\ taker'.price = taker.price
      /\ taker'.order_type = taker.order_type
  BY <1>1, <1>2 DEF EventRecord
<1> QED BY <1>2, <1>3, <1>4, <1>5, <1>6

(* Every step of the book keeps the strengthening. *)
LEMMA NextRestAnnounced ==
  ASSUME IInv, RestAnnounced, [Next]_vars
  PROVE  RestAnnounced'
<1>1. ASSUME NEW e \in Events, ProcessOrder(e) PROVE RestAnnounced'
  BY <1>1, HandlerAnnounces
<1>2. ASSUME NEW side \in Sides, NEW p \in DOMAIN levels[side],
             CanMatch(side, p), Match(side, p), UNCHANGED request
      PROVE  RestAnnounced'
  <2> SUFFICES ASSUME taker'.order_type \in {"Add", "Mod"} PROVE RestAnnounced'
    BY DEF RestAnnounced
  <2>1. /\ taker # Null /\ taker'.side = taker.side /\ taker'.price = taker.price
        /\ taker'.order_type = taker.order_type
        /\ \A i \in DOMAIN responses :
             i \in DOMAIN responses' /\ responses'[i] = responses[i]
    BY <1>2, MatchAnnounces DEF CanMatch
  <2>2. request'.order_type = taker'.order_type
    BY <1>2, <2>1 DEF RestAnnounced
  <2>3. PICK i \in DOMAIN responses :
          /\ responses[i].side = taker.side
          /\ responses[i].price = taker.price
          /\ responses[i].type =
               IF taker.order_type = "Add" THEN "OrderAccepted" ELSE "OrderModifyAccepted"
    BY <2>1 DEF RestAnnounced
  <2> QED BY <2>1, <2>2, <2>3 DEF RestAnnounced
<1>3. ASSUME UNCHANGED request, MatchBuy \/ MarketBuy PROVE RestAnnounced'
  BY <1>2, <1>3 DEF MatchBuy, MarketBuy
<1>4. ASSUME UNCHANGED request, MatchSell \/ MarketSell PROVE RestAnnounced'
  BY <1>2, <1>4 DEF MatchSell, MarketSell
<1>5. ASSUME UNCHANGED request, ReturnRested \/ ReturnExpired PROVE RestAnnounced'
  <2>1. taker' = Null \/ (taker' = taker /\ responses' = responses)
    BY <1>5 DEF ReturnRested, ReturnExpired
  <2> QED BY <1>5, <2>1 DEF RestAnnounced
<1>6. CASE UNCHANGED vars
  BY <1>6 DEF vars, RestAnnounced
<1> QED BY <1>1, <1>3, <1>4, <1>5, <1>6 DEF Next, Call

-----------------------------------------------------------------------------
(* A step that leaves every level but one alone changes no other quantity. *)
LEMMA OneLevelChanges ==
  ASSUME NEW side \in Sides, NEW p, NEW rest, NEW gone \in BOOLEAN,
         DOMAIN levels = Sides,
         levels' = [levels EXCEPT ![side] =
                      IF gone THEN Without(@, p) ELSE With(@, p, rest)],
         NEW s \in Sides, NEW q,
         QuantityAtPrice(s, q) # QuantityAtPrice(s, q)'
  PROVE  s = side /\ q = p
<1> SUFFICES ASSUME s # side \/ q # p
             PROVE  QuantityAtPrice(s, q)' = QuantityAtPrice(s, q)
  OBVIOUS
<1>1. CASE s # side
  BY <1>1 DEF QuantityAtPrice
<1>2. CASE s = side /\ q # p /\ gone
  <2>1. levels'[s] = Without(levels[s], p)
    BY <1>2
  <2> QED BY <1>2, <2>1 DEF QuantityAtPrice, Without
<1>3. CASE s = side /\ q # p /\ ~gone
  <2>1. levels'[s] = With(levels[s], p, rest)
    BY <1>3
  <2> QED BY <1>3, <2>1 DEF QuantityAtPrice, With
<1> QED BY <1>1, <1>2, <1>3

(* removeFromSide changes the one level that its caller's response names.  *)
LEMMA UnlinkAnnounced ==
  ASSUME IInv, NEW id \in DOMAIN location, Unlink(id),
         NEW type \in {"OrderCancelled", "OrderModified"},
         1 \in DOMAIN responses', responses'[1] = Echo(Removed(id), type),
         NEW s \in Sides, NEW q,
         QuantityAtPrice(s, q) # QuantityAtPrice(s, q)'
  PROVE  Announced(s, q)
<1> DEFINE side == location[id].side
           p == location[id].price
           rest == AfterUnlink(levels[side][p], nodes[id])
           gone == rest.first = Null
<1>1. side \in Sides /\ DOMAIN levels = Sides /\ gone \in BOOLEAN
  BY DEF IInv, StateTypes, LocationID
<1>2. levels' = [levels EXCEPT ![side] =
                   IF gone THEN Without(@, p) ELSE With(@, p, rest)]
  BY DEF Unlink
<1>3. responses'[1].side = side /\ responses'[1].price = p /\ responses'[1].type = type
  BY DEF Echo, Removed
<1> HIDE DEF side, p, rest, gone
<1>4. s = side /\ q = p
  BY <1>1, <1>2, OneLevelChanges
<1> QED BY <1>3, <1>4 DEF Announced

(* rest_order changes the level that the order's acceptance names. *)
LEMMA RestIsAnnounced ==
  ASSUME IInv, RestAnnounced, ReturnRested, RestOrder(taker), UNCHANGED request,
         NEW s \in Sides, NEW q,
         QuantityAtPrice(s, q) # QuantityAtPrice(s, q)'
  PROVE  Announced(s, q)
<1>1. /\ taker \in EventRecord /\ taker # Null /\ taker.side \in Sides
      /\ taker.order_type \in {"Add", "Mod"}
      /\ responses' = responses /\ DOMAIN levels = Sides
  BY DEF ReturnRested, LoopEnds, IInv, StateTypes, EventRecord
<1>2. \E rest : levels' = [levels EXCEPT ![taker.side] = With(@, taker.price, rest)]
  <2>1. CASE InitLevel(taker)
    BY <2>1 DEF InitLevel
  <2>2. CASE AddOrder(taker)
    BY <2>2 DEF AddOrder
  <2> QED BY <2>1, <2>2 DEF RestOrder
<1>3. PICK rest : levels' = [levels EXCEPT ![taker.side] = With(@, taker.price, rest)]
  BY <1>2
<1>4. levels' = [levels EXCEPT ![taker.side] =
                   IF FALSE THEN Without(@, taker.price) ELSE With(@, taker.price, rest)]
  BY <1>3
<1>5. s = taker.side /\ q = taker.price
  BY <1>1, <1>4, OneLevelChanges
<1> QED BY <1>1, <1>5 DEF RestAnnounced, Announced

(* The responses of a call name, by the time the step is over, every level *)
(* whose total the step changes.                                           *)
LEMMA NextAnnounces ==
  ASSUME IInv, RestAnnounced, Next, NEW s \in Sides, NEW q,
         QuantityAtPrice(s, q) # QuantityAtPrice(s, q)'
  PROVE  Announced(s, q)
<1>1. ASSUME UNCHANGED levels PROVE FALSE
  BY <1>1 DEF QuantityAtPrice
<1>2. ASSUME NEW e \in Events, ProcessOrder(e) PROVE Announced(s, q)
  <2>1. CASE ProcessAdd(e) \/ ProcessIOC(e) \/ ProcessMarket(e)
    BY <1>1, <2>1 DEF ProcessAdd, ProcessIOC, ProcessMarket, bookVars
  <2>2. CASE ProcessCancel(e)
    <3>1. /\ e.order_id \in DOMAIN location /\ Unlink(e.order_id)
          /\ responses' = <<Echo(Removed(e.order_id), "OrderCancelled")>>
      BY <1>1, <2>2 DEF ProcessCancel, Removable, Known, Reply, bookVars
    <3> QED BY <3>1, UnlinkAnnounced
  <2>3. CASE ProcessMod(e)
    <3>1. /\ e.order_id \in DOMAIN location /\ Unlink(e.order_id)
          /\ responses' = <<Echo(Removed(e.order_id), "OrderModified"),
                            Echo(e, "OrderModifyAccepted")>>
      BY <1>1, <2>3 DEF ProcessMod, Removable, Known, Engage, bookVars
    <3> QED BY <3>1, UnlinkAnnounced
  <2> QED BY <1>2, <2>1, <2>2, <2>3 DEF ProcessOrder
<1>3. ASSUME NEW side \in Sides, NEW p \in DOMAIN levels[side],
             CanMatch(side, p), Match(side, p)
      PROVE  Announced(s, q)
  <2>2. DOMAIN levels = Sides
    BY DEF IInv, StateTypes
  <2>3. s = side /\ q = p
    <3> DEFINE maker == IF it = Null THEN levels[side][p].first ELSE it
               delta == Smaller(taker.quantity, nodes[maker].quantity)
               remaining == taker.quantity - delta
               kept  == nodes[maker].quantity - delta
               cursor == IF kept = 0 THEN nodes[maker].nxt ELSE maker
               ends  == remaining = 0 \/ cursor = Null
               level == levels[side][p]
               rest  == [first |-> IF ends THEN cursor ELSE level.first,
                         last |-> level.last,
                         total_quantity |-> level.total_quantity - delta]
               gone == cursor = Null
    <3>1. gone \in BOOLEAN
      OBVIOUS
    <3>2. levels' = [levels EXCEPT ![side] =
                      IF gone THEN Without(@, p) ELSE With(@, p, rest)]
      BY <1>3 DEF Match
    <3> HIDE DEF rest, gone
    <3> QED BY <2>2, <3>1, <3>2, OneLevelChanges
  <2> QED BY <1>3, <2>3, MatchAnnounces DEF Announced
<1>4. CASE MatchBuy \/ MarketBuy
  BY <1>3, <1>4 DEF MatchBuy, MarketBuy
<1>5. CASE MatchSell \/ MarketSell
  BY <1>3, <1>5 DEF MatchSell, MarketSell
<1>6. ASSUME ReturnRested, UNCHANGED request PROVE Announced(s, q)
  <2>1. RestOrder(taker)
    BY <1>1, <1>6 DEF ReturnRested, bookVars
  <2> QED BY <1>6, <2>1, RestIsAnnounced
<1>7. CASE ReturnExpired
  BY <1>1, <1>7 DEF ReturnExpired, bookVars
<1> QED BY <1>2, <1>4, <1>5, <1>6, <1>7 DEF Next, Call

(* Whenever the quantity at a price changes, the responses of the call     *)
(* name that price in a way that makes Backtest::processEvent              *)
(* (backtest.cpp:184-187) refresh its analytics for the level.             *)
THEOREM ChangesAreAnnounced == Spec => LevelChangesAnnounced
<1> DEFINE A == \A side \in Sides :
                  \A p \in DOMAIN levels[side] \cup DOMAIN levels'[side] :
                    QuantityAtPrice(side, p) # QuantityAtPrice(side, p)' => Announced(side, p)
<1>1. Init => RestAnnounced
  BY DEF Init, RestAnnounced
<1>2. IInv /\ RestAnnounced /\ [Next]_vars => RestAnnounced'
  BY NextRestAnnounced
<1>3. IInv /\ RestAnnounced /\ [Next]_vars => [A]_vars
  BY NextAnnounces
<1>4. LevelChangesAnnounced <=> [][A]_vars
  BY DEF LevelChangesAnnounced
<1> HIDE DEF A
<1> QED BY <1>1, <1>2, <1>3, <1>4, BookInvariant, PTL DEF Spec

-----------------------------------------------------------------------------
(* What is summed: the quantities of the nodes, and the nodes of a level.  *)
Quantities == [n \in DOMAIN nodes |-> nodes[n].quantity]

RestingAt(side, p) == {n \in DOMAIN nodes : At(n, side, p)}

Units(side, p) == SumFunctionOnSet(Quantities, RestingAt(side, p))

(* What the five functions that keep total_quantity preserve: a level's    *)
(* total is the sum over its nodes, in the middle of a sweep too.  There   *)
(* are finitely many nodes and levels, or no sum or best price would be    *)
(* defined.                                                                *)
TotalsAgree ==
  /\ IsFiniteSet(DOMAIN nodes)
  /\ \A side \in Sides : IsFiniteSet(DOMAIN levels[side])
  /\ \A side \in Sides : \A p \in DOMAIN levels[side] :
       levels[side][p].total_quantity = Units(side, p)

(* The nodes of a level are finitely many, with integer quantities. *)
LEMMA QuantityTypes ==
  ASSUME StateTypes, IsFiniteSet(DOMAIN nodes)
  PROVE  /\ \A n \in DOMAIN nodes : Quantities[n] = nodes[n].quantity /\ Quantities[n] \in Int
         /\ \A side, p : /\ RestingAt(side, p) \subseteq DOMAIN nodes
                         /\ IsFiniteSet(RestingAt(side, p))
<1>1. \A n \in DOMAIN nodes : nodes[n].quantity \in Int
  BY DEF StateTypes, Node
<1>2. \A side, p : RestingAt(side, p) \subseteq DOMAIN nodes
  BY DEF RestingAt
<1>3. \A side, p : IsFiniteSet(RestingAt(side, p))
  BY <1>2, FS_Subset
<1> QED BY <1>1, <1>2, <1>3 DEF Quantities

(* A level whose nodes and quantities a step leaves alone keeps its sum. *)
LEMMA SameUnits ==
  ASSUME StateTypes, IsFiniteSet(DOMAIN nodes), NEW side, NEW p,
         \A n : n \in RestingAt(side, p)' <=> n \in RestingAt(side, p),
         \A n \in RestingAt(side, p) : nodes'[n].quantity = nodes[n].quantity
  PROVE  Units(side, p)' = Units(side, p)
<1> DEFINE S == RestingAt(side, p)
<1>1. RestingAt(side, p)' = S
  OBVIOUS
<1>2. S \subseteq DOMAIN nodes /\ S \subseteq DOMAIN nodes' /\ IsFiniteSet(S)
  BY QuantityTypes DEF RestingAt
<1>3. \A n \in S : Quantities[n] = Quantities'[n]
  BY <1>2 DEF Quantities
<1> HIDE DEF S
<1>4. SumFunctionOnSet(Quantities, S) = SumFunctionOnSet(Quantities', S)
  BY <1>2, <1>3, SumSame
<1> QED BY <1>1, <1>4 DEF Units, S

(* A step touches only the level at price p of side s, and its nodes. *)
TouchesOnly(s, p) ==
  /\ IsFiniteSet(DOMAIN nodes')
  /\ \A side \in Sides : side # s => levels'[side] = levels[side]
  /\ DOMAIN levels'[s] \subseteq DOMAIN levels[s] \cup {p}
  /\ \A q \in DOMAIN levels'[s] : q # p => levels'[s][q] = levels[s][q]
  /\ \A side \in Sides : \A q : side # s \/ q # p =>
       /\ \A n : n \in RestingAt(side, q)' <=> n \in RestingAt(side, q)
       /\ \A n \in RestingAt(side, q) : nodes'[n].quantity = nodes[n].quantity

(* Its total is then the one that has to be looked at. *)
LEMMA TouchedTotals ==
  ASSUME StateTypes, TotalsAgree, NEW s \in Sides, NEW p, TouchesOnly(s, p),
         p \in DOMAIN levels'[s] => levels'[s][p].total_quantity = Units(s, p)'
  PROVE  TotalsAgree'
<1> USE DEF TouchesOnly
<1>1. ASSUME NEW side \in Sides PROVE IsFiniteSet(DOMAIN levels'[side])
  <2>1. IsFiniteSet(DOMAIN levels[side] \cup {p})
    BY FS_AddElement DEF TotalsAgree
  <2>2. DOMAIN levels'[side] \subseteq DOMAIN levels[side] \cup {p}
    BY Zenon
  <2> QED BY <2>1, <2>2, FS_Subset
<1>2. ASSUME NEW side \in Sides, NEW q \in DOMAIN levels'[side]
      PROVE  levels'[side][q].total_quantity = Units(side, q)'
  <2>1. CASE side # s \/ q # p
    <3>1. q \in DOMAIN levels[side] /\ levels'[side][q] = levels[side][q]
      BY <2>1
    <3>2. Units(side, q)' = Units(side, q)
      BY <2>1, SameUnits DEF TotalsAgree
    <3> QED BY <3>1, <3>2 DEF TotalsAgree
  <2>2. CASE side = s /\ q = p
    BY <2>2
  <2> QED BY <2>1, <2>2
<1>3. /\ \A side \in Sides : IsFiniteSet(DOMAIN levels'[side])
      /\ \A side \in Sides : \A q \in DOMAIN levels'[side] :
           levels'[side][q].total_quantity = Units(side, q)'
  BY <1>1, <1>2, Zenon
<1>4. TotalsAgree'
  BY <1>3, Zenon DEF TotalsAgree
<1> QED BY <1>4

(* removeFromSide keeps every total. *)
LEMMA UnlinkTotals ==
  ASSUME IInv, TotalsAgree, NEW id \in DOMAIN location, Unlink(id)
  PROVE  TotalsAgree'
<1>0. PICK s, p : s = location[id].side /\ p = location[id].price
  OBVIOUS
<1> DEFINE L == levels[s][p]
           unlinked == nodes[id]
           rest == AfterUnlink(L, unlinked)
<1>1. /\ s \in Sides /\ p \in DOMAIN levels[s] /\ id \in DOMAIN nodes
      /\ DOMAIN nodes = DOMAIN location /\ DOMAIN levels = Sides
      /\ At(id, s, p)
  BY <1>0 DEF IInv, StateTypes, WellFormed, IndexMatchesNodes, LocationID, At
<1>2. /\ DOMAIN nodes' = DOMAIN nodes \ {id}
      /\ \A n \in DOMAIN nodes \ {id} : nodes'[n].quantity = nodes[n].quantity
  BY SMTT(30), ZenonT(40) DEF Unlink, IInv, StateTypes, Node
<1>3. /\ DOMAIN location' = DOMAIN nodes \ {id}
      /\ \A n \in DOMAIN nodes \ {id} : location'[n] = location[n]
  BY <1>1 DEF Unlink, Without
<1>4. levels' = [levels EXCEPT ![s] =
                   IF rest.first = Null THEN Without(@, p) ELSE With(@, p, rest)]
  BY <1>0 DEF Unlink
<1>5. rest.total_quantity = L.total_quantity - nodes[id].quantity
  BY DEF AfterUnlink
<1>6. \A side, q : \A n : n \in RestingAt(side, q)' <=> n \in RestingAt(side, q) \ {id}
  BY <1>2, <1>3 DEF RestingAt, At
<1>7. id \in RestingAt(s, p) /\ \A side, q : side # s \/ q # p => id \notin RestingAt(side, q)
  BY <1>1 DEF RestingAt, At
<1> HIDE DEF L, unlinked, rest
<1>8. IsFiniteSet(DOMAIN nodes) /\ IsFiniteSet(DOMAIN nodes')
  BY <1>2, FS_Subset DEF TotalsAgree
<1>9. /\ \A side \in Sides : side # s => levels'[side] = levels[side]
      /\ DOMAIN levels'[s] \subseteq DOMAIN levels[s] \cup {p}
      /\ \A q \in DOMAIN levels'[s] : q # p => levels'[s][q] = levels[s][q]
  BY <1>1, <1>4 DEF With, Without
<1>10. \A side \in Sides : \A q : side # s \/ q # p =>
         \A n \in RestingAt(side, q) : nodes'[n].quantity = nodes[n].quantity
  BY <1>2, <1>7 DEF RestingAt
<1>11. ASSUME p \in DOMAIN levels'[s]
       PROVE  levels'[s][p].total_quantity = Units(s, p)'
  <2> DEFINE S == RestingAt(s, p)
  <2>1. levels'[s][p] = rest
    BY <1>1, <1>4, <1>11 DEF With, Without
  <2>2. L.total_quantity = SumFunctionOnSet(Quantities, S)
    BY <1>1 DEF TotalsAgree, Units, L
  <2>3. RestingAt(s, p)' = S \ {id}
    BY <1>6
  <2>4. S \subseteq DOMAIN nodes /\ IsFiniteSet(S) /\ IsFiniteSet(S \ {id}) /\ id \in S
    BY <1>7, <1>8, QuantityTypes, FS_Subset DEF IInv
  <2>5. \A n \in S : Quantities[n] \in Int
    BY <1>8, <2>4, QuantityTypes DEF IInv
  <2>6. Quantities[id] = nodes[id].quantity /\ nodes[id].quantity \in Int
    BY <1>1, <1>8, QuantityTypes DEF IInv
  <2>7. \A n \in S \ {id} : Quantities'[n] = Quantities[n]
    BY <1>2, <2>4 DEF Quantities
  <2> HIDE DEF S
  <2>8. SumFunctionOnSet(Quantities, S) = Quantities[id] + SumFunctionOnSet(Quantities, S \ {id})
    BY <2>4, <2>5, SumRemove
  <2>9. SumFunctionOnSet(Quantities', S \ {id}) = SumFunctionOnSet(Quantities, S \ {id})
    BY <2>4, <2>7, SumSame
  <2>10. SumFunctionOnSet(Quantities, S \ {id}) \in Int
    BY <2>4, <2>5, SumType
  <2>11. \A i, j \in Int : (i + j) - i = j
    OBVIOUS
  <2>12. L.total_quantity - nodes[id].quantity = SumFunctionOnSet(Quantities, S \ {id})
    BY <2>2, <2>6, <2>8, <2>10, <2>11, ZenonT(40)
  <2>13. Units(s, p)' = SumFunctionOnSet(Quantities', S \ {id})
    BY <2>3 DEF Units
  <2> QED BY <1>5, <2>1, <2>9, <2>12, <2>13
<1>12. TouchesOnly(s, p)
  BY <1>1, <1>6, <1>7, <1>8, <1>9, <1>10 DEF TouchesOnly
<1> QED BY <1>1, <1>11, <1>12, TouchedTotals DEF IInv

(* An iteration of an inner matching loop keeps every total: what it takes *)
(* from the maker it takes from the level.                                 *)
LEMMA MatchTotals ==
  ASSUME IInv, TotalsAgree, NEW side \in Sides, NEW p \in DOMAIN levels[side],
         CanMatch(side, p), Match(side, p)
  PROVE  TotalsAgree'
<1>1. PICK m : m = IF it = Null THEN levels[side][p].first ELSE it
  OBVIOUS
<1>2. PICK delta : delta = Smaller(taker.quantity, nodes[m].quantity)
  OBVIOUS
<1>3. taker \in EventRecord
  BY DEF IInv, StateTypes, CanMatch
<1>4. m \in DOMAIN nodes /\ At(m, side, p) /\ DOMAIN location = DOMAIN nodes
  BY <1>1, <1>3, MakerIsOldest DEF IInv, WellFormed, IndexMatchesNodes
<1>5. nodes[m].quantity \in Int /\ delta \in Int
  BY <1>2, <1>3, <1>4 DEF IInv, StateTypes, Node, EventRecord, Smaller
<1> DEFINE kept == nodes[m].quantity - delta
           remaining == taker.quantity - delta
           cursor == IF kept = 0 THEN nodes[m].nxt ELSE m
           ends  == remaining = 0 \/ cursor = Null
           freed == IF kept = 0 THEN {m} ELSE {}
           rest == [first |-> IF ends THEN cursor ELSE levels[side][p].first,
                    last |-> levels[side][p].last,
                    total_quantity |-> levels[side][p].total_quantity - delta]
<1>6. /\ nodes' = [n \in DOMAIN nodes \ freed |->
                     [nodes[n] EXCEPT
                        !.quantity = IF n = m THEN kept ELSE @,
                        !.prev = IF ends /\ n = cursor THEN Null ELSE @]]
      /\ levels' = [levels EXCEPT ![side] =
                      IF cursor = Null THEN Without(@, p) ELSE With(@, p, rest)]
      /\ location' = [n \in DOMAIN location \ freed |-> location[n]]
  BY <1>1, <1>2 DEF Match
<1>7. rest.total_quantity = levels[side][p].total_quantity - delta
  OBVIOUS
<1> HIDE DEF cursor, ends, rest
<1>8. /\ DOMAIN nodes' = DOMAIN nodes \ freed
      /\ \A n \in DOMAIN nodes \ freed : n # m => nodes'[n].quantity = nodes[n].quantity
      /\ m \notin freed => nodes'[m].quantity = kept
  <2>1. \A n \in DOMAIN nodes : nodes[n] \in Node
    BY DEF IInv, StateTypes
  <2>2. \A n \in DOMAIN nodes \ freed :
          nodes'[n] = [nodes[n] EXCEPT
                         !.quantity = IF n = m THEN kept ELSE @,
                         !.prev = IF ends /\ n = cursor THEN Null ELSE @]
    BY <1>6
  <2>3. \A n \in DOMAIN nodes \ freed :
          nodes'[n].quantity = IF n = m THEN kept ELSE nodes[n].quantity
    BY <2>1, <2>2 DEF Node
  <2>4. DOMAIN nodes' = DOMAIN nodes \ freed
    BY <1>6
  <2> HIDE DEF freed, kept
  <2> QED BY <1>4, <2>3, <2>4
<1>9. \A s, q : \A n : n \in RestingAt(s, q)' <=> n \in RestingAt(s, q) \ freed
  BY <1>4, <1>6 DEF RestingAt, At
<1>10. m \in RestingAt(side, p) /\ \A s, q : s # side \/ q # p => m \notin RestingAt(s, q)
  BY <1>4 DEF RestingAt, At
<1>11. IsFiniteSet(DOMAIN nodes) /\ IsFiniteSet(DOMAIN nodes')
  BY <1>8, FS_Subset DEF TotalsAgree
<1>12. TouchesOnly(side, p)
  <2>1. /\ \A s \in Sides : s # side => levels'[s] = levels[s]
        /\ DOMAIN levels'[side] \subseteq DOMAIN levels[side] \cup {p}
        /\ \A q \in DOMAIN levels'[side] : q # p => levels'[side][q] = levels[side][q]
    <3>1. DOMAIN levels = Sides
      BY DEF IInv, StateTypes
    <3> QED BY <1>6, <3>1 DEF With, Without
  <2>2. freed \subseteq {m}
    OBVIOUS
  <2> HIDE DEF freed, kept
  <2>3. ASSUME NEW s \in Sides, NEW q, s # side \/ q # p
        PROVE  /\ \A n : n \in RestingAt(s, q)' <=> n \in RestingAt(s, q)
               /\ \A n \in RestingAt(s, q) : nodes'[n].quantity = nodes[n].quantity
    <3>1. m \notin RestingAt(s, q)
      BY <1>10, <2>3
    <3>2. \A n \in RestingAt(s, q) : n \in DOMAIN nodes
      BY DEF RestingAt
    <3> QED BY <1>8, <1>9, <2>2, <3>1, <3>2
  <2> QED BY <1>11, <2>1, <2>3 DEF TouchesOnly
<1>13. ASSUME p \in DOMAIN levels'[side]
       PROVE  levels'[side][p].total_quantity = Units(side, p)'
  <2> DEFINE S == RestingAt(side, p)
             R == S \ {m}
             others == SumFunctionOnSet(Quantities, R)
  <2>1. levels'[side][p] = rest
    <3>1. DOMAIN levels = Sides
      BY DEF IInv, StateTypes
    <3> QED BY <1>6, <1>13, <3>1 DEF With, Without
  <2>2. levels[side][p].total_quantity = SumFunctionOnSet(Quantities, S)
    BY DEF TotalsAgree, Units
  <2>3. S \subseteq DOMAIN nodes /\ IsFiniteSet(S) /\ IsFiniteSet(R) /\ m \in S
    BY <1>10, <1>11, QuantityTypes, FS_Subset DEF IInv
  <2>4. \A n \in S : Quantities[n] \in Int
    BY <1>11, <2>3, QuantityTypes DEF IInv
  <2>5. Quantities[m] = nodes[m].quantity
    BY <1>4, <1>11, QuantityTypes DEF IInv
  <2>6. \A n \in R : Quantities'[n] = Quantities[n]
    BY <1>8, <2>3 DEF Quantities
  <2>7. RestingAt(side, p)' = S \ freed
    BY <1>9
  <2> HIDE DEF S
  <2>8. SumFunctionOnSet(Quantities, S) = Quantities[m] + others
    BY <2>3, <2>4, SumRemove
  <2>9. SumFunctionOnSet(Quantities', R) = others
    BY <2>3, <2>6, SumSame
  <2>10. others \in Int
    BY <2>3, <2>4, SumType
  <2>11. Units(side, p)' = SumFunctionOnSet(Quantities', S \ freed)
    BY <2>7 DEF Units
  <2>12. SumFunctionOnSet(Quantities', S \ freed) = kept + others
    <3>1. CASE kept = 0
      <4>1. S \ freed = R
        BY <3>1
      <4> HIDE DEF others, R
      <4>2. \A i \in Int : i = 0 + i
        OBVIOUS
      <4>3. others = kept + others
        BY <2>10, <3>1, <4>2, Zenon
      <4> QED BY <2>9, <4>1, <4>3, Zenon
    <3>2. CASE kept # 0
      <4>1. S \ freed = S /\ m \notin freed
        BY <3>2
      <4>2. Quantities'[m] = kept
        BY <1>4, <1>8, <4>1 DEF Quantities
      <4> HIDE DEF kept, others
      <4>3. \A n \in S : Quantities'[n] \in Int
        BY <1>5, <2>4, <2>6, <4>2 DEF kept
      <4>4. SumFunctionOnSet(Quantities', S) = Quantities'[m] + SumFunctionOnSet(Quantities', R)
        BY <2>3, <4>3, SumRemove
      <4> QED BY <2>9, <4>1, <4>2, <4>4, Zenon
    <3> QED BY <3>1, <3>2
  <2> HIDE DEF others
  <2>13. \A i, j, k \in Int : (i + j) - k = (i - k) + j
    OBVIOUS
  <2>14. (nodes[m].quantity + others) - delta = kept + others
    BY <1>5, <2>10, <2>13, Zenon
  <2> HIDE DEF kept, freed, R
  <2> QED BY <1>7, <2>1, <2>2, <2>5, <2>8, <2>11, <2>12, <2>14, Zenon
<1> HIDE DEF kept, freed
<1> QED BY <1>12, <1>13, TouchedTotals DEF IInv

(* rest_order, with initLevel or addOrder, keeps every total. *)
LEMMA RestTotals ==
  ASSUME IInv, TotalsAgree, NEW o \in EventRecord, o.order_id \notin DOMAIN location,
         RestOrder(o)
  PROVE  TotalsAgree'
<1> DEFINE id == o.order_id
           s == o.side
           p == o.price
           before_p == IF p \in DOMAIN levels[s] THEN levels[s][p].total_quantity ELSE 0
<1>1. /\ s \in Sides /\ p \in Int /\ o.quantity \in Int
      /\ DOMAIN nodes = DOMAIN location /\ id \notin DOMAIN nodes
      /\ DOMAIN levels = Sides
  BY DEF IInv, StateTypes, WellFormed, IndexMatchesNodes, EventRecord
<1>2. /\ DOMAIN nodes' = DOMAIN nodes \cup {id}
      /\ nodes'[id].quantity = o.quantity
      /\ \A n \in DOMAIN nodes : nodes'[n].quantity = nodes[n].quantity
  <2>1. CASE p \notin DOMAIN levels[s]
    BY <1>1, <2>1 DEF RestOrder, InitLevel, NewNode, With
  <2>2. CASE p \in DOMAIN levels[s]
    <3> DEFINE old == levels[s][p].last
               f == [nodes EXCEPT ![old].nxt = id]
    <3>1. nodes' = With(f, id, NewNode(o, old))
      BY <2>2 DEF RestOrder, AddOrder
    <3>2. DOMAIN f = DOMAIN nodes /\ \A n \in DOMAIN nodes : f[n].quantity = nodes[n].quantity
      BY DEF IInv, StateTypes, Node
    <3> HIDE DEF f, old
    <3> QED BY <1>1, <3>1, <3>2 DEF With, NewNode
  <2> QED BY <2>1, <2>2
<1>3. /\ DOMAIN location' = DOMAIN nodes \cup {id}
      /\ location'[id].side = s /\ location'[id].price = p
      /\ \A n \in DOMAIN nodes : location'[n] = location[n]
  BY <1>1 DEF RestOrder, With
<1>4. /\ \A side \in Sides : side # s => levels'[side] = levels[side]
      /\ DOMAIN levels'[s] = DOMAIN levels[s] \cup {p}
      /\ \A q \in DOMAIN levels[s] : q # p => levels'[s][q] = levels[s][q]
      /\ levels'[s][p].total_quantity = before_p + o.quantity
  <2>1. ASSUME NEW v, levels' = [levels EXCEPT ![s] = With(@, p, v)]
        PROVE  /\ \A side \in Sides : side # s => levels'[side] = levels[side]
               /\ DOMAIN levels'[s] = DOMAIN levels[s] \cup {p}
               /\ \A q \in DOMAIN levels[s] : q # p => levels'[s][q] = levels[s][q]
               /\ levels'[s][p] = v
    BY <1>1, <2>1 DEF With
  <2>2. CASE p \notin DOMAIN levels[s]
    <3> DEFINE v == [first |-> id, last |-> id, total_quantity |-> o.quantity]
    <3>1. levels' = [levels EXCEPT ![s] = With(@, p, v)]
      BY <2>2 DEF RestOrder, InitLevel
    <3>2. v.total_quantity = before_p + o.quantity
      BY <1>1, <2>2
    <3> HIDE DEF v, before_p
    <3> QED BY <2>1, <3>1, <3>2
  <2>3. CASE p \in DOMAIN levels[s]
    <3> DEFINE v == [first |-> levels[s][p].first, last |-> id,
                     total_quantity |-> levels[s][p].total_quantity + o.quantity]
    <3>1. levels' = [levels EXCEPT ![s] = With(@, p, v)]
      BY <2>3 DEF RestOrder, AddOrder
    <3>2. v.total_quantity = before_p + o.quantity
      BY <1>1, <2>3
    <3> HIDE DEF v, before_p
    <3> QED BY <2>1, <3>1, <3>2
  <2> QED BY <2>2, <2>3
<1>5. \A side, q : \A n : n \in RestingAt(side, q)' <=>
                            n \in RestingAt(side, q) \/ (n = id /\ side = s /\ q = p)
  BY <1>1, <1>2, <1>3 DEF RestingAt, At
<1>6. before_p = Units(s, p)
  <2>1. CASE p \in DOMAIN levels[s]
    BY <1>1, <2>1 DEF TotalsAgree
  <2>2. CASE p \notin DOMAIN levels[s]
    <3>1. RestingAt(s, p) = {}
      BY <2>2 DEF RestingAt, At, IInv, WellFormed, IndexMatchesNodes
    <3> QED BY <2>2, <3>1, SumEmpty DEF Units
  <2> QED BY <2>1, <2>2
<1> HIDE DEF id, s, p, before_p
<1>7. IsFiniteSet(DOMAIN nodes) /\ IsFiniteSet(DOMAIN nodes')
  BY <1>2, FS_AddElement DEF TotalsAgree
<1>8. TouchesOnly(s, p)
  BY <1>1, <1>2, <1>4, <1>5, <1>7 DEF TouchesOnly, RestingAt
<1>9. levels'[s][p].total_quantity = Units(s, p)'
  <2> DEFINE S == RestingAt(s, p)
  <2>1. S \subseteq DOMAIN nodes /\ IsFiniteSet(S) /\ id \notin S
    BY <1>1, <1>7, QuantityTypes DEF IInv
  <2>2. RestingAt(s, p)' = S \cup {id}
    BY <1>5
  <2>3. \A n \in S : Quantities'[n] = Quantities[n] /\ Quantities[n] \in Int
    BY <1>2, <1>7, <2>1, QuantityTypes DEF IInv, Quantities
  <2>4. Quantities'[id] = o.quantity
    BY <1>2 DEF Quantities
  <2> HIDE DEF S
  <2>5. \A n \in S \cup {id} : Quantities'[n] \in Int
    BY <1>1, <2>3, <2>4
  <2>6. SumFunctionOnSet(Quantities', S \cup {id}) = SumFunctionOnSet(Quantities', S) + o.quantity
    BY <2>1, <2>4, <2>5, SumAdd
  <2>7. SumFunctionOnSet(Quantities', S) = SumFunctionOnSet(Quantities, S)
    BY <2>1, <2>3, SumSame
  <2>8. before_p = SumFunctionOnSet(Quantities, S)
    BY <1>6 DEF Units, S
  <2>9. Units(s, p)' = SumFunctionOnSet(Quantities', S \cup {id})
    BY <2>2 DEF Units
  <2> QED BY <1>4, <2>6, <2>7, <2>8, <2>9
<1> QED BY <1>1, <1>8, <1>9, TouchedTotals DEF IInv

(* What the totals are about is left alone. *)
LEMMA SameTotals ==
  ASSUME TotalsAgree, UNCHANGED <<levels, nodes, location>>
  PROVE  TotalsAgree'
<1>1. Quantities' = Quantities /\ \A side, p : RestingAt(side, p)' = RestingAt(side, p)
  BY DEF Quantities, RestingAt, At
<1>2. \A side, p : Units(side, p)' = Units(side, p)
  BY <1>1 DEF Units
<1> QED BY <1>2 DEF TotalsAgree

(* Every step of the book keeps the totals. *)
LEMMA NextTotals ==
  ASSUME IInv, TotalsAgree, [Next]_vars
  PROVE  TotalsAgree'
<1>1. ASSUME NEW e \in Events, ProcessOrder(e) PROVE TotalsAgree'
  <2>1. CASE UNCHANGED bookVars
    BY <2>1, SameTotals DEF bookVars
  <2>2. ASSUME NEW id \in DOMAIN location, Unlink(id) PROVE TotalsAgree'
    BY <2>2, UnlinkTotals
  <2>3. Removable(e.order_id, e.owner_id) => e.order_id \in DOMAIN location
    BY DEF Removable, Known
  <2> QED BY <1>1, <2>1, <2>2, <2>3
          DEF ProcessOrder, ProcessAdd, ProcessCancel, ProcessMod, ProcessIOC, ProcessMarket
<1>2. ASSUME NEW side \in Sides, NEW p \in DOMAIN levels[side],
             CanMatch(side, p), Match(side, p)
      PROVE  TotalsAgree'
  BY <1>2, MatchTotals
<1>3. CASE MatchBuy \/ MarketBuy
  BY <1>2, <1>3 DEF MatchBuy, MarketBuy
<1>4. CASE MatchSell \/ MarketSell
  BY <1>2, <1>4 DEF MatchSell, MarketSell
<1>5. CASE ReturnRested
  <2>1. CASE UNCHANGED bookVars
    BY <2>1, SameTotals DEF bookVars
  <2>2. CASE ~Known(taker.order_id) /\ RestOrder(taker)
    <3>1. taker \in EventRecord /\ taker.order_id \notin DOMAIN location
      BY <1>5, <2>2 DEF ReturnRested, LoopEnds, Known, IInv, StateTypes
    <3> QED BY <2>2, <3>1, RestTotals
  <2> QED BY <1>5, <2>1, <2>2 DEF ReturnRested
<1>6. CASE ReturnExpired
  BY <1>6, SameTotals DEF ReturnExpired, bookVars
<1>7. CASE UNCHANGED vars
  BY <1>7, SameTotals DEF vars
<1> QED BY <1>1, <1>3, <1>4, <1>5, <1>6, <1>7 DEF Next, Call

-----------------------------------------------------------------------------
(* Finitely many prices, if there are any, have a best one.                *)
LEMMA BestExists ==
  ASSUME NEW side \in Sides, NEW S, \A x \in S : x \in Int, IsFiniteSet(S), S # {}
  PROVE  \E b \in S : \A q \in S \ {b} : Better(side, b, q)
<1> DEFINE AtLeast(x) == {q \in S : q = x \/ Better(side, q, x)}
           F == {AtLeast(x) : x \in S}
<1>1. PICK T \in F : \A U \in F : U \subseteq T => U = T
  <2>1. F \in SUBSET SUBSET S
    OBVIOUS
  <2>2. F # {}
    OBVIOUS
  <2> HIDE DEF AtLeast, F
  <2> QED BY <2>1, <2>2, SmallestMember
<1>2. PICK b \in S : T = AtLeast(b)
  OBVIOUS
<1>3. ASSUME NEW q \in S \ {b} PROVE Better(side, b, q)
  <2>1. SUFFICES ASSUME Better(side, q, b) PROVE FALSE
    BY DEF Better
  <2>2. AtLeast(q) \subseteq AtLeast(b)
    <3>1. ASSUME NEW x \in S, x = q \/ Better(side, x, q) PROVE Better(side, x, b)
      <4>1. x \in Int /\ q \in Int /\ b \in Int
        OBVIOUS
      <4> QED BY <2>1, <3>1, <4>1 DEF Better
    <3> QED BY <3>1
  <2>3. b \in AtLeast(b) /\ b \notin AtLeast(q)
    BY <1>3, <2>1 DEF Better
  <2>4. AtLeast(q) \in F
    OBVIOUS
  <2> HIDE DEF AtLeast, F
  <2> QED BY <1>1, <1>2, <2>2, <2>3, <2>4
<1> QED BY <1>3

(* A side that has levels has a best one, with something to trade in it.   *)
LEMMA BestLevel ==
  ASSUME IInv, TotalsAgree, NEW side \in Sides, DOMAIN levels[side] # {}
  PROVE  /\ IsBest(side, BestPrice(side))
         /\ levels[side][BestPrice(side)].total_quantity > 0
<1> DEFINE b == BestPrice(side)
<1>1. DOMAIN levels[side] \in SUBSET Int /\ IsFiniteSet(DOMAIN levels[side])
  BY DEF IInv, StateTypes, TotalsAgree
<1>2. \E p \in DOMAIN levels[side] : \A q \in DOMAIN levels[side] \ {p} : Better(side, p, q)
  BY <1>1, BestExists
<1>3. IsBest(side, b)
  BY <1>2 DEF BestPrice, IsBest
<1> HIDE DEF b
<1>4. b \in DOMAIN levels[side]
  BY <1>3 DEF IsBest
<1>5. RestingAt(side, b) # {}
  BY <1>4 DEF IInv, WellFormed, LevelsNonEmpty, RestingAt
<1>6. /\ IsFiniteSet(RestingAt(side, b))
      /\ \A n \in RestingAt(side, b) : Quantities[n] \in Int /\ Quantities[n] > 0
  <2>1. \A n \in DOMAIN nodes : nodes[n].quantity > 0
    BY DEF IInv, WellFormed, IndexMatchesNodes
  <2>2. StateTypes /\ IsFiniteSet(DOMAIN nodes)
    BY DEF IInv, TotalsAgree
  <2>3. /\ IsFiniteSet(RestingAt(side, b)) /\ RestingAt(side, b) \subseteq DOMAIN nodes
        /\ \A n \in DOMAIN nodes : Quantities[n] = nodes[n].quantity /\ Quantities[n] \in Int
    BY <2>2, QuantityTypes
  <2> QED BY <2>1, <2>3
<1>7. Units(side, b) > 0
  BY <1>5, <1>6, SumPositive DEF Units
<1>8. levels[side][b].total_quantity > 0
  BY <1>4, <1>7 DEF TotalsAgree
<1> QED BY <1>3, <1>8 DEF b

(* What the maps and totals answer is what the orders that rest say.       *)
LEMMA TotalsAnswer ==
  ASSUME IInv, TotalsAgree
  PROVE  QueriesAgree
<1>1. /\ \A n \in DOMAIN nodes : location[n].price \in DOMAIN levels[location[n].side]
      /\ DOMAIN location = DOMAIN nodes
      /\ \A n \in DOMAIN location : location[n].side \in Sides /\ location[n].price \in Int
      /\ \A side \in Sides : DOMAIN levels[side] \subseteq Int
  BY DEF IInv, StateTypes, WellFormed, IndexMatchesNodes, LocationID
<1>2. ASSUME NEW side \in Sides, NEW p
      PROVE  QuantityAtPrice(side, p) = Units(side, p)
  <2>1. CASE p \in DOMAIN levels[side]
    BY <2>1 DEF QuantityAtPrice, TotalsAgree
  <2>2. CASE p \notin DOMAIN levels[side]
    <3>1. RestingAt(side, p) = {}
      BY <1>1, <2>2 DEF RestingAt, At
    <3> QED BY <2>2, <3>1, SumEmpty DEF QuantityAtPrice, Units
  <2> QED BY <2>1, <2>2
<1>3. \A side \in Sides : DOMAIN levels[side] # {} <=>
        \E n \in DOMAIN location : location[n].side = side
  <2> SUFFICES ASSUME NEW side \in Sides
               PROVE  DOMAIN levels[side] # {} <=>
                        \E n \in DOMAIN location : location[n].side = side
    OBVIOUS
  <2>1. ASSUME NEW p \in DOMAIN levels[side]
        PROVE  \E n \in DOMAIN location : location[n].side = side
    BY <1>1 DEF IInv, WellFormed, LevelsNonEmpty, At
  <2>2. ASSUME NEW n \in DOMAIN location, location[n].side = side
        PROVE  DOMAIN levels[side] # {}
    BY <1>1, <2>2
  <2> QED BY <2>1, <2>2
<1>4. HasQuote <=> \A side \in Sides : DOMAIN levels[side] # {}
  BY BestLevel DEF HasQuote
<1>5. ASSUME HasQuote, NEW n \in DOMAIN location
      PROVE  ~Better(location[n].side, location[n].price, BestPrice(location[n].side))
  <2> DEFINE side == location[n].side
             b == BestPrice(side)
  <2>1. side \in Sides /\ location[n].price \in DOMAIN levels[side]
    BY <1>1
  <2> HIDE DEF b, side
  <2>2. IsBest(side, b)
    BY <1>4, <1>5, <2>1, BestLevel DEF b
  <2>3. location[n].price \in Int /\ b \in Int
    BY <1>1, <2>1, <2>2 DEF IsBest
  <2>4. ~Better(side, location[n].price, b)
    BY <2>1, <2>2, <2>3 DEF IsBest, Better
  <2> QED BY <2>4 DEF b, side
<1>6. /\ \A side \in Sides :
           \A p \in DOMAIN levels[side] \cup {location[n].price : n \in DOMAIN location} :
             QuantityAtPrice(side, p) =
               SumFunctionOnSet([n \in DOMAIN nodes |-> nodes[n].quantity],
                                {n \in DOMAIN nodes : At(n, side, p)})
  BY <1>2 DEF Units, Quantities, RestingAt
<1>7. HasQuote <=> \A side \in Sides : \E n \in DOMAIN location : location[n].side = side
  BY <1>3, <1>4
<1> QED BY <1>5, <1>6, <1>7 DEF QueriesAgree

(* topOfBook and quantityAtPrice (book.cpp:36, 58), which read the maps    *)
(* and the totals that five functions keep, always answer what the orders  *)
(* that rest say, between two iterations of a matching loop too.           *)
THEOREM QueriesCorrect == Spec => []QueriesAgree
<1>1. Init => TotalsAgree
  <2> SUFFICES ASSUME Init PROVE TotalsAgree
    OBVIOUS
  <2>1. DOMAIN nodes = {} /\ \A side \in Sides : DOMAIN levels[side] = {}
    BY DEF Init, EmptyMap
  <2> QED BY <2>1, FS_EmptySet DEF TotalsAgree
<1>2. IInv /\ TotalsAgree /\ [Next]_vars => TotalsAgree'
  BY NextTotals
<1>3. IInv /\ TotalsAgree => QueriesAgree
  BY TotalsAnswer
<1> QED BY <1>1, <1>2, <1>3, BookInvariant, PTL DEF Spec

-----------------------------------------------------------------------------
(* What the order being matched has traded so far.                         *)

TakerFills ==
  {i \in DOMAIN responses : IsFill(responses[i]) /\ responses[i].order_id = taker.order_id}

Traded == [i \in DOMAIN responses |-> responses[i].quantity]

(* Every unit is accounted for, and the response that accepts the order is *)
(* there.                                                                  *)
Accounted ==
  taker # Null =>
    /\ Accepting \in DOMAIN responses
    /\ responses[Accepting].quantity = SumFunctionOnSet(Traded, TakerFills) + taker.quantity

(* The indexes of the responses are finitely many, with integers to sum.   *)
LEMMA TradedTypes ==
  ASSUME StateTypes
  PROVE  /\ IsFiniteSet(TakerFills) /\ TakerFills \subseteq DOMAIN responses
         /\ DOMAIN responses = 1 .. Len(responses) /\ Len(responses) \in Nat
         /\ \A i \in DOMAIN responses : Traded[i] = responses[i].quantity /\ Traded[i] \in Int
<1>1. DOMAIN responses = 1 .. Len(responses) /\ Len(responses) \in Nat
  BY DEF StateTypes
<1>2. IsFiniteSet(1 .. Len(responses))
  BY <1>1, FS_Interval
<1>3. TakerFills \subseteq DOMAIN responses
  BY DEF TakerFills
<1>4. \A i \in DOMAIN responses : responses[i] \in OrderEvent
  BY DEF StateTypes
<1> QED BY <1>1, <1>2, <1>3, <1>4, FS_Subset DEF Traded, OrderEvent

(* A handler accepts all of the event's quantity, and nothing has traded.  *)
LEMMA HandlerAccounts ==
  ASSUME IInv, NEW e \in Events, ProcessOrder(e)
  PROVE  Accounted'
<1>1. taker = Null /\ e \in EventRecord
  BY EventType
     DEF ProcessOrder, ProcessAdd, ProcessCancel, ProcessMod, ProcessIOC, ProcessMarket, Idle
<1>2. ASSUME NEW r, Reply(<<r>>) PROVE Accounted'
  BY <1>1, <1>2 DEF Reply, Accounted
<1>3. ASSUME Engage(e, <<Echo(e, "OrderAccepted")>>) PROVE Accounted'
  <2> DEFINE r == Echo(e, "OrderAccepted")
  <2>1. taker' = e /\ responses' = <<r>>
    BY <1>3 DEF Engage
  <2>2. r.type = "OrderAccepted" /\ r.quantity = e.quantity /\ e.quantity \in Int
    BY <1>1 DEF Echo, EventRecord
  <2> HIDE DEF r
  <2>3. DOMAIN responses' = {1} /\ responses'[1] = r
    BY <2>1
  <2>4. Accepting' = 1 /\ TakerFills' = {}
    BY <2>2, <2>3 DEF Accepting, TakerFills, IsFill
  <2>5. SumFunctionOnSet(Traded', TakerFills') = 0
    BY <2>4, SumEmpty
  <2> QED BY <2>1, <2>2, <2>3, <2>4, <2>5 DEF Accounted
<1>4. ASSUME Engage(e, <<Echo(Removed(e.order_id), "OrderModified"),
                         Echo(e, "OrderModifyAccepted")>>)
      PROVE  Accounted'
  <2> DEFINE q == Echo(Removed(e.order_id), "OrderModified")
             r == Echo(e, "OrderModifyAccepted")
  <2>1. taker' = e /\ responses' = <<q, r>>
    BY <1>4 DEF Engage
  <2>2. /\ q.type = "OrderModified" /\ r.type = "OrderModifyAccepted"
        /\ r.quantity = e.quantity /\ e.quantity \in Int
    BY <1>1 DEF Echo, EventRecord
  <2> HIDE DEF q, r
  <2>3. DOMAIN responses' = {1, 2} /\ responses'[1] = q /\ responses'[2] = r
    BY <2>1
  <2>4. Accepting' = 2 /\ TakerFills' = {}
    BY <2>2, <2>3 DEF Accepting, TakerFills, IsFill
  <2>5. SumFunctionOnSet(Traded', TakerFills') = 0
    BY <2>4, SumEmpty
  <2> QED BY <2>1, <2>2, <2>3, <2>4, <2>5 DEF Accounted
<1> QED BY <1>2, <1>3, <1>4
        DEF ProcessOrder, ProcessAdd, ProcessCancel, ProcessMod, ProcessIOC, ProcessMarket

(* The taker's report of an iteration moves what trades from what is left  *)
(* to what has traded; the maker's names another order.                    *)
LEMMA MatchAccounts ==
  ASSUME IInv, Accounted, NEW side \in Sides, NEW p \in DOMAIN levels[side],
         CanMatch(side, p), Match(side, p)
  PROVE  Accounted'
<1>1. PICK m : m = IF it = Null THEN levels[side][p].first ELSE it
  OBVIOUS
<1>2. PICK delta : delta = Smaller(taker.quantity, nodes[m].quantity)
  OBVIOUS
<1>3. PICK n : n = Len(responses)
  OBVIOUS
<1>4. PICK S : S = TakerFills
  OBVIOUS
<1>5. taker # Null /\ taker \in EventRecord /\ StateTypes
  BY DEF IInv, StateTypes, CanMatch
<1>6. m \in DOMAIN nodes /\ m # taker.order_id
  BY <1>1, <1>5, MakerIsOldest DEF IInv, WellFormed, IndexMatchesNodes, NeverThrows
<1>7. delta \in Int /\ taker.quantity \in Int
  BY <1>2, <1>5, <1>6 DEF StateTypes, Node, EventRecord, Smaller
<1> DEFINE remaining == taker.quantity - delta
           kept == nodes[m].quantity - delta
           f1 == Fill(taker.order_id, taker.owner_id, taker.side, remaining, delta, p)
           f2 == Fill(m, nodes[m].owner_id, side, kept, delta, p)
<1>8. responses' = responses \o <<f1, f2>> /\ taker' = [taker EXCEPT !.quantity = remaining]
  BY <1>1, <1>2 DEF Match
<1>9. /\ IsFill(f1) /\ f1.order_id = taker.order_id /\ f1.quantity = delta
      /\ f2.order_id = m
  BY DEF Fill, IsFill
<1>10. taker'.order_id = taker.order_id /\ taker'.quantity = taker.quantity - delta
  BY <1>5, <1>8 DEF EventRecord
<1>11. responses \in Seq(OrderEvent) /\ n \in Nat /\ DOMAIN responses = 1 .. n
  BY <1>3, <1>5 DEF StateTypes
<1> HIDE DEF remaining, kept, f1, f2
<1>12. /\ DOMAIN responses' = 1 .. n + 2
       /\ \A i \in 1 .. n : responses'[i] = responses[i]
       /\ responses'[n + 1] = f1 /\ responses'[n + 2] = f2
  BY <1>3, <1>8, <1>11
<1>13. TakerFills' = S \cup {n + 1}
  <2>1. \A i : i \in 1 .. n + 2 <=> i \in 1 .. n \/ i = n + 1 \/ i = n + 2
    BY <1>11
  <2>2. ASSUME NEW i PROVE i \in TakerFills' <=> i \in S \/ i = n + 1
    <3>1. i \in TakerFills' <=> /\ i \in 1 .. n + 2 /\ IsFill(responses'[i])
                                /\ responses'[i].order_id = taker.order_id
      BY <1>10, <1>12 DEF TakerFills
    <3>2. i \in S <=> i \in 1 .. n /\ IsFill(responses[i]) /\ responses[i].order_id = taker.order_id
      BY <1>4, <1>11 DEF TakerFills
    <3>3. CASE i \in 1 .. n
      BY <1>11, <1>12, <2>1, <3>1, <3>2, <3>3
    <3>4. CASE i = n + 1
      BY <1>9, <1>12, <2>1, <3>1, <3>4
    <3>5. CASE i = n + 2
      BY <1>6, <1>9, <1>11, <1>12, <3>1, <3>2, <3>5
    <3> QED BY <2>1, <3>1, <3>2, <3>3, <3>4, <3>5
  <2> QED BY <2>2
<1>14. /\ IsFiniteSet(S) /\ S \subseteq 1 .. n /\ n + 1 \notin S
       /\ \A i \in S : Traded[i] \in Int /\ Traded'[i] = Traded[i]
  <2>1. IsFiniteSet(S) /\ S \subseteq 1 .. n
    BY <1>4, <1>5, <1>11, TradedTypes
  <2>2. \A i \in 1 .. n : Traded[i] \in Int /\ Traded[i] = responses[i].quantity
    BY <1>5, <1>11, TradedTypes
  <2>3. \A i \in 1 .. n : Traded'[i] = responses'[i].quantity
    BY <1>11, <1>12 DEF Traded
  <2> QED BY <1>11, <1>12, <2>1, <2>2, <2>3
<1>15. Traded'[n + 1] = delta
  BY <1>9, <1>11, <1>12 DEF Traded
<1>16. SumFunctionOnSet(Traded', TakerFills') = SumFunctionOnSet(Traded, S) + delta
  <2>1. \A i \in S \cup {n + 1} : Traded'[i] \in Int
    BY <1>7, <1>14, <1>15
  <2>2. SumFunctionOnSet(Traded', S \cup {n + 1}) = SumFunctionOnSet(Traded', S) + Traded'[n + 1]
    BY <1>14, <2>1, SumAdd
  <2>3. SumFunctionOnSet(Traded', S) = SumFunctionOnSet(Traded, S)
    BY <1>14, SumSame
  <2> QED BY <1>13, <1>15, <2>2, <2>3
<1>17. SumFunctionOnSet(Traded, S) \in Int
  BY <1>14, SumType
<1>18. Accepting \in 1 .. n /\ Accepting' = Accepting
  <2>1. Accepting \in 1 .. n
    BY <1>5, <1>11 DEF Accounted
  <2>2. 1 \in 1 .. n
    BY <1>11, <2>1 DEF Accepting
  <2> QED BY <1>12, <2>1, <2>2 DEF Accepting
<1>19. responses'[Accepting'] = responses[Accepting]
  BY <1>12, <1>18
<1>20. \A i, j, k \in Int : i + j = (i + k) + (j - k)
  OBVIOUS
<1>21. responses[Accepting].quantity = SumFunctionOnSet(Traded, S) + taker.quantity
  BY <1>4, <1>5 DEF Accounted
<1>22. responses'[Accepting'].quantity = SumFunctionOnSet(Traded', TakerFills') + taker'.quantity
  BY <1>7, <1>10, <1>16, <1>17, <1>19, <1>20, <1>21, ZenonT(40)
<1>23. Accepting' \in DOMAIN responses'
  BY <1>11, <1>12, <1>18
<1> QED BY <1>22, <1>23 DEF Accounted

(* Every step keeps account.                                               *)
LEMMA NextAccounts ==
  ASSUME IInv, Accounted, [Next]_vars
  PROVE  Accounted'
<1>1. ASSUME NEW e \in Events, ProcessOrder(e) PROVE Accounted'
  BY <1>1, HandlerAccounts
<1>2. CASE MatchBuy \/ MarketBuy
  BY <1>2, MatchAccounts DEF MatchBuy, MarketBuy
<1>3. CASE MatchSell \/ MarketSell
  BY <1>3, MatchAccounts DEF MatchSell, MarketSell
<1>4. CASE taker' = Null
  BY <1>4 DEF Accounted
<1>5. CASE UNCHANGED <<taker, responses>>
  BY <1>5 DEF Accounted, Accepting, Traded, TakerFills
<1> QED BY <1>1, <1>2, <1>3, <1>4, <1>5 DEF Next, Call, ReturnRested, ReturnExpired, vars

(* What a call accepted is what its responses say has traded plus what is  *)
(* still to be matched, in the middle of matchBuy, matchSell, marketBuy    *)
(* and marketSell (book.cpp:258-358, 477-577) and at their ends.           *)
THEOREM UnitsAreAccountedFor == Spec => []UnitsAccountedFor
<1>1. Init => Accounted
  BY DEF Init, Accounted
<1>2. IInv /\ Accounted /\ [Next]_vars => Accounted'
  BY NextAccounts
<1>3. Accounted => UnitsAccountedFor
  BY DEF Accounted, UnitsAccountedFor, TakerTraded, Traded, TakerFills
<1> QED BY <1>1, <1>2, <1>3, BookInvariant, PTL DEF Spec

-----------------------------------------------------------------------------
(* The destructor.  What its walk relies on is the arrival order again: the *)
(* nodes a list leads to from a node are those that came after it.         *)

(* Node n is on a list that clearLevels has not entered yet.               *)
Unvisited(n) ==
  \/ phase = "Buy" /\ (location[n].side = "Sell" \/ location[n].price \in left)
  \/ phase = "Sell" /\ location[n].side = "Sell" /\ location[n].price \in left

(* Node n is on the rest of the list that clearLevels is in.               *)
Remaining(n) == node # Null /\ (n = node \/ <<node, n>> \in before)

(* The live nodes are the unvisited and the remaining ones.                *)
Listed ==
  /\ node # Null => node \in DOMAIN location /\ ~Unvisited(node)
  /\ DOMAIN nodes = {n \in DOMAIN location : Unvisited(n) \/ Remaining(n)}

(* `before' as it was when the book was destroyed.                         *)
Arrivals ==
  /\ DOMAIN location \subseteq Ids
  /\ \A n \in DOMAIN location : location[n].side \in Sides
  /\ \A pair \in before :
       /\ pair[1] \in DOMAIN location /\ pair[2] \in DOMAIN location
       /\ SameLevel(pair[1], pair[2]) /\ pair[1] # pair[2]
  /\ \A k, m, n \in DOMAIN location :
       <<k, m>> \in before /\ <<m, n>> \in before => <<k, n>> \in before

(* The list of the level at price p of `side' starts with what came first. *)
Entrance(side, p) ==
  LET first == levels[side][p].first IN
  /\ first \in DOMAIN location
  /\ At(first, side, p)
  /\ \A n \in DOMAIN location : At(n, side, p) /\ n # first => <<first, n>> \in before

(* A live node's nxt leads to the one that came next, if there is one.     *)
Chained ==
  \A n \in DOMAIN nodes :
    IF nodes[n].nxt = Null
    THEN \A m \in DOMAIN location : <<n, m>> \notin before
    ELSE /\ nodes[n].nxt \in DOMAIN location
         /\ <<n, nodes[n].nxt>> \in before
         /\ \A m \in DOMAIN location :
              <<n, m>> \in before /\ m # nodes[n].nxt => <<nodes[n].nxt, m>> \in before

(* The levels still to be entered.                                         *)
Entrances ==
  /\ phase \in Sides => \A p \in left : Entrance(phase, p)
  /\ phase = "Buy" =>
       /\ levels = [side \in Sides |-> levels[side]]
       /\ \A p \in DOMAIN levels["Sell"] : Entrance("Sell", p)
       /\ \A n \in DOMAIN location :
            location[n].side = "Sell" => location[n].price \in DOMAIN levels["Sell"]

Walking == Listed /\ Arrivals /\ Chained /\ Entrances

Cleared == node = Null /\ DOMAIN nodes = {}

(* The inductive invariant of the book's whole life.                       *)
LifeInv ==
  /\ nodes = [n \in DOMAIN nodes |-> nodes[n]]
  /\ \/ phase = "alive" /\ IInv /\ node = Null
     \/ phase \in Sides /\ Walking
     \/ phase \in {"index", "gone"} /\ Cleared

(* A book between two calls is ready to be walked: ~Book from any          *)
(* reachable state starts with every node unvisited.                       *)
LEMMA DestroyWalks ==
  ASSUME IInv, node = Null, Destroy
  PROVE  Walking' /\ phase' = "Buy"
<1>1. /\ phase' = "Buy" /\ left' = DOMAIN levels["Buy"] /\ node' = Null
      /\ levels' = levels /\ nodes' = nodes /\ location' = location /\ before' = before
  BY DEF Destroy, vars
<1>2. it = Null
  BY DEF Destroy, Idle, IInv, WellFormed, SweepOnBestLevel
<1>3. \A side \in Sides : \A p \in DOMAIN levels[side] : Oldest(side, p) = levels[side][p].first
  BY <1>2 DEF Oldest, Swept
<1>4. /\ DOMAIN nodes = DOMAIN location /\ DOMAIN location \subseteq Ids
      /\ \A n \in DOMAIN location :
           location[n].side \in Sides /\ location[n].price \in DOMAIN levels[location[n].side]
      /\ levels = [side \in Sides |-> levels[side]]
  BY DEF IInv, WellFormed, IndexMatchesNodes, StateTypes, LocationID
<1>5. Arrivals'
  BY <1>1, <1>4 DEF IInv, WellFormed, ArrivalIsOrder, Arrivals, SameLevel
<1>6. ASSUME NEW side \in Sides, NEW p \in DOMAIN levels[side]
      PROVE  Entrance(side, p)
  <2> DEFINE first == levels[side][p].first
  <2>1. first \in DOMAIN location /\ At(first, side, p)
    BY <1>3, <1>4 DEF IInv, WellFormed, LevelsNonEmpty
  <2>2. ASSUME NEW n \in DOMAIN location, At(n, side, p), n # first
        PROVE  <<first, n>> \in before
    <3>1. n # Oldest(side, p) => <<Oldest(side, p), n>> \in before
      BY <1>4, <2>2 DEF IInv, WellFormed, ListsAreFifo, At
    <3> QED BY <1>3, <2>2, <3>1
  <2> QED BY <2>1, <2>2 DEF Entrance
<1>7. Chained'
  <2> SUFFICES ASSUME NEW n \in DOMAIN nodes
               PROVE  IF nodes[n].nxt = Null
                      THEN \A m \in DOMAIN location : <<n, m>> \notin before
                      ELSE /\ nodes[n].nxt \in DOMAIN location
                           /\ <<n, nodes[n].nxt>> \in before
                           /\ \A m \in DOMAIN location :
                                <<n, m>> \in before /\ m # nodes[n].nxt
                                  => <<nodes[n].nxt, m>> \in before
    BY <1>1 DEF Chained
  <2> DEFINE last == levels[location[n].side][location[n].price].last
  <2>1. CASE n = last
    <3>1. nodes[n].nxt = Null
      BY <2>1 DEF IInv, WellFormed, LinksAreInverse
    <3>2. \A m \in DOMAIN location : <<n, m>> \notin before
      <4> SUFFICES ASSUME NEW m \in DOMAIN location, <<n, m>> \in before PROVE FALSE
        OBVIOUS
      <4>1. m \in DOMAIN nodes /\ SameLevel(n, m) /\ m # n
        BY DEF IInv, WellFormed, ArrivalIsOrder
      <4>2. <<m, n>> \in before
        BY <4>1, <2>1 DEF IInv, WellFormed, ListsAreFifo, SameLevel
      <4> QED BY <4>1, <4>2 DEF IInv, WellFormed, ArrivalIsOrder
    <3> QED BY <3>1, <3>2
  <2>2. CASE n # last
    <3>1. nodes[n].nxt \in DOMAIN nodes /\ nodes[n].nxt # Null
      BY <2>2, <1>4, NullAssumption DEF IInv, WellFormed, LinksAreInverse
    <3>2. /\ <<n, nodes[n].nxt>> \in before
          /\ \A m \in DOMAIN nodes :
               SameLevel(m, n) /\ <<n, m>> \in before /\ m # nodes[n].nxt
                 => <<nodes[n].nxt, m>> \in before
      BY <2>2 DEF IInv, WellFormed, ListsAreFifo
    <3>3. \A m \in DOMAIN nodes : <<n, m>> \in before => SameLevel(m, n)
      BY DEF IInv, WellFormed, ArrivalIsOrder, SameLevel
    <3> QED BY <3>1, <3>2, <3>3, <1>4
  <2> QED BY <2>1, <2>2
<1>8. Entrances'
  BY <1>1, <1>4, <1>6 DEF Entrances, Entrance, At
<1>9. Listed'
  BY <1>1, <1>4 DEF Listed, Unvisited, Remaining
<1> QED BY <1>1, <1>5, <1>7, <1>8, <1>9 DEF Walking

(* Entering a list turns its unvisited nodes into the remaining ones.      *)
LEMMA EnterWalks ==
  ASSUME Walking, phase \in Sides, NEW p \in left, EnterLevel(p)
  PROVE  Walking' /\ phase' = phase
<1> DEFINE first == levels[phase][p].first
<1>1. /\ node = Null /\ node' = first /\ left' = left \ {p} /\ phase' = phase
      /\ levels' = levels /\ nodes' = nodes /\ location' = location /\ before' = before
  BY DEF EnterLevel, vars
<1>2. Entrance(phase, p)
  BY DEF Walking, Entrances
<1>3. first \in DOMAIN location /\ At(first, phase, p) /\ first # Null
  BY <1>2, NullAssumption DEF Entrance, Walking, Arrivals
<1>4. \A n \in DOMAIN location : At(n, phase, p) <=> n = first \/ <<first, n>> \in before
  BY <1>2, <1>3 DEF Entrance, Walking, Arrivals, SameLevel, At
<1>5. Arrivals' /\ Chained'
  BY <1>1 DEF Walking, Arrivals, Chained, SameLevel
<1>6. Entrances'
  BY <1>1 DEF Walking, Entrances, Entrance, At
<1>7. Listed'
  <2>1. \A n \in DOMAIN location : Unvisited(n)' <=> Unvisited(n) /\ ~At(n, phase, p)
    <3>1. CASE phase = "Buy"
      BY <1>1, <3>1 DEF Unvisited, At, Walking, Arrivals
    <3>2. CASE phase = "Sell"
      BY <1>1, <3>2 DEF Unvisited, At
    <3> QED BY <3>1, <3>2
  <2>2. \A n \in DOMAIN location : At(n, phase, p) => Unvisited(n)
    BY DEF Unvisited, At
  <2>3. \A n \in DOMAIN location : Remaining(n)' <=> At(n, phase, p)
    BY <1>1, <1>3, <1>4 DEF Remaining
  <2>4. DOMAIN nodes = {n \in DOMAIN location : Unvisited(n)}
    BY <1>1 DEF Walking, Listed, Remaining
  <2> QED BY <1>1, <1>3, <2>1, <2>2, <2>3, <2>4 DEF Listed
<1> QED BY <1>1, <1>5, <1>6, <1>7 DEF Walking

(* Deleting the cursor's node and moving on leaves what came after it.     *)
LEMMA DeleteWalks ==
  ASSUME Walking, phase \in Sides, DeleteNode, nodes = [n \in DOMAIN nodes |-> nodes[n]]
  PROVE  Walking' /\ phase' = phase
<1> DEFINE next == nodes[node].nxt
<1>1. /\ node # Null /\ node' = next /\ phase' = phase /\ left' = left
      /\ levels' = levels /\ location' = location /\ before' = before
  BY DEF DeleteNode, callVars
<1>2. /\ DOMAIN nodes' = DOMAIN nodes \ {node}
      /\ \A n \in DOMAIN nodes' : nodes'[n] = nodes[n]
  BY DEF DeleteNode, Without
<1>3. node \in DOMAIN nodes /\ node \in DOMAIN location /\ ~Unvisited(node)
  BY <1>1 DEF Walking, Listed, Remaining
<1>4. Arrivals' /\ Entrances' /\ Chained'
  <2>1. Arrivals' /\ Entrances'
    BY <1>1 DEF Walking, Arrivals, Entrances, Entrance, At, SameLevel
  <2>2. Chained'
    BY <1>1, <1>2 DEF Walking, Chained
  <2> QED BY <2>1, <2>2
<1>5. \A n : Unvisited(n)' <=> Unvisited(n)
  BY <1>1 DEF Unvisited
<1>6. \A n \in DOMAIN location : Remaining(n)' <=> <<node, n>> \in before
  <2>1. CASE next = Null
    BY <1>1, <1>3, <2>1 DEF Remaining, Walking, Chained
  <2>2. CASE next # Null
    <3>1. /\ next \in DOMAIN location /\ <<node, next>> \in before
          /\ \A m \in DOMAIN location :
               <<node, m>> \in before /\ m # next => <<next, m>> \in before
      BY <1>3, <2>2 DEF Walking, Chained
    <3>2. \A m \in DOMAIN location : <<next, m>> \in before => <<node, m>> \in before
      BY <1>3, <3>1 DEF Walking, Arrivals
    <3> QED BY <1>1, <2>2, <3>1, <3>2 DEF Remaining
  <2> QED BY <2>1, <2>2
<1>7. next # Null => next \in DOMAIN location /\ ~Unvisited(next)
  <2> SUFFICES ASSUME next # Null PROVE next \in DOMAIN location /\ ~Unvisited(next)
    OBVIOUS
  <2>1. next \in DOMAIN location /\ <<node, next>> \in before
    BY <1>3 DEF Walking, Chained
  <2>2. SameLevel(node, next)
    BY <2>1 DEF Walking, Arrivals
  <2> QED BY <1>3, <2>1, <2>2 DEF Unvisited, SameLevel
<1>8. \A n \in DOMAIN location :
        n \in DOMAIN nodes' <=> Unvisited(n) \/ <<node, n>> \in before
  <2>1. \A n \in DOMAIN location :
          n \in DOMAIN nodes <=> Unvisited(n) \/ n = node \/ <<node, n>> \in before
    BY <1>1 DEF Walking, Listed, Remaining
  <2>2. <<node, node>> \notin before
    BY DEF Walking, Arrivals
  <2> QED BY <1>2, <1>3, <2>1, <2>2
<1>9. Listed'
  <2>1. DOMAIN nodes' \subseteq DOMAIN location
    BY <1>2 DEF Walking, Listed
  <2> QED BY <1>1, <1>5, <1>6, <1>7, <1>8, <2>1 DEF Listed
<1> QED BY <1>1, <1>4, <1>9 DEF Walking

(* When no list is left on a side, nothing of that side is.                *)
LEMMA ClearMapWalks ==
  ASSUME Walking, phase \in Sides, ClearMap
  PROVE  \/ phase' = "Sell" /\ Walking'
         \/ phase' = "index" /\ Cleared'
<1>1. /\ node = Null /\ node' = Null /\ left = {}
      /\ nodes' = nodes /\ location' = location /\ before' = before
  BY DEF ClearMap, callVars
<1>2. DOMAIN nodes = {n \in DOMAIN location : Unvisited(n)}
  BY <1>1 DEF Walking, Listed, Remaining
<1>3. CASE phase = "Buy"
  <2>1. phase' = "Sell" /\ left' = DOMAIN levels["Sell"]
    BY <1>3 DEF ClearMap
  <2>2. levels'["Sell"] = levels["Sell"]
    BY <1>3 DEF ClearMap, Walking, Entrances
  <2>3. Listed'
    <3>1. \A n \in DOMAIN location : Unvisited(n)' <=> Unvisited(n)
      BY <1>1, <1>3, <2>1 DEF Unvisited, Walking, Entrances
    <3> QED BY <1>1, <1>2, <3>1 DEF Listed, Remaining
  <2>4. Arrivals' /\ Chained'
    BY <1>1 DEF Walking, Arrivals, Chained, SameLevel
  <2>5. Entrances'
    BY <1>1, <1>3, <2>1, <2>2 DEF Walking, Entrances, Entrance, At
  <2> QED BY <2>1, <2>3, <2>4, <2>5 DEF Walking
<1>4. CASE phase = "Sell"
  <2>1. phase' = "index"
    BY <1>4 DEF ClearMap
  <2>2. DOMAIN nodes = {}
    BY <1>1, <1>2, <1>4 DEF Unvisited
  <2> QED BY <1>1, <2>1, <2>2 DEF Cleared
<1> QED BY <1>3, <1>4

(* Every step of a book's life keeps the invariant.                        *)
LEMMA NextLifeInv == LifeInv /\ [LifeNext]_lifeVars => LifeInv'
<1> SUFFICES ASSUME LifeInv, [LifeNext]_lifeVars PROVE LifeInv'
  OBVIOUS
<1>1. CASE Live
  <2>1. IInv' /\ node' = Null /\ phase' = "alive"
    BY <1>1, NextIInv DEF Live, LifeInv
  <2>2. nodes' = [n \in DOMAIN nodes' |-> nodes'[n]]
    BY <2>1 DEF IInv, StateTypes
  <2> QED BY <2>1, <2>2 DEF LifeInv
<1>2. CASE Destroy
  <2>1. IInv /\ node = Null /\ nodes' = nodes
    BY <1>2 DEF LifeInv, Destroy, vars
  <2> QED BY <1>2, <2>1, DestroyWalks DEF LifeInv
<1>3. CASE \E p \in left : EnterLevel(p)
  <2>1. phase \in Sides /\ Walking /\ nodes' = nodes
    BY <1>3 DEF LifeInv, EnterLevel, vars
  <2> QED BY <1>3, <2>1, EnterWalks DEF LifeInv
<1>4. CASE DeleteNode
  <2>1. phase \in Sides /\ Walking /\ nodes' = Without(nodes, node)
    BY <1>4 DEF LifeInv, DeleteNode
  <2>2. nodes' = [n \in DOMAIN nodes' |-> nodes'[n]]
    BY <2>1 DEF Without
  <2> QED BY <1>4, <2>1, <2>2, DeleteWalks DEF LifeInv
<1>5. CASE ClearMap
  <2>1. phase \in Sides /\ Walking /\ nodes' = nodes
    BY <1>5 DEF LifeInv, ClearMap
  <2> QED BY <1>5, <2>1, ClearMapWalks DEF LifeInv
<1>6. CASE ClearIndex
  BY <1>6 DEF LifeInv, ClearIndex, Cleared
<1>7. CASE UNCHANGED lifeVars
  <2>1. UNCHANGED vars
    BY <1>7 DEF lifeVars
  <2>2. IInv => IInv'
    BY <2>1, NextIInv
  <2>3. Walking => Walking'
    BY <1>7 DEF lifeVars, vars, Walking, Listed, Arrivals, Chained, Entrances, Entrance,
                Unvisited, Remaining, At, SameLevel
  <2>4. Cleared => Cleared'
    BY <1>7 DEF lifeVars, vars, Cleared
  <2> QED BY <1>7, <2>2, <2>3, <2>4 DEF lifeVars, vars, LifeInv
<1> QED BY <1>1, <1>2, <1>3, <1>4, <1>5, <1>6, <1>7 DEF LifeNext, Destructor

(* The invariant holds from the empty book to the end of its destructor.   *)
THEOREM LifeInvariant == LifeSpec => []LifeInv
<1>1. LifeInit => LifeInv
  <2> SUFFICES ASSUME LifeInit PROVE LifeInv
    OBVIOUS
  <2>1. IInv
    BY InitIInv DEF LifeInit
  <2>2. nodes = [n \in DOMAIN nodes |-> nodes[n]]
    BY <2>1 DEF IInv, StateTypes
  <2> QED BY <2>1, <2>2 DEF LifeInit, LifeInv
<1> QED BY <1>1, NextLifeInv, PTL DEF LifeSpec

(* clearLevels (book.cpp:17-34) never reads a node that was deleted.       *)
THEOREM DestructorReadsLiveNodes == LifeSpec => []NoUseAfterFree
<1>1. LifeInv => NoUseAfterFree
  BY DEF LifeInv, NoUseAfterFree, Walking, Listed, Remaining, Cleared
<1> QED BY <1>1, LifeInvariant, PTL

(* Every node a book ever allocated is deleted when ~Book (book.cpp:9-15)  *)
(* has returned.                                                           *)
THEOREM DestructorFreesAll == LifeSpec => []NothingLeaks
<1>1. LifeInv => NothingLeaks
  BY DEF LifeInv, NothingLeaks, Cleared, EmptyMap
<1> QED BY <1>1, LifeInvariant, PTL
=============================================================================
