------------------------------ MODULE BookProofs ------------------------------
(***************************************************************************)
(* Proofs about module Book, for any ids, owners and events: the order     *)
(* book of src/book.cpp keeps its lists, its index and its two sides in    *)
(* order through every iteration of every matching loop, never throws, and *)
(* every iteration trades.                                                 *)
(***************************************************************************)
EXTENDS Book, TLAPS

(* The inductive invariant.  It is the four safety invariants together:    *)
(* a match keeps the lists only of a well-formed book, a rest keeps the    *)
(* book uncrossed only because the loops of the same call have ended, and  *)
(* neither says anything about values that do not have their types.        *)
IInv == StateTypes /\ WellFormed /\ NotCrossed /\ NeverThrows

USE DEF Sides

(* The inductive invariant holds of the empty book a Book starts as. *)
LEMMA InitIInv == Init => IInv
<1> SUFFICES ASSUME Init PROVE IInv
  OBVIOUS
<1>1. StateTypes
  <2>1. levels = [side \in Sides |-> levels[side]]
    BY DEF Init
  <2>2. \A side \in Sides : DOMAIN levels[side] = {} /\ levels[side] = [x \in {} |-> x]
    BY DEF Init, EmptyMap
  <2>3. \A side \in Sides : levels[side] \in [DOMAIN levels[side] -> Level]
    BY <2>2
  <2>4. nodes \in [DOMAIN nodes -> Node] /\ DOMAIN nodes = {}
    BY DEF Init, EmptyMap
  <2>5. location \in [DOMAIN location -> LocationID] /\ DOMAIN location = {}
    BY DEF Init, EmptyMap
  <2>6. responses \in Seq(OrderEvent)
    BY DEF Init
  <2> QED BY <2>1, <2>2, <2>3, <2>4, <2>5, <2>6 DEF Init, StateTypes, IdOrNull
<1>2. WellFormed
  BY DEF Init, WellFormed, EmptyMap, IndexMatchesNodes, LevelsNonEmpty, LinksAreInverse, ArrivalIsOrder, ListsAreFifo, SweepOnBestLevel
<1>3. NotCrossed /\ NeverThrows
  BY DEF Init, NotCrossed, NeverThrows, EmptyMap
<1> QED BY <1>1, <1>2, <1>3 DEF IInv

-----------------------------------------------------------------------------
(* An event is never mistaken for the absence of a taker, and its fields   *)
(* have their types.                                                       *)
LEMMA EventType ==
  ASSUME NEW e \in Events
  PROVE  /\ e \in EventRecord
         /\ e # Null
         /\ e.order_type \in OrderTypes /\ e.side \in Sides /\ e.order_id \in Ids
         /\ e.owner_id \in Owners /\ e.quantity \in Int /\ e.price \in Int
BY EventsAssumption, NullAssumption DEF EventRecord

(* A response that repeats the fields of an order has the type of an       *)
(* OrderEvent.                                                             *)
LEMMA EchoType ==
  ASSUME NEW o, o.side \in Sides, o.order_id \in Ids, o.owner_id \in Owners,
         o.quantity \in Int, o.price \in Int, NEW type \in ResponseEvents
  PROVE  Echo(o, type) \in OrderEvent
BY DEF Echo, OrderEvent

(* A step that leaves the book's structure alone, outside the inner loop. *)
LEMMA SameBook ==
  ASSUME IInv, UNCHANGED bookVars, it = Null, it' = Null
  PROVE  WellFormed' /\ NotCrossed'
<1> USE DEF bookVars
<1>1. NotCrossed'
  BY DEF IInv, NotCrossed
<1>2. \A side, p : Oldest(side, p)' = Oldest(side, p)
  BY DEF Oldest, Swept
<1>3. SweepOnBestLevel'
  BY DEF SweepOnBestLevel
<1>4. IndexMatchesNodes' /\ ArrivalIsOrder'
  BY DEF IInv, WellFormed, IndexMatchesNodes, ArrivalIsOrder, SameLevel
<1>5. LevelsNonEmpty'
  BY <1>2 DEF IInv, WellFormed, LevelsNonEmpty, At, Oldest, Swept
<1>6. LinksAreInverse'
  BY <1>2 DEF IInv, WellFormed, LinksAreInverse, SameLevel
<1>7. ListsAreFifo'
  BY <1>2 DEF IInv, WellFormed, ListsAreFifo, SameLevel
<1> QED BY <1>1, <1>3, <1>4, <1>5, <1>6, <1>7 DEF WellFormed

(* Between two calls there is no taker, no cursor and no exception. *)
LEMMA IdleFacts ==
  ASSUME IInv, Idle
  PROVE  taker = Null /\ it = Null /\ ~threw
BY DEF IInv, WellFormed, SweepOnBestLevel, Idle

(* A handler that leaves the book alone and answers r. *)
LEMMA HandlerIInv ==
  ASSUME IInv, Idle, NEW e \in Events, NEW type \in ResponseEvents,
         UNCHANGED bookVars,
         \/ Reply(<<Echo(e, type)>>)
         \/ ~Known(e.order_id) /\ Engage(e, <<Echo(e, type)>>)
  PROVE  IInv'
<1>1. taker = Null /\ it = Null /\ ~threw
  BY IdleFacts
<1>2. it' = Null /\ threw' = FALSE
  BY <1>1 DEF Reply, Engage, IInv, StateTypes
<1>3. WellFormed' /\ NotCrossed'
  BY <1>1, <1>2, SameBook
<1>4. NeverThrows'
  BY <1>1, <1>2 DEF NeverThrows, Reply, Engage, bookVars, Known
<1>5. StateTypes'
  <2>1. taker' \in EventRecord \cup {Null}
    BY <1>1, EventType DEF Reply, Engage
  <2>2. responses' \in Seq(OrderEvent)
    <3>1. Echo(e, type) \in OrderEvent
      BY EventType, EchoType
    <3>2. <<Echo(e, type)>> \in Seq(OrderEvent)
      BY <3>1
    <3>3. responses' = <<Echo(e, type)>>
      BY DEF Reply, Engage
    <3> QED BY <3>2, <3>3
  <2> QED BY <1>2, <2>1, <2>2 DEF IInv, StateTypes, bookVars, IdOrNull
<1> QED BY <1>3, <1>4, <1>5 DEF IInv

(* ProcessAdd (book.cpp:106), up to its matching loop, preserves the       *)
(* invariant.                                                              *)
LEMMA AddIInv ==
  ASSUME IInv, NEW e \in Events, ProcessAdd(e)
  PROVE  IInv'
BY HandlerIInv DEF ProcessAdd, ResponseEvents

(* ProcessIOC (book.cpp:196), up to its matching loop, preserves the       *)
(* invariant.                                                              *)
LEMMA IOCIInv ==
  ASSUME IInv, NEW e \in Events, ProcessIOC(e)
  PROVE  IInv'
BY HandlerIInv DEF ProcessIOC, ResponseEvents

(* ProcessMarket (book.cpp:227), up to its matching loop, preserves the    *)
(* invariant.                                                              *)
LEMMA MarketIInv ==
  ASSUME IInv, NEW e \in Events, ProcessMarket(e)
  PROVE  IInv'
BY HandlerIInv DEF ProcessMarket, ResponseEvents
-----------------------------------------------------------------------------
(* A node is a level's first exactly if nothing is before it in the list,  *)
(* and its last exactly if nothing is after it.                            *)
LEMMA EndsOfList ==
  ASSUME StateTypes, WellFormed, it = Null, NEW n \in DOMAIN nodes
  PROVE  LET L == levels[location[n].side][location[n].price] IN
         /\ L.first \in DOMAIN nodes /\ L.last \in DOMAIN nodes
         /\ SameLevel(n, L.first) /\ SameLevel(n, L.last)
         /\ n = L.first <=> nodes[n].prev = Null
         /\ n = L.last <=> nodes[n].nxt = Null
<1> DEFINE side == location[n].side  p == location[n].price
<1>1. side \in Sides /\ p \in DOMAIN levels[side] /\ Null \notin DOMAIN nodes
  BY NullAssumption DEF StateTypes, WellFormed, IndexMatchesNodes, LocationID
<1>2. Oldest(side, p) = levels[side][p].first /\ ~Swept(side, p)
  BY DEF Oldest, Swept
<1>3. /\ levels[side][p].first \in DOMAIN nodes /\ levels[side][p].last \in DOMAIN nodes
      /\ SameLevel(n, levels[side][p].first) /\ SameLevel(n, levels[side][p].last)
      /\ n = levels[side][p].first => nodes[n].prev = Null
  BY <1>1, <1>2 DEF WellFormed, LevelsNonEmpty, SameLevel, At
<1>4. /\ n # levels[side][p].first => nodes[n].prev \in DOMAIN nodes
      /\ n = levels[side][p].last <=> nodes[n].nxt = Null
  BY <1>1, <1>2 DEF WellFormed, LinksAreInverse
<1> QED BY <1>1, <1>3, <1>4

(* removeFromSide. *)
LEMMA UnlinkKeeps ==
  ASSUME StateTypes, WellFormed, NotCrossed, it = Null, it' = Null,
         NEW id \in DOMAIN location, Unlink(id)
  PROVE  /\ WellFormed' /\ NotCrossed'
         /\ id \notin DOMAIN location'
<1> DEFINE s == location[id].side
           p == location[id].price
           L == levels[s][p]
           node == nodes[id]
           rest == [first |-> IF node.prev # Null THEN L.first ELSE node.nxt,
                    last  |-> IF node.nxt # Null THEN L.last ELSE node.prev,
                    total_quantity |-> L.total_quantity - node.quantity]
<1>1. /\ s \in Sides /\ p \in DOMAIN levels[s] /\ id \in DOMAIN nodes
      /\ DOMAIN nodes = DOMAIN location
      /\ Null \notin DOMAIN nodes
      /\ DOMAIN levels = Sides
  BY NullAssumption DEF StateTypes, WellFormed, IndexMatchesNodes, LocationID
<1>2. /\ DOMAIN nodes' = DOMAIN nodes \ {id}
      /\ \A n \in DOMAIN nodes \ {id} :
           /\ nodes'[n].nxt = IF n = node.prev THEN node.nxt ELSE nodes[n].nxt
           /\ nodes'[n].prev = IF n = node.nxt THEN node.prev ELSE nodes[n].prev
           /\ nodes'[n].owner_id = nodes[n].owner_id
           /\ nodes'[n].quantity = nodes[n].quantity
  BY SMTT(30), ZenonT(40) DEF Unlink, AfterUnlink, StateTypes, Node
<1>3. /\ DOMAIN location' = DOMAIN nodes \ {id}
      /\ \A n \in DOMAIN nodes \ {id} : location'[n] = location[n]
  BY <1>1 DEF Unlink, AfterUnlink, Without
<1>4. \A side \in Sides : \A q :
        /\ side # s \/ q # p =>
             /\ q \in DOMAIN levels'[side] <=> q \in DOMAIN levels[side]
             /\ q \in DOMAIN levels[side] => levels'[side][q] = levels[side][q]
        /\ side = s /\ q = p =>
             /\ q \in DOMAIN levels'[side] <=> rest.first # Null
             /\ rest.first # Null => levels'[side][q] = rest
  BY <1>1 DEF Unlink, AfterUnlink, Without, With
<1>5. before' = {pair \in before : pair[1] # id /\ pair[2] # id}
  BY DEF Unlink, AfterUnlink
<1>6. \A n \in DOMAIN nodes :
        LET K == levels[location[n].side][location[n].price] IN
         /\ K.first \in DOMAIN nodes /\ K.last \in DOMAIN nodes
         /\ SameLevel(n, K.first) /\ SameLevel(n, K.last)
         /\ n = K.first <=> nodes[n].prev = Null
         /\ n = K.last <=> nodes[n].nxt = Null
  BY EndsOfList
<1>7. \A n \in DOMAIN nodes :
        LET K == levels[location[n].side][location[n].price] IN
         /\ n # K.first =>
              /\ nodes[n].prev \in DOMAIN nodes /\ SameLevel(n, nodes[n].prev)
              /\ nodes[nodes[n].prev].nxt = n
              /\ <<K.first, n>> \in before
         /\ n # K.last =>
              /\ nodes[n].nxt \in DOMAIN nodes /\ SameLevel(n, nodes[n].nxt)
              /\ nodes[nodes[n].nxt].prev = n
              /\ <<n, K.last>> \in before
              /\ <<n, nodes[n].nxt>> \in before
              /\ \A m \in DOMAIN nodes :
                   SameLevel(m, n) /\ <<n, m>> \in before /\ m # nodes[n].nxt
                     => <<nodes[n].nxt, m>> \in before
  BY DEF WellFormed, LinksAreInverse, ListsAreFifo, Oldest, Swept
<1>8. \A m, n \in DOMAIN nodes :
        SameLevel(m, n) /\ m # n => (<<m, n>> \in before <=> <<n, m>> \notin before)
  BY DEF WellFormed, ArrivalIsOrder
<1>9. rest.first = Null => \A n \in DOMAIN nodes \ {id} : ~SameLevel(n, id)
  <2> SUFFICES ASSUME rest.first = Null, NEW n \in DOMAIN nodes \ {id}, SameLevel(n, id)
               PROVE  FALSE
    OBVIOUS
  <2>1. id = L.first /\ id = L.last
    BY <1>1, <1>6
  <2>2. <<id, n>> \in before /\ <<n, id>> \in before
    BY <2>1, <1>7, ZenonT(40) DEF SameLevel
  <2> QED BY <2>2, <1>8, <1>1 DEF SameLevel
<1>10. \A n \in DOMAIN nodes \ {id} :
         /\ location[n].side \in Sides
         /\ location[n].price \in DOMAIN levels[location[n].side]
         /\ location[n].price \in DOMAIN levels'[location[n].side]
  <2> TAKE n \in DOMAIN nodes \ {id}
  <2>1. /\ location[n].side \in Sides
        /\ location[n].price \in DOMAIN levels[location[n].side]
    BY <1>1 DEF StateTypes, LocationID, WellFormed, IndexMatchesNodes
  <2>2. CASE SameLevel(n, id)
    <3>1. rest.first # Null
      BY <1>9, <2>2
    <3> QED BY <1>1, <1>4, <2>1, <2>2, <3>1 DEF SameLevel
  <2>3. CASE ~SameLevel(n, id)
    <3>1. location[n].side # s \/ location[n].price # p
      BY <2>3 DEF SameLevel
    <3> QED BY <1>4, <2>1, <3>1
  <2> QED BY <2>2, <2>3
<1>11. IndexMatchesNodes'
  BY <1>1, <1>2, <1>3, <1>10 DEF WellFormed, IndexMatchesNodes
<1>12. ArrivalIsOrder'
  BY <1>2, <1>3, <1>5 DEF WellFormed, ArrivalIsOrder, SameLevel
<1>20. /\ node = nodes[id] /\ L = levels[s][p]
       /\ s = location[id].side /\ p = location[id].price
       /\ rest.first = IF node.prev # Null THEN L.first ELSE node.nxt
       /\ rest.last = IF node.nxt # Null THEN L.last ELSE node.prev
  OBVIOUS
<1>21. /\ L.first \in DOMAIN nodes /\ L.last \in DOMAIN nodes
       /\ SameLevel(id, L.first) /\ SameLevel(id, L.last)
       /\ id = L.first <=> node.prev = Null
       /\ id = L.last <=> node.nxt = Null
  BY <1>1, <1>6
<1> HIDE DEF node, L, s, p, rest
<1>23. \A n : <<n, n>> \notin before
  BY DEF WellFormed, ArrivalIsOrder
<1>24. nodes[L.first].prev = Null /\ nodes[L.last].nxt = Null
  BY <1>1, <1>6, <1>20, <1>21 DEF SameLevel
<1>22. /\ node.prev # Null =>
             /\ node.prev \in DOMAIN nodes \ {id} /\ SameLevel(id, node.prev)
             /\ nodes[node.prev].nxt = id
             /\ <<L.first, id>> \in before
       /\ node.nxt # Null =>
             /\ node.nxt \in DOMAIN nodes \ {id} /\ SameLevel(id, node.nxt)
             /\ nodes[node.nxt].prev = id
             /\ <<id, L.last>> \in before
             /\ <<id, node.nxt>> \in before
             /\ \A m \in DOMAIN nodes :
                   SameLevel(m, id) /\ <<id, m>> \in before /\ m # node.nxt
                     => <<node.nxt, m>> \in before
  <2>1. ASSUME node.prev # Null
        PROVE  /\ node.prev \in DOMAIN nodes /\ SameLevel(id, node.prev)
               /\ nodes[node.prev].nxt = id /\ <<L.first, id>> \in before
    BY <1>1, <1>7, <1>20, <1>21, <2>1
  <2>2. ASSUME node.nxt # Null
        PROVE  /\ node.nxt \in DOMAIN nodes /\ SameLevel(id, node.nxt)
               /\ nodes[node.nxt].prev = id
               /\ <<id, L.last>> \in before
               /\ <<id, node.nxt>> \in before
               /\ \A m \in DOMAIN nodes :
                   SameLevel(m, id) /\ <<id, m>> \in before /\ m # node.nxt
                     => <<node.nxt, m>> \in before
    BY <1>1, <1>7, <1>20, <1>21, <2>2
  <2>3. node.nxt # id
    BY <2>2, <1>1, <1>23
  <2>4. node.prev # id
    BY <2>1, <2>3, <1>1, <1>20
  <2> QED BY <2>1, <2>2, <2>3, <2>4
<1>13. LevelsNonEmpty'
  <2> SUFFICES ASSUME NEW side \in Sides, NEW q \in DOMAIN levels'[side],
                      NEW f, f = levels'[side][q].first,
                      NEW l, l = levels'[side][q].last
               PROVE  /\ f \in DOMAIN nodes'
                      /\ location'[f].side = side /\ location'[f].price = q
                      /\ nodes'[f].prev = Null
                      /\ l \in DOMAIN nodes'
                      /\ location'[l].side = side /\ location'[l].price = q
    BY DEF LevelsNonEmpty, Oldest, Swept, At
  <2>1. CASE side # s \/ q # p
    <3>1. /\ q \in DOMAIN levels[side]
          /\ f = levels[side][q].first /\ l = levels[side][q].last
      BY <1>4, <2>1
    <3>2. /\ f \in DOMAIN nodes /\ location[f].side = side /\ location[f].price = q
          /\ nodes[f].prev = Null
          /\ l \in DOMAIN nodes /\ location[l].side = side /\ location[l].price = q
      BY <3>1 DEF WellFormed, LevelsNonEmpty, Oldest, Swept, At
    <3>3. f # id /\ l # id
      BY <1>20, <2>1, <3>2
    <3>4. f # node.nxt
      BY <1>1, <1>20, <1>22, <2>1, <3>2 DEF SameLevel
    <3> QED BY <1>2, <1>3, <3>2, <3>3, <3>4, <1>20
  <2>2. CASE side = s /\ q = p
    <3>1. rest.first # Null /\ f = rest.first /\ l = rest.last
      BY <1>4, <2>2
    <3>2. f \in DOMAIN nodes \ {id} /\ SameLevel(id, f)
      BY <1>1, <1>20, <1>21, <1>22, <3>1
    <3>3. nodes'[f].prev = Null
      <4>1. CASE node.prev = Null
        BY <1>2, <1>20, <3>1, <3>2, <4>1
      <4>2. CASE node.prev # Null
        <5>1. f = L.first /\ f # node.nxt
          BY <1>1, <1>20, <1>22, <1>24, <3>1, <4>2
        <5> QED BY <1>2, <1>24, <3>2, <5>1
      <4> QED BY <4>1, <4>2
    <3>4. l \in DOMAIN nodes \ {id} /\ SameLevel(id, l)
      BY <1>1, <1>20, <1>21, <1>22, <3>1
    <3> QED BY <1>2, <1>3, <1>20, <2>2, <3>1, <3>2, <3>3, <3>4 DEF SameLevel
  <2> QED BY <2>1, <2>2
<1>14. ASSUME NEW n \in DOMAIN nodes \ {id}, NEW K,
              K = levels'[location[n].side][location[n].price]
       PROVE  /\ IF n = K.last
                 THEN nodes'[n].nxt = Null
                 ELSE nodes'[n].nxt \in DOMAIN nodes \ {id} /\ SameLevel(n, nodes'[n].nxt) /\ nodes'[nodes'[n].nxt].prev = n
              /\ n # K.first =>
                   nodes'[n].prev \in DOMAIN nodes \ {id} /\ SameLevel(n, nodes'[n].prev) /\ nodes'[nodes'[n].prev].nxt = n
              /\ n # K.first => <<K.first, n>> \in before
              /\ n # K.last =>
                   /\ <<n, K.last>> \in before
                   /\ <<n, nodes'[n].nxt>> \in before
                   /\ \A m \in DOMAIN nodes \ {id} :
                        SameLevel(m, n) /\ <<n, m>> \in before /\ m # nodes'[n].nxt
                          => <<nodes'[n].nxt, m>> \in before
  <2> SUFFICES ASSUME NEW nx, nx = nodes'[n].nxt, NEW pr, pr = nodes'[n].prev
               PROVE  /\ IF n = K.last
                         THEN nx = Null
                         ELSE nx \in DOMAIN nodes \ {id} /\ SameLevel(n, nx) /\ nodes'[nx].prev = n
                      /\ n # K.first =>
                           pr \in DOMAIN nodes \ {id} /\ SameLevel(n, pr) /\ nodes'[pr].nxt = n
                      /\ n # K.first => <<K.first, n>> \in before
                      /\ n # K.last =>
                           /\ <<n, K.last>> \in before
                           /\ <<n, nx>> \in before
                           /\ \A m \in DOMAIN nodes \ {id} :
                                SameLevel(m, n) /\ <<n, m>> \in before /\ m # nx
                                  => <<nx, m>> \in before
    OBVIOUS
  <2>1. CASE ~SameLevel(n, id)
    <3>1. K = levels[location[n].side][location[n].price]
      BY <1>4, <1>10, <1>14, <1>20, <2>1 DEF SameLevel
    <3>2. nx = nodes[n].nxt /\ pr = nodes[n].prev
      <4>1. n # node.prev /\ n # node.nxt
        BY <1>1, <1>22, <2>1 DEF SameLevel
      <4> QED BY <1>2, <1>20, <4>1
    <3>3. \A m \in DOMAIN nodes : SameLevel(n, m) => m # id /\ m # node.nxt /\ m # node.prev
      BY <1>20, <1>22, <1>1, <2>1 DEF SameLevel
    <3>4. n # K.last =>
            /\ nx \in DOMAIN nodes \ {id} /\ SameLevel(n, nx) /\ nodes'[nx].prev = n
      <4> SUFFICES ASSUME n # K.last
                   PROVE  nx \in DOMAIN nodes \ {id} /\ SameLevel(n, nx) /\ nodes'[nx].prev = n
        OBVIOUS
      <4>1. nx \in DOMAIN nodes /\ SameLevel(n, nx) /\ nodes[nx].prev = n
        BY <1>7, <3>1, <3>2
      <4>2. nx # id /\ nx # node.nxt
        BY <3>3, <4>1
      <4> QED BY <1>2, <1>20, <4>1, <4>2
    <3>5. n # K.first =>
            /\ pr \in DOMAIN nodes \ {id} /\ SameLevel(n, pr) /\ nodes'[pr].nxt = n
      <4> SUFFICES ASSUME n # K.first
                   PROVE  pr \in DOMAIN nodes \ {id} /\ SameLevel(n, pr) /\ nodes'[pr].nxt = n
        OBVIOUS
      <4>1. pr \in DOMAIN nodes /\ SameLevel(n, pr) /\ nodes[pr].nxt = n
        BY <1>7, <3>1, <3>2
      <4>2. pr # id /\ pr # node.prev
        BY <3>3, <4>1
      <4> QED BY <1>2, <1>20, <4>1, <4>2
    <3> QED BY <1>6, <1>7, <3>1, <3>2, <3>4, <3>5
  <2>2. CASE SameLevel(n, id)
    <3>1. K.first = rest.first /\ K.last = rest.last
      BY <1>1, <1>4, <1>9, <1>14, <1>20, <2>2 DEF SameLevel
    <3>2. L = levels[location[n].side][location[n].price]
      BY <1>20, <2>2 DEF SameLevel
    <3>3. /\ n = L.first <=> nodes[n].prev = Null
          /\ n = L.last <=> nodes[n].nxt = Null
      BY <1>6, <3>2
    <3>4. /\ n # L.first =>
               /\ nodes[n].prev \in DOMAIN nodes /\ SameLevel(n, nodes[n].prev)
               /\ nodes[nodes[n].prev].nxt = n
               /\ <<L.first, n>> \in before
          /\ n # L.last =>
               /\ nodes[n].nxt \in DOMAIN nodes /\ SameLevel(n, nodes[n].nxt)
               /\ nodes[nodes[n].nxt].prev = n
               /\ <<n, L.last>> \in before
               /\ <<n, nodes[n].nxt>> \in before
               /\ \A m \in DOMAIN nodes :
                    SameLevel(m, n) /\ <<n, m>> \in before /\ m # nodes[n].nxt
                      => <<nodes[n].nxt, m>> \in before
      BY <1>7, <3>2
    <3>5. n # K.last => n # L.last
      BY <1>20, <1>21, <3>1
    <3>6. /\ nx = IF n = node.prev THEN node.nxt ELSE nodes[n].nxt
          /\ pr = IF n = node.nxt THEN node.prev ELSE nodes[n].prev
      BY <1>2, <1>20
    <3>7. /\ nodes[n].nxt = id <=> n = node.prev
          /\ nodes[n].prev = id <=> n = node.nxt
      BY <1>1, <1>20, <1>22, <3>3, <3>4
    <3>8. /\ nodes[n].nxt # Null /\ nodes[n].nxt = node.nxt => n = id
          /\ nodes[n].prev # Null /\ nodes[n].prev = node.prev => n = id
      BY <1>1, <1>22, <3>3, <3>4
    <3>9. IF n = K.last
          THEN nx = Null
          ELSE nx \in DOMAIN nodes \ {id} /\ SameLevel(n, nx) /\ nodes'[nx].prev = n
      <4>1. CASE n = node.prev
        <5>1. nx = node.nxt /\ n # L.last
          BY <1>22, <1>1, <3>3, <3>6, <3>7, <4>1
        <5>2. n = K.last <=> node.nxt = Null
          BY <1>20, <1>21, <3>1, <4>1, <5>1
        <5>3. node.nxt # Null => nodes'[node.nxt].prev = n
          BY <1>2, <1>20, <1>22, <4>1
        <5> QED BY <1>22, <2>2, <5>1, <5>2, <5>3 DEF SameLevel
      <4>2. CASE n # node.prev
        <5>1. nx = nodes[n].nxt /\ nx # id
          BY <3>6, <3>7, <4>2
        <5>2. n = K.last <=> nx = Null
          BY <1>1, <1>20, <1>21, <3>1, <3>3, <3>5, <4>2, <5>1
        <5>3. n # K.last =>
                nx \in DOMAIN nodes \ {id} /\ SameLevel(n, nx) /\ nodes[nx].prev = n /\ nx # node.nxt
          BY <1>1, <3>4, <3>5, <3>8, <5>1
        <5> QED BY <1>2, <1>20, <5>2, <5>3
      <4> QED BY <4>1, <4>2
    <3>10. n # K.first =>
             pr \in DOMAIN nodes \ {id} /\ SameLevel(n, pr) /\ nodes'[pr].nxt = n
      <4> SUFFICES ASSUME n # K.first
                   PROVE  pr \in DOMAIN nodes \ {id} /\ SameLevel(n, pr) /\ nodes'[pr].nxt = n
        OBVIOUS
      <4>1. CASE n = node.nxt
        <5>1. node.prev # Null /\ pr = node.prev
          BY <1>20, <3>1, <3>6, <4>1
        <5>2. nodes'[node.prev].nxt = n
          BY <1>2, <1>20, <1>22, <4>1, <5>1
        <5> QED BY <1>22, <2>2, <5>1, <5>2 DEF SameLevel
      <4>2. CASE n # node.nxt
        <5>1. pr = nodes[n].prev /\ pr # id
          BY <3>6, <3>7, <4>2
        <5>2. n # L.first
          BY <1>20, <1>21, <3>1, <4>2
        <5>3. /\ pr \in DOMAIN nodes \ {id} /\ SameLevel(n, pr) /\ nodes[pr].nxt = n
              /\ pr # node.prev
          BY <1>1, <3>4, <3>8, <5>1, <5>2
        <5> QED BY <1>2, <1>20, <5>3
      <4> QED BY <4>1, <4>2
    <3>11. n # K.first => <<K.first, n>> \in before
      <4>1. CASE node.prev # Null
        BY <1>20, <3>1, <3>4, <4>1
      <4>2. CASE node.prev = Null
        <5>1. K.first = node.nxt /\ id = L.first /\ node.nxt # Null
          BY <1>9, <1>20, <1>21, <2>2, <3>1, <4>2
        <5>2. <<id, n>> \in before
          BY <3>4, <5>1
        <5> QED BY <1>22, <2>2, <5>1, <5>2 DEF SameLevel
      <4> QED BY <4>1, <4>2
    <3>12. n # K.last => <<n, K.last>> \in before
      <4>1. CASE node.nxt # Null
        BY <1>20, <3>1, <3>4, <4>1
      <4>2. CASE node.nxt = Null
        <5>1. K.last = node.prev /\ id = L.last
          BY <1>20, <1>21, <3>1, <4>2
        <5>2. node.prev # Null
          BY <1>9, <1>20, <2>2, <4>2
        <5>3. <<n, id>> \in before /\ <<id, n>> \notin before
          BY <1>1, <1>8, <2>2, <3>4, <5>1
        <5>4. n # node.prev => <<node.prev, n>> \notin before
          <6>1. nodes[node.prev].nxt = id /\ node.prev \in DOMAIN nodes
            BY <1>22, <5>2
          <6>2. node.prev # levels[location[node.prev].side][location[node.prev].price].last
            BY <1>1, <1>6, <6>1
          <6>3. SameLevel(n, node.prev) /\ <<node.prev, n>> \in before /\ n # id
                  => <<id, n>> \in before
            BY <1>7, <6>1, <6>2
          <6> QED BY <1>22, <2>2, <5>2, <5>3, <6>3 DEF SameLevel
        <5> QED BY <1>8, <1>22, <2>2, <5>1, <5>2, <5>4 DEF SameLevel
      <4> QED BY <4>1, <4>2
    <3>13. n # K.last =>
              /\ <<n, nx>> \in before
              /\ \A m \in DOMAIN nodes \ {id} :
                   SameLevel(m, n) /\ <<n, m>> \in before /\ m # nx
                     => <<nx, m>> \in before
      <4> SUFFICES ASSUME n # K.last
                   PROVE  /\ <<n, nx>> \in before
                          /\ \A m \in DOMAIN nodes \ {id} :
                               SameLevel(m, n) /\ <<n, m>> \in before /\ m # nx
                                 => <<nx, m>> \in before
        OBVIOUS
      <4>1. CASE n = node.prev
        <5>1. nx = node.nxt /\ node.nxt # Null /\ nodes[n].nxt = id
          BY <1>20, <3>1, <3>6, <3>7, <4>1
        <5>2. <<n, id>> \in before /\ <<id, node.nxt>> \in before
          BY <1>22, <3>4, <3>5, <5>1
        <5>3. <<n, nx>> \in before
          BY <1>1, <1>22, <5>1, <5>2 DEF WellFormed, ArrivalIsOrder
        <5>4. ASSUME NEW m \in DOMAIN nodes \ {id},
                     SameLevel(m, n), <<n, m>> \in before, m # nx
              PROVE  <<nx, m>> \in before
          <6>1. <<id, m>> \in before
            BY <3>4, <3>5, <5>1, <5>4
          <6> QED BY <1>22, <2>2, <5>1, <5>4, <6>1 DEF SameLevel
        <5> QED BY <5>3, <5>4
      <4>2. CASE n # node.prev
        BY <3>4, <3>5, <3>6, <4>2
      <4> QED BY <4>1, <4>2
    <3> QED BY <3>9, <3>10, <3>11, <3>12, <3>13
  <2> QED BY <2>1, <2>2
<1>25. LinksAreInverse'
  <2> SUFFICES ASSUME NEW n \in DOMAIN nodes', NEW K,
                      K = levels'[location'[n].side][location'[n].price]
               PROVE  /\ IF n = K.last
                         THEN nodes'[n].nxt = Null
                         ELSE /\ nodes'[n].nxt \in DOMAIN nodes'
                              /\ SameLevel(n, nodes[n].nxt)'
                              /\ nodes'[nodes'[n].nxt].prev = n
                      /\ n # K.first =>
                           /\ nodes'[n].prev \in DOMAIN nodes'
                           /\ SameLevel(n, nodes[n].prev)'
                           /\ nodes'[nodes'[n].prev].nxt = n
    BY DEF LinksAreInverse, Oldest, Swept
  <2>1. n \in DOMAIN nodes \ {id} /\ K = levels'[location[n].side][location[n].price]
    BY <1>2, <1>3
  <2>2. /\ IF n = K.last
           THEN nodes'[n].nxt = Null
           ELSE /\ nodes'[n].nxt \in DOMAIN nodes \ {id}
                /\ SameLevel(n, nodes'[n].nxt)
                /\ nodes'[nodes'[n].nxt].prev = n
        /\ n # K.first =>
             /\ nodes'[n].prev \in DOMAIN nodes \ {id}
             /\ SameLevel(n, nodes'[n].prev)
             /\ nodes'[nodes'[n].prev].nxt = n
    BY <1>14, <2>1
  <2> QED BY <1>2, <1>3, <2>1, <2>2 DEF SameLevel
<1>15. ListsAreFifo'
  <2> SUFFICES ASSUME NEW n \in DOMAIN nodes', NEW K,
                      K = levels'[location'[n].side][location'[n].price]
               PROVE  /\ n # K.first => <<K.first, n>> \in before'
                      /\ n # K.last =>
                           /\ <<n, K.last>> \in before'
                           /\ <<n, nodes'[n].nxt>> \in before'
                           /\ \A m \in DOMAIN nodes' :
                                SameLevel(m, n)' /\ <<n, m>> \in before' /\ m # nodes'[n].nxt
                                  => <<nodes'[n].nxt, m>> \in before'
    BY DEF ListsAreFifo, Oldest, Swept
  <2>1. n \in DOMAIN nodes \ {id} /\ K = levels'[location[n].side][location[n].price]
    BY <1>2, <1>3
  <2>2. K.first # id /\ K.last # id
    BY <1>2, <1>3, <1>10, <1>13, <2>1 DEF LevelsNonEmpty, Oldest, Swept
  <2>3. n # K.last => nodes'[n].nxt # id
    BY <1>14, <2>1
  <2>4. /\ n # K.first => <<K.first, n>> \in before'
        /\ n # K.last =>
             /\ <<n, K.last>> \in before'
             /\ <<n, nodes'[n].nxt>> \in before'
    BY <1>5, <1>14, <2>1, <2>2, <2>3
  <2>5. ASSUME n # K.last, NEW m \in DOMAIN nodes',
               SameLevel(m, n)', <<n, m>> \in before', m # nodes'[n].nxt
        PROVE  <<nodes'[n].nxt, m>> \in before'
    <3>1. m \in DOMAIN nodes \ {id} /\ SameLevel(m, n) /\ <<n, m>> \in before
      BY <1>2, <1>3, <1>5, <2>1, <2>5 DEF SameLevel
    <3>2. <<nodes'[n].nxt, m>> \in before
      BY <1>14, <2>1, <2>5, <3>1
    <3> QED BY <1>5, <2>3, <2>5, <3>1, <3>2
  <2> QED BY <2>4, <2>5
<1>16. SweepOnBestLevel'
  BY DEF SweepOnBestLevel
<1>17. NotCrossed'
  BY <1>4, <1>1 DEF NotCrossed
<1> QED BY <1>3, <1>11, <1>12, <1>13, <1>15, <1>16, <1>17, <1>25 DEF WellFormed

(* removeFromSide (book.cpp:379) leaves levels, nodes and index of their   *)
(* types.                                                                  *)
LEMMA UnlinkTypes ==
  ASSUME StateTypes, WellFormed, it = Null, NEW id \in DOMAIN location, Unlink(id)
  PROVE  /\ levels' = [side \in Sides |-> levels'[side]]
         /\ \A side \in Sides :
              /\ DOMAIN levels'[side] \subseteq Int
              /\ levels'[side] \in [DOMAIN levels'[side] -> Level]
         /\ DOMAIN nodes' \subseteq Ids /\ nodes' \in [DOMAIN nodes' -> Node]
         /\ DOMAIN location' \subseteq Ids /\ location' \in [DOMAIN location' -> LocationID]
         /\ before' \subseteq Ids \X Ids
<1> DEFINE s == location[id].side
           p == location[id].price
           L == levels[s][p]
           node == nodes[id]
           rest == [first |-> IF node.prev # Null THEN L.first ELSE node.nxt,
                    last  |-> IF node.nxt # Null THEN L.last ELSE node.prev,
                    total_quantity |-> L.total_quantity - node.quantity]
<1>1. /\ s \in Sides /\ p \in DOMAIN levels[s] /\ id \in DOMAIN nodes
      /\ DOMAIN levels = Sides /\ p \in Int /\ L \in Level /\ node \in Node
  BY DEF StateTypes, WellFormed, IndexMatchesNodes, LocationID
<1>2. rest \in Level
  BY <1>1 DEF Level, Node
<1>3. levels' = [levels EXCEPT ![s] =
                   IF rest.first = Null THEN Without(@, p) ELSE With(@, p, rest)]
  BY DEF Unlink, AfterUnlink
<1> HIDE DEF s, p, rest
<1>4. \A side \in Sides :
        /\ DOMAIN levels'[side] \subseteq Int
        /\ levels'[side] \in [DOMAIN levels'[side] -> Level]
  <2> TAKE side \in Sides
  <2>1. CASE side # s
    BY <1>1, <1>3, <2>1 DEF StateTypes
  <2>2. CASE side = s /\ rest.first = Null
    <3>1. levels'[side] = Without(levels[side], p)
      BY <1>1, <1>3, <2>2
    <3> QED BY <3>1 DEF StateTypes, Without
  <2>3. CASE side = s /\ rest.first # Null
    <3>1. levels'[side] = With(levels[side], p, rest)
      BY <1>1, <1>3, <2>3
    <3> QED BY <1>1, <1>2, <3>1 DEF StateTypes, With
  <2> QED BY <2>1, <2>2, <2>3
<1>5. levels' = [side \in Sides |-> levels'[side]]
  BY <1>1, <1>3 DEF StateTypes
<1>6. DOMAIN nodes' \subseteq Ids /\ nodes' \in [DOMAIN nodes' -> Node]
  <2>1. nodes' = [n \in DOMAIN nodes \ {id} |->
                    [nodes[n] EXCEPT
                       !.nxt = IF n = node.prev THEN node.nxt ELSE @,
                       !.prev = IF n = node.nxt THEN node.prev ELSE @]]
    BY DEF Unlink, AfterUnlink
  <2> HIDE DEF node
  <2>2. node.nxt \in IdOrNull /\ node.prev \in IdOrNull
    BY <1>1 DEF Node
  <2>3. \A n \in DOMAIN nodes \ {id} :
          [nodes[n] EXCEPT
                       !.nxt = IF n = node.prev THEN node.nxt ELSE @,
                       !.prev = IF n = node.nxt THEN node.prev ELSE @] \in Node
    BY <2>2 DEF StateTypes, Node
  <2> QED BY <2>1, <2>3 DEF StateTypes
<1>7. /\ DOMAIN location' \subseteq Ids /\ location' \in [DOMAIN location' -> LocationID]
      /\ before' \subseteq Ids \X Ids
  BY DEF Unlink, AfterUnlink, Without, StateTypes
<1> QED BY <1>4, <1>5, <1>6, <1>7

(* The Order that removeFromSide returns (book.cpp:403) has its type. *)
LEMMA RemovedType ==
  ASSUME StateTypes, WellFormed, NEW id \in DOMAIN location
  PROVE  /\ Removed(id).side \in Sides /\ Removed(id).order_id \in Ids
         /\ Removed(id).owner_id \in Owners /\ Removed(id).quantity \in Int
         /\ Removed(id).price \in Int
<1>1. location[id] \in LocationID /\ nodes[id] \in Node /\ id \in Ids
  BY DEF StateTypes, WellFormed, IndexMatchesNodes
<1> QED BY <1>1 DEF Removed, LocationID, Node

(* ProcessCancel (book.cpp:134), successful or not, preserves the          *)
(* invariant.                                                              *)
LEMMA CancelIInv ==
  ASSUME IInv, NEW e \in Events, ProcessCancel(e)
  PROVE  IInv'
<1>1. Idle /\ taker = Null /\ it = Null /\ ~threw
  BY IdleFacts DEF ProcessCancel
<1>2. CASE ~Removable(e.order_id, e.owner_id)
  BY <1>1, <1>2, HandlerIInv DEF ProcessCancel, ResponseEvents
<1>3. CASE Removable(e.order_id, e.owner_id)
  <2> DEFINE id == e.order_id
  <2>1. /\ id \in DOMAIN location /\ Unlink(id)
        /\ responses' = <<Echo(Removed(id), "OrderCancelled")>>
        /\ taker' = Null /\ it' = Null /\ threw' = FALSE
    BY <1>1, <1>3 DEF ProcessCancel, Removable, Known, Reply, IInv, StateTypes
  <2> HIDE DEF id
  <2>2. WellFormed' /\ NotCrossed'
    BY <1>1, <2>1, UnlinkKeeps DEF IInv
  <2>3. responses' \in Seq(OrderEvent)
    <3>1. Echo(Removed(id), "OrderCancelled") \in OrderEvent
      BY <2>1, RemovedType, EchoType DEF IInv, ResponseEvents
    <3>2. <<Echo(Removed(id), "OrderCancelled")>> \in Seq(OrderEvent)
      BY <3>1
    <3> QED BY <2>1, <3>2
  <2>4. StateTypes'
    BY <1>1, <2>1, <2>3, UnlinkTypes DEF IInv, StateTypes, IdOrNull
  <2>5. NeverThrows'
    BY <2>1 DEF NeverThrows
  <2> QED BY <2>2, <2>4, <2>5 DEF IInv
<1> QED BY <1>2, <1>3

(* ProcessMod (book.cpp:148), up to its matching loop, preserves the       *)
(* invariant.                                                              *)
LEMMA ModIInv ==
  ASSUME IInv, NEW e \in Events, ProcessMod(e)
  PROVE  IInv'
<1>1. Idle /\ taker = Null /\ it = Null /\ ~threw
  BY IdleFacts DEF ProcessMod
<1>2. CASE ~(Modifiable(e) /\ Removable(e.order_id, e.owner_id))
  BY <1>1, <1>2, HandlerIInv DEF ProcessMod, ResponseEvents
<1>3. CASE Modifiable(e) /\ Removable(e.order_id, e.owner_id)
  <2> DEFINE id == e.order_id
             rs == <<Echo(Removed(id), "OrderModified"), Echo(e, "OrderModifyAccepted")>>
  <2>1. /\ id \in DOMAIN location /\ Unlink(id)
        /\ responses' = rs
        /\ taker' = e /\ it' = Null /\ threw' = FALSE
    BY <1>1, <1>3 DEF ProcessMod, Removable, Known, Engage, IInv, StateTypes
  <2>2. WellFormed' /\ NotCrossed' /\ id \notin DOMAIN location'
    BY <1>1, <2>1, UnlinkKeeps DEF IInv
  <2>3. responses' \in Seq(OrderEvent)
    <3>1. Echo(Removed(id), "OrderModified") \in OrderEvent
      BY <2>1, RemovedType, EchoType DEF IInv, ResponseEvents
    <3>2. Echo(e, "OrderModifyAccepted") \in OrderEvent
      BY EventType, EchoType DEF ResponseEvents
    <3>3. rs \in Seq(OrderEvent)
      BY <3>1, <3>2
    <3> QED BY <2>1, <3>3
  <2>4. StateTypes'
    BY <1>1, <2>1, <2>3, UnlinkTypes, EventType DEF IInv, StateTypes, IdOrNull
  <2>5. NeverThrows'
    BY <2>1, <2>2 DEF NeverThrows
  <2> QED BY <2>2, <2>4, <2>5 DEF IInv
<1> QED BY <1>2, <1>3
-----------------------------------------------------------------------------
(* rest_order, whether or not the price has a level. *)
LEMMA RestKeeps ==
  ASSUME StateTypes, WellFormed, NotCrossed, it = Null, it' = Null,
         NEW o \in EventRecord, o.order_id \notin DOMAIN location, HasLeft(o),
         o.order_type # "Market",
         \A q \in DOMAIN levels[Opposite(o.side)] : ~Crosses(o, q),
         RestOrder(o)
  PROVE  WellFormed' /\ NotCrossed'
<1> DEFINE id == o.order_id
           s == o.side
           p == o.price
           old == IF p \in DOMAIN levels[s] THEN levels[s][p].last ELSE Null
<1>1. /\ s \in Sides /\ p \in Int /\ id \in Ids
      /\ DOMAIN nodes = DOMAIN location /\ id \notin DOMAIN nodes
      /\ Null \notin DOMAIN nodes /\ id # Null
      /\ DOMAIN levels = Sides
  BY NullAssumption DEF StateTypes, WellFormed, IndexMatchesNodes, EventRecord
<1>2. /\ p \in DOMAIN levels[s] => old \in DOMAIN nodes /\ At(old, s, p)
      /\ \A n \in DOMAIN nodes : At(n, s, p) => p \in DOMAIN levels[s]
  BY <1>1 DEF WellFormed, LevelsNonEmpty, IndexMatchesNodes, At
<1>3. /\ DOMAIN nodes' = DOMAIN nodes \cup {id}
      /\ nodes'[id] = [nxt |-> Null, prev |-> old, owner_id |-> o.owner_id, quantity |-> o.quantity]
      /\ \A n \in DOMAIN nodes :
           /\ nodes'[n].nxt = IF n = old THEN id ELSE nodes[n].nxt
           /\ nodes'[n].prev = nodes[n].prev
           /\ nodes'[n].owner_id = nodes[n].owner_id
           /\ nodes'[n].quantity = nodes[n].quantity
  <2>1. CASE p \notin DOMAIN levels[s]
    BY <1>1, <2>1 DEF RestOrder, InitLevel, NewNode, With
  <2>2. CASE p \in DOMAIN levels[s]
    <3>1. nodes' = With([nodes EXCEPT ![old].nxt = id], id, NewNode(o, old))
      BY <2>2 DEF RestOrder, AddOrder
    <3>2. \A n \in DOMAIN nodes :
            /\ [nodes EXCEPT ![old].nxt = id][n].nxt = IF n = old THEN id ELSE nodes[n].nxt
            /\ [nodes EXCEPT ![old].nxt = id][n].prev = nodes[n].prev
            /\ [nodes EXCEPT ![old].nxt = id][n].owner_id = nodes[n].owner_id
            /\ [nodes EXCEPT ![old].nxt = id][n].quantity = nodes[n].quantity
      BY DEF StateTypes, Node
    <3> HIDE DEF id, old
    <3> DEFINE f == [nodes EXCEPT ![old].nxt = id]
    <3>3. DOMAIN f = DOMAIN nodes
      OBVIOUS
    <3> HIDE DEF f
    <3>4. /\ DOMAIN nodes' = DOMAIN f \cup {id}
          /\ nodes'[id] = NewNode(o, old)
          /\ \A n \in DOMAIN f : n # id => nodes'[n] = f[n]
      BY <3>1 DEF With, f
    <3>5. \A n \in DOMAIN nodes : nodes'[n] = f[n]
      BY <1>1, <3>3, <3>4
    <3> QED BY <3>2, <3>3, <3>4, <3>5 DEF NewNode, f
  <2> QED BY <2>1, <2>2
<1>4. /\ DOMAIN location' = DOMAIN nodes'
      /\ location'[id] = [side |-> s, owner_id |-> o.owner_id, price |-> p]
      /\ \A n \in DOMAIN nodes : location'[n] = location[n]
  BY <1>1, <1>3 DEF RestOrder, With
<1>5. /\ \A side \in Sides : \A q : side # s \/ q # p =>
             /\ q \in DOMAIN levels'[side] <=> q \in DOMAIN levels[side]
             /\ q \in DOMAIN levels[side] => levels'[side][q] = levels[side][q]
      /\ p \in DOMAIN levels'[s]
      /\ levels'[s][p].last = id
      /\ levels'[s][p].first = IF p \in DOMAIN levels[s] THEN levels[s][p].first ELSE id
  <2>1. CASE p \notin DOMAIN levels[s]
    BY <1>1, <2>1 DEF RestOrder, InitLevel, With
  <2>2. CASE p \in DOMAIN levels[s]
    <3> DEFINE v == [first |-> levels[s][p].first, last |-> id,
                     total_quantity |-> levels[s][p].total_quantity + o.quantity]
    <3>1. levels' = [levels EXCEPT ![s] = With(@, p, v)]
      BY <2>2 DEF RestOrder, AddOrder
    <3>2. v.last = id /\ v.first = levels[s][p].first
      OBVIOUS
    <3> HIDE DEF v
    <3>3. /\ levels'[s] = With(levels[s], p, v)
          /\ \A side \in Sides \ {s} : levels'[side] = levels[side]
      BY <1>1, <3>1
    <3>4. /\ DOMAIN levels'[s] = DOMAIN levels[s] \cup {p}
          /\ levels'[s][p] = v
          /\ \A q \in DOMAIN levels[s] : q # p => levels'[s][q] = levels[s][q]
      BY <3>3 DEF With
    <3> QED BY <2>2, <3>2, <3>3, <3>4
  <2> QED BY <2>1, <2>2
<1>6. before' = before \cup {<<m, id>> : m \in {n \in DOMAIN nodes : At(n, s, p)}}
  BY <1>1 DEF RestOrder, At
<1>7. /\ o.quantity > 0 /\ id \notin DOMAIN location
      /\ \A q \in DOMAIN levels[Opposite(s)] : ~Crosses(o, q)
  BY DEF HasLeft
<1> HIDE DEF id, s, p, old
<1>8. IndexMatchesNodes'
  <2>1. \A side \in Sides : DOMAIN levels[side] \subseteq DOMAIN levels'[side]
    BY <1>5
  <2>2. \A n \in DOMAIN nodes :
          /\ location[n].side \in Sides
          /\ location[n].owner_id = nodes[n].owner_id
          /\ location[n].price \in DOMAIN levels[location[n].side]
          /\ nodes[n].quantity > 0
    BY <1>1 DEF WellFormed, IndexMatchesNodes, StateTypes, LocationID
  <2>3. \A n \in DOMAIN nodes :
          /\ location'[n].owner_id = nodes'[n].owner_id
          /\ location'[n].price \in DOMAIN levels'[location'[n].side]
          /\ nodes'[n].quantity > 0
    BY <1>3, <1>4, <2>1, <2>2
  <2>4. /\ location'[id].owner_id = nodes'[id].owner_id
        /\ location'[id].price \in DOMAIN levels'[location'[id].side]
        /\ nodes'[id].quantity > 0
    BY <1>3, <1>4, <1>5, <1>7
  <2> QED BY <1>3, <1>4, <2>3, <2>4 DEF IndexMatchesNodes
<1>9. SweepOnBestLevel'
  BY DEF SweepOnBestLevel
<1>10. ArrivalIsOrder'
  <2>1. \A m, n : <<m, n>> \in before' <=>
          \/ <<m, n>> \in before
          \/ m \in DOMAIN nodes /\ At(m, s, p) /\ n = id
    BY <1>6
  <2>2. \A m, n : <<m, n>> \in before =>
          m \in DOMAIN nodes /\ n \in DOMAIN nodes /\ SameLevel(m, n) /\ m # n
    BY DEF WellFormed, ArrivalIsOrder
  <2>3. /\ \A m, n \in DOMAIN nodes : SameLevel(m, n)' <=> SameLevel(m, n)
        /\ \A m \in DOMAIN nodes : SameLevel(m, id)' <=> At(m, s, p)
        /\ \A m \in DOMAIN nodes : SameLevel(id, m)' <=> At(m, s, p)
    BY <1>4 DEF SameLevel, At
  <2>4. \A pair \in before' : pair = <<pair[1], pair[2]>>
    BY <1>6 DEF StateTypes
  <2>5. \A m, n : <<m, n>> \in before' =>
          m \in DOMAIN nodes' /\ n \in DOMAIN nodes' /\ SameLevel(m, n)' /\ m # n
    BY <1>1, <1>3, <2>1, <2>2, <2>3
  <2>6. \A m, n \in DOMAIN nodes' :
          SameLevel(m, n)' /\ m # n => (<<m, n>> \in before' <=> <<n, m>> \notin before')
    BY <1>1, <1>3, <2>1, <2>2, <2>3 DEF WellFormed, ArrivalIsOrder
  <2>7. \A k, m, n \in DOMAIN nodes' :
          <<k, m>> \in before' /\ <<m, n>> \in before' => <<k, n>> \in before'
    BY <1>1, <1>3, <2>1, <2>2 DEF WellFormed, ArrivalIsOrder, At, SameLevel
  <2> QED BY <2>4, <2>5, <2>6, <2>7 DEF ArrivalIsOrder
<1>11. LevelsNonEmpty'
  <2> SUFFICES ASSUME NEW side \in Sides, NEW q \in DOMAIN levels'[side],
                      NEW f, f = levels'[side][q].first,
                      NEW l, l = levels'[side][q].last
               PROVE  /\ f \in DOMAIN nodes'
                      /\ location'[f].side = side /\ location'[f].price = q
                      /\ nodes'[f].prev = Null
                      /\ l \in DOMAIN nodes'
                      /\ location'[l].side = side /\ location'[l].price = q
    BY DEF LevelsNonEmpty, Oldest, Swept, At
  <2>1. \A q2 \in DOMAIN levels[side] :
          LET K == levels[side][q2] IN
          /\ K.first \in DOMAIN nodes /\ At(K.first, side, q2) /\ nodes[K.first].prev = Null
          /\ K.last \in DOMAIN nodes /\ At(K.last, side, q2)
    BY DEF WellFormed, LevelsNonEmpty, Oldest, Swept
  <2>2. CASE side # s \/ q # p
    BY <1>3, <1>4, <1>5, <2>1, <2>2 DEF At
  <2>3. CASE side = s /\ q = p /\ p \in DOMAIN levels[s]
    BY <1>3, <1>4, <1>5, <2>1, <2>3 DEF At
  <2>4. CASE side = s /\ q = p /\ p \notin DOMAIN levels[s]
    BY <1>3, <1>4, <1>5, <2>4 DEF old
  <2> QED BY <2>2, <2>3, <2>4
<1>12. /\ p \in DOMAIN levels[s] =>
             /\ old \in DOMAIN nodes /\ At(old, s, p) /\ old = levels[s][p].last
             /\ nodes[old].nxt = Null
       /\ p \notin DOMAIN levels[s] => old = Null
  BY <1>2, EndsOfList DEF old, At
<1>13. ASSUME NEW n \in DOMAIN nodes
       PROVE  LET K  == levels[location[n].side][location[n].price]
                  K2 == levels'[location[n].side][location[n].price]
              IN /\ K2.first = K.first
                 /\ K2.last = IF At(n, s, p) THEN id ELSE K.last
                 /\ n # K.first =>
                      /\ nodes[n].prev \in DOMAIN nodes /\ SameLevel(n, nodes[n].prev)
                      /\ nodes[nodes[n].prev].nxt = n
                      /\ <<K.first, n>> \in before
                 /\ n = K.last => nodes[n].nxt = Null
                 /\ n # K.last =>
                      /\ nodes[n].nxt \in DOMAIN nodes /\ SameLevel(n, nodes[n].nxt)
                      /\ nodes[nodes[n].nxt].prev = n
                      /\ <<n, K.last>> \in before
                      /\ <<n, nodes[n].nxt>> \in before
                      /\ \A m \in DOMAIN nodes :
                           SameLevel(m, n) /\ <<n, m>> \in before /\ m # nodes[n].nxt
                             => <<nodes[n].nxt, m>> \in before
                 /\ n = old <=> At(n, s, p) /\ n = K.last
  <2>1. /\ location[n].side \in Sides
        /\ location[n].price \in DOMAIN levels[location[n].side]
    BY <1>1 DEF WellFormed, IndexMatchesNodes, StateTypes, LocationID
  <2> DEFINE K  == levels[location[n].side][location[n].price]
             K2 == levels'[location[n].side][location[n].price]
  <2>2. /\ K2.first = K.first
        /\ K2.last = IF At(n, s, p) THEN id ELSE K.last
    BY <1>2, <1>5, <2>1 DEF At
  <2>3. n = old <=> At(n, s, p) /\ n = K.last
    BY <1>1, <1>2, <1>12 DEF At
  <2>4. /\ n # K.first =>
              /\ nodes[n].prev \in DOMAIN nodes /\ SameLevel(n, nodes[n].prev)
              /\ nodes[nodes[n].prev].nxt = n
              /\ <<K.first, n>> \in before
        /\ n = K.last => nodes[n].nxt = Null
        /\ n # K.last =>
             /\ nodes[n].nxt \in DOMAIN nodes /\ SameLevel(n, nodes[n].nxt)
             /\ nodes[nodes[n].nxt].prev = n
             /\ <<n, K.last>> \in before
             /\ <<n, nodes[n].nxt>> \in before
             /\ \A m \in DOMAIN nodes :
                   SameLevel(m, n) /\ <<n, m>> \in before /\ m # nodes[n].nxt
                     => <<nodes[n].nxt, m>> \in before
    BY DEF WellFormed, LinksAreInverse, ListsAreFifo, Oldest, Swept
  <2> QED BY <2>2, <2>3, <2>4
<1>14. LinksAreInverse'
  <2> SUFFICES ASSUME NEW n \in DOMAIN nodes', NEW K2,
                      K2 = levels'[location'[n].side][location'[n].price]
               PROVE  /\ IF n = K2.last
                         THEN nodes'[n].nxt = Null
                         ELSE /\ nodes'[n].nxt \in DOMAIN nodes'
                              /\ SameLevel(n, nodes[n].nxt)'
                              /\ nodes'[nodes'[n].nxt].prev = n
                      /\ n # K2.first =>
                           /\ nodes'[n].prev \in DOMAIN nodes'
                           /\ SameLevel(n, nodes[n].prev)'
                           /\ nodes'[nodes'[n].prev].nxt = n
    BY DEF LinksAreInverse, Oldest, Swept
  <2>1. CASE n = id
    BY <1>3, <1>4, <1>5, <1>12, <2>1 DEF SameLevel, At
  <2>2. CASE n # id
    <3>1. n \in DOMAIN nodes /\ K2 = levels'[location[n].side][location[n].price]
      BY <1>3, <1>4, <2>2
    <3>2. CASE n = old
      <4>1. At(n, s, p) /\ K2.last = id
        <5>1. At(n, s, p)
          BY <1>1, <1>12, <3>1, <3>2
        <5>2. levels'[location[n].side][location[n].price].last = id
          BY <1>13, <3>1, <5>1
        <5> QED BY <3>1, <5>1, <5>2
      <4>2. nodes'[n].nxt = id /\ nodes'[id].prev = n /\ SameLevel(n, id)'
        BY <1>3, <1>4, <3>1, <3>2, <4>1 DEF SameLevel, At
      <4>3. n # K2.first =>
              /\ nodes[n].prev \in DOMAIN nodes /\ SameLevel(n, nodes[n].prev)
              /\ nodes[nodes[n].prev].nxt = n
        BY <1>13, <3>1
      <4>4. nodes[n].nxt = Null
        BY <1>12, <1>1, <3>1, <3>2
      <4> QED BY <1>1, <1>3, <1>4, <2>2, <3>1, <3>2, <4>1, <4>2, <4>3, <4>4 DEF SameLevel
    <3>3. CASE n # old
      <4>1. /\ n # K2.first =>
                 /\ nodes[n].prev \in DOMAIN nodes /\ SameLevel(n, nodes[n].prev)
                 /\ nodes[nodes[n].prev].nxt = n
            /\ IF n = K2.last
               THEN nodes[n].nxt = Null
               ELSE /\ nodes[n].nxt \in DOMAIN nodes /\ SameLevel(n, nodes[n].nxt)
                    /\ nodes[nodes[n].nxt].prev = n
        <5>1. n # K2.first =>
                 /\ nodes[n].prev \in DOMAIN nodes /\ SameLevel(n, nodes[n].prev)
                 /\ nodes[nodes[n].prev].nxt = n
          BY <1>13, <3>1
        <5>2. n = K2.last <=> n = levels[location[n].side][location[n].price].last
          BY <1>13, <2>2, <3>1, <3>3
        <5> QED BY <1>13, <3>1, <5>1, <5>2
      <4>2. nodes[n].prev = old => n = K2.first
        BY <1>1, <1>12, <3>1, <4>1
      <4> QED BY <1>3, <1>4, <3>1, <3>3, <4>1, <4>2 DEF SameLevel
    <3> QED BY <3>2, <3>3
  <2> QED BY <2>1, <2>2
<1>15. ListsAreFifo'
  <2> SUFFICES ASSUME NEW n \in DOMAIN nodes', NEW K2,
                      K2 = levels'[location'[n].side][location'[n].price]
               PROVE  /\ n # K2.first => <<K2.first, n>> \in before'
                      /\ n # K2.last =>
                           /\ <<n, K2.last>> \in before'
                           /\ <<n, nodes'[n].nxt>> \in before'
                           /\ \A m \in DOMAIN nodes' :
                                SameLevel(m, n)' /\ <<n, m>> \in before' /\ m # nodes'[n].nxt
                                  => <<nodes'[n].nxt, m>> \in before'
    BY DEF ListsAreFifo, Oldest, Swept
  <2>1. \A m, k : <<m, k>> \in before' <=>
          \/ <<m, k>> \in before
          \/ m \in DOMAIN nodes /\ At(m, s, p) /\ k = id
    BY <1>6
  <2>2. CASE n = id
    <3>1. K2.last = id /\ K2 = levels'[s][p]
      BY <1>4, <1>5, <2>2
    <3>2. n # K2.first => K2.first \in DOMAIN nodes /\ At(K2.first, s, p)
      BY <1>1, <1>5, <2>2, <3>1 DEF WellFormed, LevelsNonEmpty, Oldest, Swept
    <3> QED BY <2>1, <2>2, <3>1, <3>2
  <2>3. CASE n # id
    <3>1. n \in DOMAIN nodes /\ K2 = levels'[location[n].side][location[n].price]
      BY <1>3, <1>4, <2>3
    <3>2. n # K2.first => <<K2.first, n>> \in before'
      BY <1>13, <2>1, <3>1
    <3>3. n # K2.last => <<n, K2.last>> \in before'
      BY <1>13, <2>1, <3>1, ZenonT(40)
    <3>4. CASE n = old
      <4>1. At(n, s, p) /\ nodes'[n].nxt = id
        BY <1>3, <1>13, <3>1, <3>4
      <4>2. ASSUME NEW m \in DOMAIN nodes', SameLevel(m, n)', <<n, m>> \in before', m # id
            PROVE  FALSE
        <5>1. m \in DOMAIN nodes /\ <<n, m>> \in before /\ SameLevel(m, n) /\ m # n
          BY <1>3, <1>4, <2>1, <3>1, <4>2 DEF SameLevel, WellFormed, ArrivalIsOrder
        <5>2. <<m, n>> \in before
          <6>1. n = levels[location[n].side][location[n].price].last
            BY <1>13, <3>1, <3>4
          <6>2. n = levels[location[m].side][location[m].price].last
            BY <5>1, <6>1 DEF SameLevel
          <6> QED BY <1>13, <5>1, <6>2
        <5> QED BY <3>1, <5>1, <5>2 DEF WellFormed, ArrivalIsOrder
      <4> QED BY <2>1, <3>1, <3>2, <3>3, <4>1, <4>2
    <3>5. CASE n # old
      <4> SUFFICES ASSUME n # K2.last
                   PROVE  /\ <<n, nodes'[n].nxt>> \in before'
                          /\ \A m \in DOMAIN nodes' :
                               SameLevel(m, n)' /\ <<n, m>> \in before' /\ m # nodes'[n].nxt
                                 => <<nodes'[n].nxt, m>> \in before'
        BY <3>2, <3>3
      <4> DEFINE x == nodes[n].nxt
      <4>1. nodes'[n].nxt = x
        BY <1>3, <3>1, <3>5
      <4>2. /\ x \in DOMAIN nodes /\ SameLevel(n, x) /\ <<n, x>> \in before
            /\ \A m \in DOMAIN nodes :
                 SameLevel(m, n) /\ <<n, m>> \in before /\ m # x => <<x, m>> \in before
        BY <1>13, <3>1, <3>5, ZenonT(40)
      <4> HIDE DEF x
      <4>3. ASSUME NEW m \in DOMAIN nodes', SameLevel(m, n)', <<n, m>> \in before', m # x
            PROVE  <<x, m>> \in before'
        <5>1. CASE m = id
          BY <1>4, <2>1, <3>1, <4>2, <4>3, <5>1 DEF SameLevel, At
        <5>2. CASE m # id
          BY <1>3, <1>4, <2>1, <3>1, <4>2, <4>3, <5>2 DEF SameLevel
        <5> QED BY <5>1, <5>2
      <4> QED BY <2>1, <4>1, <4>2, <4>3
    <3> QED BY <3>4, <3>5
  <2> QED BY <2>2, <2>3
<1>16. NotCrossed'
  <2>1. \A side \in Sides : \A q \in DOMAIN levels'[side] :
          /\ q \in DOMAIN levels[side] \/ (side = s /\ q = p)
          /\ q \in Int
    BY <1>1, <1>5 DEF StateTypes
  <2>2. CASE s = "Buy"
    BY <1>1, <1>7, <2>1, <2>2 DEF NotCrossed, Crosses, Opposite, s, p
  <2>3. CASE s = "Sell"
    BY <1>1, <1>7, <2>1, <2>3 DEF NotCrossed, Crosses, Opposite, s, p
  <2> QED BY <1>1, <2>2, <2>3
<1> QED BY <1>8, <1>9, <1>10, <1>11, <1>14, <1>15, <1>16 DEF WellFormed

(* rest_order (book.cpp:431) leaves levels, nodes and index of their       *)
(* types.                                                                  *)
LEMMA RestTypes ==
  ASSUME StateTypes, WellFormed, it = Null, NEW o \in EventRecord, RestOrder(o)
  PROVE  /\ levels' = [side \in Sides |-> levels'[side]]
         /\ \A side \in Sides :
              /\ DOMAIN levels'[side] \subseteq Int
              /\ levels'[side] \in [DOMAIN levels'[side] -> Level]
         /\ DOMAIN nodes' \subseteq Ids /\ nodes' \in [DOMAIN nodes' -> Node]
         /\ DOMAIN location' \subseteq Ids /\ location' \in [DOMAIN location' -> LocationID]
         /\ before' \subseteq Ids \X Ids
<1> DEFINE id == o.order_id  s == o.side  p == o.price
<1>1. /\ s \in Sides /\ p \in Int /\ id \in Ids /\ o.owner_id \in Owners /\ o.quantity \in Int
      /\ DOMAIN levels = Sides
  BY DEF StateTypes, EventRecord
<1>2. PICK v : /\ levels' = [levels EXCEPT ![s] = With(@, p, v)]
               /\ v \in Level
  <2>1. CASE p \notin DOMAIN levels[s]
    <3> DEFINE w == [first |-> id, last |-> id, total_quantity |-> o.quantity]
    <3>1. levels' = [levels EXCEPT ![s] = With(@, p, w)]
      BY <2>1 DEF RestOrder, InitLevel
    <3>2. w \in Level
      BY <1>1 DEF Level, IdOrNull
    <3> QED BY <3>1, <3>2
  <2>2. CASE p \in DOMAIN levels[s]
    <3> DEFINE w == [first |-> levels[s][p].first, last |-> id,
                     total_quantity |-> levels[s][p].total_quantity + o.quantity]
    <3>1. levels' = [levels EXCEPT ![s] = With(@, p, w)]
      BY <2>2 DEF RestOrder, AddOrder
    <3>2. levels[s][p] \in Level
      BY <1>1, <2>2 DEF StateTypes
    <3>3. w \in Level
      BY <1>1, <3>2 DEF Level, IdOrNull
    <3> QED BY <3>1, <3>3
  <2> QED BY <2>1, <2>2
<1>3. PICK prev : /\ prev \in IdOrNull
                  /\ \/ nodes' = With(nodes, id, NewNode(o, prev))
                     \/ nodes' = With([nodes EXCEPT ![prev].nxt = id], id, NewNode(o, prev))
  <2>1. CASE p \notin DOMAIN levels[s]
    BY <2>1 DEF RestOrder, InitLevel, IdOrNull
  <2>2. CASE p \in DOMAIN levels[s]
    <3>1. levels[s][p].last \in IdOrNull
      BY <1>1, <2>2 DEF StateTypes, Level
    <3> QED BY <2>2, <3>1 DEF RestOrder, AddOrder
  <2> QED BY <2>1, <2>2
<1>4. NewNode(o, prev) \in Node
  BY <1>1, <1>3 DEF NewNode, Node, IdOrNull
<1>5. location' = With(location, id, [side |-> s, owner_id |-> o.owner_id, price |-> p])
  BY DEF RestOrder
<1>6. before' \subseteq Ids \X Ids
  BY <1>1 DEF RestOrder, StateTypes
<1> HIDE DEF id, s, p
<1>7. levels'[s] = With(levels[s], p, v) /\ \A side \in Sides \ {s} : levels'[side] = levels[side]
  BY <1>1, <1>2
<1>8. \A side \in Sides :
        /\ DOMAIN levels'[side] \subseteq Int
        /\ levels'[side] \in [DOMAIN levels'[side] -> Level]
  <2> TAKE side \in Sides
  <2>1. CASE side # s
    BY <1>7, <2>1 DEF StateTypes
  <2>2. CASE side = s
    BY <1>1, <1>2, <1>7, <2>2 DEF StateTypes, With
  <2> QED BY <2>1, <2>2
<1>9. levels' = [side \in Sides |-> levels'[side]]
  BY <1>1, <1>2 DEF StateTypes
<1>10. DOMAIN nodes' \subseteq Ids /\ nodes' \in [DOMAIN nodes' -> Node]
  <2>1. CASE nodes' = With(nodes, id, NewNode(o, prev))
    BY <1>1, <1>4, <2>1 DEF StateTypes, With
  <2>2. CASE nodes' = With([nodes EXCEPT ![prev].nxt = id], id, NewNode(o, prev))
    <3> DEFINE f == [nodes EXCEPT ![prev].nxt = id]
    <3>1. f \in [DOMAIN nodes -> Node] /\ DOMAIN f = DOMAIN nodes
      BY <1>1 DEF StateTypes, Node, IdOrNull
    <3> HIDE DEF f
    <3> QED BY <1>1, <1>4, <2>2, <3>1 DEF StateTypes, With, f
  <2> QED BY <1>3, <2>1, <2>2
<1>11. DOMAIN location' \subseteq Ids /\ location' \in [DOMAIN location' -> LocationID]
  BY <1>1, <1>5 DEF StateTypes, With, LocationID
<1> QED BY <1>6, <1>8, <1>9, <1>10, <1>11

(* The return of an ADD or MOD, with what is left resting, preserves the   *)
(* invariant.                                                              *)
LEMMA ReturnRestedIInv ==
  ASSUME IInv, ReturnRested
  PROVE  IInv'
<1>1. /\ taker # Null /\ it = Null /\ it' = Null /\ threw = FALSE
      /\ responses' = responses /\ taker \in EventRecord
      /\ taker.order_id \notin DOMAIN location
  BY DEF ReturnRested, LoopEnds, IInv, StateTypes, NeverThrows
<1>2. CASE ~HasLeft(taker)
  <2>1. taker' = Null /\ UNCHANGED bookVars /\ threw' = FALSE
    BY <1>1, <1>2 DEF ReturnRested
  <2>2. WellFormed' /\ NotCrossed'
    BY <1>1, <2>1, SameBook
  <2>3. StateTypes'
    BY <1>1, <2>1 DEF IInv, StateTypes, bookVars
  <2> QED BY <2>1, <2>2, <2>3 DEF IInv, NeverThrows
<1>3. CASE HasLeft(taker)
  <2>1. taker' = Null /\ RestOrder(taker) /\ threw' = FALSE
    BY <1>1, <1>3 DEF ReturnRested, Known
  <2>2. taker.order_type # "Market"
    BY DEF ReturnRested
  <2>3. \A q \in DOMAIN levels[Opposite(taker.side)] : ~Crosses(taker, q)
    BY <1>3 DEF ReturnRested, LoopEnds
  <2>4. WellFormed' /\ NotCrossed'
    BY <1>1, <1>3, <2>1, <2>2, <2>3, RestKeeps DEF IInv
  <2>5. StateTypes'
    BY <1>1, <2>1, RestTypes DEF IInv, StateTypes, IdOrNull
  <2> QED BY <2>1, <2>4, <2>5 DEF IInv, NeverThrows
<1> QED BY <1>2, <1>3

(* The return of an IOC or MARKET order preserves the invariant. *)
LEMMA ReturnExpiredIInv ==
  ASSUME IInv, ReturnExpired
  PROVE  IInv'
<1>1. /\ it = Null /\ it' = Null /\ taker' = Null /\ threw' = FALSE
      /\ UNCHANGED bookVars /\ taker \in EventRecord
  BY DEF ReturnExpired, LoopEnds, IInv, StateTypes, NeverThrows
<1>2. WellFormed' /\ NotCrossed'
  BY <1>1, SameBook
<1>3. responses' \in Seq(OrderEvent)
  <2>1. Echo(taker, "OrderExpired") \in OrderEvent
    BY <1>1, EchoType DEF EventRecord, ResponseEvents
  <2> QED BY <2>1 DEF ReturnExpired, IInv, StateTypes
<1>4. StateTypes'
  BY <1>1, <1>3 DEF IInv, StateTypes, bookVars, IdOrNull
<1> QED BY <1>1, <1>2, <1>4 DEF IInv, NeverThrows
-----------------------------------------------------------------------------
(* The iteration's maker is the oldest order of the level. *)
LEMMA MakerIsOldest ==
  ASSUME StateTypes, WellFormed, taker \in EventRecord, NEW side \in Sides,
         NEW p \in DOMAIN levels[side], CanMatch(side, p)
  PROVE  LET maker == IF it = Null THEN levels[side][p].first ELSE it IN
         /\ maker = Oldest(side, p)
         /\ maker \in DOMAIN nodes /\ At(maker, side, p)
         /\ Crosses(taker, p)
         /\ it # Null => At(it, side, p)
<1>1. /\ taker.side = Opposite(side) /\ Opposite(taker.side) = side
      /\ IsBest(side, p) /\ p \in Int
  BY DEF CanMatch, Opposite, StateTypes
<1>2. ASSUME it # Null
      PROVE  At(it, side, p) /\ Crosses(taker, p)
  <2>1. /\ location[it].side = side
        /\ IsBest(side, location[it].price)
        /\ Crosses(taker, location[it].price)
    BY <1>1, <1>2 DEF WellFormed, SweepOnBestLevel
  <2>2. location[it].price \in Int
    BY <2>1 DEF IsBest, StateTypes
  <2>3. location[it].price = p
    BY <1>1, <2>1, <2>2 DEF IsBest, Better
  <2> QED BY <2>1, <2>3 DEF At
<1>3. it = Null => Crosses(taker, p)
  BY DEF CanMatch
<1>4. Oldest(side, p) \in DOMAIN nodes /\ At(Oldest(side, p), side, p)
  BY DEF WellFormed, LevelsNonEmpty
<1> QED BY <1>2, <1>3, <1>4 DEF Oldest, Swept

(* One iteration of an inner loop. *)
LEMMA MatchKeeps ==
  ASSUME StateTypes, WellFormed, NotCrossed, taker \in EventRecord,
         NEW side \in Sides, NEW p \in DOMAIN levels[side],
         CanMatch(side, p), Match(side, p)
  PROVE  /\ WellFormed' /\ NotCrossed'
         /\ DOMAIN location' \subseteq DOMAIN location
         /\ it' \in IdOrNull
<1> DEFINE maker == IF it = Null THEN levels[side][p].first ELSE it
           L     == levels[side][p]
           delta == Smaller(taker.quantity, nodes[maker].quantity)
           left  == taker.quantity - delta
           kept  == nodes[maker].quantity - delta
           cursor == IF kept = 0 THEN nodes[maker].nxt ELSE maker
           ends  == left = 0 \/ cursor = Null
           freed == IF kept = 0 THEN {maker} ELSE {}
           rest  == [first |-> IF ends THEN cursor ELSE L.first,
                     last |-> L.last,
                     total_quantity |-> L.total_quantity - delta]
<1>1. /\ maker = Oldest(side, p) /\ maker \in DOMAIN nodes /\ At(maker, side, p)
      /\ Crosses(taker, p)
      /\ it # Null => At(it, side, p)
  BY MakerIsOldest
<1>2. /\ DOMAIN nodes = DOMAIN location /\ DOMAIN levels = Sides
      /\ Null \notin DOMAIN nodes
  BY NullAssumption DEF StateTypes, WellFormed, IndexMatchesNodes
<1>3. /\ nodes[maker].quantity \in Int /\ nodes[maker].quantity > 0
      /\ taker.quantity \in Int /\ taker.quantity > 0
  BY <1>1 DEF StateTypes, Node, WellFormed, IndexMatchesNodes, EventRecord, CanMatch, HasLeft
<1>4. /\ left \in Int /\ kept \in Int /\ delta \in Int
      /\ left >= 0 /\ kept >= 0 /\ (kept = 0 \/ left = 0)
      /\ delta > 0
  BY <1>3 DEF Smaller
<1>5. /\ DOMAIN nodes' = DOMAIN nodes \ freed
      /\ \A n \in DOMAIN nodes \ freed :
           /\ nodes'[n].nxt = nodes[n].nxt
           /\ nodes'[n].prev = IF ends /\ n = cursor THEN Null ELSE nodes[n].prev
           /\ nodes'[n].owner_id = nodes[n].owner_id
           /\ nodes'[n].quantity = IF n = maker THEN kept ELSE nodes[n].quantity
  BY DEF Match, StateTypes, Node
<1>6. /\ DOMAIN location' = DOMAIN nodes \ freed
      /\ \A n \in DOMAIN nodes \ freed : location'[n] = location[n]
  BY <1>2 DEF Match
<1>7. levels' = [levels EXCEPT ![side] =
                   IF cursor = Null THEN Without(@, p) ELSE With(@, p, rest)]
  BY DEF Match
<1>8. /\ it' = IF ends THEN Null ELSE cursor
      /\ taker' = [taker EXCEPT !.quantity = left]
      /\ \A m, n : <<m, n>> \in before' <=> <<m, n>> \in before /\ m \notin freed /\ n \notin freed
      /\ before' \subseteq before
  BY DEF Match
<1>9. /\ ends <=> left = 0 \/ cursor = Null
      /\ cursor = IF kept = 0 THEN nodes[maker].nxt ELSE maker
      /\ freed = IF kept = 0 THEN {maker} ELSE {}
      /\ rest.first = IF ends THEN cursor ELSE L.first
      /\ rest.last = L.last
      /\ L = levels[side][p]
  OBVIOUS
<1> HIDE DEF maker, L, delta, left, kept, cursor, ends, freed, rest
<1>10. \A s2 \in Sides : \A q :
         /\ s2 # side \/ q # p =>
              /\ q \in DOMAIN levels'[s2] <=> q \in DOMAIN levels[s2]
              /\ q \in DOMAIN levels[s2] => levels'[s2][q] = levels[s2][q]
         /\ s2 = side /\ q = p =>
              /\ q \in DOMAIN levels'[s2] <=> cursor # Null
              /\ cursor # Null => levels'[s2][q] = rest
  <2>1. /\ \A s2 \in Sides \ {side} : levels'[s2] = levels[s2]
        /\ levels'[side] = IF cursor = Null THEN Without(levels[side], p) ELSE With(levels[side], p, rest)
    BY <1>2, <1>7
  <2>2. \A q :
         /\ q # p =>
              /\ q \in DOMAIN levels'[side] <=> q \in DOMAIN levels[side]
              /\ q \in DOMAIN levels[side] => levels'[side][q] = levels[side][q]
         /\ q = p =>
              /\ q \in DOMAIN levels'[side] <=> cursor # Null
              /\ cursor # Null => levels'[side][q] = rest
    BY <2>1 DEF With, Without
  <2> QED BY <2>1, <2>2
<1>11. ASSUME NEW n \in DOMAIN nodes
       PROVE  LET K == levels[location[n].side][location[n].price]
                  O == Oldest(location[n].side, location[n].price)
              IN /\ location[n].side \in Sides
                 /\ location[n].price \in DOMAIN levels[location[n].side]
                 /\ n = K.last => nodes[n].nxt = Null
                 /\ n # K.last =>
                      /\ nodes[n].nxt \in DOMAIN nodes /\ SameLevel(n, nodes[n].nxt)
                      /\ nodes[nodes[n].nxt].prev = n
                      /\ <<n, K.last>> \in before
                      /\ <<n, nodes[n].nxt>> \in before
                      /\ \A m \in DOMAIN nodes :
                           SameLevel(m, n) /\ <<n, m>> \in before /\ m # nodes[n].nxt
                             => <<nodes[n].nxt, m>> \in before
                 /\ n # O =>
                      /\ nodes[n].prev \in DOMAIN nodes /\ SameLevel(n, nodes[n].prev)
                      /\ nodes[nodes[n].prev].nxt = n
                      /\ <<O, n>> \in before
  <2>1. /\ location[n].side \in Sides
        /\ location[n].price \in DOMAIN levels[location[n].side]
    BY DEF StateTypes, LocationID, WellFormed, IndexMatchesNodes
  <2> QED BY <2>1 DEF WellFormed, LinksAreInverse, ListsAreFifo
<1>12. \A m, n \in DOMAIN nodes :
         /\ <<m, n>> \in before => <<n, m>> \notin before /\ m # n /\ SameLevel(m, n)
         /\ \A k \in DOMAIN nodes : <<k, m>> \in before /\ <<m, n>> \in before => <<k, n>> \in before
  BY DEF WellFormed, ArrivalIsOrder
<1>13. /\ side = location[maker].side /\ p = location[maker].price
       /\ \A n \in DOMAIN nodes : At(n, side, p) <=> SameLevel(n, maker)
  BY <1>1 DEF At, SameLevel
<1>14. /\ maker = L.last => nodes[maker].nxt = Null
       /\ maker # L.last =>
             /\ nodes[maker].nxt \in DOMAIN nodes \ {maker} /\ At(nodes[maker].nxt, side, p)
             /\ nodes[nodes[maker].nxt].prev = maker
             /\ <<maker, nodes[maker].nxt>> \in before
             /\ \A m \in DOMAIN nodes :
                  At(m, side, p) /\ <<maker, m>> \in before /\ m # nodes[maker].nxt
                    => <<nodes[maker].nxt, m>> \in before
  <2>1. L = levels[location[maker].side][location[maker].price]
    BY <1>9, <1>13
  <2>2. maker = L.last => nodes[maker].nxt = Null
    BY <1>1, <1>11, <2>1
  <2>3. maker # L.last =>
             /\ nodes[maker].nxt \in DOMAIN nodes /\ SameLevel(maker, nodes[maker].nxt)
             /\ nodes[nodes[maker].nxt].prev = maker
             /\ <<maker, nodes[maker].nxt>> \in before
             /\ \A m \in DOMAIN nodes :
                  SameLevel(m, maker) /\ <<maker, m>> \in before /\ m # nodes[maker].nxt
                    => <<nodes[maker].nxt, m>> \in before
    BY <1>1, <1>11, <2>1
  <2> QED BY <1>1, <1>12, <1>13, <2>2, <2>3 DEF SameLevel
<1>15. \A n \in DOMAIN nodes : At(n, side, p) /\ n # maker => <<maker, n>> \in before
  BY <1>1, <1>11 DEF At
<1>16. /\ cursor = Null <=> kept = 0 /\ maker = L.last
       /\ cursor # Null => cursor \in DOMAIN nodes \ freed /\ At(cursor, side, p)
       /\ cursor = maker \/ cursor = Null \/ (maker # L.last /\ cursor = nodes[maker].nxt)
  BY <1>1, <1>2, <1>9, <1>14
<1>17. cursor = Null => \A n \in DOMAIN nodes \ freed : ~At(n, side, p)
  <2> SUFFICES ASSUME cursor = Null, NEW n \in DOMAIN nodes \ freed, At(n, side, p)
               PROVE  FALSE
    OBVIOUS
  <2>1. n # maker /\ maker = L.last
    BY <1>9, <1>16
  <2>2. <<maker, n>> \in before /\ <<n, maker>> \in before
    BY <1>9, <1>11, <1>15, <2>1 DEF At
  <2> QED BY <1>1, <1>12, <2>2
<1>18. \A n \in DOMAIN nodes \ freed : At(n, side, p) /\ n # cursor =>
         n # maker /\ <<maker, n>> \in before /\ <<cursor, n>> \in before
  <2> SUFFICES ASSUME NEW n \in DOMAIN nodes \ freed, At(n, side, p), n # cursor
               PROVE  n # maker /\ <<maker, n>> \in before /\ <<cursor, n>> \in before
    OBVIOUS
  <2>1. cursor # Null /\ n # maker
    BY <1>9, <1>17
  <2> QED BY <1>14, <1>15, <1>16, <2>1
<1>19. ASSUME NEW s2 \in Sides, NEW q \in DOMAIN levels'[s2]
       PROVE  Oldest(s2, q)' = IF s2 = side /\ q = p THEN cursor ELSE Oldest(s2, q)
  <2>1. it' # Null => ~ends /\ it' = cursor /\ location'[it'].side = side /\ location'[it'].price = p
    BY <1>6, <1>8, <1>16 DEF At
  <2>2. CASE s2 = side /\ q = p
    <3>1. cursor # Null /\ levels'[s2][q].first = rest.first
      BY <1>10, <2>2
    <3>2. CASE ends
      BY <1>8, <1>9, <2>2, <3>1, <3>2 DEF Oldest, Swept
    <3>3. CASE ~ends
      BY <1>8, <2>1, <2>2, <3>1, <3>3 DEF Oldest, Swept, At
    <3> QED BY <3>2, <3>3
  <2>3. CASE s2 # side \/ q # p
    <3>1. q \in DOMAIN levels[s2] /\ levels'[s2][q] = levels[s2][q]
      BY <1>10, <2>3
    <3>2. ~Swept(s2, q) /\ ~Swept(s2, q)'
      BY <1>1, <2>1, <2>3 DEF Swept, At
    <3> QED BY <2>3, <3>1, <3>2 DEF Oldest
  <2> QED BY <2>2, <2>3
<1>20. \A n \in DOMAIN nodes \ freed :
         location[n].price \in DOMAIN levels'[location[n].side]
  <2> TAKE n \in DOMAIN nodes \ freed
  <2>1. CASE At(n, side, p)
    BY <1>10, <1>17, <2>1 DEF At
  <2>2. CASE ~At(n, side, p)
    <3>1. location[n].side \in Sides /\ location[n].price \in DOMAIN levels[location[n].side]
      BY <1>11
    <3> QED BY <1>10, <2>2, <3>1 DEF At
  <2> QED BY <2>1, <2>2
<1>21. \A n \in DOMAIN nodes \ freed :
         LET K == levels[location[n].side][location[n].price]
             K2 == levels'[location[n].side][location[n].price]
         IN K2.last = K.last
  <2> TAKE n \in DOMAIN nodes \ freed
  <2>1. location[n].side \in Sides /\ location[n].price \in DOMAIN levels'[location[n].side]
    BY <1>11, <1>20
  <2> QED BY <1>9, <1>10, <2>1
<1>22. IndexMatchesNodes'
  <2>1. \A n \in DOMAIN nodes \ freed :
          /\ location'[n].owner_id = nodes'[n].owner_id
          /\ location'[n].price \in DOMAIN levels'[location'[n].side]
          /\ nodes'[n].quantity > 0
    <3> TAKE n \in DOMAIN nodes \ freed
    <3>1. location[n].owner_id = nodes[n].owner_id /\ nodes[n].quantity > 0
      BY DEF WellFormed, IndexMatchesNodes
    <3>2. n = maker => kept > 0
      BY <1>4, <1>9
    <3> QED BY <1>5, <1>6, <1>20, <3>1, <3>2
  <2> QED BY <1>5, <1>6, <2>1 DEF IndexMatchesNodes
<1>23. ArrivalIsOrder'
  <2>1. \A m, n \in DOMAIN nodes' : SameLevel(m, n)' <=> SameLevel(m, n)
    BY <1>5, <1>6 DEF SameLevel
  <2>2. \A pair \in before' : /\ pair[1] \in DOMAIN nodes' /\ pair[2] \in DOMAIN nodes'
                              /\ SameLevel(pair[1], pair[2])' /\ pair[1] # pair[2]
    <3> TAKE pair \in before'
    <3>1. pair \in before /\ pair = <<pair[1], pair[2]>>
      BY <1>8 DEF StateTypes
    <3>2. pair[1] \notin freed /\ pair[2] \notin freed
      BY <1>8, <3>1
    <3> QED BY <1>5, <2>1, <3>1, <3>2 DEF WellFormed, ArrivalIsOrder
  <2>3. \A m, n \in DOMAIN nodes' :
          SameLevel(m, n)' /\ m # n => (<<m, n>> \in before' <=> <<n, m>> \notin before')
    BY <1>5, <1>8, <2>1 DEF WellFormed, ArrivalIsOrder
  <2>4. \A k, m, n \in DOMAIN nodes' :
          <<k, m>> \in before' /\ <<m, n>> \in before' => <<k, n>> \in before'
    BY <1>5, <1>8, <1>12
  <2> QED BY <2>2, <2>3, <2>4 DEF ArrivalIsOrder
<1>24. LevelsNonEmpty'
  <2> SUFFICES ASSUME NEW s2 \in Sides, NEW q \in DOMAIN levels'[s2],
                      NEW f, f = Oldest(s2, q)',
                      NEW l, l = levels'[s2][q].last
               PROVE  /\ f \in DOMAIN nodes'
                      /\ location'[f].side = s2 /\ location'[f].price = q
                      /\ ~Swept(s2, q)' => nodes'[f].prev = Null
                      /\ l \in DOMAIN nodes'
                      /\ location'[l].side = s2 /\ location'[l].price = q
    BY DEF LevelsNonEmpty, At
  <2>1. CASE s2 = side /\ q = p
    <3>1. f = cursor /\ cursor # Null /\ l = L.last
      BY <1>9, <1>10, <1>19, <2>1
    <3>2. L.last \in DOMAIN nodes \ freed /\ At(L.last, side, p)
      BY <1>9, <1>16, <3>1 DEF WellFormed, LevelsNonEmpty
    <3>3. ~Swept(s2, q)' => ends
      BY <1>6, <1>8, <1>16, <2>1, <3>1 DEF Swept, At
    <3> QED BY <1>5, <1>6, <1>16, <2>1, <3>1, <3>2, <3>3 DEF At
  <2>2. CASE s2 # side \/ q # p
    <3>1. q \in DOMAIN levels[s2] /\ l = levels[s2][q].last /\ f = Oldest(s2, q)
      BY <1>10, <1>19, <2>2
    <3>2. /\ f \in DOMAIN nodes /\ At(f, s2, q)
          /\ ~Swept(s2, q) => nodes[f].prev = Null
          /\ l \in DOMAIN nodes /\ At(l, s2, q)
      BY <3>1 DEF WellFormed, LevelsNonEmpty
    <3>3. ~Swept(s2, q)
      BY <1>1, <2>2 DEF Swept, At
    <3>4. f \notin freed /\ l \notin freed
      BY <1>1, <1>9, <2>2, <3>2 DEF At
    <3> QED BY <1>5, <1>6, <3>2, <3>3, <3>4 DEF At
  <2> QED BY <2>1, <2>2
<1> DEFINE NewOldest(s2, q) == IF s2 = side /\ q = p THEN cursor ELSE Oldest(s2, q)
<1>25. ASSUME NEW n \in DOMAIN nodes \ freed
       PROVE  LET K == levels[location[n].side][location[n].price]
                  O2 == NewOldest(location[n].side, location[n].price)
              IN /\ n # K.last =>
                      /\ nodes[n].nxt \in DOMAIN nodes \ freed
                      /\ SameLevel(n, nodes[n].nxt)
                      /\ nodes'[nodes[n].nxt].prev = n
                 /\ n # O2 =>
                      /\ n # cursor
                      /\ nodes[n].prev \in DOMAIN nodes \ freed /\ SameLevel(n, nodes[n].prev)
                      /\ nodes[nodes[n].prev].nxt = n
                      /\ <<O2, n>> \in before
                      /\ O2 \notin freed
  <2> DEFINE s2 == location[n].side
             q  == location[n].price
             K  == levels[s2][q]
             O2 == NewOldest(s2, q)
             x  == nodes[n].nxt
             y  == nodes[n].prev
  <2>0. s2 \in Sides /\ q \in DOMAIN levels[s2] /\ s2 = location[n].side /\ q = location[n].price
    BY <1>11
  <2>1. O2 = IF s2 = side /\ q = p THEN cursor ELSE Oldest(s2, q)
    OBVIOUS
  <2>2. n # K.last => x \in DOMAIN nodes /\ SameLevel(n, x) /\ nodes[x].prev = n /\ <<n, x>> \in before
    BY <1>11, <2>0
  <2>3. n # Oldest(s2, q) =>
          /\ y \in DOMAIN nodes /\ SameLevel(n, y) /\ nodes[y].nxt = n
          /\ <<Oldest(s2, q), n>> \in before
    BY <1>11, <2>0
  <2>4. Oldest(s2, q) \in DOMAIN nodes /\ At(Oldest(s2, q), s2, q)
    BY <1>11, <2>0 DEF WellFormed, LevelsNonEmpty
  <2>5. SameLevel(n, x) => location[x].side = s2 /\ location[x].price = q
    BY <2>0 DEF SameLevel
  <2>6. SameLevel(n, y) => location[y].side = s2 /\ location[y].price = q
    BY <2>0 DEF SameLevel
  <2>7. At(n, side, p) <=> s2 = side /\ q = p
    BY <2>0 DEF At
  <2> HIDE DEF s2, q, K, O2, x, y
  <2>8. CASE At(n, side, p)
    <3>1. n # K.last => x \notin freed /\ x # cursor
      <4>1. n # cursor => <<cursor, n>> \in before /\ <<maker, n>> \in before
        BY <1>18, <2>8
      <4>2. cursor \in DOMAIN nodes
        BY <1>16, <1>17, <2>8
      <4>3. x = maker /\ n # maker => <<maker, n>> \in before
        BY <1>15, <2>8
      <4> QED BY <1>1, <1>9, <1>12, <2>2, <4>1, <4>2, <4>3
    <3>2. n # cursor => n # maker /\ <<cursor, n>> \in before
      BY <1>18, <2>8
    <3>3. n # cursor => y \notin freed
      BY <1>1, <1>9, <2>3, <2>7, <2>8, <3>2 DEF y
    <3>4. cursor \notin freed
      BY <1>16, <1>17, <2>8
    <3>5. n # K.last => nodes'[x].prev = n
      BY <1>5, <2>2, <3>1
    <3> QED BY <1>1, <2>1, <2>2, <2>3, <2>7, <2>8, <3>1, <3>2, <3>3, <3>4, <3>5
            DEF s2, q, K, O2, x, y
  <2>9. CASE ~At(n, side, p)
    <3>1. O2 = Oldest(s2, q) /\ n # cursor /\ O2 \notin freed
      BY <1>1, <1>2, <1>9, <1>16, <2>1, <2>4, <2>7, <2>9 DEF At
    <3>2. n # K.last => x \notin freed /\ x # cursor
      BY <1>1, <1>2, <1>9, <1>16, <2>2, <2>5, <2>7, <2>9 DEF At
    <3>3. n # O2 => y \notin freed
      BY <1>1, <1>9, <2>3, <2>6, <2>7, <2>9, <3>1 DEF At
    <3>4. n # K.last => nodes'[x].prev = n
      BY <1>5, <2>2, <3>2
    <3> QED BY <2>1, <2>2, <2>3, <3>1, <3>2, <3>3, <3>4 DEF s2, q, K, O2, x, y
  <2> QED BY <2>8, <2>9
<1> HIDE DEF NewOldest
<1>31. ASSUME NEW n \in DOMAIN nodes \ freed
       PROVE  LET s2 == location[n].side  q == location[n].price IN
              /\ location'[n].side = s2 /\ location'[n].price = q
              /\ levels'[s2][q].last = levels[s2][q].last
              /\ levels[s2][q].last \in DOMAIN nodes \ freed
              /\ nodes'[n].nxt = nodes[n].nxt
  <2> DEFINE s2 == location[n].side  q == location[n].price
  <2>1. /\ location'[n] = location[n] /\ levels'[s2][q].last = levels[s2][q].last
        /\ s2 \in Sides /\ q \in DOMAIN levels'[s2]
        /\ nodes'[n].nxt = nodes[n].nxt
    BY <1>5, <1>6, <1>11, <1>20, <1>21
  <2> HIDE DEF s2, q
  <2>2. levels'[s2][q].last \in DOMAIN nodes'
    BY <1>24, <2>1 DEF LevelsNonEmpty
  <2>3. levels[s2][q].last \in DOMAIN nodes \ freed
    BY <1>5, <2>1, <2>2
  <2> QED BY <2>1, <2>3 DEF s2, q
<1>32. ASSUME NEW n \in DOMAIN nodes \ freed
       PROVE  Oldest(location[n].side, location[n].price)' = NewOldest(location[n].side, location[n].price)
  <2>1. \A s2 \in Sides : \A q \in DOMAIN levels'[s2] : Oldest(s2, q)' = NewOldest(s2, q)
    BY <1>19 DEF NewOldest
  <2>2. location[n].side \in Sides /\ location[n].price \in DOMAIN levels'[location[n].side]
    BY <1>11, <1>20
  <2> QED BY <1>6, <2>1, <2>2 DEF Oldest, Swept, At
<1>26. LinksAreInverse'
  <2>1. ASSUME NEW n \in DOMAIN nodes \ freed
        PROVE  LET K == levels[location[n].side][location[n].price]
                   O2 == NewOldest(location[n].side, location[n].price)
               IN /\ IF n = K.last
                     THEN nodes'[n].nxt = Null
                     ELSE /\ nodes'[n].nxt \in DOMAIN nodes'
                          /\ SameLevel(n, nodes[n].nxt)'
                          /\ nodes'[nodes'[n].nxt].prev = n
                  /\ n # O2 =>
                       /\ nodes'[n].prev \in DOMAIN nodes'
                       /\ SameLevel(n, nodes[n].prev)'
                       /\ nodes'[nodes'[n].prev].nxt = n
    <3> DEFINE K  == levels[location[n].side][location[n].price]
               O2 == NewOldest(location[n].side, location[n].price)
    <3>1. nodes'[n].nxt = nodes[n].nxt /\ (n # cursor => nodes'[n].prev = nodes[n].prev)
      BY <1>5
    <3>2. n = K.last => nodes'[n].nxt = Null
      BY <1>11, <3>1
    <3>3. n # K.last =>
            /\ nodes[n].nxt \in DOMAIN nodes \ freed
            /\ SameLevel(n, nodes[n].nxt)
            /\ nodes'[nodes[n].nxt].prev = n
      BY <1>25
    <3>4. n # O2 =>
            /\ n # cursor
            /\ nodes[n].prev \in DOMAIN nodes \ freed /\ SameLevel(n, nodes[n].prev)
            /\ nodes[nodes[n].prev].nxt = n
      BY <1>25
    <3> HIDE DEF K, O2
    <3>5. n # K.last =>
            /\ nodes'[n].nxt \in DOMAIN nodes'
            /\ SameLevel(n, nodes[n].nxt)'
            /\ nodes'[nodes'[n].nxt].prev = n
      BY <1>5, <1>6, <3>1, <3>3 DEF SameLevel
    <3>6. n # O2 =>
            /\ nodes'[n].prev \in DOMAIN nodes'
            /\ SameLevel(n, nodes[n].prev)'
            /\ nodes'[nodes'[n].prev].nxt = n
      BY <1>5, <1>6, <3>1, <3>4 DEF SameLevel
    <3> QED BY <3>2, <3>5, <3>6 DEF K, O2
  <2> QED BY <1>5, <1>31, <1>32, <2>1, SMTT(30) DEF LinksAreInverse
<1>30. ListsAreFifo'
  <2>1. ASSUME NEW n \in DOMAIN nodes \ freed
        PROVE  LET K == levels[location[n].side][location[n].price]
                   O2 == NewOldest(location[n].side, location[n].price)
               IN /\ n # O2 => <<O2, n>> \in before'
                  /\ n # K.last =>
                       /\ <<n, K.last>> \in before'
                       /\ <<n, nodes'[n].nxt>> \in before'
                       /\ \A m \in DOMAIN nodes' :
                            SameLevel(m, n)' /\ <<n, m>> \in before' /\ m # nodes'[n].nxt
                              => <<nodes'[n].nxt, m>> \in before'
    <3> DEFINE K  == levels[location[n].side][location[n].price]
               O2 == NewOldest(location[n].side, location[n].price)
               x  == nodes[n].nxt
    <3>1. nodes'[n].nxt = x
      BY <1>5
    <3>2. n # O2 => <<O2, n>> \in before'
      BY <1>8, <1>25
    <3>3. K.last \notin freed
      BY <1>31
    <3>4. n # K.last =>
            /\ x \notin freed
            /\ <<n, K.last>> \in before
            /\ <<n, x>> \in before
            /\ \A m \in DOMAIN nodes :
                 SameLevel(m, n) /\ <<n, m>> \in before /\ m # x => <<x, m>> \in before
      BY <1>11, <1>25
    <3> HIDE DEF K, O2, x
    <3>5. n # K.last => <<n, K.last>> \in before' /\ <<n, x>> \in before'
      BY <1>8, <3>3, <3>4
    <3>6. ASSUME n # K.last, NEW m \in DOMAIN nodes',
                 SameLevel(m, n)', <<n, m>> \in before', m # x
          PROVE  <<x, m>> \in before'
      <4>1. m \in DOMAIN nodes \ freed /\ SameLevel(m, n) /\ <<n, m>> \in before
        BY <1>5, <1>6, <1>8, <3>6 DEF SameLevel
      <4> QED BY <1>8, <3>4, <3>6, <4>1
    <3> QED BY <3>1, <3>2, <3>5, <3>6 DEF K, O2
  <2> QED BY <1>5, <1>31, <1>32, <2>1, ZenonT(40) DEF ListsAreFifo
<1>27. SweepOnBestLevel'
  <2> SUFFICES ASSUME it' # Null PROVE SweepOnBestLevel'
    BY DEF SweepOnBestLevel
  <2>1. ~ends /\ it' = cursor /\ cursor # Null /\ left > 0
    BY <1>4, <1>8, <1>9
  <2>2. /\ taker' # Null /\ taker'.quantity = left /\ taker'.side = taker.side
        /\ taker'.price = taker.price /\ taker'.order_type = taker.order_type
    <3>1. taker' \in EventRecord
      BY <1>4, <1>8 DEF EventRecord
    <3> QED BY <1>8, <3>1, NullAssumption DEF EventRecord
  <2>3. /\ it' \in DOMAIN nodes' /\ location'[it'].side = side /\ location'[it'].price = p
    BY <1>5, <1>6, <1>16, <2>1 DEF At
  <2>4. \A q : q \in DOMAIN levels'[side] <=> q \in DOMAIN levels[side]
    BY <1>10, <2>1
  <2>5. IsBest(side, p)'
    BY <2>4 DEF IsBest, CanMatch
  <2>6. side = Opposite(taker'.side)
    BY <2>2 DEF CanMatch, Opposite
  <2>7. Crosses(taker', p)
    BY <1>1, <2>2 DEF Crosses
  <2> QED BY <2>1, <2>2, <2>3, <2>5, <2>6, <2>7 DEF SweepOnBestLevel
<1>28. NotCrossed'
  BY <1>10 DEF NotCrossed
<1>29. DOMAIN location' \subseteq DOMAIN location /\ it' \in IdOrNull
  BY <1>2, <1>6, <1>8, <1>16 DEF StateTypes, IdOrNull
<1> QED BY <1>22, <1>23, <1>24, <1>26, <1>27, <1>28, <1>29, <1>30 DEF WellFormed

(* A fill report (book.cpp:579) has the type of an OrderEvent. *)
LEMMA FillType ==
  ASSUME NEW id \in Ids, NEW owner \in Owners, NEW side \in Sides,
         NEW left \in Int, NEW traded \in Int, NEW price \in Int
  PROVE  Fill(id, owner, side, left, traded, price) \in OrderEvent
BY DEF Fill, OrderEvent, ResponseEvents

(* One iteration of an inner matching loop leaves every variable of its    *)
(* type.                                                                   *)
LEMMA MatchTypes ==
  ASSUME StateTypes, WellFormed, taker \in EventRecord,
         NEW side \in Sides, NEW p \in DOMAIN levels[side],
         CanMatch(side, p), Match(side, p)
  PROVE  /\ levels' = [s \in Sides |-> levels'[s]]
         /\ \A s \in Sides :
              /\ DOMAIN levels'[s] \subseteq Int
              /\ levels'[s] \in [DOMAIN levels'[s] -> Level]
         /\ DOMAIN nodes' \subseteq Ids /\ nodes' \in [DOMAIN nodes' -> Node]
         /\ DOMAIN location' \subseteq Ids /\ location' \in [DOMAIN location' -> LocationID]
         /\ before' \subseteq Ids \X Ids
         /\ taker' \in EventRecord /\ taker'.order_id = taker.order_id
         /\ responses' \in Seq(OrderEvent)
<1> DEFINE maker == IF it = Null THEN levels[side][p].first ELSE it
           L     == levels[side][p]
           delta == Smaller(taker.quantity, nodes[maker].quantity)
           left  == taker.quantity - delta
           kept  == nodes[maker].quantity - delta
           cursor == IF kept = 0 THEN nodes[maker].nxt ELSE maker
           ends  == left = 0 \/ cursor = Null
           freed == IF kept = 0 THEN {maker} ELSE {}
           rest  == [first |-> IF ends THEN cursor ELSE L.first,
                     last |-> L.last,
                     total_quantity |-> L.total_quantity - delta]
           f1    == Fill(taker.order_id, taker.owner_id, taker.side, left, delta, p)
           f2    == Fill(maker, nodes[maker].owner_id, side, kept, delta, p)
<1>1. maker \in DOMAIN nodes
  BY MakerIsOldest
<1>2. /\ nodes[maker] \in Node /\ maker \in Ids /\ L \in Level /\ p \in Int
      /\ DOMAIN levels = Sides
  BY <1>1 DEF StateTypes
<1>3. /\ taker.order_id \in Ids /\ taker.owner_id \in Owners /\ taker.side \in Sides
      /\ taker.quantity \in Int
      /\ nodes[maker].owner_id \in Owners /\ nodes[maker].quantity \in Int
      /\ nodes[maker].nxt \in IdOrNull
  BY <1>2 DEF EventRecord, Node
<1>4. delta \in Int /\ left \in Int /\ kept \in Int /\ cursor \in IdOrNull
  BY <1>2, <1>3 DEF Smaller, IdOrNull
<1>5. rest \in Level
  BY <1>2, <1>4 DEF Level
<1>6. f1 \in OrderEvent /\ f2 \in OrderEvent
  BY <1>2, <1>3, <1>4, FillType
<1>7. responses' = responses \o <<f1, f2>>
  BY DEF Match
<1>8. levels' = [levels EXCEPT ![side] =
                   IF cursor = Null THEN Without(@, p) ELSE With(@, p, rest)]
  BY DEF Match
<1>9. nodes' = [n \in DOMAIN nodes \ freed |->
                  [nodes[n] EXCEPT
                     !.quantity = IF n = maker THEN kept ELSE @,
                     !.prev = IF ends /\ n = cursor THEN Null ELSE @]]
  BY DEF Match
<1>10. /\ location' = [n \in DOMAIN location \ freed |-> location[n]]
       /\ before' \subseteq before
       /\ taker' = [taker EXCEPT !.quantity = left]
  BY DEF Match
<1> HIDE DEF maker, L, delta, left, kept, cursor, ends, freed, rest, f1, f2
<1>11. responses' \in Seq(OrderEvent)
  <2>1. <<f1, f2>> \in Seq(OrderEvent)
    BY <1>6
  <2> QED BY <1>7, <2>1 DEF StateTypes
<1>12. taker' \in EventRecord /\ taker'.order_id = taker.order_id
  BY <1>4, <1>10 DEF EventRecord
<1>13. \A s \in Sides :
         /\ DOMAIN levels'[s] \subseteq Int
         /\ levels'[s] \in [DOMAIN levels'[s] -> Level]
  <2> TAKE s \in Sides
  <2>1. CASE s # side
    <3>1. levels'[s] = levels[s]
      BY <1>2, <1>8, <2>1
    <3> QED BY <3>1 DEF StateTypes
  <2>2. CASE s = side /\ cursor = Null
    <3>1. levels'[s] = Without(levels[s], p)
      BY <1>2, <1>8, <2>2
    <3> QED BY <3>1 DEF StateTypes, Without
  <2>3. CASE s = side /\ cursor # Null
    <3>1. levels'[s] = With(levels[s], p, rest)
      BY <1>2, <1>8, <2>3
    <3> QED BY <1>2, <1>5, <3>1 DEF StateTypes, With
  <2> QED BY <2>1, <2>2, <2>3
<1>14. levels' = [s \in Sides |-> levels'[s]]
  BY <1>2, <1>8 DEF StateTypes
<1>15. DOMAIN nodes' \subseteq Ids /\ nodes' \in [DOMAIN nodes' -> Node]
  <2>1. \A n \in DOMAIN nodes \ freed :
          [nodes[n] EXCEPT
                     !.quantity = IF n = maker THEN kept ELSE @,
                     !.prev = IF ends /\ n = cursor THEN Null ELSE @] \in Node
    BY <1>4 DEF StateTypes, Node, IdOrNull
  <2> QED BY <1>9, <2>1 DEF StateTypes
<1>16. /\ DOMAIN location' \subseteq Ids /\ location' \in [DOMAIN location' -> LocationID]
       /\ before' \subseteq Ids \X Ids
  BY <1>10 DEF StateTypes
<1> QED BY <1>11, <1>12, <1>13, <1>14, <1>15, <1>16

(* One iteration of an inner matching loop preserves the invariant. *)
LEMMA MatchIInv ==
  ASSUME IInv, NEW side \in Sides, NEW p \in DOMAIN levels[side],
         CanMatch(side, p), Match(side, p)
  PROVE  IInv'
<1>1. taker \in EventRecord /\ threw = FALSE /\ threw' = FALSE
  BY DEF IInv, StateTypes, NeverThrows, CanMatch, Match
<1>2. WellFormed' /\ NotCrossed' /\ DOMAIN location' \subseteq DOMAIN location /\ it' \in IdOrNull
  BY <1>1, MatchKeeps DEF IInv
<1>3. StateTypes' /\ taker'.order_id = taker.order_id
  BY <1>1, <1>2, MatchTypes DEF IInv, StateTypes
<1>4. NeverThrows'
  BY <1>1, <1>2, <1>3, NullAssumption DEF IInv, NeverThrows
<1> QED BY <1>2, <1>3, <1>4 DEF IInv

-----------------------------------------------------------------------------
(* Every step of the book preserves the inductive invariant. *)
LEMMA NextIInv == IInv /\ [Next]_vars => IInv'
<1> SUFFICES ASSUME IInv, [Next]_vars PROVE IInv'
  OBVIOUS
<1>1. ASSUME NEW e \in Events, ProcessOrder(e) PROVE IInv'
  BY <1>1, AddIInv, CancelIInv, ModIInv, IOCIInv, MarketIInv DEF ProcessOrder
<1>2. CASE MatchBuy \/ MarketBuy
  <2>1. PICK p \in DOMAIN levels["Sell"] : CanMatch("Sell", p) /\ Match("Sell", p)
    BY <1>2 DEF MatchBuy, MarketBuy
  <2> QED BY <2>1, MatchIInv
<1>3. CASE MatchSell \/ MarketSell
  <2>1. PICK p \in DOMAIN levels["Buy"] : CanMatch("Buy", p) /\ Match("Buy", p)
    BY <1>3 DEF MatchSell, MarketSell
  <2> QED BY <2>1, MatchIInv
<1>4. CASE ReturnRested
  BY <1>4, ReturnRestedIInv
<1>5. CASE ReturnExpired
  BY <1>5, ReturnExpiredIInv
<1>6. CASE UNCHANGED vars
  <2> USE <1>6 DEF vars
  <2>1. StateTypes' /\ NotCrossed' /\ NeverThrows'
    BY DEF IInv, StateTypes, NotCrossed, NeverThrows
  <2>2. \A side, p : Oldest(side, p)' = Oldest(side, p)
    BY DEF Oldest, Swept, At
  <2>3. IndexMatchesNodes' /\ ArrivalIsOrder'
    BY DEF IInv, WellFormed, IndexMatchesNodes, ArrivalIsOrder, SameLevel
  <2>4. SweepOnBestLevel'
    BY DEF IInv, WellFormed, SweepOnBestLevel, IsBest
  <2>5. LevelsNonEmpty'
    BY <2>2 DEF IInv, WellFormed, LevelsNonEmpty, At, Oldest, Swept
  <2>6. LinksAreInverse'
    BY <2>2 DEF IInv, WellFormed, LinksAreInverse, SameLevel, Oldest, Swept, At
  <2>7. ListsAreFifo'
    BY <2>2 DEF IInv, WellFormed, ListsAreFifo, SameLevel, Oldest, Swept, At
  <2> QED BY <2>1, <2>3, <2>4, <2>5, <2>6, <2>7 DEF IInv, WellFormed
<1> QED BY <1>1, <1>2, <1>3, <1>4, <1>5, <1>6 DEF Next, Call

(* The inductive invariant holds in every reachable state of ProcessOrder  *)
(* calls, for any ids, owners, events and prices.                          *)
THEOREM BookInvariant == Spec => []IInv
<1>1. Init => IInv
  BY InitIInv
<1>2. IInv /\ [Next]_vars => IInv'
  BY NextIInv
<1> QED BY <1>1, <1>2, PTL DEF Spec

(* Type correctness of the book's levels, nodes, index and responses, and  *)
(* of the event whose call is in progress.                                 *)
THEOREM TypeCorrect == Spec => []TypeOK
<1> DEFINE Requested == request \in Events \cup {Null}
<1>1. Init => Requested
  BY DEF Init
<1>2. Requested /\ [Next]_vars => Requested'
  <2> SUFFICES ASSUME Requested, [Next]_vars PROVE Requested'
    OBVIOUS
  <2>1. CASE \E e \in Events : ProcessOrder(e)
    BY <2>1 DEF ProcessOrder
  <2>2. CASE Call
    BY <2>2 DEF Call
  <2>3. CASE UNCHANGED vars
    BY <2>3 DEF vars
  <2> QED BY <2>1, <2>2, <2>3 DEF Next
<1>3. IInv => StateTypes
  BY DEF IInv
<1>4. StateTypes /\ Requested => TypeOK
  BY DEF TypeOK
<1> QED BY <1>1, <1>2, <1>3, <1>4, BookInvariant, PTL DEF Spec

(* Index, lists and arrival order agree after every step of every call,    *)
(* the middle of a matching loop included (book.cpp 258-475, 477-577).     *)
THEOREM StructureCorrect == Spec => []WellFormed
<1>1. IInv => WellFormed
  BY DEF IInv
<1> QED BY <1>1, BookInvariant, PTL

(* The book is never crossed: the price comparisons of matchBuy and        *)
(* matchSell leave no bid at or above an ask when an order rests.          *)
THEOREM NeverCrossed == Spec => []NotCrossed
<1>1. IInv => NotCrossed
  BY DEF IInv
<1> QED BY <1>1, BookInvariant, PTL

(* rest_order's std::logic_error (book.cpp:433) is never thrown.           *)
THEOREM RestNeverThrows == Spec => []NeverThrows
<1>1. IInv => NeverThrows
  BY DEF IInv
<1> QED BY <1>1, BookInvariant, PTL

(* Every iteration of a matching loop trades at least one unit, so a call  *)
(* makes no more iterations than its quantity.                             *)
THEOREM LoopProgress == Spec => LoopsMakeProgress
<1> DEFINE Step == taker # Null /\ taker' # Null => threw' \/ taker'.quantity < taker.quantity
<1>1. IInv /\ [Next]_vars => [Step]_vars
  <2> SUFFICES ASSUME IInv, Next, taker # Null, taker' # Null
               PROVE  threw' \/ taker'.quantity < taker.quantity
    BY DEF vars
  <2>1. ASSUME NEW e \in Events, ProcessOrder(e) PROVE FALSE
    BY <2>1 DEF ProcessOrder, ProcessAdd, ProcessCancel, ProcessMod, ProcessIOC,
                ProcessMarket, Idle
  <2>2. ASSUME NEW side \in Sides, NEW p \in DOMAIN levels[side],
               CanMatch(side, p), Match(side, p)
        PROVE  taker'.quantity < taker.quantity
    <3> DEFINE maker == IF it = Null THEN levels[side][p].first ELSE it
    <3>1. taker \in EventRecord
      BY DEF IInv, StateTypes
    <3>2. maker \in DOMAIN nodes
      BY <2>2, <3>1, MakerIsOldest DEF IInv
    <3>3. nodes[maker].quantity \in Int /\ nodes[maker].quantity > 0
      BY <3>2 DEF IInv, StateTypes, Node, WellFormed, IndexMatchesNodes
    <3>4. taker.quantity \in Int /\ taker.quantity > 0
      BY <2>2, <3>1 DEF EventRecord, CanMatch, HasLeft
    <3>5. taker' = [taker EXCEPT !.quantity =
                      taker.quantity - Smaller(taker.quantity, nodes[maker].quantity)]
      BY <2>2 DEF Match
    <3> HIDE DEF maker
    <3>6. taker'.quantity = taker.quantity - Smaller(taker.quantity, nodes[maker].quantity)
      BY <3>1, <3>5 DEF EventRecord
    <3> QED BY <3>3, <3>4, <3>6 DEF Smaller
  <2>3. CASE MatchBuy \/ MarketBuy \/ MatchSell \/ MarketSell
    BY <2>2, <2>3 DEF MatchBuy, MarketBuy, MatchSell, MarketSell
  <2>4. CASE ReturnRested \/ ReturnExpired
    BY <2>4 DEF ReturnRested, ReturnExpired
  <2> QED BY <2>1, <2>3, <2>4 DEF Next, Call
<1> QED BY <1>1, BookInvariant, PTL DEF Spec, LoopsMakeProgress
=============================================================================
