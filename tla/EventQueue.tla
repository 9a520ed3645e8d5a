----------------------------- MODULE EventQueue -----------------------------
(***************************************************************************)
(* include/backtester/event_queue.hpp: the queue of events waiting for     *)
(* their time, ordered by time and, at equal times, by order of insertion. *)
(* std::priority_queue is its set of entries with top() the first of them. *)
(***************************************************************************)
EXTENDS Integers, Sequences

EmptyQueue == [events |-> {}, order_counter |-> 0]

(* Mutant: equal times come out last in, first out. *)
PrecedesNewestFirst(x, y) ==
  \/ x.event.time < y.event.time
  \/ x.event.time = y.event.time /\ x.order > y.order

(* Entry x is popped before entry y: Compare_Events. *)
Precedes(x, y) ==
  \/ x.event.time < y.event.time
  \/ x.event.time = y.event.time /\ x.order < y.order

AddEvent(q, e) ==
  [events |-> q.events \cup {[event |-> e, order |-> q.order_counter]},
   order_counter |-> q.order_counter + 1]

(* AddEvent for each of a sequence of events, in its order. *)
AddEvents(q, es) ==
  [events |-> q.events \cup {[event |-> es[i], order |-> q.order_counter + i - 1] :
                               i \in DOMAIN es},
   order_counter |-> q.order_counter + Len(es)]

(* x is events.top(), and due at `time': GetEvents pops it. *)
IsDue(q, x, time) ==
  /\ x \in q.events
  /\ x.event.time <= time
  /\ \A y \in q.events \ {x} : Precedes(x, y)

(* Mutant: the loop of GetEvents does not pop. *)
PopNothing(q, x) == q

Pop(q, x) == [q EXCEPT !.events = @ \ {x}]
=============================================================================
