--------------------------- MODULE BookDestructor ---------------------------
(***************************************************************************)
(* src/book.cpp, 9-34: Book::~Book after any sequence of calls.  The lists *)
(* are walked once more, by their nxt pointers alone, and every node they  *)
(* lead to is deleted.  A node that a list no longer leads to leaks; one   *)
(* that two paths lead to is deleted twice.                                *)
(***************************************************************************)
EXTENDS Book

VARIABLES
  phase,   \* alive; the side clearLevels is in; index; gone
  left,    \* the prices of that side whose lists are still to be deleted
  node     \* clearLevels' cursor, or Null between two levels

lifeVars == <<vars, phase, left, node>>

callVars == <<taker, it, responses, threw, before, request>>

LifeInit == Init /\ phase = "alive" /\ left = {} /\ node = Null

Live == phase = "alive" /\ Next /\ UNCHANGED <<phase, left, node>>

(* Between two calls, the book goes out of scope: clearLevels(bids). *)
Destroy ==
  /\ phase = "alive" /\ Idle
  /\ phase' = "Buy"
  /\ left' = DOMAIN levels["Buy"]
  /\ UNCHANGED <<vars, node>>

(* Mutant: a level is entered and stays to be entered again. *)
EnterLevelAgain(p) ==
  /\ phase \in Sides /\ node = Null
  /\ p \in left /\ \A q \in left : p <= q
  /\ node' = levels[phase][p].first
  /\ UNCHANGED <<vars, phase, left>>

(* The next entry of the map, in the order of its prices. *)
EnterLevel(p) ==
  /\ phase \in Sides /\ node = Null
  /\ p \in left /\ \A q \in left : p <= q
  /\ node' = levels[phase][p].first
  /\ left' = left \ {p}
  /\ UNCHANGED <<vars, phase>>

(* Mutant: only the first node of a level is deleted. *)
DeleteFirst ==
  /\ phase \in Sides /\ node # Null
  /\ nodes' = Without(nodes, node)
  /\ node' = Null
  /\ UNCHANGED <<levels, location, callVars, phase, left>>

(* next is read, then the node is deleted. *)
DeleteNode ==
  /\ phase \in Sides /\ node # Null
  /\ nodes' = Without(nodes, node)
  /\ node' = nodes[node].nxt
  /\ UNCHANGED <<levels, location, callVars, phase, left>>

(* levels.clear(); clearLevels(asks) follows clearLevels(bids). *)
ClearMap ==
  /\ phase \in Sides /\ node = Null /\ left = {}
  /\ levels' = [levels EXCEPT ![phase] = EmptyMap]
  /\ phase' = IF phase = "Buy" THEN "Sell" ELSE "index"
  /\ left' = IF phase = "Buy" THEN DOMAIN levels["Sell"] ELSE {}
  /\ UNCHANGED <<nodes, location, callVars, node>>

ClearIndex ==
  /\ phase = "index"
  /\ location' = EmptyMap
  /\ phase' = "gone"
  /\ UNCHANGED <<levels, nodes, callVars, left, node>>

Destructor ==
  Destroy \/ (\E p \in left : EnterLevel(p)) \/ DeleteNode \/ ClearMap \/ ClearIndex

LifeNext == Live \/ Destructor

LifeSpec == LifeInit /\ [][LifeNext]_lifeVars

-----------------------------------------------------------------------------
(* The destructor never follows a pointer to a node that it, or an earlier *)
(* call of removeFromSide or of a matching loop, has deleted (book.cpp:23, *)
(* 25): no list leads to a deleted node, and no node is in two lists.      *)
NoUseAfterFree == node # Null => node \in DOMAIN nodes

(* Every node ever allocated has been deleted when the book is gone        *)
(* (book.cpp:9-15): every live node is on the list of some level.          *)
NothingLeaks == phase = "gone" => nodes = EmptyMap
=============================================================================
