------------------------------- MODULE Pairings -------------------------------
(***************************************************************************)
(* What the exchange promises its users, without phones and queues: a      *)
(* freshman makes a request; a giver makes or calls off a pairing in one   *)
(* step, for both sides.                                                   *)
(***************************************************************************)
CONSTANTS Freshmen, Givers

VARIABLES
  requests,   \* the freshmen who have made a request
  pairings    \* <<u, v>>: u is told of a pairing with v

vars == <<requests, pairings>>

Init == requests \subseteq Freshmen /\ pairings = {}

Sides(g, f) == {<<g, f>>, <<f, g>>}

\* A freshman asks for a meal.
Ask(f) ==
  /\ requests' = requests \cup {f}
  /\ UNCHANGED pairings

\* A giver takes a request, of a freshman who may be paired with others.
Pair(g, f) ==
  /\ f \in requests
  /\ UNCHANGED requests
  /\ pairings' = pairings \cup Sides(g, f)

\* A giver calls a pairing off.
Cancel(g, f) ==
  /\ <<g, f>> \in pairings
  /\ UNCHANGED requests
  /\ pairings' = pairings \ Sides(g, f)

Next ==
  \/ \E f \in Freshmen : Ask(f)
  \/ \E g \in Givers, f \in Freshmen : Pair(g, f) \/ Cancel(g, f)

Spec == Init /\ [][Next]_vars

=============================================================================
