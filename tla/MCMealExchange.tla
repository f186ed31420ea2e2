---------------------------- MODULE MCMealExchange ----------------------------
(***************************************************************************)
(* Small instances of MealExchange: who owns which phone.                  *)
(***************************************************************************)
EXTENDS MealExchange

CONSTANTS f1, f2, g1, g2,      \* accounts: freshmen and givers
          p1, p2, p3           \* phones

OneFreshmanOneGiver == (p1 :> f1) @@ (p2 :> g1)
OneFreshmanTwoGivers == (p1 :> f1) @@ (p2 :> g1) @@ (p3 :> g2)
TwoFreshmenOneGiver == (p1 :> f1) @@ (p2 :> f2) @@ (p3 :> g1)

\* With OneFreshmanTwoGivers the givers are interchangeable, each with the own phone.
GiversAlike ==
  {p \in Permutations({g1, g2, p2, p3}) :
     p[g1] \in {g1, g2} /\ p[p2] \in {p2, p3} /\ (p[g1] = g1 <=> p[p2] = p2)}

\* With TwoFreshmenOneGiver the freshmen are interchangeable, each with the own phone.
FreshmenAlike ==
  {p \in Permutations({f1, f2, p1, p2}) :
     p[f1] \in {f1, f2} /\ p[p1] \in {p1, p2} /\ (p[f1] = f1 <=> p[p1] = p1)}

=============================================================================
