CONSTANTS
  f1 = f1  f2 = f2  g1 = g1  g2 = g2
  p1 = p1  p2 = p2  p3 = p3
  Nil = Nil
  NoHall = "none"
  Halls = {"hall"}
  Users = {f1, g1, g2}
  Freshmen = {f1}
  Devices = {p1, p2, p3}
  Owner <- OneFreshmanTwoGivers
  Started = {p1, p2, p3}
  Reappearing = {}
  Cancelling = {g1, g2}
  MaxTaps = 3
  MaxKills = 0
  MaxLosses = 0
  MaxEvents = 1
SPECIFICATION Spec
CHECK_DEADLOCK FALSE
SYMMETRY GiversAlike
INVARIANTS
  PairingsAgree
PROPERTIES
  ImplementsPairings
