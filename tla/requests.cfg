CONSTANTS
  f1 = f1  f2 = f2  g1 = g1  g2 = g2
  p1 = p1  p2 = p2  p3 = p3
  Nil = Nil
  NoHall = "none"
  Halls = {"hall"}
  Users = {f1, f2, g1}
  Freshmen = {f1, f2}
  Devices = {p1, p2, p3}
  Owner <- TwoFreshmenOneGiver
  Started = {p1, p2, p3}
  Reappearing = {p3}
  Cancelling = {f1, f2, g1}
  MaxTaps = 3
  MaxKills = 0
  MaxLosses = 0
  MaxEvents = 1
SPECIFICATION Spec
CHECK_DEADLOCK FALSE
SYMMETRY FreshmenAlike
INVARIANTS
  NoDuplicatePairings
  FreshmenPairWithGivers
PROPERTIES
  RequestIsOwn
