CONSTANTS
  f1 = f1  f2 = f2  g1 = g1  g2 = g2
  p1 = p1  p2 = p2  p3 = p3
  Nil = Nil
  NoHall = "none"
  Halls = {"hall"}
  Users = {f1, g1}
  Freshmen = {f1}
  Devices = {p1, p2}
  Owner <- OneFreshmanOneGiver
  Started = {p1, p2}
  Reappearing = {}
  Cancelling = {f1, g1}
  MaxTaps = 3
  MaxKills = 1
  MaxLosses = 0
  MaxEvents = 2
SPECIFICATION Spec
CHECK_DEADLOCK FALSE
INVARIANTS
  RequestIsShown
