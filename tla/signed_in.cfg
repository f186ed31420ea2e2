CONSTANTS
  a = a  b = b  Nil = Nil  Never = Never
  Accounts = {a, b}
  Registered = {a, b}
  Remembered = Nil
  MaxTaps = 2
  MaxRequests = 1
  MaxListeners = 1
  MaxTokens = 1
  MaxFaults = 0
SPECIFICATION Spec
CHECK_DEADLOCK FALSE
INVARIANTS
  SignedIn
