CONSTANTS
  a = a  b = b  Nil = Nil  Never = Never
  Accounts = {a, b}
  Registered = {a}
  Remembered = a
  MaxTaps = 2
  MaxRequests = 1
  MaxListeners = 1
  MaxTokens = 2
  MaxFaults = 1
SPECIFICATION FairSpec
CHECK_DEADLOCK FALSE
INVARIANTS
  UsersAgree
PROPERTIES
  ProfileKept
  TokenArrives
