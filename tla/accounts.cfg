CONSTANTS
  a = a  b = b  Nil = Nil  Never = Never
  Accounts = {a, b}
  Registered = {a}
  Remembered = Nil
  MaxTaps = 3
  MaxRequests = 1
  MaxListeners = 2
  MaxTokens = 1
  MaxFaults = 0
SPECIFICATION Spec
CHECK_DEADLOCK FALSE
INVARIANTS
  TypeOK
  TokenHasAddress
  SignUpHasUser
  UsersAgree
  SessionHasDocument
PROPERTIES
  ProfileKept
