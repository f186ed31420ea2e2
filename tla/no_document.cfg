CONSTANTS
  a = a  b = b  Nil = Nil  Never = Never
  Accounts = {a, b}
  Registered = {a}
  Remembered = Nil
  MaxTaps = 1
  MaxRequests = 1
  MaxListeners = 1
  MaxTokens = 1
  MaxFaults = 0
SPECIFICATION Spec
CHECK_DEADLOCK FALSE
PROPERTIES
  DocumentDoesNotExist
