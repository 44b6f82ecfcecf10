SPECIFICATION Spec
CONSTANTS
  Message = {"m1"}
  AuthorizationCapabilities = {}
  TransactionCapabilities = {}
  MaxCalls = 3
  Faults = {"cancel"}
INVARIANTS
  StateIsTrue
CHECK_DEADLOCK FALSE
