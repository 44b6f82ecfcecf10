SPECIFICATION Spec
CONSTANTS
  Message = {"m1"}
  AuthorizationCapabilities = {}
  TransactionCapabilities = {"UIDL"}
  MaxCalls = 2
  Faults = {}
INVARIANTS
  DeletedIsKnown
CHECK_DEADLOCK FALSE
