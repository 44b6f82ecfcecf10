SPECIFICATION Spec
CONSTANTS
  Message = {"m1"}
  AuthorizationCapabilities = {"SASL PLAIN"}
  TransactionCapabilities = {}
  MaxCalls = 2
  Faults = {"challenge"}
INVARIANTS
  AuthSettles
CHECK_DEADLOCK FALSE
