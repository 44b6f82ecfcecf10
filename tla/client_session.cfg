SPECIFICATION FairSpec
CONSTANTS
  Message = {"m1"}
  AuthorizationCapabilities = {"SASL PLAIN"}
  TransactionCapabilities = {"UIDL"}
  MaxCalls = 3
  Faults = {"garbage", "loss", "cancel", "challenge", "split"}
INVARIANTS
  TypeOK
  TransactionIsTrue
  AccessIsKnown
  OkIsDone
  CapabilitiesKnown
PROPERTIES
  PasswordNotAgain
  CallEnds
CHECK_DEADLOCK FALSE
