SPECIFICATION Spec
CONSTANTS
  TagLength = 7
  Chunk = 4
  MaxSize = 12
  MaxSent = 3
  Replies <- ManyReplies
  Faults = {"eof", "reset"}
  Segmentation = "bytes"
INVARIANTS
  TypeOK
  OwnReply
  RepollStutters
  OnlyNeedsDelay
  PanicsOnlyAfterInvalid
PROPERTIES
  RefusedIsLarge
CHECK_DEADLOCK FALSE
