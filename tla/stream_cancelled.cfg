SPECIFICATION Spec
CONSTANTS
  TagLength = 7
  Chunk = 4
  MaxSize = 12
  MaxSent = 4
  Replies <- CancelReplies
  Faults = {"cancel", "cancel_encode"}
  Segmentation = "bytes"
INVARIANTS
  Aligned
PROPERTIES
  FailStop
  ImplementsFifo
CHECK_DEADLOCK FALSE
