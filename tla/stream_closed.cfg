SPECIFICATION FairSpec
CONSTANTS
  TagLength = 7
  Chunk = 9
  MaxSize = 18
  MaxSent = 2
  Replies <- StaleReplies
  Faults = {"eof"}
  Segmentation = "replies"
PROPERTIES
  ClosedIsReported
CHECK_DEADLOCK FALSE
