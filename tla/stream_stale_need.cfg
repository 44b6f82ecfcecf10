SPECIFICATION FairSpec
CONSTANTS
  TagLength = 7
  Chunk = 9
  MaxSize = 18
  MaxSent = 3
  Replies <- StaleReplies
  Faults = {}
  Segmentation = "lines"
PROPERTIES
  Answered
CHECK_DEADLOCK FALSE
