SPECIFICATION FairSpec
CONSTANTS
  TagLength = 7
  Chunk = 9
  MaxSize = 18
  MaxSent = 5
  Replies <- ManyReplies
  Faults = {"reset"}
  Segmentation = "replies"
PROPERTIES
  Answered
CHECK_DEADLOCK FALSE
