SPECIFICATION Spec
CONSTANTS
  TagLength = 3
  Text = {"scan", "long", "stats", "word", "tag", "other", "."}
  MaxLen = 10
INVARIANTS
  ReplyEndsLine
  ListingEndsWithDot
PROPERTIES
  ReplyIsStable
CHECK_DEADLOCK FALSE
