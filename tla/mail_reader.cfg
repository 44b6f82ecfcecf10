SPECIFICATION FairSpec
CONSTANTS
  Mail <- MCMail
  Folder <- MCFolder
  Inbox = "INBOX"
  Listings <- MCListings
  Filters <- MCFilters
  MaxReads = 3
  MaxChanges = 2
INVARIANTS
  TypeOK
  ReadIsComplete
  ReadIsExact
  ConnectIsBest
PROPERTIES
  ReadEnds
CHECK_DEADLOCK FALSE
