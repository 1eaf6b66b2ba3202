CONSTANTS
  NumLines = 4
  CommandBytes <- MCCommandBytes
  DataBytes <- MCDataBytes
SPECIFICATION ServiceSpec
INVARIANTS
  TypeOK
  NestingFollowsPriority
  AutoEOINeverBlocks
PROPERTIES
  EOIEndsLatestService
