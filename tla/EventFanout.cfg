SPECIFICATION Spec
CONSTANTS
  None = None
  Window = 3
  Capacity = 2
  Credits = 2
  MaxEvents = 5
  MaxFaults = 2
  MaxFleeting = 1
INVARIANTS
  TypeOK
  ViewIsPrefix
  FeedIsComplete
  NeverMisjudged
PROPERTIES
  ReaderCatchesUp
CHECK_DEADLOCK FALSE
