CONSTANTS
  anomaly = anomaly
  resolver = resolver
  saved = saved
  Query = {anomaly, resolver}
  Total <- TotalOf
  Limit <- LimitOf
  Paginated <- PaginatedOf
  Rebuilt <- PaginatedOf
  Page = 2
  MaxEntries = 1
  Workers = 1
  MaxSubmits <- Once
  MaxJobs = 4
  NONE = NONE
SPECIFICATION FairSpec
INVARIANTS
  RowsInOrderOnce
  SuccessIsComplete
  ProcessingIsPolled
  OnePageAtATime
PROPERTIES
  EventuallyQuiet
CHECK_DEADLOCK FALSE
