CONSTANTS
  anomaly = anomaly
  resolver = resolver
  saved = saved
  Query = {anomaly}
  Total <- TotalOf
  Limit <- LimitOf
  Paginated <- PaginatedOf
  Rebuilt <- PaginatedOf
  Page = 2
  MaxEntries = 1
  Workers = 1
  MaxSubmits <- Once
  MaxJobs = 2
  NONE = NONE
SPECIFICATION Spec
PROPERTY CancelledStaysCancelled
CHECK_DEADLOCK FALSE
