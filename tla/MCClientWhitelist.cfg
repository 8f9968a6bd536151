CONSTANTS
  resolver = resolver
  domain = domain
  server = server
  NONE = NONE
  LOST = LOST
  MaxRequests = 3
  MayFail = {1}
  Urls <- MCUrls
  Requests <- MCRequests
  Replies <- MCReplies
  Window <- MCWindow
  Server = {server}
  TimeRange <- MCTimeRange
  Last24h <- MCLast24h
  FirstServer = server
  Event <- MCEvent
  FilterOf <- MCFilterOf
  SearchText = {}
  Sort <- MCSort
  Time = {3}
  DayAgo = 1
  Now = 4
  SECTIONS <- MCSections
  pageSize = 1
  whitelist = {resolver}
SPECIFICATION MCSpec
INVARIANT ShowsAllWhenSelected
CHECK_DEADLOCK FALSE
