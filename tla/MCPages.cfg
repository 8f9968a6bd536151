SPECIFICATION MCSpec
CONSTANTS
  Browser = {s1, s2}
  MaxToken = 3
  NONE = NONE
  BadLine = BadLine
  rule = rule
  Rule = {rule}
  SettingsUrl = SettingsUrl
  MaxSaves = 2
  r1 = r1
  r2 = r2
  Requests = {r1, r2}
  Urls <- MCUrls
  Replies <- MCReplies
  MaxSaved = 2
  MaxVersion = 1
  MaxCalls = 2
  NOID = NOID
  Calendar <- MCCalendar
  PerDay = 2
  UNSET = UNSET
  INVALID = INVALID
  ChartWindow <- MCWindow
  MaxWindows = 2
  TopN = 1
  UNSELECTED = UNSELECTED
  Row <- MCRow
  Attr <- MCAttr
  GroupKeys <- MCGroupKeys
  MeterKeys = {"prot"}
  Countries = {c1}
  UNDEFINED = UNDEFINED
  resolver = resolver
  resolver2 = resolver2
  domain = domain
  s1 = s1
  s2 = s2
  n1 = n1
  n2 = n2
  c1 = c1
  c2 = c2
  Subject = {resolver, resolver2, domain}
  Resolvers = {resolver, resolver2}
  DetailEvent <- MCDetailEvent
  DetailServer = {s1, s2}
  MaxLookups = 2
  NOTHING = NOTHING
INVARIANTS
  WhitelistSinceLastDrop
  OneBrowserCanRenew
  RenewalIsPending
  MenuAsLeft
  ListIsServers
  NothingMissing
  StackCoversWindow
PROPERTIES
  PagesNeverBreak
  DisplacedSignsOut
CHECK_DEADLOCK FALSE
