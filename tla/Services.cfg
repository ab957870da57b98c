SPECIFICATION ServicesSpec
CONSTANTS
  None = None
  c1 = c1
  c2 = c2
  t1 = t1
  s1 = s1
  w1 = w1
  Chats <- MCChats
  Tasks <- MCTasks
  SessionOf <- MCSessionOf
  Clients <- MCClients
  Filters <- MCFilters
  Capacity = 2
  ReplayLimit = 2
  MaxVisits = 2
  MaxEmits = 3
  early = early late = late mute = mute
  turn1 = turn1 model1 = model1
  AutoRequests <- MCAutoRequests
  Body <- MCBody
  NoTurn = NoTurn
  Tokens = {token1, token2}
  Models <- MCModels
  Rows <- MCRows
  NoRow = NoRow
  Pinned <- MCPinned
  Fallback = fallback
  OutputCap = 4
  MaxDecisions = 1
  Logs = {log1, log2}
  RequestIds = {id1}
  NoFile = NoFile
  CacheSize = 1
  MaxEntries = 2
  MaxEntryEvents = 1
  MaxTasks = 2
  LimitSettings <- MCLimits
  Sizes = {0, 2}
  MaxEvents = 2
  NoRecord = NoRecord
  plain = plain skill = skill
  Senders <- MCSenders
  Words <- MCWords
  Skills <- MCSkills
  MaxMessages = 3
  Compactions = {compaction1}
  TokenSizes = {0, 3}
  Windows <- MCWindows
  MaxHistory = 4
  priced = priced silent = silent
  Runs <- MCRuns
  NoTokens <- silent
  Priced <- MCPriced
  Unpriced = unpriced
  Pricing <- MCPricing
  Cut = cut
  MaxDay = 1
  MaxLines = 3
  portal = portal first = first chats = chats edits = edits
  Portals <- MCPortals
  Writers <- MCWriters
  Edits <- MCEdits
  In <- MCIn
  Engines = {engine1, engine2, engine3}
  NoEngine = NoEngine
  MaxTrouble = 2
INVARIANTS
  NothingMissed
  FirstSeenInOrder
  ToItsRequest
  TurnRoutedOnce
  ReportsOwn
  ReadsExact
  OutcomeOnDisk
  NoneLeftRunning
  StaysReadable
  FindIsRight
  AnswerIsOwn
  ActiveIsVisible
  CategoriesAddUp
  PricedByItsSteps
  EachRowCounted
  OwnWordsShown
  DeletedLeavesNothing
CHECK_DEADLOCK FALSE
