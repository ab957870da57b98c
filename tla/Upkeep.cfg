SPECIFICATION UpkeepSpec
CONSTANTS
  Threshold <- MCThreshold
  MaxFaults <- MCMaxFaults
  asks = asks owns = owns lacks = lacks
  Calls = {call1, call2, call3}
  Accounts <- MCAccounts
  Ready <- MCReady
  Partial <- MCPartial
  NoAccount = NoAccount
  Margin <- MCMargin
  Life <- MCLife
  FailureLife = 1
  Patience <- MCPatience
  MaxClock = 3
  t1 = t1 p1 = p1 e1 = e1 c1 = c1
  None = None
  Tasks = {t1}
  Portals = {p1}
  Execs = {e1}
  Cancels = {c1}
  TaskOf <- OneTask
  PortalOf <- OnePortal
  Answers <- MCAnswers
  MaxCrashes <- MCRestarts
INVARIANTS
  OneChild
  ExchangeShared
  SharedIsGood
PROPERTIES
  KilledForCause
  Served
  EachCallEnds
  Lifecycle
  AnsweredTaskEnds
  PendingPermissionEnds
CHECK_DEADLOCK FALSE
