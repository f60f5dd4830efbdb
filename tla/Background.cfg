SPECIFICATION BackgroundSpec
CONSTANTS
  Raider = {m1}
  Limit = 1
  Overflow = TRUE
  MaxRequests = 3
  MaxRaidFaults = 2
  FeedChannel = {audit, welcome}
  Member = {m1}
  Batch = 2
  Enough = 1
  MaxEntries = 2
  MaxSwitches = 2
  MaxFeedFaults = 1
  Report = {l1}
  Nominee = {p1}
  Voter = {v1, v2}
  Threshold = 2
  MaxMoveFaults = 2
  MaxCards = 3
  Clip = {c1, c2}
  MaxVoiceFaults = 2
  Poll = {p1, p2}
  Blind = 2
  Failing = 2
  MaxTurns = 2
  MaxAlertFaults = 1
INVARIANTS
  PostedOnce
  NeverNowhere
PROPERTIES
  FeedPromise
  CardCatchesUp
  AlertComes
CHECK_DEADLOCK FALSE
