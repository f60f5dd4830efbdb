SPECIFICATION FairSpec
CONSTANTS
  Poll = {p1, p2}
  Nobody = Nobody
  Social = TRUE
  MaxRenders = 2
  MaxFaults = 2
INVARIANTS GeneralFollowsGroup
PROPERTIES RecordedIsTried GeneralIsTried SentAtMostOnce
CHECK_DEADLOCK FALSE
