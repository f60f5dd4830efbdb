SPECIFICATION RoundsSpec
CONSTANTS
  Install = {home, team}
  Home = home
  Guild = {g1, g2}
  DefaultGuild = g1
  Kill = {k1}
  NoGuild = NoGuild
  MaxSetups = 2
  MaxInstallFaults = 1
  Account = {main}
  Channel = {c1, c2}
  Nowhere = Nowhere
  Attempts = 2
  MaxLinkFaults = 1
  Run = {1, 2}
  NoRun = NoRun
  MaxRecordFaults = 1
INVARIANTS
  SetupQuiet
  RecordOnce
PROPERTIES
  InstallsArePolled
  AccountsSettle
  RecordsStand
CHECK_DEADLOCK FALSE
