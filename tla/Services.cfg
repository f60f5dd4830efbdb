SPECIFICATION ServicesSpec
CONSTANTS
  Account = {main, helper}
  Channel = {c1, c2}
  Nowhere = Nowhere
  Attempts = 2
  MaxLinkFaults = 1
  GateChannel = {welcome, raiding}
  GateCategory = {}
  Public = {welcome}
  Verified = verified
  OtherRole = {officer}
  People = {{verified}, {verified, officer}, {officer}}
  MaxGateEdits = 1
  MaxOverwrites = 1
  Request = {1, 2}
  MaxJoins = 2
  MaxMemberEdits = 1
  MaxMemberFaults = 1
  Packet = {e1, e2}
  Action = {a1, a2}
  FlushBatch = 1
  MaxArchiveFaults = 1
  MaxLines = 3
  RotateAt = 2
  MaxLogFaults = 1
  Hourly = {hourly}
  Tuesday = {tuesday}
  KeyLevels = {10}
  Reconciles = 2
  VaultLevel = 10
  VaultThresholds = {1, 2}
  NoEvidence = NoEvidence
  MaxKeys = 2
  MaxVaultFaults = 1
  Raider = {p1, p2, p3}
  Tier = 3
  MinKills = 3
  MinRaiders = 2
  MinPct = 50
  High = 70
  Low = 35
  LastTeam = {p3}
  MaxRosterFaults = 1
  AuthRun = {poll, recap, collector}
  MayWrite = {poll, recap}
  MaxIssued = 2
  MaxAuthFaults = 1
  Admin = {ann, ben}
  Moderated = {m1, m2}
  MaxLogins = 2
  MaxSaves = 3
  MaxClicks = 1
  MaxEndings = 1
  MaxWebFaults = 1
  Attendee = {f1, f2, f3}
  OnRoster = {f1, f2}
  Lineup = {{f1, f2, f3}, {f3}}
  DeadBefore = {1}
  FigureBoss = 2
  FigurePulls = 3
  FigureDeaths = 3
  PageCap = 2
  MaxPages = 2
  MaxFigureFaults = 1
  DiscordServer = {home, other}
  HomeServer = home
  NoServer = dm
  WowGuild = {grey, meers}
  Polled = {grey}
  SsmGuild = grey
  Misspelt = misspelt
  MaxAge = 1
  LambdaTries = 3
  MaxAsked = 2
  MaxClock = 2
  MaxSnaps = 2
  MaxBosses = 1
  MaxPointed = 1
  MaxCommandFaults = 1
  Bosses <- RaidsOfTheYear
  ShortName <- ShortNames
  LongName <- LongNames
  ExpansionOf <- Expansions
  Followed = {"tier", "grotto"}
  ExpansionHint = 11
  MaxReported = 2
  MaxFights = 3
  MaxStaticFaults = 1
  OldTier = {t1, t2}
  OldFact = {bootstrap, recaps}
  Stranger = {odd}
  Felled = {b1, b2}
  Known0 = {b1}
  MaxMigrations = 2
  MaxOldPolls = 1
  MaxNewPolls = 1
  PostCheck = {1, 2}
  TrackedMax = 1
  MaxPosted = 2
  MaxUpsets = 1
INVARIANTS
  ListeningPromise
  AccessPromise
  CapturePromise
  KeepingPromise
  WebPromise
  NightPromise
  AnsweredAsAsked
CHECK_DEADLOCK FALSE
