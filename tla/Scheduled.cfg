SPECIFICATION ScheduledSpec
CONSTANTS
  Night = {1}
  LastDay = 2
  Uploader = {guild, raider}
  Guild = guild
  Start <- MCStart
  Rank <- MCRank
  MaxPulls = 2
  RecheckNights = 2
  MaxAttempts = 2
  NoRecord = NoRecord
  RecapRun = {r1, r2}
  MaxInvocations = 4
  MaxFaults = 1
  CallNight = {n1}
  Week = {w1}
  Job = {j1, j2}
  MaxJobs = 4
  MaxJobFaults = 2
  c1 = c1
  p1 = p1
  p2 = p2
  Person = {p1, p2}
  Character = {c1, c2}
  Owner <- MCOwner
  Subs = 1
  Need = 2
  NoRow = NoRow
  Check = {k1, k2}
  GloryAttempts = 1
  MaxMoments = 2
  MaxLogouts = 1
  MaxChecks = 3
  MaxGloryFaults = 1
INVARIANTS
  OneRecap
  NotesKept
  SecondLookOnce
  SignedIsHeld
  GloryOnce
PROPERTY OneAttemptPromise
SYMMETRY Interchangeable
CHECK_DEADLOCK FALSE
