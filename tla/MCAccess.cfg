SPECIFICATION AccessSpec
CONSTANTS
  Emails = {"a"}
  MaxSubmits = 3
  MaxSignOuts = 1
  MaxMounts = 2
  MaxRestarts = 1
  MaxFaults = 1
  Threads = {t1, t2}
  MaxTags = 3
  MaxMountedBanners = 2
  MaxOutages = 3
  MaxText = 2
  MaxTerm = 3
  Instants = {1, 2}
  MaxIds = 2
  MaxAsked = 2
  MaxRowChanges = 2
  MaxRuns = 3
  MaxKills = 2
  MaxUnreachable = 1
INVARIANTS
  ReceptionIsTrue
  LedgerIsTrue
  OneAccountPerEmail
  LoadIsOnce
PROPERTIES
  SessionsLast
  HealthIsTrue
  BegunEnds
CHECK_DEADLOCK FALSE
