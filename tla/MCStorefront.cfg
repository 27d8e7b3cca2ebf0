SPECIFICATION StorefrontSpec
CONSTANTS
  Tabs = {t1, t2}
  Admins = {a1, a2}
  LastStep = 2
  MaxCalls = 7
  Processes = {p1, p2}
  Servers = {p1}
  MaxChanges = 2
  MaxBumps = 2
  MaxFaults = 1
  MaxAttempts = 2
  MaxEvents = 1
  MaxMishaps = 3
  Photos = {1, 2}
  Stored = {1}
  Concurrency = 1
  MaxFiles = 3
  MaxTries = 4
  Unversioned = {2}
  MaxEdits = 2
  MaxSent = 3
  MaxSlips = 1
CHECK_DEADLOCK FALSE
INVARIANTS StorefrontTypeOK SetupIsInStep AnnouncedIsServed RecordedIsKept ConfirmedIsSubmitted AssetIsItsFile WaitingIsOnItsWay
PROPERTIES PagesCatchUp RecordedIsSettled
