SPECIFICATION KeysSpec
CONSTANTS
  r1 = r1
  r2 = r2
  r3 = r3
  k1 = k1
  k2 = k2
  Requests = {r1, r2, r3}
  Keys = {k1, k2}
  Amounts = {1, 2}
  Paid = 2
  MayCrash = TRUE
  o1 = o1
  o2 = o2
  o3 = o3
  Operations = {o1, o2, o3}
  Bodies <- TwoBodies
  u1 = u1
  u2 = u2
  e1 = e1
  e2 = e2
  Uploads = {u1, u2}
  FileBodies <- OneBody
  OperationMayFail = TRUE
  RedisMayFail = TRUE
  LeaseMayEnd = TRUE
  Editors = {e1, e2}
  MaxTries = 1
  MaxEdits = 2
  f1 = f1
  f2 = f2
  f3 = f3
  s1 = s1
  s2 = s2
  s3 = s3
  noKey = noKey
  MaxAttempts = 2
  MaxCodes = 2
  a1 = a1
  a2 = a2
  t1 = t1
  t2 = t2
  Calls = {a1, a2}
  Sessions = {t1, t2}
  Resets = {1}
  MaxCredential = 4
  Tabs = {t1, t2}
  WebLocks = {TRUE}
  MaxInbox = 1
SYMMETRY KeysSymmetry
INVARIANTS KeysTypeOK KeyPaysOnce RefundsArePaidBack ReplaysAreTrue OfferedIsStored NumberIsProvenOnce
  EndedCredentialsEnd TabsKeepSession
PROPERTIES EntryIsItsOwners DeletedStaysDeleted
CHECK_DEADLOCK FALSE
