CONSTANTS
  o1 = o1
  o2 = o2
  v1 = v1
  c1 = c1
  c2 = c2
  Orders = {o1, o2}
  CodOrders = {o2}
  RunAgain = {}
  Variants = {v1}
  Quantity <- MCQuantity
  SeedAvailable <- MCSeedAvailable
  SeedReserved <- MCSeedReserved
  Backfilled = {}
  Adjustments = {}
  AdjustedVariant <- MCAdjustedVariant
  Deltas = {}
  Calls = {c1, c2}
  CodCalls = {}
  MaxAttempts = 1

SPECIFICATION LiveSpec

PROPERTY
  AskedIsAnswered

CHECK_DEADLOCK FALSE
