CONSTANTS
  o1 = o1
  o2 = o2
  v1 = v1
  c1 = c1
  c2 = c2
  Orders = {o1}
  CodOrders = {}
  RunAgain = {}
  Variants = {v1}
  Quantity <- MCQuantity
  SeedAvailable <- MCSeedAvailable
  SeedReserved <- MCSeedReserved
  Backfilled = {v1}
  Adjustments = {}
  AdjustedVariant <- MCAdjustedVariant
  Deltas = {}
  Calls = {c1, c2}
  CodCalls = {}
  MaxAttempts = 1

SPECIFICATION Spec

PROPERTIES
  PaidIsNotCancelled

CHECK_DEADLOCK FALSE
