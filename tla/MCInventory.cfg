CONSTANTS
  o1 = o1
  o2 = o2
  v1 = v1
  v2 = v2
  Orders = {o1, o2}
  Variants = {v1, v2}
  Quantity <- MCQuantity
  SeedAvailable <- MCSeedAvailable
  SeedReserved <- MCSeedReserved
  Backfilled <- MCBackfilled
  Adjustments = {"count_sheet"}
  ReleaseReasons = {"customer_cancelled"}
  AdjustedVariant <- MCAdjustedVariant
  Deltas <- MCDeltas

  Tills = {"morning", "evening"}
  Clerks = {"ann", "ben"}
  Receipts = {1, 2}
  OpeningFloat = 1
  ShelfUnits = 2

  Prices = {0, 1, 5, 19, 37}
  Quantities = {1, 3}
  Priced = {1, 2, 3}
  MaxLines = 2
  MaxRequested = 3
  Gst = 0

SPECIFICATION StockSpec

INVARIANTS
  TypeOK
  StockIsAccounted
  RecordsAreTrue
  CounterIsAccounted
  QuoteIsExact

PROPERTIES
  SettledOnce
  DueReservationsSettle
  PoolSpec

CHECK_DEADLOCK FALSE
