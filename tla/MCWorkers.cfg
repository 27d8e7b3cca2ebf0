SPECIFICATION LiveSpec
CONSTANTS
  Workers = {"w1", "w2"}
  CashfreeEvents = {"c1"}
  PhonepeEvents = {}
  CashfreeRuns = {"rc"}
  PhonepeRuns = {}
  DlqAt = 2
  MaxAttempts = 2
  MaxFaults = 1
  VerifyMayBeSlow = FALSE
INVARIANTS TypeOK EventsAreTriedInTurn
PROPERTIES OutcomeIsFinal WorkSettles
