SPECIFICATION LiveSpec
CONSTANTS
  Workers = {"w1"}
  CashfreeEvents = {}
  PhonepeEvents = {"p1"}
  CashfreeRuns = {}
  PhonepeRuns = {}
  DlqAt = 2
  MaxAttempts = 3
  MaxFaults = 0
  VerifyMayBeSlow = FALSE
PROPERTY PhonepeEventSettles
