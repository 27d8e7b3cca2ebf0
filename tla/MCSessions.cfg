SPECIFICATION LiveSpec
CONSTANTS
  p1 = p1
  p2 = p2
  c1 = c1
  c2 = c2
  Processes = {p1, p2}
  Calls = {c1, c2}
  Home <- HomeOf
  MaxToken = 3
INVARIANTS TypeOK OneSuccessor ClearsOnlyRevoked
PROPERTIES RevocationIsFinal RevocationTakesHold
