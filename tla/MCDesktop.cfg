CONSTANTS
  mine = mine
  theirs = theirs
  j1 = j1
  j2 = j2
  l1 = l1
  l2 = l2
  Chan = {mine, theirs}
  Own = {mine}
  Request = {j1, j2}
  At <- MCAt
  Scenario <- MCScenario
  Listener = {l1, l2}
SPECIFICATION Spec
INVARIANTS
  OpenIsHeard
  DecisionsAreMine
PROPERTIES
  EveryRequestAsked
  StaleListenersEnd
  PresenceCatchesUp
CHECK_DEADLOCK FALSE
