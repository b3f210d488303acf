SPECIFICATION FairSpec
CONSTANTS
  Calls = {c1, c2}
  SprintLength = 2
  MaxChanges = 4
INVARIANTS ShownIsServer CanGoOn
PROPERTIES ShownMovesForward
