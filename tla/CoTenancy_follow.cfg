SPECIFICATION CoFairSpec
CONSTANTS
  c1 = c1
  c2 = c2
  t = t
  Tui = t
  Clients <- OneClient
  Writers <- Writers1
  Kinds <- EventKinds
  Subs <- OnlyTui
  ChanCap = 5
  Issued <- All
  SprintLength = 1
  MaxWork = 1
  MaxLog = 3
PROPERTIES TuiCatchesUp EveryRequestAnswered
