SPECIFICATION CoSpec
CONSTANTS
  c1 = c1
  c2 = c2
  t = t
  Tui = t
  Clients <- TwoClients
  Writers <- Writers2
  Kinds <- EventKinds
  Subs <- OnlyTui
  ChanCap = 1
  Issued <- Moves
  SprintLength = 1
  MaxWork = 1
  MaxLog = 4
INVARIANTS SingleWriter TuiInOrder
PROPERTIES ReadOnlyIsComplete
