SPECIFICATION Spec
CONSTANTS
  t1 = t1
  t2 = t2
  t3 = t3
  t4 = t4
  None = None
  Tickets <- Three
  NumPhases = 2
  Window = 2
  Hysteresis = 2
  Fade = 90
  Drip = 1
  WarmupLimit = 2
  SprintLength = 3
  Options = {"hire"}
  Budget = 1
  Drivers = {"handlers", "runner", "followed"}
  MaxDay <- Days
SYMMETRY Symmetry
INVARIANTS HandlersAgree CandidateIsWinner  WindowBalances
PROPERTIES ExitIsConfirmation
CHECK_DEADLOCK FALSE
