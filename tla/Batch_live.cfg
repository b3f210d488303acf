SPECIFICATION BatchSpec
CONSTANTS
  a = a
  b = b
  parent = parent
  c1 = c1
  c2 = c2
  one = one
  two = two
  None = None
  Tickets = {a, parent, c1, c2}
  Children <- MCChildren
  Large = {a}
  Devs = {one, two}
  Team0 <- MCTeam
  Recruits <- MCRecruits
  Experience <- MCExperience
  NumPhases = 3
  CICD = 2
  Review = 3
  Caps <- MCCaps
  Slots0 = 1
  Demand = TRUE
  Drip = 1
  WarmupLimit = 2
  SprintLength = 2
  Budget0 = 10
  Cost <- MCCost
  MaxEffort = 2
  Drivers = {"batch", "tui"}
  MaxNoise = 1
PROPERTIES EverythingIsDone WarmupEnds
CHECK_DEADLOCK TRUE
