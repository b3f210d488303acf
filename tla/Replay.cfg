SPECIFICATION Spec
CONSTANTS
  a = a
  parent = parent
  c1 = c1
  c2 = c2
  senior = senior
  mid = mid
  recruit = recruit
  None = None
  Tickets = {parent, c1, c2}
  Children <- MCChildren
  Large = {}
  Devs = {senior, mid, recruit}
  Team0 <- MCTeam
  Recruits <- MCRecruits
  Experience <- MCExperience
  NumPhases = 3
  CICD = 2
  Review = 3
  Caps <- MCCaps
  Slots0 = 1
  Demand = TRUE
  Drip = 1
  WarmupLimit = 2
  SprintLength = 2
  Budget0 = 5
  Cost <- MCCost
  MaxEffort = 1
  MaxNoise = 1
INVARIANTS WorkersAgree LoadKeepsTickets
PROPERTIES ImplementsFlow
CHECK_DEADLOCK TRUE
