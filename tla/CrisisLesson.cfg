SPECIFICATION Spec
CONSTANTS
  Sprints = 3
  Days = 4
  Tickets = 3
  Team = 3
  Variances <- MCVariances
  MaxSequenceEvents = 32
  MaxTickets = 6
INVARIANT LessonIsProvable
CHECK_DEADLOCK TRUE
