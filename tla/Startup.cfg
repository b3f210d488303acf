SPECIFICATION Spec
CONSTANTS
  None = None
  Interfaces = {first, second, third}
  Headless = {server}
  Library = {library}
  ClientFlag = {third}
  LocalFlag = {}
  Seeded = {second, third}
  Idle = 1
  MaxStarts = 1
INVARIANTS SharingNeedsALostServer
PROPERTIES StartupEnds
CHECK_DEADLOCK FALSE
