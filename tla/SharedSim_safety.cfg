SPECIFICATION FairSpec
CONSTANTS
  c1 = c1
  c2 = c2
  c3 = c3
  Clients <- TwoClients
  Writers <- TwoClients
  Kinds <- EventKinds
  Subs <- NoSubs
  ChanCap = 1
  Issued <- Everything
  SprintLength = 1
  MaxWork = 1
  MaxLog = 3
INVARIANTS NeverHalfApplied RegistryCurrent AckExactlyOnce
PROPERTIES ImplementsAtomic SomeoneSucceeds
