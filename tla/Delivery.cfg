\* One worker that may die once, two alerts about one subject, two sweeps at
\* once, rules edited meanwhile, two attempts per alert one tick apart.
SPECIFICATION Spec

CONSTANTS
  e1 = e1
  e2 = e2
  s1 = s1
  w1 = w1
  w2 = w2
  NoEvent = NoEvent
  NoSubject = NoSubject
  Event <- TwoEvents
  Subject <- OneSubject
  Sweep <- TwoSweeps
  MaxAttempts = 2
  BaseRetry = 1
  MaxRetry = 1
  Cooldown = 0
  AlertRaises = TRUE
  RulesEdited = TRUE
  MaxDeaths = 1
  MaxClock = 2

SYMMETRY
  Interchangeable

INVARIANTS
  TypeOK
  OneSender
  PostsWithinAttempts
PROPERTIES
  SettledRowsStay
  RetriesWait
  ImplementsOutbox
