\* One alert, and a worker that dies once.
SPECIFICATION FairSpec

CONSTANTS
  e1 = e1
  e2 = e2
  s1 = s1
  w1 = w1
  w2 = w2
  NoEvent = NoEvent
  NoSubject = NoSubject
  Event <- OneEvent
  Subject <- OneSubject
  Sweep <- OneSweep
  MaxAttempts = 2
  BaseRetry = 1
  MaxRetry = 1
  Cooldown = 0
  AlertRaises = TRUE
  RulesEdited = FALSE
  MaxDeaths = 1
  MaxClock = 2

PROPERTIES
  InterruptedSendsRecover
