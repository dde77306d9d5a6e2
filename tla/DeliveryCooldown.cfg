\* Two alerts about one subject in one process that never dies.
SPECIFICATION Spec

CONSTANTS
  e1 = e1
  e2 = e2
  s1 = s1
  w1 = w1
  w2 = w2
  NoEvent = NoEvent
  NoSubject = NoSubject
  Event <- TwoEvents
  Subject <- OneSubject
  Sweep <- OneSweep
  MaxAttempts = 2
  BaseRetry = 1
  MaxRetry = 1
  Cooldown = 1
  AlertRaises = FALSE
  RulesEdited = FALSE
  MaxDeaths = 0
  MaxClock = 4

INVARIANTS
  RepeatsWaitForCooldown
