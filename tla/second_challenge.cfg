SPECIFICATION Spec
CONSTANTS
  p1 = p1
  p2 = p2
  Commands <- OneCommand
  Kinds <- ChallengeKinds
  MaxCommands = 4
  MaxChallenges = 2
  MaxFaults = 0
CHECK_DEADLOCK FALSE
PROPERTIES PersistedResponseCloses
