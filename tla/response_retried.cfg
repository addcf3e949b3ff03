SPECIFICATION Spec
CONSTANTS
  p1 = p1
  p2 = p2
  Commands <- OneCommand
  Kinds <- ChallengeKinds
  MaxCommands = 3
  MaxChallenges = 1
  MaxFaults = 1
CHECK_DEADLOCK FALSE
INVARIANTS OneRevisionPerChallenge
