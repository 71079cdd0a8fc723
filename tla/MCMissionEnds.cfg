SPECIFICATION FairSpec
CONSTANTS
  a = a
  b = b
  Tasks <- MCTasks
  DependsOn <- MCDependsOn
  NoTask = NoTask
  NoSlot = NoSlot
  Calls = {c1, c2, c3}
  Slots = {s1}
  Ops = {"start", "replan", "cancel"}
  Answers = {"COMPLETED", "AWAITING_APPROVAL", "FAILED"}
  Faults = {}
  MaxAttempts = 3
INVARIANTS EndedMeansTerminal FailedMeansTaskFailed
PROPERTIES StartedMissionSettles
CHECK_DEADLOCK FALSE
