SPECIFICATION Spec
CONSTANTS
  a = a
  b = b
  Tasks <- MCTasks
  DependsOn <- MCDependsOn
  NoTask = NoTask
  NoSlot = NoSlot
  Calls = {c1}
  Slots = {s1}
  Ops = {"start"}
  Answers = {"COMPLETED", "FAILED"}
  Faults = {"crash"}
  MaxAttempts = 3
INVARIANTS FailedMeansTaskFailed
CHECK_DEADLOCK FALSE
