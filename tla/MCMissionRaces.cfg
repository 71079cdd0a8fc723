SPECIFICATION Spec
CONSTANTS
  a = a
  b = b
  Tasks <- MCTasks
  DependsOn <- MCDependsOn
  NoTask = NoTask
  NoSlot = NoSlot
  Calls = {c1, c2, c3}
  Slots = {s1}
  Ops = {"start", "pause", "resume", "cancel", "replan"}
  Answers = {"COMPLETED", "AWAITING_APPROVAL", "FAILED"}
  Faults = {"crash", "throw", "timeout"}
  MaxAttempts = 2
INVARIANTS CompletedInOrder
PROPERTIES LifeSpec TasksStartWhileExecuting
SYMMETRY CallSymmetry
CHECK_DEADLOCK FALSE
