\* Every call runs once, so a state in which all have returned is an end state.
SPECIFICATION Spec
CONSTANTS
  Procs = {c1, c2, c3}
  c1 = c1
  c2 = c2
  c3 = c3
  NumSteps = 2
  MaxSendCount = 1
  Ops = {"send", "prepare", "reconcile", "link", "respond", "expire"}
  Faults = {"crash", "unavailable", "retryable", "rejected", "ambiguous", "noDraft"}
SYMMETRY ProcSymmetry
INVARIANTS BudgetNeverExceeded FailureMeansNotSent AtMostOneDelivery
PROPERTIES LedgerSpec
CHECK_DEADLOCK FALSE
