\* Every call runs once, so a state in which all have returned is an end state.
SPECIFICATION Spec
CONSTANTS
  Procs = {c1, c2, c3}
  c1 = c1
  c2 = c2
  c3 = c3
  NumSteps = 1
  MaxSendCount = 2
  Ops = {"send", "prepare", "reconcile", "respond", "expire", "link"}
  Faults = {"crash", "deny", "rateLimit", "unavailable", "retryable", "rejected", "ambiguous", "noDraft"}
SYMMETRY ProcSymmetry
INVARIANTS TypeOK CompletedIsTrue
PROPERTIES AcceptanceIsNeverLost OnlyReconciliationReopens
CHECK_DEADLOCK FALSE
