\* Every call runs once, so a state in which all have returned is an end state.
SPECIFICATION FairSpec
CONSTANTS
  Procs = {c1, c2}
  c1 = c1
  c2 = c2
  NumSteps = 1
  MaxSendCount = 2
  Ops = {"send", "expire", "respond", "prepare", "link"}
  Faults = {"deny", "rejected", "ambiguous", "unavailable", "noDraft"}
INVARIANTS ClaimHasOwner
PROPERTIES ClosedCallsNeverSubmit ClaimResolves AcceptedAdvances
CHECK_DEADLOCK FALSE
