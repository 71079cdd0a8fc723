\* Every run, script, request and call of these components runs once, so runs end.
SPECIFICATION PlatformSpec
CONSTANTS
  Subjects = {"sequence", "agent", "memory", "knowledge", "research", "versions",
              "policy", "prepares", "plans", "identity", "contacts", "keys", "mail"}
  Requests = {q1, q2}
  Approvers = {w1, w2}
  SequenceSteps = 2
  MaxRounds = 3
  SequenceFaults = {"activity", "signal", "conflict"}
  Callers = {x1, x2}
  Models = {1, 2}
  MaxRepairs = 1
  TokenBudget = 4
  Estimate = 2
  Usages = {3}
  ModelFaults = {"database", "secret"}
  Writes = {m1}
  Ingestions = {x1, x2}
  Contents <- TwoContents
  ChunkCount = 1
  Profiles = {1, 2}
  MaxAttempts = 2
  StoreFaults = {"database", "embedding", "crash", "blank"}
  Researches = {x1, x2}
  AccountCount = 2
  Facts = {"x", "unknown"}
  Scores = {"high"}
  ResearchQuota = 5
  ResearchFaults = {"provider", "database", "crash", "expiry"}
  Seeds = {s1, s2}
  Operators = {o1}
  Definitions = {1, 2}
  Evaluations = {e1}
  Policies = {x1, x2}
  AutonomyRules = {x1, x2}
  ControlFaults = {"database"}
  Prepares = {x1, x2}
  Plans = {plan1}
  Executes = {exec1}
  Recipients = {x1, x2}
  OperatorFaults = {"crash", "secret"}
  SignIns = {x1, x2}
  Guarded = {x1, x2}
  Servers = {v1}
  Identities <- AnnAndBob
  MaxWorkspaces = 2
  IdentityFaults = {"database", "secret", "rotation"}
  Keepers = {x1, x2, x3}
  Contacts = {x1, x2}
  Addresses = {addr1}
  ContactFaults = {"database", "secret"}
  Dispatches = {x1, x2}
  Keys = {y1, y2}
  MailFaults = {"disabled", "token", "refused", "busy", "network", "lookup", "restart"}
INVARIANTS SendsAreApproved VerdictsStand PaidCallsAreRecorded SpendingWithinBudget
  AcceptedIsSearchable CompletedRunsAreWhole SucceededRunIsWhole DecisionsRestrict
  PreparedIsWhole RolesAreGivenByInviters ReportsAreCertain TimeoutLeavesNoWait
PROPERTIES ApprovedIsImmutable SuppressionStands
SYMMETRY PlatformSymmetry
CHECK_DEADLOCK FALSE
