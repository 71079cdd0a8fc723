----------------------------- MODULE ControlPlane ----------------------------
(* The control plane: seeds of several processes register and activate one    *)
(* agent version while operators move its lifecycle, and policy decisions are *)
(* taken from tables that change meanwhile.                                   *)
EXTENDS Naturals, FiniteSets

CONSTANTS
  Seeds,          \* processes that seed the agent as they boot, each once
  Operators,      \* calls that move its lifecycle
  Definitions,    \* the definitions that the seeds' images have of the version
  Evaluations,    \* policy decisions
  Policies,       \* rules that apply to the request
  AutonomyRules,  \* rule ids an autonomy rule for the request's level and risk may have
  ControlFaults   \* "database": a query throws

ASSUME SeedsAssumption == Seeds \cap Operators = {}

VARIABLES
  versionRow,     \* control_plane.agent_versions: the row of the version
  capabilityRow,  \* control_plane.capabilities: the definition whose tools it allows
  registrar,      \* where each seed and operator is
  stopped,        \* control_plane.emergency_stop
  ruleRow,        \* control_plane.policies: the outcome each asks for
  autonomyRows,   \* control_plane.autonomy_config: the rows for that level and risk
  decision        \* where each evaluation is

registry    == <<versionRow, capabilityRow, registrar>>
authority   == <<stopped, ruleRow, autonomyRows>>
controlVars == <<registry, authority, decision>>

Lifecycles == {"DRAFT", "TESTING", "APPROVED", "ACTIVE", "DEPRECATED", "RETIRED"}
\* ALLOWED_TRANSITIONS
Allowed == [DRAFT |-> {"TESTING"}, TESTING |-> {"APPROVED", "DEPRECATED"},
            APPROVED |-> {"ACTIVE", "DEPRECATED"}, ACTIVE |-> {"DEPRECATED"},
            DEPRECATED |-> {"RETIRED"}, RETIRED |-> {}]
Mutable(lifecycle) == lifecycle \in {"DRAFT", "TESTING"}

\* The outcomes by OUTCOME_PRECEDENCE.
ALLOW == 0
REQUIRE_APPROVAL == 1
DENY == 2
PolicyOutcomes == ALLOW..DENY
Unregistered == [lifecycle |-> "NONE", definition |-> 0]

ControlInit ==
  /\ versionRow = Unregistered
  /\ capabilityRow = 0
  /\ registrar = [s \in Seeds \cup Operators |->
                    [pc |-> "idle", definition |-> 0, to |-> "NONE", from |-> "NONE"]]
  /\ stopped \in BOOLEAN
  /\ ruleRow = [p \in Policies |-> ALLOW]
  /\ autonomyRows = {}
  /\ decision = [e \in Evaluations |-> [pc |-> "idle", base |-> ALLOW, ceiling |-> ALLOW,
                   outcome |-> ALLOW, laxest |-> [stop |-> ALLOW, rules |-> ALLOW, autonomy |-> ALLOW]]]

-----------------------------------------------------------------------------
(* Seeds and the lifecycle.  A step that throws ends the seed.                *)

Registers(s, pc) == registrar' = [registrar EXCEPT ![s].pc = pc]
Aims(s, from, to) == registrar' = [registrar EXCEPT ![s].pc = "update", ![s].from = from, ![s].to = to]

\* The capabilities are written before it is known whether the version may be.
SeedCapability(s) ==
  /\ registrar[s].pc = "idle" /\ s \in Seeds
  /\ \E definition \in Definitions :
       /\ capabilityRow' = definition
       /\ registrar' = [registrar EXCEPT ![s].pc = "register", ![s].definition = definition]
  /\ UNCHANGED versionRow

Registered == versionRow # Unregistered
Equal(s) == Registered /\ versionRow.definition = registrar[s].definition

\* registerAgentVersion, before its save
RegisterVersion(s) ==
  /\ registrar[s].pc = "register"
  /\ Registers(s, CASE Equal(s) -> "seeded"
                    [] Registered /\ ~Equal(s) /\ ~Mutable(versionRow.lifecycle) -> "thrown"
                    [] OTHER -> "save")
  /\ UNCHANGED <<versionRow, capabilityRow>>

\* Variant: what registerAgentVersion saw is enough.
Overwrites_Unchecked(s) == ~Equal(s)
\* The row is locked and compared again.
Overwrites(s) == ~Equal(s) /\ (Registered => Mutable(versionRow.lifecycle))

\* The definition is replaced together with its lifecycle, which starts again.  Of two
\* inserts at once the second throws, as any query may.
SaveVersion(s) ==
  /\ registrar[s].pc = "save"
  /\ \/ /\ Overwrites(s)
        /\ versionRow' = [lifecycle |-> "DRAFT", definition |-> registrar[s].definition]
        /\ Registers(s, "seeded")
     \/ Equal(s) /\ Registers(s, "seeded") /\ UNCHANGED versionRow
     \/ ~Overwrites(s) /\ ~Equal(s) /\ Registers(s, "thrown") /\ UNCHANGED versionRow
  /\ UNCHANGED capabilityRow

\* The states a seed still has to walk through.
Following == [DRAFT |-> "TESTING", TESTING |-> "APPROVED", APPROVED |-> "ACTIVE"]
Walks(s, lifecycle) ==
  IF lifecycle \in DOMAIN Following
    THEN registrar' = [registrar EXCEPT ![s].pc = "transition", ![s].to = Following[lifecycle]]
    ELSE Registers(s, "done")

ReadSeeded(s) ==
  /\ registrar[s].pc = "seeded"
  /\ Walks(s, versionRow.lifecycle)
  /\ UNCHANGED <<versionRow, capabilityRow>>

\* An operator asks for any state, or for an APPROVED version to be activated.
Operate(s) ==
  /\ registrar[s].pc = "idle" /\ s \in Operators /\ Registered
  /\ \/ \E to \in Lifecycles :
          registrar' = [registrar EXCEPT ![s].pc = "transition", ![s].to = to]
     \/ Aims(s, "APPROVED", "ACTIVE")
  /\ UNCHANGED <<versionRow, capabilityRow>>

ReadTransition(s) ==
  /\ registrar[s].pc = "transition"
  /\ IF registrar[s].to \in Allowed[versionRow.lifecycle]
       THEN Aims(s, versionRow.lifecycle, registrar[s].to)
       ELSE Registers(s, "thrown")
  /\ UNCHANGED <<versionRow, capabilityRow>>

\* The row moves only from the state that was read.
UpdateLifecycle(s) ==
  /\ registrar[s].pc = "update"
  /\ \/ /\ versionRow.lifecycle = registrar[s].from
        /\ versionRow' = [versionRow EXCEPT !.lifecycle = registrar[s].to]
        /\ IF s \in Seeds THEN Walks(s, registrar[s].to) ELSE Registers(s, "done")
     \/ /\ versionRow.lifecycle # registrar[s].from
        /\ Registers(s, "thrown") /\ UNCHANGED versionRow
  /\ UNCHANGED capabilityRow

\* A query or an audit record throws; what was written stays.
RegistrarThrows(s) ==
  /\ "database" \in ControlFaults /\ registrar[s].pc \notin {"idle", "done", "thrown"}
  /\ Registers(s, "thrown")
  /\ UNCHANGED <<versionRow, capabilityRow>>

VersionNext ==
  /\ \E s \in Seeds \cup Operators :
       \/ SeedCapability(s) \/ RegisterVersion(s) \/ SaveVersion(s) \/ ReadSeeded(s)
       \/ Operate(s) \/ ReadTransition(s) \/ UpdateLifecycle(s) \/ RegistrarThrows(s)
  /\ UNCHANGED <<authority, decision>>

-----------------------------------------------------------------------------
(* Policy decisions *)

\* Variant: the later outcome replaces the earlier.
TightenOutcome_Later(a, b) == b
TightenOutcome(a, b) == IF a >= b THEN a ELSE b
\* mergePolicyOutcomes: the order of the scopes does not matter to the strictest.
Ceiling(rule) == CHOOSE o \in PolicyOutcomes :
                   /\ \A p \in Policies : rule[p] <= o
                   /\ o = ALLOW \/ \E p \in Policies : rule[p] = o

\* The confidence is always 1.0.  Levels from 2 on, and 4 on where the risk is high, act
\* by themselves; a level that is none of 0 to 5 never does.
EvaluateAutonomy(level, highRisk) ==
  IF level \notin 0..5 THEN DENY
  ELSE IF level < 2 \/ (highRisk /\ level < 4) THEN REQUIRE_APPROVAL ELSE ALLOW
Levels == {1, 3, 5, 6}

\* getRule takes any of the rows, LIMIT 1 without an order; where there is none, nothing is
\* asked for.
AutonomyAnswers == IF autonomyRows = {} THEN {ALLOW} ELSE {row.outcome : row \in autonomyRows}
LaxestRule == CHOOSE o \in AutonomyAnswers : \A other \in AutonomyAnswers : o <= other

Evaluating(e) == decision[e].pc \in {"stop", "rules", "autonomy", "audit"}
Decides(e, pc, outcome) == decision' = [decision EXCEPT ![e].pc = pc, ![e].outcome = outcome]
Stop(stop) == IF stop THEN DENY ELSE ALLOW

Evaluate(e) ==
  /\ decision[e].pc = "idle"
  /\ \E level \in Levels, highRisk \in BOOLEAN :
       decision' = [decision EXCEPT ![e].pc = "stop", ![e].base = EvaluateAutonomy(level, highRisk),
         ![e].laxest = [stop |-> Stop(stopped), rules |-> Ceiling(ruleRow), autonomy |-> LaxestRule]]
  /\ UNCHANGED authority

\* A stop whose state is unknown is one.
ReadStop(e) ==
  /\ decision[e].pc = "stop"
  /\ \/ stopped /\ Decides(e, "decided", DENY)
     \/ ~stopped /\ Decides(e, "rules", ALLOW)
     \/ "database" \in ControlFaults /\ Decides(e, "decided", DENY)
  /\ UNCHANGED authority

ReadRules(e) ==
  /\ decision[e].pc = "rules"
  /\ decision' = [decision EXCEPT ![e].pc = "autonomy", ![e].ceiling = Ceiling(ruleRow)]
  /\ UNCHANGED authority

ReadAutonomy(e) ==
  /\ decision[e].pc = "autonomy"
  /\ \E required \in AutonomyAnswers :
       Decides(e, "audit", TightenOutcome(decision[e].ceiling,
                                          TightenOutcome(decision[e].base, required)))
  /\ UNCHANGED authority

\* A decision that cannot be audited is not given.
AuditDecision(e) ==
  /\ decision[e].pc = "audit"
  /\ Decides(e, "decided", decision[e].outcome)
  /\ UNCHANGED authority

DecisionThrows(e) ==
  /\ "database" \in ControlFaults /\ decision[e].pc \in {"rules", "autonomy", "audit"}
  /\ Decides(e, "thrown", DENY)
  /\ UNCHANGED authority

\* The laxest each table asked for while a decision was taken is kept for the property.
Lesser(a, b) == IF a <= b THEN a ELSE b
Noticed == decision' = [e \in Evaluations |-> IF ~Evaluating(e) THEN decision[e] ELSE
             [decision[e] EXCEPT !.laxest = [stop |-> Lesser(@.stop, Stop(stopped')),
                rules |-> Lesser(@.rules, Ceiling(ruleRow')), autonomy |-> Lesser(@.autonomy, LaxestRule')]]]

\* A rule that does not apply any more asks for nothing.
SavePolicyRule ==
  /\ \E p \in Policies, outcome \in PolicyOutcomes : ruleRow' = [ruleRow EXCEPT ![p] = outcome]
  /\ UNCHANGED <<stopped, autonomyRows>>
  /\ Noticed

\* An upsert by rule id: a rule with another id is another row for the same level and risk.
SaveAutonomyRule ==
  /\ \E id \in AutonomyRules, outcome \in PolicyOutcomes :
       autonomyRows' = {row \in autonomyRows : row.rule # id}
                         \cup {[rule |-> id, outcome |-> outcome]}
  /\ UNCHANGED <<stopped, ruleRow>>
  /\ Noticed

\* Nothing in the code writes the stop: operators do.
SetEmergencyStop ==
  /\ stopped' = ~stopped
  /\ UNCHANGED <<ruleRow, autonomyRows>>
  /\ Noticed

PolicyNext ==
  /\ \/ SavePolicyRule \/ SaveAutonomyRule \/ SetEmergencyStop
     \/ \E e \in Evaluations :
          \/ Evaluate(e) \/ ReadStop(e) \/ ReadRules(e) \/ ReadAutonomy(e) \/ AuditDecision(e)
          \/ DecisionThrows(e)
  /\ UNCHANGED registry

ControlNext == VersionNext \/ PolicyNext
ControlSpec == ControlInit /\ [][ControlNext]_controlVars

-----------------------------------------------------------------------------
\* A version that has left DRAFT and TESTING keeps its definition, whatever images seed
\* it and however their reads, saves and transitions interleave.
ApprovedIsImmutable ==
  [][Registered /\ ~Mutable(versionRow.lifecycle) => versionRow'.definition = versionRow.definition]_controlVars

\* A decision is no laxer than what the emergency stop, the rules and each of the autonomy
\* rules asked for all the while it was taken, nor than the agent's own level.  Of several
\* autonomy rules for one level and risk any may decide, so the laxest of them is what it
\* is held to (PolicyEvaluationService.evaluate, PostgresAutonomyRepository.getRule).
DecisionsRestrict ==
  \A e \in Evaluations : decision[e].pc = "decided" =>
    LET laxest == decision[e].laxest IN
    /\ decision[e].outcome >= laxest.stop
    /\ decision[e].outcome >= laxest.rules
    /\ decision[e].outcome >= laxest.autonomy
    /\ decision[e].outcome >= decision[e].base
=============================================================================
