---------------------------- MODULE PlatformProof ---------------------------
(* Proofs about four stores and clients that keep a promise under any         *)
(* interleaving of their callers: the control plane's versions and decisions, *)
(* the contacts, the Graph provider and identity, for any number of callers.  *)
EXTENDS ControlPlane, ContactChannels, GraphMail, Identity, TLAPS

-----------------------------------------------------------------------------
(* Versions *)

RowLifecycles == Lifecycles \cup {"NONE"}
RowDefinitions == Definitions \cup {0}
Registrars == Seeds \cup Operators
VersionType == [lifecycle : RowLifecycles, definition : RowDefinitions]
RegistrarStages ==
  {"idle", "register", "save", "seeded", "transition", "update", "done", "thrown"}
RegistrarType ==
  [pc : RegistrarStages, definition : RowDefinitions, to : RowLifecycles, from : RowLifecycles]

RegistryTypeOK ==
  /\ versionRow \in VersionType
  /\ registrar \in [Registrars -> RegistrarType]

LEMMA RegistrySorts ==
  /\ RegistrarStages = {"idle", "register", "save", "seeded", "transition", "update", "done", "thrown"}
  /\ {"NONE", "DRAFT", "TESTING", "APPROVED", "ACTIVE"} \subseteq RowLifecycles
  /\ Lifecycles \subseteq RowLifecycles
  /\ 0 \in RowDefinitions /\ Definitions \subseteq RowDefinitions
  /\ \A s \in DOMAIN Following : Following[s] \in RowLifecycles
  BY DEF RegistrarStages, RowLifecycles, Lifecycles, RowDefinitions, Following

LEMMA RegistryTypeStep ==
  ASSUME RegistryTypeOK, VersionNext
  PROVE  RegistryTypeOK'
  <1> PICK s \in Registrars :
        \/ SeedCapability(s) \/ RegisterVersion(s) \/ SaveVersion(s) \/ ReadSeeded(s)
        \/ Operate(s) \/ ReadTransition(s) \/ UpdateLifecycle(s) \/ RegistrarThrows(s)
    BY DEF VersionNext, Registrars
  <1> USE RegistrySorts DEF RegistryTypeOK
  <1>1. /\ registrar[s].definition \in RowDefinitions /\ registrar[s].to \in RowLifecycles
        /\ versionRow.lifecycle \in RowLifecycles
    BY DEF RegistrarType, VersionType
  <1>2. ASSUME NEW pc \in RegistrarStages, Registers(s, pc)
        PROVE  registrar' \in [Registrars -> RegistrarType]
    BY <1>2 DEF Registers, RegistrarType
  <1>3. ASSUME NEW lifecycle, Walks(s, lifecycle)
        PROVE  registrar' \in [Registrars -> RegistrarType]
    <2>1. CASE lifecycle \in DOMAIN Following
      <3> DEFINE next == Following[lifecycle]
      <3>1. next \in RowLifecycles  BY <2>1
      <3>2. registrar' = [registrar EXCEPT ![s].pc = "transition", ![s].to = next]
        BY <1>3, <2>1 DEF Walks
      <3> HIDE DEF next
      <3> DEFINE new == [registrar[s] EXCEPT !.pc = "transition", !.to = next]
      <3>3. new \in RegistrarType
        <4>1. registrar[s] \in RegistrarType /\ "transition" \in RegistrarStages
          BY DEF RegistrarStages
        <4> QED  BY <3>1, <4>1 DEF RegistrarType
      <3>4. registrar' = [registrar EXCEPT ![s] = new]
        BY <3>2 DEF RegistrarType
      <3> HIDE DEF new
      <3> QED  BY <3>3, <3>4
    <2>2. CASE lifecycle \notin DOMAIN Following
      BY <1>2, <1>3, <2>2 DEF Walks
    <2> QED  BY <2>1, <2>2
  <1>4. ASSUME NEW from \in RowLifecycles, NEW to \in RowLifecycles, Aims(s, from, to)
        PROVE  registrar' \in [Registrars -> RegistrarType]
    <2>1. /\ registrar[s] \in RegistrarType /\ "update" \in RegistrarStages
          /\ registrar' = [registrar EXCEPT ![s].pc = "update", ![s].from = from, ![s].to = to]
      BY <1>4 DEF Aims
    <2> DEFINE new == [registrar[s] EXCEPT !.pc = "update", !.from = from, !.to = to]
    <2>2. new \in RegistrarType  BY <2>1 DEF RegistrarType
    <2>3. registrar' = [registrar EXCEPT ![s] = new]  BY <2>1 DEF RegistrarType
    <2> HIDE DEF new
    <2> QED  BY <2>2, <2>3
  <1>5. CASE SeedCapability(s)
    <2>1. PICK definition \in Definitions :
            registrar' = [registrar EXCEPT ![s].pc = "register", ![s].definition = definition]
      BY <1>5 DEF SeedCapability
    <2> DEFINE new == [registrar[s] EXCEPT !.pc = "register", !.definition = definition]
    <2>2. new \in RegistrarType
      <3>1. registrar[s] \in RegistrarType /\ "register" \in RegistrarStages /\ definition \in RowDefinitions
        BY DEF RegistrarStages
      <3> QED  BY <3>1 DEF RegistrarType
    <2>3. registrar' = [registrar EXCEPT ![s] = new]  BY <2>1 DEF RegistrarType
    <2> HIDE DEF new
    <2>4. registrar' \in [Registrars -> RegistrarType]  BY <2>2, <2>3
    <2> QED  BY <1>5, <2>4 DEF SeedCapability
  <1>6. CASE RegisterVersion(s)
    <2>1. Registers(s, "seeded") \/ Registers(s, "thrown") \/ Registers(s, "save")
      BY <1>6, Zenon DEF RegisterVersion
    <2> QED  BY <1>2, <1>6, <2>1 DEF RegisterVersion
  <1>7. CASE SaveVersion(s)
    <2>1. /\ Registers(s, "seeded") \/ Registers(s, "thrown")
          /\ \/ UNCHANGED versionRow
             \/ versionRow' = [lifecycle |-> "DRAFT", definition |-> registrar[s].definition]
      BY <1>7 DEF SaveVersion
    <2>2. versionRow' \in VersionType  BY <1>1, <2>1 DEF VersionType
    <2>3. registrar' \in [Registrars -> RegistrarType]  BY <1>2, <2>1
    <2> QED  BY <2>2, <2>3
  <1>8. CASE ReadSeeded(s)  BY <1>3, <1>8 DEF ReadSeeded
  <1>9. CASE Operate(s)
    <2>1. CASE \E to \in Lifecycles :
                 registrar' = [registrar EXCEPT ![s].pc = "transition", ![s].to = to]
      <3>1. PICK to \in RowLifecycles :
                   registrar' = [registrar EXCEPT ![s].pc = "transition", ![s].to = to]
        BY <2>1
      <3> DEFINE new == [registrar[s] EXCEPT !.pc = "transition", !.to = to]
      <3>2. new \in RegistrarType
        <4>1. registrar[s] \in RegistrarType /\ "transition" \in RegistrarStages
          BY DEF RegistrarStages
        <4> QED  BY <4>1 DEF RegistrarType
      <3>3. registrar' = [registrar EXCEPT ![s] = new]  BY <3>1 DEF RegistrarType
      <3> HIDE DEF new
      <3>4. registrar' \in [Registrars -> RegistrarType]  BY <3>2, <3>3
      <3> QED  BY <1>9, <3>4 DEF Operate
    <2>2. CASE Aims(s, "APPROVED", "ACTIVE")  BY <1>4, <1>9, <2>2 DEF Operate
    <2> QED  BY <1>9, <2>1, <2>2 DEF Operate
  <1>10. CASE ReadTransition(s)
    <2>1. Aims(s, versionRow.lifecycle, registrar[s].to) \/ Registers(s, "thrown")
      BY <1>10 DEF ReadTransition
    <2> QED  BY <1>1, <1>2, <1>4, <1>10, <2>1 DEF ReadTransition
  <1>11. CASE UpdateLifecycle(s)
    <2>1. /\ Walks(s, registrar[s].to) \/ Registers(s, "done") \/ Registers(s, "thrown")
          /\ UNCHANGED versionRow \/ versionRow' = [versionRow EXCEPT !.lifecycle = registrar[s].to]
      BY <1>11 DEF UpdateLifecycle
    <2> QED  BY <1>1, <1>2, <1>3, <2>1 DEF VersionType
  <1>12. CASE RegistrarThrows(s)  BY <1>2, <1>12 DEF RegistrarThrows
  <1> QED  BY <1>5, <1>6, <1>7, <1>8, <1>9, <1>10, <1>11, <1>12

\* What a step of a registrar does to the row that others rely on.
LEMMA DefinitionStep ==
  ASSUME RegistryTypeOK, [ControlNext]_controlVars, Registered, ~Mutable(versionRow.lifecycle)
  PROVE  versionRow'.definition = versionRow.definition
  <1>1. CASE VersionNext
    <2> PICK s \in Registrars :
          \/ SeedCapability(s) \/ RegisterVersion(s) \/ SaveVersion(s) \/ ReadSeeded(s)
          \/ Operate(s) \/ ReadTransition(s) \/ UpdateLifecycle(s) \/ RegistrarThrows(s)
      BY <1>1 DEF VersionNext, Registrars
    <2>1. CASE SaveVersion(s)  BY <2>1 DEF SaveVersion, Overwrites
    <2>2. CASE UpdateLifecycle(s)  BY <2>2 DEF UpdateLifecycle, RegistryTypeOK, VersionType
    <2>3. CASE \/ SeedCapability(s) \/ RegisterVersion(s) \/ ReadSeeded(s) \/ Operate(s)
               \/ ReadTransition(s) \/ RegistrarThrows(s)
      BY <2>3 DEF SeedCapability, RegisterVersion, ReadSeeded, Operate, ReadTransition, RegistrarThrows
    <2> QED  BY <2>1, <2>2, <2>3
  <1>2. CASE PolicyNext  BY <1>2 DEF PolicyNext, registry
  <1>3. CASE UNCHANGED controlVars  BY <1>3 DEF controlVars, registry
  <1> QED  BY <1>1, <1>2, <1>3 DEF ControlNext

\* The version's row and the copies of those who seed and move it keep their types, for any
\* number of them.
THEOREM RegistryTypeCorrect == ControlSpec => []RegistryTypeOK
  <1>1. ControlInit => RegistryTypeOK
    BY RegistrySorts DEF ControlInit, RegistryTypeOK, Unregistered, VersionType, RegistrarType, Registrars
  <1>2. RegistryTypeOK /\ [ControlNext]_controlVars => RegistryTypeOK'
    <2> SUFFICES ASSUME RegistryTypeOK, [ControlNext]_controlVars  PROVE RegistryTypeOK'
      OBVIOUS
    <2>1. CASE VersionNext  BY <2>1, RegistryTypeStep
    <2>2. CASE UNCHANGED <<versionRow, registrar>>  BY <2>2 DEF RegistryTypeOK
    <2> QED  BY <2>1, <2>2 DEF ControlNext, PolicyNext, registry, controlVars
  <1> QED  BY <1>1, <1>2, PTL DEF ControlSpec

\* A version that has left DRAFT and TESTING keeps its definition, for any number of seeds,
\* operators and definitions.
THEOREM ApprovedVersionsAreImmutable == ControlSpec => ApprovedIsImmutable
  <1>1. RegistryTypeOK /\ [ControlNext]_controlVars
          => [Registered /\ ~Mutable(versionRow.lifecycle)
                => versionRow'.definition = versionRow.definition]_controlVars
    BY DefinitionStep
  <1> QED  BY <1>1, RegistryTypeCorrect, PTL DEF ControlSpec, ApprovedIsImmutable

-----------------------------------------------------------------------------
(* Decisions *)

DecisionStages == {"idle", "stop", "rules", "autonomy", "audit", "decided", "thrown"}
LaxestType == [stop : PolicyOutcomes, rules : PolicyOutcomes, autonomy : PolicyOutcomes]
DecisionType ==
  [pc : DecisionStages, base : PolicyOutcomes, ceiling : PolicyOutcomes, outcome : PolicyOutcomes,
   laxest : LaxestType]

RuleRows == [rule : AutonomyRules, outcome : PolicyOutcomes]

AuthorityTypeOK ==
  /\ stopped \in BOOLEAN
  /\ ruleRow \in [Policies -> PolicyOutcomes]
  /\ autonomyRows \subseteq RuleRows
  /\ decision \in [Evaluations -> DecisionType]

\* What was read was no laxer than the laxest seen; what is still to be read is not yet.
DecisionIsStrict(e) ==
  LET d == decision[e]
  IN  /\ Evaluating(e) => /\ d.laxest.stop <= Stop(stopped)
                          /\ d.laxest.rules <= Ceiling(ruleRow)
                          /\ d.laxest.autonomy <= LaxestRule
      /\ d.pc \in {"rules", "autonomy", "audit"} => d.laxest.stop = ALLOW
      /\ d.pc = "autonomy" => d.laxest.rules <= d.ceiling
      /\ d.pc \in {"audit", "decided"} =>
           /\ d.outcome >= d.laxest.stop /\ d.outcome >= d.laxest.rules
           /\ d.outcome >= d.laxest.autonomy /\ d.outcome >= d.base

DecisionInvariant == AuthorityTypeOK /\ \A e \in Evaluations : DecisionIsStrict(e)

LEMMA Outcomes3 == PolicyOutcomes = {0, 1, 2} /\ PolicyOutcomes \subseteq Nat
                   /\ ALLOW = 0 /\ REQUIRE_APPROVAL = 1 /\ DENY = 2
  BY DEF PolicyOutcomes, ALLOW, DENY, REQUIRE_APPROVAL

\* There is a strictest of the outcomes that rules ask for.
LEMMA CeilingTyped ==
  ASSUME NEW rule \in [Policies -> PolicyOutcomes]
  PROVE  Ceiling(rule) \in PolicyOutcomes
  <1> DEFINE IsCeiling(o) == /\ \A p \in Policies : rule[p] <= o
                             /\ o = ALLOW \/ \E p \in Policies : rule[p] = o
  <1>1. \E o \in PolicyOutcomes : IsCeiling(o)
    <2>1. \A p \in Policies : rule[p] \in {0, 1, 2}  BY Outcomes3
    <2>2. CASE \E p \in Policies : rule[p] = 2
      <3>1. IsCeiling(2)  BY <2>1, <2>2
      <3> QED  BY <3>1, Outcomes3
    <2>3. CASE (\A p \in Policies : rule[p] # 2) /\ \E p \in Policies : rule[p] = 1
      <3>1. IsCeiling(1)  BY <2>1, <2>3
      <3> QED  BY <3>1, Outcomes3
    <2>4. CASE \A p \in Policies : rule[p] # 2 /\ rule[p] # 1
      <3>1. IsCeiling(0)  BY <2>1, <2>4, Outcomes3
      <3> QED  BY <3>1, Outcomes3
    <2> QED  BY <2>2, <2>3, <2>4
  <1>2. Ceiling(rule) = CHOOSE o \in PolicyOutcomes : IsCeiling(o)  BY DEF Ceiling
  <1> HIDE DEF IsCeiling
  <1> QED  BY <1>1, <1>2

\* Of the autonomy rules for one level and risk there is a laxest.
LEMMA LeastOutcome ==
  ASSUME NEW S \in SUBSET PolicyOutcomes, S # {}
  PROVE  LET least == CHOOSE o \in S : \A other \in S : o <= other
         IN  least \in PolicyOutcomes /\ \A o \in S : least <= o
  <1> DEFINE IsLeast(o) == \A other \in S : o <= other
  <1>1. \E o \in S : IsLeast(o)
    <2>1. \A o \in S : o \in {0, 1, 2}  BY Outcomes3
    <2>2. CASE 0 \in S  BY <2>1, <2>2
    <2>3. CASE 0 \notin S /\ 1 \in S  BY <2>1, <2>3
    <2>4. CASE 0 \notin S /\ 1 \notin S  BY <2>1, <2>4
    <2> QED  BY <2>2, <2>3, <2>4
  <1>2. PICK least : least = CHOOSE o \in S : IsLeast(o)  OBVIOUS
  <1>3. least \in S /\ IsLeast(least)
    <2> HIDE DEF IsLeast
    <2> QED  BY <1>1, <1>2
  <1> QED  BY <1>2, <1>3

LEMMA AnswersTyped ==
  ASSUME NEW rows \in SUBSET RuleRows
  PROVE  LET found == IF rows = {} THEN {ALLOW} ELSE {row.outcome : row \in rows}
         IN  found \in SUBSET PolicyOutcomes /\ found # {}
  <1>1. \A row \in rows : row.outcome \in PolicyOutcomes  BY DEF RuleRows
  <1>2. {ALLOW} \in SUBSET PolicyOutcomes  BY Outcomes3
  <1> QED  BY <1>1, <1>2

LEMMA LaxestIs ==
  ASSUME autonomyRows \subseteq RuleRows
  PROVE  LaxestRule \in PolicyOutcomes /\ \A o \in AutonomyAnswers : o \in PolicyOutcomes /\ LaxestRule <= o
  <1>1. AutonomyAnswers \in SUBSET PolicyOutcomes /\ AutonomyAnswers # {}
    BY AnswersTyped DEF AutonomyAnswers
  <1> QED  BY <1>1, LeastOutcome DEF LaxestRule

LEMMA NextLaxestIs ==
  ASSUME autonomyRows' \subseteq RuleRows
  PROVE  LaxestRule' \in PolicyOutcomes
  <1>1. AutonomyAnswers' \in SUBSET PolicyOutcomes /\ AutonomyAnswers' # {}
    BY AnswersTyped DEF AutonomyAnswers
  <1> QED  BY <1>1, LeastOutcome DEF LaxestRule

LEMMA StricterTyped ==
  ASSUME NEW a \in PolicyOutcomes, NEW b \in PolicyOutcomes
  PROVE  /\ TightenOutcome(a, b) \in PolicyOutcomes
         /\ TightenOutcome(a, b) >= a /\ TightenOutcome(a, b) >= b
         /\ Lesser(a, b) \in PolicyOutcomes /\ Lesser(a, b) <= a /\ Lesser(a, b) <= b
  BY Outcomes3 DEF TightenOutcome, Lesser

LEMMA StopTyped == \A stop \in BOOLEAN : Stop(stop) \in PolicyOutcomes
  BY Outcomes3 DEF Stop

LEMMA AutonomyTyped == \A level \in Levels, highRisk \in BOOLEAN :
                         EvaluateAutonomy(level, highRisk) \in PolicyOutcomes
  BY Outcomes3 DEF EvaluateAutonomy, Levels

\* A table changed: of the decisions under way the laxest seen follows it.
LEMMA NoticedStep ==
  ASSUME DecisionInvariant, stopped' \in BOOLEAN, ruleRow' \in [Policies -> PolicyOutcomes],
         autonomyRows' \subseteq RuleRows, Noticed
  PROVE  DecisionInvariant'
  <1> DEFINE stop == Stop(stopped')
             rules == Ceiling(ruleRow')
             laxest == LaxestRule'
  <1>1. stop \in PolicyOutcomes /\ rules \in PolicyOutcomes /\ laxest \in PolicyOutcomes
    BY StopTyped, CeilingTyped, NextLaxestIs
  <1> DEFINE Seen(e) == [stop |-> Lesser(decision[e].laxest.stop, stop),
                         rules |-> Lesser(decision[e].laxest.rules, rules),
                         autonomy |-> Lesser(decision[e].laxest.autonomy, laxest)]
  <1>2. \A e \in Evaluations : decision[e] \in DecisionType /\ decision[e].laxest \in LaxestType
    BY DEF DecisionInvariant, AuthorityTypeOK, DecisionType
  <1>3. \A e \in Evaluations :
          decision'[e] = IF ~Evaluating(e) THEN decision[e] ELSE [decision[e] EXCEPT !.laxest = Seen(e)]
    BY DEF Noticed
  <1> HIDE DEF stop, rules, laxest
  <1>4. \A e \in Evaluations :
          /\ Seen(e) \in LaxestType
          /\ Seen(e).stop <= decision[e].laxest.stop /\ Seen(e).stop <= stop
          /\ Seen(e).rules <= decision[e].laxest.rules /\ Seen(e).rules <= rules
          /\ Seen(e).autonomy <= decision[e].laxest.autonomy /\ Seen(e).autonomy <= laxest
    BY <1>1, <1>2, StricterTyped DEF LaxestType
  <1> HIDE DEF Seen
  <1>5. \A e \in Evaluations : decision'[e] \in DecisionType
    BY <1>2, <1>3, <1>4 DEF DecisionType
  <1>6. decision' \in [Evaluations -> DecisionType]  BY <1>5 DEF Noticed
  <1>7. ASSUME NEW e \in Evaluations  PROVE DecisionIsStrict(e)'
    <2>1. DecisionIsStrict(e)  BY DEF DecisionInvariant
    <2>2. CASE ~Evaluating(e)
      <3>1. decision'[e] = decision[e]  BY <1>3, <2>2
      <3> QED  BY <2>1, <2>2, <3>1 DEF DecisionIsStrict, Evaluating
    <2>3. CASE Evaluating(e)
      <3>1. /\ decision'[e].pc = decision[e].pc /\ decision'[e].base = decision[e].base
            /\ decision'[e].ceiling = decision[e].ceiling /\ decision'[e].outcome = decision[e].outcome
            /\ decision'[e].laxest = Seen(e)
        BY <1>2, <1>3, <2>3 DEF DecisionType
      <3>2. /\ decision[e].laxest.stop \in Nat /\ decision[e].laxest.rules \in Nat
            /\ decision[e].laxest.autonomy \in Nat /\ decision[e].outcome \in Nat
            /\ decision[e].ceiling \in Nat /\ Seen(e).stop \in Nat /\ Seen(e).rules \in Nat
            /\ Seen(e).autonomy \in Nat /\ stop \in Nat /\ rules \in Nat /\ laxest \in Nat
        BY <1>1, <1>2, <1>4, Outcomes3 DEF DecisionType, LaxestType
      <3> QED  BY <1>4, <2>1, <2>3, <3>1, <3>2, Outcomes3 DEF DecisionIsStrict, Evaluating, stop, rules, laxest
    <2> QED  BY <2>2, <2>3
  <1> QED  BY <1>6, <1>7 DEF DecisionInvariant, AuthorityTypeOK

\* A decision takes a step: the others are left alone.
LEMMA DecisionOfOne ==
  ASSUME DecisionInvariant, NEW e \in Evaluations, NEW d \in DecisionType,
         decision' = [decision EXCEPT ![e] = d], DecisionIsStrict(e)', UNCHANGED authority
  PROVE  DecisionInvariant'
  <1>1. decision' \in [Evaluations -> DecisionType] /\ \A x \in Evaluations \ {e} : decision'[x] = decision[x]
    BY DEF DecisionInvariant, AuthorityTypeOK
  <1>2. ASSUME NEW x \in Evaluations \ {e}  PROVE DecisionIsStrict(x)'
    BY <1>1 DEF DecisionInvariant, DecisionIsStrict, Evaluating, authority, LaxestRule, AutonomyAnswers
  <1> QED  BY <1>1, <1>2 DEF DecisionInvariant, AuthorityTypeOK, authority

LEMMA EvaluationStep ==
  ASSUME DecisionInvariant, NEW e \in Evaluations, UNCHANGED authority,
         \/ Evaluate(e) \/ ReadStop(e) \/ ReadRules(e) \/ ReadAutonomy(e) \/ AuditDecision(e)
         \/ DecisionThrows(e)
  PROVE  DecisionInvariant'
  <1> DEFINE d == decision[e]
  <1>1. d \in DecisionType /\ d.laxest \in LaxestType /\ DecisionIsStrict(e)
    BY DEF DecisionInvariant, AuthorityTypeOK, DecisionType
  <1>2. /\ Stop(stopped) \in PolicyOutcomes /\ Ceiling(ruleRow) \in PolicyOutcomes
        /\ LaxestRule \in PolicyOutcomes /\ stopped \in BOOLEAN
    BY StopTyped, CeilingTyped, LaxestIs DEF DecisionInvariant, AuthorityTypeOK
  <1>3. /\ d.laxest.stop \in {0, 1, 2} /\ d.laxest.rules \in {0, 1, 2}
        /\ d.laxest.autonomy \in {0, 1, 2} /\ d.base \in {0, 1, 2}
        /\ d.ceiling \in {0, 1, 2} /\ d.outcome \in {0, 1, 2}
        /\ LaxestRule \in {0, 1, 2} /\ Ceiling(ruleRow) \in {0, 1, 2}
    BY <1>1, <1>2, Outcomes3 DEF DecisionType, LaxestType
  <1>4. decision \in [Evaluations -> DecisionType]  BY DEF DecisionInvariant, AuthorityTypeOK
  <1>5. UNCHANGED <<stopped, ruleRow, LaxestRule>>  BY DEF authority, LaxestRule, AutonomyAnswers
  <1>6. DecisionStages = {"idle", "stop", "rules", "autonomy", "audit", "decided", "thrown"}
    BY DEF DecisionStages
  <1>7. CASE Evaluate(e)
    <2>1. PICK level \in Levels, highRisk \in BOOLEAN :
            decision' = [decision EXCEPT ![e].pc = "stop", ![e].base = EvaluateAutonomy(level, highRisk),
              ![e].laxest = [stop |-> Stop(stopped), rules |-> Ceiling(ruleRow), autonomy |-> LaxestRule]]
      BY <1>7 DEF Evaluate
    <2> DEFINE base == EvaluateAutonomy(level, highRisk)
               now  == [stop |-> Stop(stopped), rules |-> Ceiling(ruleRow), autonomy |-> LaxestRule]
               new  == [d EXCEPT !.pc = "stop", !.base = base, !.laxest = now]
    <2>2. base \in PolicyOutcomes /\ now \in LaxestType  BY <1>2, AutonomyTyped DEF LaxestType
    <2>3. now.stop = Stop(stopped) /\ now.rules = Ceiling(ruleRow) /\ now.autonomy = LaxestRule
      OBVIOUS
    <2>4. decision' = [decision EXCEPT ![e] = new]  BY <2>1, <1>4
    <2> HIDE DEF base, now
    <2>5. new \in DecisionType /\ new.pc = "stop" /\ new.laxest = now
      BY <1>1, <1>6, <2>2 DEF DecisionType
    <2> HIDE DEF new
    <2>6. decision'[e] = new  BY <1>4, <2>4
    <2>7. Stop(stopped) \in {0, 1, 2}  BY <1>2, Outcomes3
    <2>8. DecisionIsStrict(e)'
      BY <1>3, <1>5, <2>3, <2>5, <2>6, <2>7 DEF DecisionIsStrict, Evaluating
    <2> QED  BY <2>4, <2>5, <2>8, DecisionOfOne
  <1>8. CASE ReadRules(e)
    <2> DEFINE new == [d EXCEPT !.pc = "autonomy", !.ceiling = Ceiling(ruleRow)]
    <2>1. d.pc = "rules" /\ decision' = [decision EXCEPT ![e] = new]  BY <1>8, <1>4 DEF ReadRules
    <2>2. /\ new \in DecisionType /\ new.pc = "autonomy" /\ new.laxest = d.laxest
          /\ new.ceiling = Ceiling(ruleRow)
      BY <1>1, <1>2, <1>6 DEF DecisionType
    <2> HIDE DEF new
    <2>3. decision'[e] = new  BY <1>4, <2>1
    <2>4. DecisionIsStrict(e)'
      BY <1>1, <1>5, <2>1, <2>2, <2>3 DEF DecisionIsStrict, Evaluating
    <2> QED  BY <2>1, <2>2, <2>4, DecisionOfOne
  <1>9. ASSUME NEW pc \in DecisionStages, NEW outcome \in PolicyOutcomes, Decides(e, pc, outcome),
               pc \in {"rules", "audit", "decided", "thrown"},
               pc \in {"rules", "audit"} => Evaluating(e) /\ d.laxest.stop = ALLOW,
               pc \in {"audit", "decided"} => /\ outcome >= d.laxest.stop /\ outcome >= d.laxest.rules
                                              /\ outcome >= d.laxest.autonomy /\ outcome >= d.base
        PROVE  DecisionInvariant'
    <2> DEFINE new == [d EXCEPT !.pc = pc, !.outcome = outcome]
    <2>1. decision' = [decision EXCEPT ![e] = new]  BY <1>4, <1>9 DEF Decides
    <2>2. /\ new \in DecisionType /\ new.pc = pc /\ new.outcome = outcome
          /\ new.laxest = d.laxest /\ new.base = d.base
      BY <1>1, <1>9 DEF DecisionType
    <2> HIDE DEF new
    <2>3. decision'[e] = new  BY <1>4, <2>1
    <2>4. DecisionIsStrict(e)'
      BY <1>1, <1>5, <1>9, <2>2, <2>3 DEF DecisionIsStrict, Evaluating
    <2> QED  BY <2>1, <2>2, <2>4, DecisionOfOne
  <1>10. CASE ReadStop(e)
    <2>1. Evaluating(e)  BY <1>10 DEF ReadStop, Evaluating
    <2>2. CASE Decides(e, "decided", DENY)
      BY <1>3, <1>6, <1>9, <2>2, Outcomes3
    <2>3. CASE ~stopped /\ Decides(e, "rules", ALLOW)
      <3>1. d.laxest.stop = ALLOW
        BY <1>1, <1>3, <2>1, <2>3, Outcomes3 DEF DecisionIsStrict, Stop
      <3> QED  BY <1>6, <1>9, <2>1, <2>3, <3>1, Outcomes3
    <2> QED  BY <1>10, <2>2, <2>3 DEF ReadStop
  <1>11. CASE ReadAutonomy(e)
    <2>1. PICK required \in AutonomyAnswers :
            /\ d.pc = "autonomy"
            /\ Decides(e, "audit", TightenOutcome(d.ceiling, TightenOutcome(d.base, required)))
      BY <1>11 DEF ReadAutonomy
    <2> DEFINE inner == TightenOutcome(d.base, required)
               outer == TightenOutcome(d.ceiling, inner)
    <2>2. required \in PolicyOutcomes /\ LaxestRule <= required
      BY LaxestIs DEF DecisionInvariant, AuthorityTypeOK
    <2>3. inner \in PolicyOutcomes /\ inner >= d.base /\ inner >= required
      BY <1>1, <2>2, StricterTyped DEF DecisionType
    <2>4. Decides(e, "audit", outer)  BY <2>1
    <2> HIDE DEF inner
    <2>5. outer \in PolicyOutcomes /\ outer >= d.ceiling /\ outer >= inner
      BY <1>1, <2>3, StricterTyped DEF DecisionType
    <2> HIDE DEF outer
    <2>6. /\ d.laxest.stop = ALLOW /\ d.laxest.rules <= d.ceiling
          /\ d.laxest.autonomy <= LaxestRule /\ Evaluating(e)
      BY <1>1, <2>1 DEF DecisionIsStrict, Evaluating
    <2>7. inner \in {0, 1, 2} /\ outer \in {0, 1, 2} /\ required \in {0, 1, 2}
      BY <2>2, <2>3, <2>5, Outcomes3
    <2>8. /\ outer >= d.laxest.stop /\ outer >= d.laxest.rules
          /\ outer >= d.laxest.autonomy /\ outer >= d.base
      BY <1>3, <2>2, <2>3, <2>5, <2>6, <2>7, Outcomes3
    <2> QED  BY <1>6, <1>9, <2>1, <2>4, <2>5, <2>6, <2>8
  <1>12. CASE AuditDecision(e)
    <2>1. d.pc = "audit" /\ Decides(e, "decided", d.outcome)  BY <1>12 DEF AuditDecision
    <2>2. d.outcome \in PolicyOutcomes  BY <1>1 DEF DecisionType
    <2> QED  BY <1>1, <1>6, <1>9, <2>1, <2>2 DEF DecisionIsStrict
  <1>13. CASE DecisionThrows(e)
    BY <1>6, <1>9, <1>13, Outcomes3 DEF DecisionThrows
  <1> QED  BY <1>7, <1>8, <1>10, <1>11, <1>12, <1>13

LEMMA DecisionStep ==
  ASSUME DecisionInvariant, [ControlNext]_controlVars
  PROVE  DecisionInvariant'
  <1>1. CASE VersionNext \/ UNCHANGED controlVars
    BY <1>1 DEF VersionNext, controlVars, authority, DecisionInvariant, AuthorityTypeOK,
                DecisionIsStrict, Evaluating, LaxestRule, AutonomyAnswers
  <1>2. CASE SavePolicyRule \/ SaveAutonomyRule \/ SetEmergencyStop
    <2>1. /\ stopped \in BOOLEAN /\ ruleRow \in [Policies -> PolicyOutcomes] /\ autonomyRows \subseteq RuleRows
      BY DEF DecisionInvariant, AuthorityTypeOK
    <2>2. CASE SavePolicyRule
      <3>1. PICK p \in Policies, outcome \in PolicyOutcomes : ruleRow' = [ruleRow EXCEPT ![p] = outcome]
        BY <2>2 DEF SavePolicyRule
      <3>2. ruleRow' \in [Policies -> PolicyOutcomes] /\ UNCHANGED <<stopped, autonomyRows>> /\ Noticed
        BY <2>1, <2>2, <3>1 DEF SavePolicyRule
      <3> QED  BY <2>1, <3>2, NoticedStep
    <2>3. CASE SaveAutonomyRule
      <3>1. autonomyRows' \subseteq RuleRows  BY <2>1, <2>3 DEF SaveAutonomyRule, RuleRows
      <3> QED  BY <2>1, <2>3, <3>1, NoticedStep DEF SaveAutonomyRule
    <2>4. CASE SetEmergencyStop
      BY <2>1, <2>4, NoticedStep DEF SetEmergencyStop
    <2> QED  BY <1>2, <2>2, <2>3, <2>4
  <1>3. CASE \E e \in Evaluations :
               \/ Evaluate(e) \/ ReadStop(e) \/ ReadRules(e) \/ ReadAutonomy(e) \/ AuditDecision(e)
               \/ DecisionThrows(e)
    BY <1>3, EvaluationStep
    DEF Evaluate, ReadStop, ReadRules, ReadAutonomy, AuditDecision, DecisionThrows
  <1> QED  BY <1>1, <1>2, <1>3 DEF ControlNext, PolicyNext

\* A decision is no laxer than what the stop, the rules and each of the autonomy rules asked
\* for all the while it was taken, for any number of rules of both kinds and of decisions:
\* getRule may answer with the laxest autonomy rule, but with none laxer than that.
THEOREM DecisionsAreStrict == ControlSpec => []DecisionsRestrict
  <1>1. ControlInit => DecisionInvariant
    BY Outcomes3 DEF ControlInit, DecisionInvariant, AuthorityTypeOK, DecisionType, LaxestType,
                     DecisionStages, DecisionIsStrict, Evaluating
  <1>2. DecisionInvariant /\ [ControlNext]_controlVars => DecisionInvariant'  BY DecisionStep
  <1>3. DecisionInvariant => DecisionsRestrict
    BY DEF DecisionInvariant, DecisionIsStrict, DecisionsRestrict
  <1> QED  BY <1>1, <1>2, <1>3, PTL DEF ControlSpec

-----------------------------------------------------------------------------
(* Contacts *)

ContactStatuses == {"NONE", "DISCOVERED", "ENRICHED", "VALIDATED", "SUPPRESSED"}
Verifications   == {"NONE", "UNVERIFIED", "VERIFIED", "BOUNCED"}
RowAddresses    == {"none", "malformed"} \cup Addresses
MaybeContacts   == {"none"} \cup Contacts
KeeperStages    ==
  {"idle", "hmac version", "hmac key", "encryption version", "encryption key", "insert", "apply",
   "save", "recover", "recovered", "done", "thrown"}
EnvelopeType    == [label : Nat, key : Nat]
ContactType ==
  [status : ContactStatuses, verification : Verifications, version : Nat, address : RowAddresses,
   hmac : EnvelopeType, encryption : EnvelopeType]
KeeperType == [pc : KeeperStages, contact : MaybeContacts, copy : ContactType]
RingType   == [version : Nat, published : SUBSET Nat, alias : Nat]

ContactTypeOK ==
  /\ contactRow \in [Contacts -> ContactType]
  /\ keyring \in [Rings -> RingType]
  /\ keeper \in [Keepers -> KeeperType]

\* A run that will save holds a copy of a row that is there, and if the version is still the
\* row's then it holds what suppressed the row.
KeeperIsSound(k) ==
  LET row  == contactRow[keeper[k].contact]
      copy == keeper[k].copy
  IN  keeper[k].pc \in {"apply", "save"} =>
        /\ keeper[k].contact \in Contacts
        /\ row # NoContact
        /\ copy.version <= row.version
        /\ (copy.version = row.version /\ row.status = "SUPPRESSED") =>
             copy.status = "SUPPRESSED" /\ copy.verification = row.verification

ContactInvariant == ContactTypeOK /\ \A k \in Keepers : KeeperIsSound(k)

LEMMA ContactSorts ==
  /\ KeeperStages = {"idle", "hmac version", "hmac key", "encryption version", "encryption key",
                     "insert", "apply", "save", "recover", "recovered", "done", "thrown"}
  /\ {"NONE", "DISCOVERED", "ENRICHED", "VALIDATED", "SUPPRESSED"} \subseteq ContactStatuses
  /\ {"NONE", "UNVERIFIED", "VERIFIED", "BOUNCED"} \subseteq Verifications
  /\ {"none", "malformed"} \cup Addresses \subseteq RowAddresses
  /\ "none" \in MaybeContacts /\ Contacts \subseteq MaybeContacts
  BY DEF KeeperStages, ContactStatuses, Verifications, RowAddresses, MaybeContacts

LEMMA NoContactTyped ==
  NoContact \in ContactType /\ NoContact.status = "NONE" /\ NoContact.version = 0
  <1>1. NoEnvelope \in EnvelopeType  BY DEF NoEnvelope, EnvelopeType
  <1> QED  BY <1>1, ContactSorts DEF NoContact, ContactType

LEMMA ChangedTyped ==
  ASSUME NEW row \in ContactType, NEW operation
  PROVE  /\ Changed(row, operation) \in ContactType
         /\ Changed(row, operation).version = row.version
  <1> DEFINE status == IF operation = "suppress" THEN "SUPPRESSED"
                       ELSE IF operation = "validate" THEN "VALIDATED"
                       ELSE IF operation = "enrich" /\ row.status = "DISCOVERED" THEN "ENRICHED"
                       ELSE row.status
             verification == IF operation = "verify" THEN "VERIFIED"
                             ELSE IF operation = "bounce" THEN "BOUNCED" ELSE row.verification
  <1>1. Changed(row, operation) = [row EXCEPT !.status = status, !.verification = verification]
    BY DEF Changed
  <1>2. status \in ContactStatuses /\ verification \in Verifications
    BY ContactSorts DEF ContactType
  <1> HIDE DEF status, verification
  <1> QED  BY <1>1, <1>2 DEF ContactType

LEMMA SuppressKeeps ==
  ASSUME NEW row \in ContactType
  PROVE  /\ Changed(row, "suppress").status = "SUPPRESSED"
         /\ Changed(row, "suppress").verification = row.verification
  BY DEF Changed, ContactType

\* A step of one run that leaves the rows alone keeps the invariant if its own part holds.
LEMMA KeeperOfOne ==
  ASSUME ContactInvariant, NEW k \in Keepers, NEW new \in KeeperType,
         keeper' = [keeper EXCEPT ![k] = new], KeeperIsSound(k)', UNCHANGED <<contactRow, keyring>>
  PROVE  ContactInvariant'
  <1>1. keeper' \in [Keepers -> KeeperType] /\ \A x \in Keepers \ {k} : keeper'[x] = keeper[x]
    BY DEF ContactInvariant, ContactTypeOK
  <1>2. ASSUME NEW x \in Keepers \ {k}  PROVE KeeperIsSound(x)'
    BY <1>1 DEF ContactInvariant, KeeperIsSound
  <1> QED  BY <1>1, <1>2 DEF ContactInvariant, ContactTypeOK

LEMMA KeeperStep ==
  ASSUME ContactInvariant, NEW k \in Keepers,
         \/ Canonicalize(k) \/ InsertContact(k) \/ LoadContact(k) \/ ApplyChange(k)
         \/ UpdateContact(k) \/ FindRecipient(k) \/ RecoverAddress(k) \/ KeeperThrows(k)
         \/ \E r \in Rings : ReadVersion(k, r) \/ ReadKey(k, r)
  PROVE  /\ ContactInvariant'
         /\ \A c \in Contacts : contactRow[c].status = "SUPPRESSED" =>
              /\ contactRow'[c].status = "SUPPRESSED"
              /\ contactRow'[c].verification = contactRow[c].verification
  <1> DEFINE copy == keeper[k].copy
  <1>1. /\ keeper[k] \in KeeperType /\ copy \in ContactType /\ keeper \in [Keepers -> KeeperType]
        /\ contactRow \in [Contacts -> ContactType] /\ KeeperIsSound(k)
        /\ keyring \in [Rings -> RingType]
    BY DEF ContactInvariant, ContactTypeOK, KeeperType
  <1>2. ASSUME NEW pc \in KeeperStages \ {"apply", "save"}, KeeperTo(k, pc),
               UNCHANGED <<contactRow, keyring>>
        PROVE  ContactInvariant'
    <2> DEFINE new == [keeper[k] EXCEPT !.pc = pc]
    <2>1. new \in KeeperType /\ new.pc = pc  BY <1>1, <1>2 DEF KeeperType
    <2>2. keeper' = [keeper EXCEPT ![k] = new]  BY <1>1, <1>2 DEF KeeperTo
    <2> HIDE DEF new
    <2>3. KeeperIsSound(k)'  BY <1>1, <2>1, <2>2 DEF KeeperIsSound
    <2> QED  BY <1>2, <2>1, <2>2, <2>3, KeeperOfOne
  <1>3. ASSUME NEW pc \in KeeperStages \ {"apply", "save"}, NEW c \in MaybeContacts,
               NEW row \in ContactType, UNCHANGED <<contactRow, keyring>>,
               keeper' = [keeper EXCEPT ![k].pc = pc, ![k].contact = c, ![k].copy = row]
        PROVE  ContactInvariant'
    <2> DEFINE new == [keeper[k] EXCEPT !.pc = pc, !.contact = c, !.copy = row]
    <2>1. new \in KeeperType /\ new.pc = pc  BY <1>1, <1>3 DEF KeeperType
    <2>2. keeper' = [keeper EXCEPT ![k] = new]  BY <1>1, <1>3
    <2> HIDE DEF new
    <2>3. KeeperIsSound(k)'  BY <1>1, <2>1, <2>2 DEF KeeperIsSound
    <2> QED  BY <1>3, <2>1, <2>2, <2>3, KeeperOfOne
  <1>4. CASE Canonicalize(k)
    <2>1. PICK c \in Contacts, address \in Addresses \cup {"malformed"} :
            keeper' = [keeper EXCEPT ![k].contact = c, ![k].copy.address = address,
                         ![k].pc = IF address = "malformed" THEN "thrown" ELSE "hmac version"]
      BY <1>4 DEF Canonicalize
    <2> DEFINE row == [copy EXCEPT !.address = address]
               pc  == IF address = "malformed" THEN "thrown" ELSE "hmac version"
    <2>2. pc \in KeeperStages \ {"apply", "save"}  BY ContactSorts
    <2> HIDE DEF pc
    <2>3. row \in ContactType  BY ContactSorts, <1>1 DEF ContactType
    <2>4. keeper' = [keeper EXCEPT ![k].pc = pc, ![k].contact = c, ![k].copy = row]
      BY <1>1, <2>1 DEF KeeperType, pc
    <2> HIDE DEF row
    <2> QED  BY ContactSorts, <1>3, <1>4, <2>2, <2>3, <2>4 DEF Canonicalize
  <1>5. CASE InsertContact(k)
    <2> DEFINE c == keeper[k].contact
    <2>1. CASE IsDuplicate(c, copy)
      <3>1. KeeperTo(k, "thrown") /\ UNCHANGED <<contactRow, keyring>>
        BY <1>5, <2>1 DEF InsertContact
      <3> QED  BY ContactSorts, <1>2, <3>1
    <2>2. CASE ~IsDuplicate(c, copy)
      <3> DEFINE row == Discovered(copy)
      <3>1. /\ contactRow' = [contactRow EXCEPT ![c] = row] /\ UNCHANGED keyring
            /\ keeper' = [keeper EXCEPT ![k].pc = "done"] /\ contactRow[c] = NoContact
        BY <1>5, <2>2 DEF InsertContact, IsDuplicate, KeeperTo
      <3>2. row \in ContactType  BY ContactSorts, <1>1 DEF Discovered, ContactType
      <3> HIDE DEF row, c
      <3>3. keeper' \in [Keepers -> KeeperType] /\ keeper'[k].pc = "done"
            /\ \A x \in Keepers \ {k} : keeper'[x] = keeper[x]
        BY ContactSorts, <1>1, <3>1 DEF KeeperType
      <3>4. /\ contactRow' \in [Contacts -> ContactType]
            /\ \A x \in Contacts : contactRow[x] # NoContact => contactRow'[x] = contactRow[x]
        BY <1>1, <3>1, <3>2
      <3>5. ASSUME NEW x \in Keepers  PROVE KeeperIsSound(x)'
        <4>1. KeeperIsSound(x)  BY DEF ContactInvariant
        <4>2. CASE x = k  BY <3>3, <4>2 DEF KeeperIsSound
        <4>3. CASE x # k  BY <3>3, <3>4, <4>1, <4>3 DEF KeeperIsSound
        <4> QED  BY <4>2, <4>3
      <3>6. \A x \in Contacts : contactRow[x].status = "SUPPRESSED" => contactRow'[x] = contactRow[x]
        BY <3>4, NoContactTyped
      <3> QED  BY <1>1, <3>1, <3>3, <3>4, <3>5, <3>6 DEF ContactInvariant, ContactTypeOK
    <2> QED  BY <2>1, <2>2
  <1>6. CASE LoadContact(k)
    <2>1. PICK c \in Contacts :
            /\ contactRow[c] # NoContact
            /\ keeper' = [keeper EXCEPT ![k].pc = "apply", ![k].contact = c, ![k].copy = contactRow[c]]
      BY <1>6 DEF LoadContact
    <2> DEFINE new == [keeper[k] EXCEPT !.pc = "apply", !.contact = c, !.copy = contactRow[c]]
    <2>2. contactRow[c] \in ContactType /\ contactRow[c].version \in Nat  BY <1>1 DEF ContactType
    <2>3. new \in KeeperType /\ new.pc = "apply" /\ new.contact = c /\ new.copy = contactRow[c]
      BY ContactSorts, <1>1, <2>2 DEF KeeperType
    <2>4. keeper' = [keeper EXCEPT ![k] = new] /\ UNCHANGED <<contactRow, keyring>>
      BY <1>1, <1>6, <2>1 DEF LoadContact
    <2> HIDE DEF new
    <2>5. keeper'[k] = new  BY <1>1, <2>4
    <2>6. KeeperIsSound(k)'  BY <2>1, <2>2, <2>3, <2>4, <2>5 DEF KeeperIsSound
    <2> QED  BY <2>3, <2>4, <2>6, KeeperOfOne
  <1>7. CASE ApplyChange(k)
    <2>1. PICK operation \in Operations :
            keeper' = IF copy.status = "SUPPRESSED" /\ operation # "suppress"
                      THEN [keeper EXCEPT ![k].pc = "thrown"]
                      ELSE [keeper EXCEPT ![k].pc = "save", ![k].copy = Changed(copy, operation)]
      BY <1>7 DEF ApplyChange
    <2>2. UNCHANGED <<contactRow, keyring>> /\ keeper[k].pc = "apply"  BY <1>7 DEF ApplyChange
    <2>3. CASE copy.status = "SUPPRESSED" /\ operation # "suppress"
      BY ContactSorts, <1>2, <2>1, <2>2, <2>3 DEF KeeperTo
    <2>4. CASE ~(copy.status = "SUPPRESSED" /\ operation # "suppress")
      <3> DEFINE row == Changed(copy, operation)
                 new == [keeper[k] EXCEPT !.pc = "save", !.copy = row]
      <3>1. /\ row \in ContactType /\ row.version = copy.version
            /\ copy.status = "SUPPRESSED" =>
                 row.status = "SUPPRESSED" /\ row.verification = copy.verification
        BY <1>1, <2>4, ChangedTyped, SuppressKeeps
      <3> HIDE DEF row
      <3>2. new \in KeeperType /\ new.pc = "save" /\ new.copy = row /\ new.contact = keeper[k].contact
        BY ContactSorts, <1>1, <3>1 DEF KeeperType
      <3>3. keeper' = [keeper EXCEPT ![k] = new]  BY <1>1, <2>1, <2>4 DEF row
      <3> HIDE DEF new
      <3>4. keeper'[k] = new  BY <1>1, <3>3
      <3>5. KeeperIsSound(k)'  BY <1>1, <2>2, <3>1, <3>2, <3>4 DEF KeeperIsSound
      <3> QED  BY <2>2, <3>2, <3>3, <3>5, KeeperOfOne
    <2> QED  BY <2>2, <2>3, <2>4
  <1>8. CASE UpdateContact(k)
    <2> DEFINE c == keeper[k].contact
    <2>1. CASE Unstale(k)
      <3> DEFINE row == [copy EXCEPT !.version = @ + 1]
      <3>1. /\ contactRow' = [contactRow EXCEPT ![c] = row] /\ UNCHANGED keyring
            /\ keeper' = [keeper EXCEPT ![k].pc = "done"]
            /\ contactRow[c].version = copy.version /\ c \in Contacts
            /\ contactRow[c].status = "SUPPRESSED" =>
                 copy.status = "SUPPRESSED" /\ copy.verification = contactRow[c].verification
        BY <1>1, <1>8, <2>1 DEF UpdateContact, Unstale, KeeperTo, KeeperIsSound
      <3>2. /\ row \in ContactType /\ row.version = copy.version + 1 /\ row.status = copy.status
            /\ row.verification = copy.verification /\ copy.version \in Nat
        <4>1. copy.version \in Nat /\ copy.version + 1 \in Nat  BY <1>1 DEF ContactType
        <4> QED  BY <1>1, <4>1 DEF ContactType
      <3> HIDE DEF row, c
      <3>3. keeper' \in [Keepers -> KeeperType] /\ keeper'[k].pc = "done"
            /\ \A x \in Keepers \ {k} : keeper'[x] = keeper[x]
        BY ContactSorts, <1>1, <3>1 DEF KeeperType
      <3>4. /\ contactRow' \in [Contacts -> ContactType] /\ contactRow'[c] = row
            /\ \A x \in Contacts \ {c} : contactRow'[x] = contactRow[x]
        BY <1>1, <3>1, <3>2
      <3>5. row # NoContact  BY <3>2, NoContactTyped
      <3>6. ASSUME NEW x \in Keepers  PROVE KeeperIsSound(x)'
        <4>1. KeeperIsSound(x) /\ keeper[x].copy.version \in Nat
          BY <1>1 DEF ContactInvariant, KeeperType, ContactType
        <4>2. CASE x = k  BY <3>3, <4>2 DEF KeeperIsSound
        <4>3. CASE x # k /\ keeper[x].contact # c
          BY <3>3, <3>4, <4>1, <4>3 DEF KeeperIsSound
        <4>4. CASE x # k /\ keeper[x].contact = c
          <5>1. keeper'[x] = keeper[x] /\ contactRow'[keeper[x].contact] = row  BY <3>3, <3>4, <4>4
          <5>2. keeper[x].pc \in {"apply", "save"} => keeper[x].copy.version < row.version
            BY <3>1, <3>2, <4>1, <4>4 DEF KeeperIsSound
          <5> QED  BY <3>1, <3>2, <3>5, <4>1, <4>4, <5>1, <5>2 DEF KeeperIsSound
        <4> QED  BY <4>2, <4>3, <4>4
      <3>7. \A x \in Contacts : contactRow[x].status = "SUPPRESSED" =>
              /\ contactRow'[x].status = "SUPPRESSED"
              /\ contactRow'[x].verification = contactRow[x].verification
        BY <3>1, <3>2, <3>4
      <3> QED  BY <1>1, <3>1, <3>3, <3>4, <3>6, <3>7 DEF ContactInvariant, ContactTypeOK
    <2>2. CASE ~Unstale(k)
      <3>1. KeeperTo(k, "thrown") /\ UNCHANGED <<contactRow, keyring>>
        BY <1>8, <2>2 DEF UpdateContact
      <3> QED  BY ContactSorts, <1>2, <3>1
    <2> QED  BY <2>1, <2>2
  <1>9. CASE FindRecipient(k)
    <2>1. PICK c \in Contacts :
            keeper' = [keeper EXCEPT ![k].pc = "recover", ![k].contact = c, ![k].copy = contactRow[c]]
      BY <1>9 DEF FindRecipient
    <2>2. contactRow[c] \in ContactType  BY <1>1
    <2> QED  BY ContactSorts, <1>3, <1>9, <2>1, <2>2 DEF FindRecipient
  <1>10. CASE RecoverAddress(k)
    <2>1. KeeperTo(k, "recovered") \/ KeeperTo(k, "thrown")  BY <1>10 DEF RecoverAddress
    <2> QED  BY ContactSorts, <1>2, <1>10, <2>1 DEF RecoverAddress
  <1>11. CASE KeeperThrows(k)  BY ContactSorts, <1>2, <1>11 DEF KeeperThrows
  <1>12. ASSUME NEW r \in Rings, NEW envelope \in EnvelopeType, NEW pc \in KeeperStages \ {"apply", "save"},
                keeper' = [keeper EXCEPT ![k].pc = pc, ![k].copy[r] = envelope],
                UNCHANGED <<contactRow, keyring>>
         PROVE  ContactInvariant'
    <2> DEFINE row == [copy EXCEPT ![r] = envelope]
    <2>1. row \in ContactType
      <3>1. CASE r = "hmac"  BY <1>1, <3>1 DEF ContactType
      <3>2. CASE r = "encryption"  BY <1>1, <3>2 DEF ContactType
      <3> QED  BY <3>1, <3>2 DEF Rings
    <2> DEFINE new == [keeper[k] EXCEPT !.pc = pc, !.copy = row]
    <2>2. keeper' = [keeper EXCEPT ![k] = new]  BY <1>1, <1>12 DEF KeeperType
    <2> HIDE DEF row
    <2>3. new \in KeeperType /\ new.pc = pc  BY <1>1, <2>1 DEF KeeperType
    <2> HIDE DEF new
    <2>4. KeeperIsSound(k)'  BY <1>1, <2>2, <2>3 DEF KeeperIsSound
    <2> QED  BY <1>12, <2>2, <2>3, <2>4, KeeperOfOne
  <1>13. \A r \in Rings : copy[r] \in EnvelopeType /\ keyring[r].version \in Nat
                          /\ keyring[r].alias \in Nat /\ keyring[r].published \subseteq Nat
    BY <1>1 DEF Rings, ContactType, RingType
  <1>14. CASE \E r \in Rings : ReadVersion(k, r)
    <2>1. PICK r \in Rings : ReadVersion(k, r)  BY <1>14
    <2> DEFINE envelope == [copy[r] EXCEPT !.label = keyring[r].version]
    <2>2. envelope \in EnvelopeType  BY <1>13 DEF EnvelopeType
    <2>3. keeper' = [keeper EXCEPT ![k].pc = KeyRead[r], ![k].copy[r] = envelope]
      BY <1>1, <2>1 DEF ReadVersion
    <2>4. KeyRead[r] \in KeeperStages \ {"apply", "save"}
      <3>1. CASE r = "hmac"  BY ContactSorts, <3>1 DEF KeyRead
      <3>2. CASE r = "encryption"  BY ContactSorts, <3>2 DEF KeyRead
      <3> QED  BY <3>1, <3>2 DEF Rings
    <2> HIDE DEF envelope
    <2> QED  BY <1>12, <2>1, <2>2, <2>3, <2>4 DEF ReadVersion
  <1>15. CASE \E r \in Rings : ReadKey(k, r)
    <2>1. PICK r \in Rings : ReadKey(k, r)  BY <1>15
    <2>2. PICK key \in Nat : keeper' = [keeper EXCEPT ![k].pc = AfterKey[r], ![k].copy[r].key = key]
      <3>1. copy[r].label \in Nat  BY <1>13 DEF EnvelopeType
      <3> QED  BY <1>13, <2>1, <3>1 DEF ReadKey
    <2> DEFINE envelope == [copy[r] EXCEPT !.key = key]
    <2>3. envelope \in EnvelopeType  BY <1>13 DEF EnvelopeType
    <2>4. keeper' = [keeper EXCEPT ![k].pc = AfterKey[r], ![k].copy[r] = envelope]
      BY <1>1, <2>2
    <2>5. AfterKey[r] \in KeeperStages \ {"apply", "save"}
      <3>1. CASE r = "hmac"  BY ContactSorts, <3>1 DEF AfterKey
      <3>2. CASE r = "encryption"  BY ContactSorts, <3>2 DEF AfterKey
      <3> QED  BY <3>1, <3>2 DEF Rings
    <2> HIDE DEF envelope
    <2> QED  BY <1>12, <2>1, <2>3, <2>4, <2>5 DEF ReadKey
  <1>16. ASSUME UNCHANGED contactRow
         PROVE  \A c \in Contacts : contactRow[c].status = "SUPPRESSED" =>
                  /\ contactRow'[c].status = "SUPPRESSED"
                  /\ contactRow'[c].verification = contactRow[c].verification
    BY <1>16
  <1> QED  BY <1>4, <1>5, <1>6, <1>7, <1>8, <1>9, <1>10, <1>11, <1>14, <1>15, <1>16
           DEF Canonicalize, LoadContact, ApplyChange, FindRecipient, RecoverAddress, KeeperThrows,
               ReadVersion, ReadKey

LEMMA ContactStep ==
  ASSUME ContactInvariant, [ContactNext]_contactVars
  PROVE  /\ ContactInvariant'
         /\ \A c \in Contacts : contactRow[c].status = "SUPPRESSED" =>
              /\ contactRow'[c].status = "SUPPRESSED"
              /\ contactRow'[c].verification = contactRow[c].verification
  <1>1. CASE \E k \in Keepers :
               \/ Canonicalize(k) \/ InsertContact(k) \/ LoadContact(k) \/ ApplyChange(k)
               \/ UpdateContact(k) \/ FindRecipient(k) \/ RecoverAddress(k) \/ KeeperThrows(k)
               \/ \E r \in Rings : ReadVersion(k, r) \/ ReadKey(k, r)
    BY <1>1, KeeperStep
  <1>2. ASSUME NEW r \in Rings, Rotate(r)
        PROVE  keyring' \in [Rings -> RingType] /\ UNCHANGED <<contactRow, keeper>>
    <2>1. keyring \in [Rings -> RingType]  BY DEF ContactInvariant, ContactTypeOK
    <2>2. \/ \E v \in 1..2 : keyring' = [keyring EXCEPT ![r].published = @ \cup {v}]
          \/ keyring' = [keyring EXCEPT ![r].version = 2]
          \/ keyring' = [keyring EXCEPT ![r].alias = 2]
      BY <1>2 DEF Rotate
    <2> QED  BY <1>2, <2>1, <2>2 DEF Rotate, RingType
  <1>3. ASSUME UNCHANGED <<contactRow, keeper>>, keyring' \in [Rings -> RingType]
        PROVE  ContactInvariant'
    BY <1>3 DEF ContactInvariant, ContactTypeOK, KeeperIsSound
  <1>4. CASE \E r \in Rings : Rotate(r)  BY <1>2, <1>3, <1>4
  <1>5. CASE UNCHANGED contactVars
    <2>1. keyring' \in [Rings -> RingType]  BY <1>5 DEF contactVars, ContactInvariant, ContactTypeOK
    <2> QED  BY <1>3, <1>5, <2>1 DEF contactVars
  <1> QED  BY <1>1, <1>4, <1>5 DEF ContactNext

\* A contact once suppressed stays suppressed, for any number of runs and contacts.
THEOREM SuppressedStaySuppressed == ContactSpec => SuppressionStands
  <1>1. ContactInit => ContactInvariant
    <2> SUFFICES ASSUME ContactInit  PROVE ContactInvariant
      OBVIOUS
    <2>1. contactRow \in [Contacts -> ContactType]  BY NoContactTyped DEF ContactInit
    <2>2. keyring \in [Rings -> RingType]  BY DEF ContactInit, RingType
    <2>3. keeper \in [Keepers -> KeeperType] /\ \A k \in Keepers : keeper[k].pc = "idle"
      BY NoContactTyped, ContactSorts DEF ContactInit, KeeperType
    <2> QED  BY <2>1, <2>2, <2>3 DEF ContactInvariant, ContactTypeOK, KeeperIsSound
  <1>2. ContactInvariant /\ [ContactNext]_contactVars => ContactInvariant'  BY ContactStep
  <1>3. ContactInvariant /\ [ContactNext]_contactVars
          => [\A c \in Contacts : contactRow[c].status = "SUPPRESSED" =>
                /\ contactRow'[c].status = "SUPPRESSED"
                /\ contactRow'[c].verification = contactRow[c].verification]_contactVars
    BY ContactStep
  <1> QED  BY <1>1, <1>2, <1>3, PTL DEF ContactSpec, SuppressionStands

-----------------------------------------------------------------------------
(* The Graph provider *)

DispatchStages == {"idle", "token", "submit", "lookup", "answered", "lost"}
Answers        == {"none", "FAILED", "AMBIGUOUS", "PROVIDER_ACCEPTED"}
MessageIds     == {"none"} \cup Dispatches
DispatchType   == [pc : DispatchStages, key : Keys, answer : Answers, id : MessageIds]
EntryType      == [known : BOOLEAN, id : MessageIds]

MailTypeOK ==
  /\ sentItems.order \in Seq(Dispatches)
  /\ sentItems = [order |-> sentItems.order, listed |-> sentItems.listed, past |-> sentItems.past]
  /\ accepted \in [Keys -> EntryType]
  /\ dispatch \in [Dispatches -> DispatchType]

\* What a call is about to do or has answered tells whether Graph took its message.
DispatchIsSound(d) ==
  /\ dispatch[d].pc \in {"idle", "token", "submit"} => d \notin TakenByGraph
  /\ dispatch[d].pc = "lookup" => d \in TakenByGraph
  /\ dispatch[d].pc # "answered" => dispatch[d].answer = "none"
  /\ dispatch[d].answer = "FAILED" => d \notin TakenByGraph

KeyWasTaken(key) == \E e \in TakenByGraph : e \in Dispatches /\ dispatch[e].key = key

MailInvariant ==
  /\ MailTypeOK
  /\ \A d \in Dispatches : DispatchIsSound(d)
  /\ \A k \in Keys : accepted[k].known => KeyWasTaken(k)
  /\ \A d \in Dispatches : dispatch[d].answer = "PROVIDER_ACCEPTED" => KeyWasTaken(dispatch[d].key)

LEMMA MailSorts ==
  /\ DispatchStages = {"idle", "token", "submit", "lookup", "answered", "lost"}
  /\ Answers = {"none", "FAILED", "AMBIGUOUS", "PROVIDER_ACCEPTED"}
  /\ "none" \in MessageIds /\ Dispatches \subseteq MessageIds
  BY DEF DispatchStages, Answers, MessageIds

LEMMA TakenTyped ==
  ASSUME MailTypeOK
  PROVE  TakenByGraph \subseteq Dispatches /\ FoundIds \subseteq MessageIds
  <1> DEFINE order == sentItems.order
  <1>1. \A i \in 1..Len(order) : order[i] \in Dispatches  BY DEF MailTypeOK
  <1> QED  BY <1>1, MailSorts DEF TakenByGraph, FoundIds

\* Graph takes the message of a call.
LEMMA TakesOne ==
  ASSUME MailTypeOK, NEW d \in Dispatches, Takes(d)
  PROVE  /\ sentItems'.order \in Seq(Dispatches)
         /\ sentItems' = [order |-> sentItems'.order, listed |-> sentItems'.listed, past |-> sentItems'.past]
         /\ TakenByGraph' = TakenByGraph \cup {d}
  <1> DEFINE order == sentItems.order
  <1>1. /\ order \in Seq(Dispatches)
        /\ sentItems' = [order |-> Append(order, d), listed |-> sentItems.listed, past |-> sentItems.past]
    BY DEF MailTypeOK, Takes
  <1>2. sentItems'.order = Append(order, d)  BY <1>1
  <1> HIDE DEF order
  <1>3. /\ Append(order, d) \in Seq(Dispatches) /\ Len(Append(order, d)) = Len(order) + 1
        /\ \A i \in 1..Len(order) : Append(order, d)[i] = order[i]
        /\ Append(order, d)[Len(order) + 1] = d /\ Len(order) \in Nat
    BY <1>1
  <1>4. 1..(Len(order) + 1) = (1..Len(order)) \cup {Len(order) + 1}  BY <1>3
  <1>5. {Append(order, d)[i] : i \in 1..Len(Append(order, d))} = {order[i] : i \in 1..Len(order)} \cup {d}
    BY <1>3, <1>4
  <1> QED  BY <1>1, <1>2, <1>3, <1>5 DEF TakenByGraph, order

\* One call moves, and the messages taken are as before or this call's is one of them.
LEMMA DispatchOfOne ==
  ASSUME MailInvariant, NEW d \in Dispatches, NEW new \in DispatchType,
         dispatch' = [dispatch EXCEPT ![d] = new], new.key = dispatch[d].key,
         \/ UNCHANGED sentItems
         \/ dispatch[d].pc = "submit" /\ Takes(d),
         accepted' \in [Keys -> EntryType],
         \A k \in Keys : accepted'[k].known => KeyWasTaken(k)',
         DispatchIsSound(d)',
         new.answer = "PROVIDER_ACCEPTED" => KeyWasTaken(dispatch[d].key)'
  PROVE  MailInvariant'
  <1>1. MailTypeOK  BY DEF MailInvariant
  <1>2. /\ dispatch' \in [Dispatches -> DispatchType] /\ dispatch'[d] = new
        /\ \A e \in Dispatches \ {d} : dispatch'[e] = dispatch[e]
        /\ \A e \in Dispatches : dispatch'[e].key = dispatch[e].key
    BY <1>1 DEF MailTypeOK
  <1>3. /\ TakenByGraph' \subseteq TakenByGraph \cup {d} /\ TakenByGraph \subseteq TakenByGraph'
        /\ MailTypeOK'
    <2>1. CASE UNCHANGED sentItems
      BY <1>1, <1>2, <2>1 DEF TakenByGraph, MailTypeOK
    <2>2. CASE Takes(d)  BY <1>1, <1>2, <2>2, TakesOne DEF MailTypeOK
    <2> QED  BY <2>1, <2>2
  <1>4. ASSUME NEW e \in Dispatches  PROVE DispatchIsSound(e)'
    BY <1>2, <1>3 DEF MailInvariant, DispatchIsSound
  <1>5. \A k : KeyWasTaken(k) => KeyWasTaken(k)'
    BY <1>2, <1>3 DEF KeyWasTaken
  <1>6. \A e \in Dispatches : dispatch'[e].answer = "PROVIDER_ACCEPTED" => KeyWasTaken(dispatch[e].key)'
    <2> SUFFICES ASSUME NEW e \in Dispatches, dispatch'[e].answer = "PROVIDER_ACCEPTED"
                 PROVE  KeyWasTaken(dispatch[e].key)'
      OBVIOUS
    <2>1. CASE e = d  BY <1>2, <2>1
    <2>2. CASE e # d  BY <1>2, <1>5, <2>2 DEF MailInvariant
    <2> QED  BY <2>1, <2>2
  <1> QED  BY <1>3, <1>4, <1>6 DEF MailInvariant

LEMMA MailStep ==
  ASSUME MailInvariant, [MailNext]_mailVars
  PROVE  MailInvariant'
  <1>1. ASSUME NEW d \in Dispatches, SendCalled(d) \/ AcquireToken(d) \/ SubmitMail(d) \/ LookUpSent(d)
        PROVE  MailInvariant'
    <2>1. /\ MailTypeOK /\ DispatchIsSound(d) /\ dispatch[d] \in DispatchType /\ dispatch[d].key \in Keys
          /\ accepted \in [Keys -> EntryType] /\ dispatch \in [Dispatches -> DispatchType]
      BY DEF MailInvariant, MailTypeOK, DispatchType
    <2>2. ASSUME NEW pc \in DispatchStages, NEW answer \in Answers, NEW id \in MessageIds,
                 UNCHANGED accepted,
                 dispatch' = [dispatch EXCEPT ![d].pc = pc, ![d].answer = answer, ![d].id = id],
                 \/ UNCHANGED sentItems
                 \/ dispatch[d].pc = "submit" /\ Takes(d),
                 pc \in {"token", "submit"} => UNCHANGED sentItems /\ d \notin TakenByGraph,
                 pc = "lookup" => Takes(d),
                 pc # "answered" => answer = "none",
                 pc # "idle",
                 answer = "FAILED" => UNCHANGED sentItems /\ d \notin TakenByGraph,
                 answer = "PROVIDER_ACCEPTED" => KeyWasTaken(dispatch[d].key)
          PROVE  MailInvariant'
      <3> DEFINE new == [dispatch[d] EXCEPT !.pc = pc, !.answer = answer, !.id = id]
      <3>1. dispatch' = [dispatch EXCEPT ![d] = new]  BY <2>1, <2>2
      <3>2. /\ new \in DispatchType /\ new.pc = pc /\ new.answer = answer
            /\ new.key = dispatch[d].key
        BY <2>1 DEF DispatchType
      <3> HIDE DEF new
      <3>3. dispatch'[d] = new /\ \A e \in Dispatches : dispatch'[e].key = dispatch[e].key
        BY <2>1, <3>1, <3>2
      <3>4. /\ TakenByGraph \subseteq TakenByGraph'
            /\ UNCHANGED sentItems => TakenByGraph' = TakenByGraph
            /\ Takes(d) => d \in TakenByGraph'
        BY <2>1, <2>2, TakesOne DEF TakenByGraph
      <3>5. \A k : KeyWasTaken(k) => KeyWasTaken(k)'  BY <3>3, <3>4 DEF KeyWasTaken
      <3>6. DispatchIsSound(d)'  BY <2>2, <3>2, <3>3, <3>4 DEF DispatchIsSound
      <3>7. \A k \in Keys : accepted'[k].known => KeyWasTaken(k)'
        BY <2>2, <3>5 DEF MailInvariant
      <3>8. new.answer = "PROVIDER_ACCEPTED" => KeyWasTaken(dispatch[d].key)'
        <4>1. KeyWasTaken(dispatch[d].key) => KeyWasTaken(dispatch[d].key)'
          BY <3>3, <3>4 DEF KeyWasTaken
        <4> QED  BY <2>2, <3>2, <4>1
      <3> QED  BY <2>1, <2>2, <3>1, <3>2, <3>6, <3>7, <3>8, DispatchOfOne
    <2>3. dispatch[d].answer \in Answers /\ dispatch[d].id \in MessageIds
      BY <2>1 DEF DispatchType
    <2>4. ASSUME NEW pc \in {"token", "submit", "lookup"}, dispatch' = [dispatch EXCEPT ![d].pc = pc]
          PROVE  dispatch' = [dispatch EXCEPT ![d].pc = pc, ![d].answer = dispatch[d].answer,
                                              ![d].id = dispatch[d].id]
      BY <2>1, <2>4 DEF DispatchType
    <2>5. CASE SendCalled(d)
      <3>1. /\ dispatch[d].pc = "idle" /\ d \notin TakenByGraph /\ dispatch[d].answer = "none"
            /\ UNCHANGED <<sentItems, accepted>>
        BY <2>1, <2>5 DEF SendCalled, DispatchIsSound
      <3> DEFINE kept == accepted[dispatch[d].key]
      <3>2. kept.id \in MessageIds /\ kept.known => KeyWasTaken(dispatch[d].key)
        BY <2>1 DEF EntryType, MailInvariant
      <3>3. CASE kept.known /\ MailAnswered(d, "PROVIDER_ACCEPTED", kept.id)
        <4>1. kept.id \in MessageIds  BY <2>1 DEF EntryType
        <4> HIDE DEF kept
        <4> QED  BY <2>2, <3>1, <3>2, <3>3, <4>1, MailSorts DEF MailAnswered
      <3>4. CASE MailAnswered(d, "FAILED", "none")
        BY <2>2, <3>1, <3>4, MailSorts DEF MailAnswered
      <3>5. CASE dispatch' = [dispatch EXCEPT ![d].pc = "token"]
        <4>1. dispatch' = [dispatch EXCEPT ![d].pc = "token", ![d].answer = dispatch[d].answer,
                                           ![d].id = dispatch[d].id]
          BY <2>4, <3>5
        <4> QED  BY <2>2, <2>3, <3>1, <4>1, MailSorts
      <3> QED  BY <2>5, <3>3, <3>4, <3>5 DEF SendCalled
    <2>6. CASE AcquireToken(d)
      <3>1. /\ dispatch[d].pc = "token" /\ d \notin TakenByGraph /\ dispatch[d].answer = "none"
            /\ UNCHANGED <<sentItems, accepted>>
        BY <2>1, <2>6 DEF AcquireToken, DispatchIsSound
      <3>2. CASE MailAnswered(d, "FAILED", "none")
        BY <2>2, <3>1, <3>2, MailSorts DEF MailAnswered
      <3>3. CASE dispatch' = [dispatch EXCEPT ![d].pc = "submit"]
        <4>1. dispatch' = [dispatch EXCEPT ![d].pc = "submit", ![d].answer = dispatch[d].answer,
                                           ![d].id = dispatch[d].id]
          BY <2>4, <3>3
        <4> QED  BY <2>2, <2>3, <3>1, <4>1, MailSorts
      <3> QED  BY <2>6, <3>2, <3>3 DEF AcquireToken
    <2>7. CASE SubmitMail(d)
      <3>1. /\ dispatch[d].pc = "submit" /\ d \notin TakenByGraph /\ dispatch[d].answer = "none"
            /\ UNCHANGED accepted
        BY <2>1, <2>7 DEF SubmitMail, DispatchIsSound
      <3>2. CASE Takes(d) /\ dispatch' = [dispatch EXCEPT ![d].pc = "lookup"]
        <4>1. dispatch' = [dispatch EXCEPT ![d].pc = "lookup", ![d].answer = dispatch[d].answer,
                                           ![d].id = dispatch[d].id]
          BY <2>4, <3>2
        <4>2. "lookup" \in DispatchStages  BY MailSorts
        <4>3. /\ dispatch[d].answer # "FAILED" /\ dispatch[d].answer # "PROVIDER_ACCEPTED"
              /\ Takes(d) /\ UNCHANGED accepted
          BY <3>1, <3>2
        <4> QED  BY <2>2, <2>3, <3>1, <4>1, <4>2, <4>3, Zenon
      <3>3. ASSUME NEW answer \in {"FAILED", "AMBIGUOUS"}, MailAnswered(d, answer, "none"),
                   UNCHANGED sentItems \/ (answer = "AMBIGUOUS" /\ Takes(d))
            PROVE  MailInvariant'
        BY <2>2, <3>1, <3>3, MailSorts DEF MailAnswered
      <3>4. CASE \E status \in Statuses \ {"2xx"} :
                   /\ (status \in Undecided /\ Takes(d)) \/ UNCHANGED sentItems
                   /\ MailAnswered(d, IF Certain(status) THEN "FAILED" ELSE "AMBIGUOUS", "none")
        <4>1. PICK status \in Statuses \ {"2xx"} :
                   /\ (status \in Undecided /\ Takes(d)) \/ UNCHANGED sentItems
                   /\ MailAnswered(d, IF Certain(status) THEN "FAILED" ELSE "AMBIGUOUS", "none")
          BY <3>4
        <4>2. status \in Undecided => ~Certain(status)
          BY DEF Undecided, Certain, Classified
        <4> QED  BY <3>3, <4>1, <4>2
      <3>5. CASE (Takes(d) \/ UNCHANGED sentItems) /\ MailAnswered(d, "AMBIGUOUS", "none")
        BY <3>3, <3>5
      <3> QED  BY <2>7, <3>2, <3>4, <3>5 DEF SubmitMail
    <2>8. CASE LookUpSent(d)
      <3>1. PICK id \in FoundIds :
              /\ accepted' = [accepted EXCEPT ![dispatch[d].key] = [known |-> TRUE, id |-> id]]
              /\ MailAnswered(d, "PROVIDER_ACCEPTED", id)
        BY <2>8 DEF LookUpSent
      <3>2. /\ dispatch[d].pc = "lookup" /\ d \in TakenByGraph /\ UNCHANGED sentItems
            /\ id \in MessageIds
        BY <2>1, <2>8, TakenTyped DEF LookUpSent, DispatchIsSound
      <3> DEFINE new == [dispatch[d] EXCEPT !.pc = "answered", !.answer = "PROVIDER_ACCEPTED", !.id = id]
      <3>3. dispatch' = [dispatch EXCEPT ![d] = new]  BY <2>1, <3>1 DEF MailAnswered
      <3>4. /\ new \in DispatchType /\ new.pc = "answered" /\ new.answer = "PROVIDER_ACCEPTED"
            /\ new.key = dispatch[d].key
        BY <2>1, <3>2, MailSorts DEF DispatchType
      <3> HIDE DEF new
      <3>5. dispatch'[d] = new /\ \A e \in Dispatches : dispatch'[e].key = dispatch[e].key
        BY <2>1, <3>3, <3>4
      <3>6. TakenByGraph' = TakenByGraph  BY <3>2 DEF TakenByGraph
      <3>7. /\ KeyWasTaken(dispatch[d].key)'
            /\ \A k : KeyWasTaken(k) => KeyWasTaken(k)'
        BY <3>2, <3>5, <3>6 DEF KeyWasTaken
      <3>8. accepted' \in [Keys -> EntryType]  BY <2>1, <3>1, <3>2 DEF EntryType
      <3>9. \A k \in Keys : accepted'[k].known => KeyWasTaken(k)'
        <4>1. \A k \in Keys \ {dispatch[d].key} : accepted'[k] = accepted[k]  BY <2>1, <3>1
        <4> QED  BY <3>5, <3>7, <4>1 DEF MailInvariant
      <3>10. DispatchIsSound(d)'  BY <3>4, <3>5 DEF DispatchIsSound
      <3> QED  BY <3>2, <3>3, <3>4, <3>7, <3>8, <3>9, <3>10, DispatchOfOne
    <2> QED  BY <1>1, <2>5, <2>6, <2>7, <2>8
  <1>2. CASE Listing
    <2>1. UNCHANGED <<accepted, dispatch>> /\ sentItems'.order = sentItems.order
          /\ sentItems' = [order |-> sentItems'.order, listed |-> sentItems'.listed, past |-> sentItems'.past]
      BY <1>2 DEF Listing, MailInvariant, MailTypeOK
    <2>2. TakenByGraph' = TakenByGraph  BY <2>1 DEF TakenByGraph
    <2> QED  BY <2>1, <2>2 DEF MailInvariant, MailTypeOK, DispatchIsSound, KeyWasTaken
  <1>3. CASE RestartProvider
    <2>1. /\ accepted' = [k \in Keys |-> NoEntry] /\ UNCHANGED sentItems
          /\ dispatch' = [d \in Dispatches |->
               IF dispatch[d].pc \in {"token", "submit", "lookup"} THEN [dispatch[d] EXCEPT !.pc = "lost"]
               ELSE dispatch[d]]
      BY <1>3 DEF RestartProvider
    <2>2. \A d \in Dispatches :
            /\ dispatch'[d] \in DispatchType
            /\ dispatch'[d].key = dispatch[d].key /\ dispatch'[d].answer = dispatch[d].answer
            /\ dispatch'[d].pc = dispatch[d].pc \/ (dispatch'[d].pc = "lost" /\ dispatch[d].pc # "answered")
      BY <2>1, MailSorts DEF MailInvariant, MailTypeOK, DispatchType
    <2>3. dispatch' \in [Dispatches -> DispatchType]  BY <2>1, <2>2
    <2>4. accepted' \in [Keys -> EntryType] /\ \A k \in Keys : ~accepted'[k].known
      BY <2>1, MailSorts DEF NoEntry, EntryType
    <2>5. TakenByGraph' = TakenByGraph  BY <2>1 DEF TakenByGraph
    <2>6. ASSUME NEW d \in Dispatches  PROVE DispatchIsSound(d)'
      BY <2>2, <2>5 DEF MailInvariant, DispatchIsSound
    <2>7. \A k : KeyWasTaken(k) => KeyWasTaken(k)'  BY <2>2, <2>5 DEF KeyWasTaken
    <2>8. \A d \in Dispatches : dispatch'[d].answer = "PROVIDER_ACCEPTED" => KeyWasTaken(dispatch[d].key)'
      <3> SUFFICES ASSUME NEW d \in Dispatches, dispatch[d].answer = "PROVIDER_ACCEPTED"
                   PROVE  KeyWasTaken(dispatch[d].key)'
        BY <2>2
      <3>1. KeyWasTaken(dispatch[d].key)  BY DEF MailInvariant
      <3> QED  BY <2>2, <2>7, <3>1
    <2> QED  BY <2>1, <2>3, <2>4, <2>6, <2>8 DEF MailInvariant, MailTypeOK
  <1>4. CASE UNCHANGED mailVars
    BY <1>4 DEF mailVars, MailInvariant, MailTypeOK, DispatchIsSound, KeyWasTaken, TakenByGraph
  <1> QED  BY <1>1, <1>2, <1>3, <1>4 DEF MailNext

\* A send reported as failed was not taken by Graph, and one reported as accepted was, by
\* some call of its key; for any number of calls and keys.
THEOREM MailReportsAreCertain == MailSpec => []ReportsAreCertain
  <1>1. MailInit => MailInvariant
    <2> SUFFICES ASSUME MailInit  PROVE MailInvariant
      OBVIOUS
    <2>1. TakenByGraph = {} /\ sentItems.order \in Seq(Dispatches)  BY DEF MailInit, TakenByGraph
    <2>2. /\ accepted \in [Keys -> EntryType] /\ \A k \in Keys : ~accepted[k].known
      BY MailSorts DEF MailInit, EntryType, NoEntry
    <2>3. /\ dispatch \in [Dispatches -> DispatchType]
          /\ \A d \in Dispatches : dispatch[d].pc = "idle" /\ dispatch[d].answer = "none"
      BY MailSorts DEF MailInit, DispatchType
    <2>4. sentItems = [order |-> sentItems.order, listed |-> sentItems.listed, past |-> sentItems.past]
      BY DEF MailInit
    <2> QED  BY <2>1, <2>2, <2>3, <2>4 DEF MailInvariant, MailTypeOK, DispatchIsSound
  <1>2. MailInvariant /\ [MailNext]_mailVars => MailInvariant'  BY MailStep
  <1>3. MailInvariant => ReportsAreCertain
    BY DEF MailInvariant, DispatchIsSound, KeyWasTaken, ReportsAreCertain
  <1> QED  BY <1>1, <1>2, <1>3, PTL DEF MailSpec

-----------------------------------------------------------------------------
(* That roles are given by those who held the right to give them, for any     *)
(* number of sign-ins, requests, servers and key rotations.                   *)

Inviting     == {"OWNER", "ADMIN"}
RoleNames    == Roles \cup {"none"}
UserNames    == Users \cup {"none"}
KeyNames     == {"none", "old", "new", "second"}
SignInStages == {"idle", "denied", "upsert", "resolve", "create", "members", "issue", "signedIn", "thrown"}
Stages       == {"idle", "refused", "find", "invent", "add", "done", "thrown"}
MemberType   == [role : RoleNames, by : UserNames]
SessionType  == [user : UserNames, workspace : Nat, role : RoleNames, kid : Nat, key : KeyNames]
SigningKeysType     == [deployment : {1, 2}, first : KeyNames, fresh : BOOLEAN]
SignInType   == [pc : SignInStages, server : Servers, user : UserNames, identity : Identities,
                 session : SessionType]
GuardedType  == [pc : Stages, server : Servers, session : SessionType, email : Emails \cup {"none"},
                 role : RoleNames, user : UserNames]

IdentityTypeOK ==
  /\ userRow \in [Emails -> UserNames]
  /\ workspaceRow \in [Workspaces -> UserNames]
  /\ memberRow \in [Workspaces -> [Users -> MemberType]]
  /\ secrets \in [first : {"old", "new"}, retired : BOOLEAN]
  /\ ring \in [Servers -> SigningKeysType]
  /\ signIn \in [SignIns -> SignInType]
  /\ guarded \in [Guarded -> GuardedType]

\* An id the provider vouches for is only ever the id of its own email's row.
RowsAreOwn == \A e \in Emails, i \in Identities : userRow[e] = i.id => e = i.email

\* Roles are in the history, and so is the right of whoever gave them.
RolesWereHeld ==
  \A w \in Workspaces, u \in Users :
    /\ memberRow[w][u].role # "none" => <<w, u, memberRow[w][u].role>> \in held
    /\ memberRow[w][u].by # "none" => \E role \in Inviting : <<w, memberRow[w][u].by, role>> \in held

\* A sign-in past its upsert acts for the row of its email, and a session that may invite is
\* one of a member who held that role.
SignInIsSound(s) ==
  LET i       == signIn[s].identity
      user    == signIn[s].user
      session == signIn[s].session
  IN  /\ signIn[s].pc \in {"resolve", "create", "members", "issue"} =>
           user \in Users /\ user = userRow[i.email]
      /\ signIn[s].pc \in {"members", "issue", "signedIn"} => session.workspace \in Workspaces
      /\ signIn[s].pc = "issue" /\ session.role \in Inviting =>
           <<session.workspace, user, session.role>> \in held
      /\ signIn[s].pc = "signedIn" => session.user \in Users
      /\ signIn[s].pc = "signedIn" /\ session.role \in Inviting =>
           <<session.workspace, session.user, session.role>> \in held

\* A request past the guards runs on such a session.
GuardedIsSound(c) ==
  LET session == guarded[c].session
  IN  /\ guarded[c].pc \in {"find", "invent", "add"} =>
           /\ session.workspace \in Workspaces /\ session.user \in Users /\ session.role \in Inviting
           /\ <<session.workspace, session.user, session.role>> \in held
           /\ guarded[c].email \in Emails /\ guarded[c].role \in Roles
      /\ guarded[c].pc \in {"invent", "add"} => guarded[c].user \in Users

IdentityInvariant ==
  /\ IdentityTypeOK
  /\ RowsAreOwn
  /\ RolesWereHeld
  /\ \A s \in SignIns : SignInIsSound(s)
  /\ \A c \in Guarded : GuardedIsSound(c)

-----------------------------------------------------------------------------
(* What the steps leave standing.                                             *)

LEMMA IdentitySorts ==
  /\ SignInStages = {"idle", "denied", "upsert", "resolve", "create", "members", "issue", "signedIn", "thrown"}
  /\ Stages = {"idle", "refused", "find", "invent", "add", "done", "thrown"}
  /\ KeyNames = {"none", "old", "new", "second"}
  /\ Roles = {"OWNER", "ADMIN", "MEMBER"} /\ Inviting = {"OWNER", "ADMIN"}
  /\ RoleNames = Roles \cup {"none"} /\ UserNames = Users \cup {"none"} /\ "none" \notin Users
  /\ Guarded \subseteq Users
  /\ \A i \in Identities : i.id \in Users /\ i.id \notin Guarded /\ i.email \in Emails /\ i.workspace \in Nat
  /\ Workspaces \subseteq Nat
  BY IdentityAssumption DEF SignInStages, Stages, KeyNames, Roles, Inviting, RoleNames, UserNames, Users,
     Emails, Workspaces

\* Accounts only grow: no row loses its id, and no role leaves the history.
AccountsGrow ==
  /\ held \subseteq held'
  /\ \A e \in Emails : userRow[e] # "none" => userRow'[e] = userRow[e]

LEMMA SignInStays ==
  ASSUME IdentityInvariant, AccountsGrow, NEW s \in SignIns, signIn'[s] = signIn[s]
  PROVE  SignInIsSound(s)'
  <1>1. SignInIsSound(s) /\ signIn[s].identity \in Identities
    BY DEF IdentityInvariant, IdentityTypeOK, SignInType
  <1> QED  BY <1>1, IdentitySorts DEF SignInIsSound, AccountsGrow

LEMMA GuardedStays ==
  ASSUME IdentityInvariant, AccountsGrow, NEW c \in Guarded, guarded'[c] = guarded[c]
  PROVE  GuardedIsSound(c)'
  <1>1. GuardedIsSound(c)  BY DEF IdentityInvariant
  <1> QED  BY <1>1 DEF GuardedIsSound, AccountsGrow

LEMMA AccountsUnchanged ==
  ASSUME IdentityInvariant, UNCHANGED accounts
  PROVE  /\ AccountsGrow /\ RowsAreOwn' /\ RolesWereHeld'
         /\ userRow' \in [Emails -> UserNames] /\ workspaceRow' \in [Workspaces -> UserNames]
         /\ memberRow' \in [Workspaces -> [Users -> MemberType]]
  BY DEF accounts, AccountsGrow, IdentityInvariant, IdentityTypeOK, RowsAreOwn, RolesWereHeld

\* The upsert of a user, by a sign-in under the id of the provider or by an invitation under
\* an invented one.
LEMMA UserUpserted ==
  ASSUME IdentityInvariant, NEW email \in Emails, NEW id \in Users, Upserts(email, id),
         \A i \in Identities : id = i.id => email = i.email,
         UNCHANGED <<workspaceRow, memberRow, held>>
  PROVE  /\ AccountsGrow /\ RowsAreOwn' /\ RolesWereHeld'
         /\ userRow' \in [Emails -> UserNames] /\ workspaceRow' \in [Workspaces -> UserNames]
         /\ memberRow' \in [Workspaces -> [Users -> MemberType]]
         /\ userRow'[email] \in Users
  <1>1. userRow \in [Emails -> UserNames] /\ RowsAreOwn
    BY DEF IdentityInvariant, IdentityTypeOK
  <1>2. /\ userRow' \in [Emails -> UserNames] /\ userRow'[email] \in Users
        /\ \A e \in Emails \ {email} : userRow'[e] = userRow[e]
        /\ userRow'[email] = IF userRow[email] = "none" THEN id ELSE userRow[email]
    BY <1>1, IdentitySorts DEF Upserts
  <1>3. RowsAreOwn'  BY <1>1, <1>2 DEF RowsAreOwn
  <1>4. AccountsGrow  BY <1>2 DEF AccountsGrow
  <1> QED  BY <1>2, <1>3, <1>4 DEF IdentityInvariant, IdentityTypeOK, RolesWereHeld

\* A membership is written, with its right to be.
LEMMA MemberWritten ==
  ASSUME IdentityInvariant, NEW w \in Workspaces, NEW u \in Users, NEW role \in Roles, NEW by \in UserNames,
         memberRow' = [memberRow EXCEPT ![w][u] = [role |-> role, by |-> by]],
         held' = held \cup {<<w, u, role>>}, UNCHANGED userRow,
         by # "none" => \E right \in Inviting : <<w, by, right>> \in held
  PROVE  /\ AccountsGrow /\ RowsAreOwn' /\ RolesWereHeld'
         /\ memberRow' \in [Workspaces -> [Users -> MemberType]]
  <1>1. memberRow \in [Workspaces -> [Users -> MemberType]] /\ RowsAreOwn /\ RolesWereHeld
    BY DEF IdentityInvariant, IdentityTypeOK
  <1> DEFINE new == [role |-> role, by |-> by]
  <1>2. new \in MemberType /\ new.role = role /\ new.by = by  BY IdentitySorts DEF MemberType
  <1>3. memberRow' = [memberRow EXCEPT ![w][u] = new]  OBVIOUS
  <1> HIDE DEF new
  <1>4. /\ memberRow' \in [Workspaces -> [Users -> MemberType]] /\ memberRow'[w][u] = new
        /\ \A x \in Workspaces, v \in Users : x # w \/ v # u => memberRow'[x][v] = memberRow[x][v]
    BY <1>1, <1>2, <1>3
  <1>5. RolesWereHeld'
    <2> SUFFICES ASSUME NEW x \in Workspaces, NEW v \in Users
                 PROVE  /\ memberRow'[x][v].role # "none" => <<x, v, memberRow'[x][v].role>> \in held'
                        /\ memberRow'[x][v].by # "none" =>
                             \E right \in Inviting : <<x, memberRow'[x][v].by, right>> \in held'
      BY DEF RolesWereHeld
    <2>1. CASE x = w /\ v = u  BY <1>2, <1>4, <2>1
    <2>2. CASE x # w \/ v # u
      <3>1. memberRow'[x][v] = memberRow[x][v]  BY <1>4, <2>2
      <3> QED  BY <1>1, <3>1 DEF RolesWereHeld
    <2> QED  BY <2>1, <2>2
  <1>6. AccountsGrow /\ RowsAreOwn'  BY <1>1 DEF AccountsGrow, RowsAreOwn
  <1> QED  BY <1>4, <1>5, <1>6

LEMMA WorkspaceInserted ==
  ASSUME IdentityInvariant, NEW owner \in Users, NEW w \in Workspaces, InsertsWorkspace(owner, w),
         UNCHANGED userRow
  PROVE  /\ AccountsGrow /\ RowsAreOwn' /\ RolesWereHeld'
         /\ userRow' \in [Emails -> UserNames] /\ workspaceRow' \in [Workspaces -> UserNames]
         /\ memberRow' \in [Workspaces -> [Users -> MemberType]]
  <1>1. /\ userRow \in [Emails -> UserNames] /\ workspaceRow \in [Workspaces -> UserNames]
    BY DEF IdentityInvariant, IdentityTypeOK
  <1>2. workspaceRow' \in [Workspaces -> UserNames]  BY <1>1, IdentitySorts DEF InsertsWorkspace
  <1>3. "OWNER" \in Roles /\ "none" \in UserNames  BY IdentitySorts
  <1> QED  BY <1>1, <1>2, <1>3, MemberWritten DEF InsertsWorkspace

-----------------------------------------------------------------------------
(* The sign-ins.                                                              *)

\* What the steps know of a sign-in.
LEMMA SignInTyped ==
  ASSUME IdentityInvariant, NEW s \in SignIns
  PROVE  /\ signIn \in [SignIns -> SignInType] /\ signIn[s] \in SignInType
         /\ signIn[s].pc \in SignInStages /\ signIn[s].identity \in Identities
         /\ signIn[s].user \in UserNames /\ signIn[s].session \in SessionType
         /\ signIn[s].server \in Servers
         /\ SignInIsSound(s)
  BY DEF IdentityInvariant, IdentityTypeOK, SignInType

\* One sign-in moves to a sound state of it, and the accounts stay sound.
LEMMA OneSignIn ==
  ASSUME IdentityInvariant, NEW s \in SignIns, NEW new \in SignInType,
         signIn' = [signIn EXCEPT ![s] = new],
         UNCHANGED <<secrets, ring, guarded>>,
         AccountsGrow, RowsAreOwn', RolesWereHeld',
         userRow' \in [Emails -> UserNames], workspaceRow' \in [Workspaces -> UserNames],
         memberRow' \in [Workspaces -> [Users -> MemberType]],
         new.pc \in {"resolve", "create", "members", "issue"} =>
           new.user \in Users /\ new.user = userRow'[new.identity.email],
         new.pc \in {"members", "issue", "signedIn"} => new.session.workspace \in Workspaces,
         new.pc = "issue" /\ new.session.role \in Inviting =>
           <<new.session.workspace, new.user, new.session.role>> \in held',
         new.pc = "signedIn" => new.session.user \in Users,
         new.pc = "signedIn" /\ new.session.role \in Inviting =>
           <<new.session.workspace, new.session.user, new.session.role>> \in held'
  PROVE  IdentityInvariant'
  <1>3. /\ signIn' \in [SignIns -> SignInType] /\ signIn'[s] = new
        /\ \A t \in SignIns \ {s} : signIn'[t] = signIn[t]
    BY SignInTyped
  <1>4. IdentityTypeOK'  BY <1>3 DEF IdentityTypeOK, IdentityInvariant
  <1>5. SignInIsSound(s)'  BY <1>3 DEF SignInIsSound
  <1>6. \A t \in SignIns : SignInIsSound(t)'  BY <1>3, <1>5, SignInStays
  <1>7. \A c \in Guarded : GuardedIsSound(c)'  BY GuardedStays
  <1> QED  BY <1>4, <1>6, <1>7 DEF IdentityInvariant

\* The same of one that leaves the accounts alone.
LEMMA OnlySignIn ==
  ASSUME IdentityInvariant, NEW s \in SignIns, NEW new \in SignInType,
         signIn' = [signIn EXCEPT ![s] = new],
         UNCHANGED <<accounts, secrets, ring, guarded>>,
         new.pc \in {"resolve", "create", "members", "issue"} =>
           new.user \in Users /\ new.user = userRow[new.identity.email],
         new.pc \in {"members", "issue", "signedIn"} => new.session.workspace \in Workspaces,
         new.pc = "issue" /\ new.session.role \in Inviting =>
           <<new.session.workspace, new.user, new.session.role>> \in held,
         new.pc = "signedIn" => new.session.user \in Users,
         new.pc = "signedIn" /\ new.session.role \in Inviting =>
           <<new.session.workspace, new.session.user, new.session.role>> \in held
  PROVE  IdentityInvariant'
  <1>1. UNCHANGED <<userRow, held, secrets, ring, guarded>>  BY DEF accounts
  <1> QED  BY <1>1, AccountsUnchanged, OneSignIn

\* One that ends, or goes on to create a workspace, with what it had.
LEMMA SignInMoves ==
  ASSUME IdentityInvariant, NEW s \in SignIns, NEW pc \in {"denied", "thrown", "create"}, SignInTo(s, pc),
         UNCHANGED <<accounts, secrets, ring, guarded>>,
         pc = "create" => signIn[s].pc = "resolve"
  PROVE  IdentityInvariant'
  <1> DEFINE new == [signIn[s] EXCEPT !.pc = pc]
  <1>1. signIn' = [signIn EXCEPT ![s] = new]  BY SignInTyped DEF SignInTo
  <1>2. pc \in SignInStages  BY IdentitySorts
  <1>3. new \in SignInType /\ new.pc = pc /\ new.user = signIn[s].user /\ new.identity = signIn[s].identity
    BY <1>2, SignInTyped DEF SignInType
  <1>4. pc = "create" => signIn[s].user \in Users /\ signIn[s].user = userRow[signIn[s].identity.email]
    BY SignInTyped DEF SignInIsSound
  <1> HIDE DEF new
  <1> QED  BY <1>1, <1>3, <1>4, OnlySignIn

LEMMA AuthenticateKeeps ==
  ASSUME IdentityInvariant, NEW s \in SignIns, Authenticate(s)
  PROVE  IdentityInvariant'
  <1>1. UNCHANGED <<accounts, secrets, ring, guarded>>  BY DEF Authenticate
  <1>2. CASE SignInTo(s, "denied")  BY <1>1, <1>2, SignInMoves
  <1>3. ASSUME NEW j \in Identities, signIn' = [signIn EXCEPT ![s].pc = "upsert", ![s].identity = j]
        PROVE  IdentityInvariant'
    <2> DEFINE new == [signIn[s] EXCEPT !.pc = "upsert", !.identity = j]
    <2>1. signIn' = [signIn EXCEPT ![s] = new]  BY <1>3, SignInTyped
    <2>2. new \in SignInType /\ new.pc = "upsert"  BY SignInTyped, IdentitySorts DEF SignInType
    <2> HIDE DEF new
    <2> QED  BY <1>1, <2>1, <2>2, OnlySignIn
  <1> QED  BY <1>2, <1>3 DEF Authenticate

LEMMA UpsertUserKeeps ==
  ASSUME IdentityInvariant, NEW s \in SignIns, UpsertUser(s)
  PROVE  IdentityInvariant'
  <1>1. PICK i \in Identities : i = signIn[s].identity  BY SignInTyped
  <1>2. /\ Upserts(i.email, i.id) /\ UNCHANGED <<workspaceRow, memberRow, held, secrets, ring, guarded>>
        /\ signIn' = [signIn EXCEPT ![s].pc = "resolve", ![s].user = userRow'[i.email]]
    BY <1>1 DEF UpsertUser
  <1>3. i.email \in Emails /\ i.id \in Users /\ \A j \in Identities : i.id = j.id => i.email = j.email
    BY IdentitySorts, EmailAssumption
  <1>4. /\ AccountsGrow /\ RowsAreOwn' /\ RolesWereHeld'
        /\ userRow' \in [Emails -> UserNames] /\ workspaceRow' \in [Workspaces -> UserNames]
        /\ memberRow' \in [Workspaces -> [Users -> MemberType]]
        /\ userRow'[i.email] \in Users
    BY <1>2, <1>3, UserUpserted
  <1>5. PICK user \in Users : user = userRow'[i.email]  BY <1>4
  <1> DEFINE new == [signIn[s] EXCEPT !.pc = "resolve", !.user = user]
  <1>6. signIn' = [signIn EXCEPT ![s] = new]  BY <1>2, <1>5, SignInTyped
  <1>7. new \in SignInType /\ new.pc = "resolve" /\ new.user = user /\ new.identity = i
    BY <1>1, SignInTyped, IdentitySorts DEF SignInType
  <1> HIDE DEF new
  <1> QED  BY <1>2, <1>4, <1>5, <1>6, <1>7, OneSignIn

\* A sign-in gets its workspace.
LEMMA WorkspaceSet ==
  ASSUME IdentityInvariant, NEW s \in SignIns, NEW w \in Workspaces,
         signIn' = [signIn EXCEPT ![s].pc = "members", ![s].session.workspace = w]
  PROVE  \E new \in SignInType :
           /\ new.pc = "members" /\ new.user = signIn[s].user
           /\ new.identity = signIn[s].identity /\ new.session.workspace = w
           /\ signIn' = [signIn EXCEPT ![s] = new]
  <1> DEFINE session == [signIn[s].session EXCEPT !.workspace = w]
             new     == [signIn[s] EXCEPT !.pc = "members", !.session = session]
  <1>0. w \in Nat /\ "members" \in SignInStages  BY IdentitySorts
  <1>1. session \in SessionType /\ session.workspace = w
    BY <1>0, SignInTyped DEF SessionType
  <1>2. signIn' = [signIn EXCEPT ![s] = new]
    BY SignInTyped DEF SignInType
  <1> HIDE DEF session
  <1>3. /\ new \in SignInType /\ new.pc = "members" /\ new.user = signIn[s].user
        /\ new.identity = signIn[s].identity /\ new.session = session
    BY <1>0, <1>1, SignInTyped DEF SignInType
  <1> HIDE DEF new
  <1> QED  BY <1>1, <1>2, <1>3

LEMMA ResolveWorkspaceKeeps ==
  ASSUME IdentityInvariant, NEW s \in SignIns, ResolveWorkspace(s)
  PROVE  IdentityInvariant'
  <1>1. /\ UNCHANGED <<accounts, secrets, ring, guarded>> /\ signIn[s].pc = "resolve"
        /\ signIn[s].user \in Users /\ signIn[s].user = userRow[signIn[s].identity.email]
    BY SignInTyped DEF ResolveWorkspace, SignInIsSound
  <1>2. ASSUME NEW w \in Workspaces,
               signIn' = [signIn EXCEPT ![s].pc = "members", ![s].session.workspace = w]
        PROVE  IdentityInvariant'
    <2>1. PICK new \in SignInType :
            /\ new.pc = "members" /\ new.user = signIn[s].user
            /\ new.identity = signIn[s].identity /\ new.session.workspace = w
            /\ signIn' = [signIn EXCEPT ![s] = new]
      BY <1>2, WorkspaceSet, Zenon
    <2> QED  BY <1>1, <2>1, OnlySignIn
  <1>3. ASSUME SignInTo(s, "denied") \/ SignInTo(s, "create")  PROVE IdentityInvariant'
    BY <1>1, <1>3, SignInMoves
  <1>4. WorkspacesOf(signIn[s].user) \subseteq Workspaces  BY DEF WorkspacesOf
  <1> QED  BY <1>2, <1>3, <1>4 DEF ResolveWorkspace

LEMMA CreateFirstWorkspaceKeeps ==
  ASSUME IdentityInvariant, NEW s \in SignIns, CreateFirstWorkspace(s)
  PROVE  IdentityInvariant'
  <1>1. /\ UNCHANGED <<userRow, secrets, ring, guarded>>
        /\ signIn[s].user \in Users /\ signIn[s].user = userRow[signIn[s].identity.email]
    BY SignInTyped DEF CreateFirstWorkspace, SignInIsSound
  <1>2. PICK w \in Workspaces :
          /\ InsertsWorkspace(signIn[s].user, w)
          /\ signIn' = [signIn EXCEPT ![s].pc = "members", ![s].session.workspace = w]
    BY DEF CreateFirstWorkspace
  <1>3. PICK new \in SignInType :
          /\ new.pc = "members" /\ new.user = signIn[s].user
          /\ new.identity = signIn[s].identity /\ new.session.workspace = w
          /\ signIn' = [signIn EXCEPT ![s] = new]
    BY <1>2, WorkspaceSet, Zenon
  <1>4. /\ AccountsGrow /\ RowsAreOwn' /\ RolesWereHeld'
        /\ userRow' \in [Emails -> UserNames] /\ workspaceRow' \in [Workspaces -> UserNames]
        /\ memberRow' \in [Workspaces -> [Users -> MemberType]]
    BY <1>1, <1>2, WorkspaceInserted
  <1> QED  BY <1>1, <1>3, <1>4, OneSignIn

LEMMA ReadRoleKeeps ==
  ASSUME IdentityInvariant, NEW s \in SignIns, ReadRole(s)
  PROVE  IdentityInvariant'
  <1>1. PICK i \in Identities : i = signIn[s].identity  BY SignInTyped
  <1>2. PICK w \in Workspaces : w = signIn[s].session.workspace
    BY SignInTyped DEF ReadRole, SignInIsSound
  <1>3. /\ UNCHANGED <<accounts, secrets, ring, guarded>>
        /\ signIn[s].user \in Users /\ signIn[s].user = userRow[i.email]
        /\ signIn' = [signIn EXCEPT ![s].pc = "issue", ![s].session.role = RoleIn(w, i.id)]
    BY <1>1, <1>2, SignInTyped DEF ReadRole, SignInIsSound
  <1>4. i.id \in Users /\ memberRow[w][i.id] \in MemberType
    BY IdentitySorts DEF IdentityInvariant, IdentityTypeOK
  <1>5. PICK role \in Roles : /\ role = RoleIn(w, i.id)
                              /\ role \in Inviting => UserExists(i.id) /\ <<w, i.id, role>> \in held
    <2>1. memberRow[w][i.id].role \in RoleNames  BY <1>4 DEF MemberType
    <2>2. memberRow[w][i.id].role # "none" => <<w, i.id, memberRow[w][i.id].role>> \in held
      BY <1>4 DEF IdentityInvariant, RolesWereHeld
    <2> QED  BY <2>1, <2>2, IdentitySorts DEF RoleIn
  <1>6. UserExists(i.id) => i.id = signIn[s].user
    BY <1>3 DEF UserExists, IdentityInvariant, RowsAreOwn
  <1> DEFINE session == [signIn[s].session EXCEPT !.role = role]
             new     == [signIn[s] EXCEPT !.pc = "issue", !.session = session]
  <1>7. session \in SessionType /\ session.workspace = w /\ session.role = role
    BY <1>2, <1>5, SignInTyped, IdentitySorts DEF SessionType
  <1>8. signIn' = [signIn EXCEPT ![s] = new]  BY <1>3, <1>5, SignInTyped DEF SignInType
  <1> HIDE DEF session
  <1>9. /\ new \in SignInType /\ new.pc = "issue" /\ new.user = signIn[s].user
        /\ new.identity = i /\ new.session = session
    BY <1>1, <1>7, SignInTyped, IdentitySorts DEF SignInType
  <1> HIDE DEF new
  <1> QED  BY <1>3, <1>5, <1>6, <1>7, <1>8, <1>9, OnlySignIn

LEMMA IssueKeeps ==
  ASSUME IdentityInvariant, NEW s \in SignIns, Issue(s)
  PROVE  IdentityInvariant'
  <1>1. PICK v \in SigningKeysType : v = ring[signIn[s].server]
    BY SignInTyped DEF IdentityInvariant, IdentityTypeOK
  <1>2. /\ UNCHANGED <<accounts, secrets, ring, guarded>>
        /\ signIn[s].user \in Users /\ signIn[s].session.workspace \in Workspaces
        /\ signIn[s].session.role \in Inviting =>
             <<signIn[s].session.workspace, signIn[s].user, signIn[s].session.role>> \in held
    BY SignInTyped DEF Issue, SignInIsSound
  <1>3. PICK key \in KeyNames, kid \in Nat : key = Signing(v) /\ kid = v.deployment
    BY IdentitySorts DEF SigningKeysType, Signing
  <1>4. CASE ~v.fresh
    <2>1. SignInTo(s, "thrown")  BY <1>1, <1>4 DEF Issue, SignInTo
    <2> QED  BY <1>2, <2>1, SignInMoves
  <1>5. CASE v.fresh
    <2> DEFINE session == [signIn[s].session EXCEPT !.user = signIn[s].user, !.kid = kid, !.key = key]
               new     == [signIn[s] EXCEPT !.pc = "signedIn", !.session = session]
    <2>1. /\ session \in SessionType /\ session.user = signIn[s].user
          /\ session.workspace = signIn[s].session.workspace /\ session.role = signIn[s].session.role
      BY SignInTyped DEF SessionType
    <2>2. signIn' = [signIn EXCEPT ![s].pc = "signedIn", ![s].session.user = signIn[s].user,
                       ![s].session.kid = kid, ![s].session.key = key]
      BY <1>1, <1>3, <1>5 DEF Issue
    <2>3. signIn' = [signIn EXCEPT ![s] = new]
      <3>1. /\ DOMAIN signIn[s] = {"pc", "server", "user", "identity", "session"}
            /\ DOMAIN signIn[s].session = {"user", "workspace", "role", "kid", "key"}
            /\ DOMAIN signIn = SignIns
        BY SignInTyped DEF SignInType, SessionType
      <3>2. signIn' = [signIn EXCEPT ![s] = [signIn[s] EXCEPT !.pc = "signedIn",
                         !.session.user = signIn[s].user, !.session.kid = kid, !.session.key = key]]
        BY <2>2, <3>1
      <3>3. [signIn[s] EXCEPT !.pc = "signedIn", !.session.user = signIn[s].user,
               !.session.kid = kid, !.session.key = key] = new
        BY <3>1
      <3> HIDE DEF new
      <3> QED  BY <3>2, <3>3
    <2> HIDE DEF session
    <2>4. /\ new \in SignInType /\ new.pc = "signedIn" /\ new.session = session
      BY <2>1, SignInTyped, IdentitySorts DEF SignInType
    <2> HIDE DEF new
    <2> QED  BY <1>2, <2>1, <2>3, <2>4, OnlySignIn
  <1> QED  BY <1>4, <1>5

LEMMA SignInStep ==
  ASSUME IdentityInvariant, NEW s \in SignIns,
         \/ Authenticate(s) \/ UpsertUser(s) \/ ResolveWorkspace(s) \/ CreateFirstWorkspace(s)
         \/ ReadRole(s) \/ Issue(s) \/ SignInThrows(s)
  PROVE  IdentityInvariant'
  <1>1. CASE SignInThrows(s)  BY <1>1, SignInMoves DEF SignInThrows
  <1> QED  BY <1>1, AuthenticateKeeps, UpsertUserKeeps, ResolveWorkspaceKeeps,
              CreateFirstWorkspaceKeeps, ReadRoleKeeps, IssueKeeps

-----------------------------------------------------------------------------
(* The guarded requests.                                                      *)

LEMMA GuardedTyped ==
  ASSUME IdentityInvariant, NEW c \in Guarded
  PROVE  /\ guarded \in [Guarded -> GuardedType] /\ guarded[c] \in GuardedType
         /\ guarded[c].session \in SessionType /\ guarded[c].role \in RoleNames
         /\ guarded[c].user \in UserNames
         /\ GuardedIsSound(c)
  BY DEF IdentityInvariant, IdentityTypeOK, GuardedType

\* One request moves to a sound state of it, and the accounts stay sound.
LEMMA OneGuarded ==
  ASSUME IdentityInvariant, NEW c \in Guarded, NEW new \in GuardedType,
         guarded' = [guarded EXCEPT ![c] = new],
         UNCHANGED <<secrets, ring, signIn>>,
         AccountsGrow, RowsAreOwn', RolesWereHeld',
         userRow' \in [Emails -> UserNames], workspaceRow' \in [Workspaces -> UserNames],
         memberRow' \in [Workspaces -> [Users -> MemberType]],
         new.pc \in {"find", "invent", "add"} =>
           /\ new.session.workspace \in Workspaces /\ new.session.user \in Users
           /\ new.session.role \in Inviting
           /\ <<new.session.workspace, new.session.user, new.session.role>> \in held
           /\ new.email \in Emails /\ new.role \in Roles,
         new.pc \in {"invent", "add"} => new.user \in Users
  PROVE  IdentityInvariant'
  <1>1. /\ guarded' \in [Guarded -> GuardedType] /\ guarded'[c] = new
        /\ \A d \in Guarded \ {c} : guarded'[d] = guarded[d]
    BY GuardedTyped
  <1>2. IdentityTypeOK'  BY <1>1 DEF IdentityTypeOK, IdentityInvariant
  <1>3. GuardedIsSound(c)'  BY <1>1 DEF GuardedIsSound, AccountsGrow
  <1>4. \A d \in Guarded : GuardedIsSound(d)'  BY <1>1, <1>3, GuardedStays
  <1>5. \A s \in SignIns : SignInIsSound(s)'  BY SignInStays
  <1> QED  BY <1>2, <1>4, <1>5 DEF IdentityInvariant

\* One that goes on to another step, or ends, with what it had.
LEMMA GuardedMoves ==
  ASSUME IdentityInvariant, NEW c \in Guarded, NEW pc \in {"refused", "thrown", "done", "add"}, GuardedTo(c, pc),
         UNCHANGED <<secrets, ring, signIn>>,
         AccountsGrow, RowsAreOwn', RolesWereHeld',
         userRow' \in [Emails -> UserNames], workspaceRow' \in [Workspaces -> UserNames],
         memberRow' \in [Workspaces -> [Users -> MemberType]],
         pc = "add" => guarded[c].pc = "invent"
  PROVE  IdentityInvariant'
  <1> DEFINE new == [guarded[c] EXCEPT !.pc = pc]
  <1>1. guarded' = [guarded EXCEPT ![c] = new]  BY GuardedTyped DEF GuardedTo
  <1>2. pc \in Stages  BY IdentitySorts
  <1>3. /\ new \in GuardedType /\ new.pc = pc /\ new.user = guarded[c].user /\ new.role = guarded[c].role
        /\ new.session = guarded[c].session /\ new.email = guarded[c].email
    BY <1>2, GuardedTyped DEF GuardedType
  <1> HIDE DEF new
  <1> QED  BY <1>1, <1>3, GuardedTyped, OneGuarded DEF GuardedIsSound

LEMMA InviteKeeps ==
  ASSUME IdentityInvariant, NEW c \in Guarded, Invite(c)
  PROVE  IdentityInvariant'
  <1>1. UNCHANGED <<accounts, secrets, ring, signIn>>  BY DEF Invite
  <1>2. ASSUME NEW s \in SignIns, NEW w \in Workspaces, NEW email \in Emails, NEW role \in Roles,
               signIn[s].pc = "signedIn", Admitted(ring[guarded[c].server], signIn[s].session, w),
               guarded' = [guarded EXCEPT ![c].pc = "find", ![c].email = email, ![c].role = role,
                             ![c].session = [signIn[s].session EXCEPT !.workspace = w]]
        PROVE  IdentityInvariant'
    <2>1. PICK session \in SessionType : session = [signIn[s].session EXCEPT !.workspace = w]
      BY SignInTyped, IdentitySorts DEF SessionType
    <2>2. /\ session.workspace = w /\ session.user = signIn[s].session.user
          /\ session.role = signIn[s].session.role
      BY <2>1, SignInTyped DEF SessionType
    <2>3. w = signIn[s].session.workspace /\ session.role \in Inviting
      BY <1>2, <2>2, IdentitySorts DEF Admitted, OwnWorkspace, MayInvite
    <2>4. session.user \in Users /\ <<w, session.user, session.role>> \in held
      BY <1>2, <2>2, <2>3, SignInTyped DEF SignInIsSound
    <2> DEFINE new == [guarded[c] EXCEPT !.pc = "find", !.email = email, !.role = role, !.session = session]
    <2>5. guarded' = [guarded EXCEPT ![c] = new]  BY <1>2, <2>1, GuardedTyped
    <2>6. /\ new \in GuardedType /\ new.pc = "find" /\ new.session = session /\ new.email = email
          /\ new.role = role
      <3>1. "find" \in Stages /\ role \in RoleNames  BY IdentitySorts
      <3> QED  BY <3>1, GuardedTyped DEF GuardedType
    <2> HIDE DEF new
    <2> QED  BY <1>1, <2>2, <2>3, <2>4, <2>5, <2>6, AccountsUnchanged, OneGuarded
  <1>3. CASE guarded' = [guarded EXCEPT ![c].pc = "refused"]
    BY <1>1, <1>3, AccountsUnchanged, GuardedMoves DEF GuardedTo
  <1> QED  BY <1>2, <1>3 DEF Invite

LEMMA FindInviteeKeeps ==
  ASSUME IdentityInvariant, NEW c \in Guarded, FindInvitee(c)
  PROVE  IdentityInvariant'
  <1>1. UNCHANGED <<accounts, secrets, ring, signIn>> /\ guarded[c].pc = "find"
    BY DEF FindInvitee
  <1>2. guarded[c].email \in Emails  BY <1>1, GuardedTyped DEF GuardedIsSound
  <1>3. userRow[guarded[c].email] \in UserNames  BY <1>2 DEF IdentityInvariant, IdentityTypeOK
  <1>4. PICK pc \in {"invent", "add"}, user \in Users :
          guarded' = [guarded EXCEPT ![c].pc = pc, ![c].user = user]
    BY <1>3, IdentitySorts DEF FindInvitee
  <1> DEFINE new == [guarded[c] EXCEPT !.pc = pc, !.user = user]
  <1>5. guarded' = [guarded EXCEPT ![c] = new]  BY <1>4, GuardedTyped
  <1>6. pc \in Stages /\ user \in UserNames  BY IdentitySorts
  <1>7. /\ new \in GuardedType /\ new.pc = pc /\ new.user = user /\ new.role = guarded[c].role
        /\ new.session = guarded[c].session /\ new.email = guarded[c].email
    BY <1>6, GuardedTyped DEF GuardedType
  <1> HIDE DEF new
  <1> QED  BY <1>1, <1>5, <1>7, GuardedTyped, AccountsUnchanged, OneGuarded DEF GuardedIsSound

LEMMA InventUserKeeps ==
  ASSUME IdentityInvariant, NEW c \in Guarded, InventUser(c)
  PROVE  IdentityInvariant'
  <1>1. /\ UNCHANGED <<workspaceRow, memberRow, held, secrets, ring, signIn>> /\ guarded[c].pc = "invent"
        /\ Upserts(guarded[c].email, c) /\ GuardedTo(c, "add")
    BY DEF InventUser
  <1>2. guarded[c].email \in Emails  BY <1>1, GuardedTyped DEF GuardedIsSound
  <1>3. c \in Users /\ \A i \in Identities : c # i.id  BY IdentitySorts
  <1>4. /\ AccountsGrow /\ RowsAreOwn' /\ RolesWereHeld'
        /\ userRow' \in [Emails -> UserNames] /\ workspaceRow' \in [Workspaces -> UserNames]
        /\ memberRow' \in [Workspaces -> [Users -> MemberType]]
    BY <1>1, <1>2, <1>3, UserUpserted
  <1> QED  BY <1>1, <1>4, GuardedMoves

LEMMA AddMemberKeeps ==
  ASSUME IdentityInvariant, NEW c \in Guarded, AddMember(c)
  PROVE  IdentityInvariant'
  <1>1. /\ guarded[c].pc = "add" /\ UNCHANGED <<userRow, workspaceRow, secrets, ring, signIn>>
        /\ GuardedTo(c, "done")
    BY DEF AddMember
  <1>2. PICK w \in Workspaces, u \in Users, by \in Users, role \in Roles :
          w = guarded[c].session.workspace /\ u = guarded[c].user /\ by = guarded[c].session.user
          /\ role = guarded[c].role
    BY <1>1, GuardedTyped DEF GuardedIsSound
  <1>3. \E right \in Inviting : <<w, by, right>> \in held
    BY <1>1, <1>2, GuardedTyped DEF GuardedIsSound
  <1>4. /\ memberRow' = [memberRow EXCEPT ![w][u] = [role |-> role, by |-> by]]
        /\ held' = held \cup {<<w, u, role>>}
    BY <1>2 DEF AddMember
  <1>5. by \in UserNames  BY IdentitySorts
  <1>6. /\ AccountsGrow /\ RowsAreOwn' /\ RolesWereHeld'
        /\ memberRow' \in [Workspaces -> [Users -> MemberType]]
    BY <1>1, <1>3, <1>4, <1>5, MemberWritten
  <1>7. userRow' \in [Emails -> UserNames] /\ workspaceRow' \in [Workspaces -> UserNames]
    BY <1>1 DEF IdentityInvariant, IdentityTypeOK
  <1> QED  BY <1>1, <1>6, <1>7, GuardedMoves

LEMMA CreateWorkspaceKeeps ==
  ASSUME IdentityInvariant, NEW c \in Guarded, CreateWorkspace(c)
  PROVE  IdentityInvariant'
  <1>1. UNCHANGED <<userRow, secrets, ring, signIn>> /\ GuardedTo(c, "done")
    BY DEF CreateWorkspace
  <1>2. PICK s \in SignIns, w \in Workspaces :
          signIn[s].pc = "signedIn" /\ InsertsWorkspace(signIn[s].session.user, w)
    BY DEF CreateWorkspace
  <1>3. signIn[s].session.user \in Users  BY <1>2, SignInTyped DEF SignInIsSound
  <1>4. /\ AccountsGrow /\ RowsAreOwn' /\ RolesWereHeld'
        /\ userRow' \in [Emails -> UserNames] /\ workspaceRow' \in [Workspaces -> UserNames]
        /\ memberRow' \in [Workspaces -> [Users -> MemberType]]
    BY <1>1, <1>2, <1>3, WorkspaceInserted
  <1> QED  BY <1>1, <1>4, GuardedMoves

LEMMA GuardedStep ==
  ASSUME IdentityInvariant, NEW c \in Guarded,
         \/ Invite(c) \/ FindInvitee(c) \/ InventUser(c) \/ AddMember(c) \/ CreateWorkspace(c)
         \/ GuardedThrows(c)
  PROVE  IdentityInvariant'
  <1>1. CASE GuardedThrows(c)  BY <1>1, AccountsUnchanged, GuardedMoves DEF GuardedThrows
  <1> QED  BY <1>1, InviteKeeps, FindInviteeKeeps, InventUserKeeps, AddMemberKeeps, CreateWorkspaceKeeps

-----------------------------------------------------------------------------
(* The key ring.                                                              *)

\* Rings and secrets change, and what ran on a server that restarts ends.
LEMMA RingStep ==
  ASSUME IdentityInvariant,
         SecretsChange \/ \E v \in Servers : Deploy(v) \/ Refresh(v) \/ GrowStale(v)
  PROVE  IdentityInvariant'
  <1>1. UNCHANGED accounts  BY DEF Deploy, Refresh, GrowStale, SecretsChange
  <1>2. /\ AccountsGrow /\ RowsAreOwn' /\ RolesWereHeld'
        /\ userRow' \in [Emails -> UserNames] /\ workspaceRow' \in [Workspaces -> UserNames]
        /\ memberRow' \in [Workspaces -> [Users -> MemberType]]
    BY <1>1, AccountsUnchanged
  <1>3. secrets' \in [first : {"old", "new"}, retired : BOOLEAN] /\ ring' \in [Servers -> SigningKeysType]
    <2>1. secrets \in [first : {"old", "new"}, retired : BOOLEAN] /\ ring \in [Servers -> SigningKeysType]
      BY DEF IdentityInvariant, IdentityTypeOK
    <2>2. \A deployment \in {1, 2} : Ring(deployment) \in SigningKeysType
      BY <2>1, IdentitySorts DEF Ring, SigningKeysType
    <2>3. CASE SecretsChange  BY <2>1, <2>3 DEF SecretsChange
    <2>4. ASSUME NEW v \in Servers, Deploy(v) \/ Refresh(v) \/ GrowStale(v)
          PROVE  ring' \in [Servers -> SigningKeysType] /\ UNCHANGED secrets
      <3>1. ring[v].deployment \in {1, 2} /\ [ring[v] EXCEPT !.fresh = FALSE] \in SigningKeysType
        BY <2>1 DEF SigningKeysType
      <3>2. CASE Deploy(v)  BY <2>1, <2>2, <3>2 DEF Deploy
      <3>3. CASE Refresh(v)  BY <2>1, <2>2, <3>1, <3>3 DEF Refresh
      <3>4. CASE GrowStale(v)  BY <2>1, <3>1, <3>4 DEF GrowStale
      <3> QED  BY <2>4, <3>2, <3>3, <3>4
    <2> QED  BY <2>1, <2>3, <2>4
  <1>4. /\ signIn' \in [SignIns -> SignInType]
        /\ \A s \in SignIns : signIn'[s] = signIn[s] \/ signIn'[s].pc = "thrown"
    <2>1. signIn \in [SignIns -> SignInType]  BY DEF IdentityInvariant, IdentityTypeOK
    <2>2. \A s \in SignIns : [signIn[s] EXCEPT !.pc = "thrown"] \in SignInType
      BY <2>1, IdentitySorts DEF SignInType
    <2>3. \A s \in SignIns : [signIn[s] EXCEPT !.pc = "thrown"].pc = "thrown"
      BY <2>1 DEF SignInType
    <2>4. \/ UNCHANGED signIn
          \/ \E lost \in SUBSET SignIns :
               signIn' = [s \in SignIns |-> IF s \in lost THEN [signIn[s] EXCEPT !.pc = "thrown"] ELSE signIn[s]]
      <3>1. CASE \E v \in Servers : Deploy(v)
        <4>1. PICK v \in Servers : Deploy(v)  BY <3>1
        <4> DEFINE lost == {s \in SignIns : signIn[s].server = v
                              /\ signIn[s].pc \notin {"idle", "denied", "signedIn", "thrown"}}
        <4>2. signIn' = [s \in SignIns |-> IF s \in lost THEN [signIn[s] EXCEPT !.pc = "thrown"] ELSE signIn[s]]
          BY <4>1 DEF Deploy
        <4>3. lost \in SUBSET SignIns  OBVIOUS
        <4> HIDE DEF lost
        <4> QED  BY <4>2, <4>3
      <3> QED  BY <3>1 DEF Refresh, GrowStale, SecretsChange
    <2> QED  BY <2>1, <2>2, <2>3, <2>4
  <1>5. /\ guarded' \in [Guarded -> GuardedType]
        /\ \A c \in Guarded : guarded'[c] = guarded[c] \/ guarded'[c].pc = "thrown"
    <2>1. guarded \in [Guarded -> GuardedType]  BY DEF IdentityInvariant, IdentityTypeOK
    <2>2. \A c \in Guarded : [guarded[c] EXCEPT !.pc = "thrown"] \in GuardedType
      BY <2>1, IdentitySorts DEF GuardedType
    <2>3. \A c \in Guarded : [guarded[c] EXCEPT !.pc = "thrown"].pc = "thrown"
      BY <2>1 DEF GuardedType
    <2>4. \/ UNCHANGED guarded
          \/ \E lost \in SUBSET Guarded :
               guarded' = [c \in Guarded |-> IF c \in lost THEN [guarded[c] EXCEPT !.pc = "thrown"] ELSE guarded[c]]
      <3>1. CASE \E v \in Servers : Deploy(v)
        <4>1. PICK v \in Servers : Deploy(v)  BY <3>1
        <4> DEFINE lost == {c \in Guarded : guarded[c].server = v
                              /\ guarded[c].pc \in {"find", "invent", "add"}}
        <4>2. guarded' = [c \in Guarded |-> IF c \in lost THEN [guarded[c] EXCEPT !.pc = "thrown"] ELSE guarded[c]]
          BY <4>1 DEF Deploy
        <4>3. lost \in SUBSET Guarded  OBVIOUS
        <4> HIDE DEF lost
        <4> QED  BY <4>2, <4>3
      <3> QED  BY <3>1 DEF Refresh, GrowStale, SecretsChange
    <2> QED  BY <2>1, <2>2, <2>3, <2>4
  <1>6. \A s \in SignIns : SignInIsSound(s)'
    <2> SUFFICES ASSUME NEW s \in SignIns  PROVE SignInIsSound(s)'
      OBVIOUS
    <2>1. CASE signIn'[s] = signIn[s]  BY <1>2, <2>1, SignInStays
    <2>2. CASE signIn'[s].pc = "thrown"  BY <2>2 DEF SignInIsSound
    <2> QED  BY <1>4, <2>1, <2>2
  <1>7. \A c \in Guarded : GuardedIsSound(c)'
    <2> SUFFICES ASSUME NEW c \in Guarded  PROVE GuardedIsSound(c)'
      OBVIOUS
    <2>1. CASE guarded'[c] = guarded[c]  BY <1>2, <2>1, GuardedStays
    <2>2. CASE guarded'[c].pc = "thrown"  BY <2>2 DEF GuardedIsSound
    <2> QED  BY <1>5, <2>1, <2>2
  <1> QED  BY <1>2, <1>3, <1>4, <1>5, <1>6, <1>7 DEF IdentityInvariant, IdentityTypeOK

-----------------------------------------------------------------------------

LEMMA IdentityStarts == IdentityInit => IdentityInvariant
  <1> SUFFICES ASSUME IdentityInit  PROVE IdentityInvariant
    OBVIOUS
  <1>1. PICK i \in Identities : i = CHOOSE j \in Identities : TRUE
    BY IdentityAssumption
  <1>2. NoSession \in SessionType /\ NoMember \in MemberType
    BY IdentitySorts DEF NoSession, NoMember, SessionType, MemberType
  <1>3. ring \in [Servers -> SigningKeysType]
    BY IdentitySorts DEF IdentityInit, Ring, SigningKeysType
  <1>4. PICK at \in [SignIns \cup Guarded -> Servers] :
          /\ signIn = [s \in SignIns |-> [pc |-> "idle", server |-> at[s], user |-> "none",
                         identity |-> i, session |-> NoSession]]
          /\ guarded = [c \in Guarded |-> [pc |-> "idle", server |-> at[c], session |-> NoSession,
                          email |-> "none", role |-> "none", user |-> "none"]]
    BY <1>1 DEF IdentityInit
  <1>5. signIn \in [SignIns -> SignInType] /\ \A s \in SignIns : signIn[s].pc = "idle"
    BY <1>2, <1>4, IdentitySorts DEF SignInType
  <1>6. guarded \in [Guarded -> GuardedType] /\ \A c \in Guarded : guarded[c].pc = "idle"
    BY <1>2, <1>4, IdentitySorts DEF GuardedType
  <1>7. /\ \A e \in Emails : userRow[e] = "none"
        /\ \A w \in Workspaces, u \in Users : memberRow[w][u].role = "none" /\ memberRow[w][u].by = "none"
    BY DEF IdentityInit, NoMember
  <1>8. IdentityTypeOK
    BY <1>2, <1>3, <1>5, <1>6, IdentitySorts DEF IdentityInit, IdentityTypeOK
  <1>9. RowsAreOwn /\ RolesWereHeld
    BY <1>7, IdentitySorts DEF RowsAreOwn, RolesWereHeld
  <1>10. \A s \in SignIns : SignInIsSound(s)  BY <1>5 DEF SignInIsSound
  <1>11. \A c \in Guarded : GuardedIsSound(c)  BY <1>6 DEF GuardedIsSound
  <1> QED  BY <1>8, <1>9, <1>10, <1>11 DEF IdentityInvariant

LEMMA IdentityStep == IdentityInvariant /\ [IdentityNext]_identityVars => IdentityInvariant'
  <1> SUFFICES ASSUME IdentityInvariant, [IdentityNext]_identityVars  PROVE IdentityInvariant'
    OBVIOUS
  <1>1. CASE UNCHANGED identityVars
    <2>1. UNCHANGED <<accounts, secrets, ring, signIn, guarded>>  BY <1>1 DEF identityVars
    <2>2. \A s \in SignIns : SignInIsSound(s)'  BY <2>1, AccountsUnchanged, SignInStays
    <2>3. \A c \in Guarded : GuardedIsSound(c)'  BY <2>1, AccountsUnchanged, GuardedStays
    <2> QED  BY <2>1, <2>2, <2>3, AccountsUnchanged DEF IdentityInvariant, IdentityTypeOK
  <1> QED  BY <1>1, SignInStep, GuardedStep, RingStep DEF IdentityNext

\* Whoever gave a user his role had been an OWNER or ADMIN of that workspace, for any number
\* of sign-ins, requests, servers, identities and workspaces, if a user keeps his email.
THEOREM RolesComeFromInviters == IdentitySpec => []RolesAreGivenByInviters
  <1>1. IdentityInvariant => RolesAreGivenByInviters
    BY DEF IdentityInvariant, RolesWereHeld, RolesAreGivenByInviters, Inviting
  <1> QED  BY <1>1, IdentityStarts, IdentityStep, PTL DEF IdentitySpec
=============================================================================
