---------------------------- MODULE AgentsProof -----------------------------
(* Proofs about what works for an agent, for any number of calls, runs and    *)
(* attempts: the tool gateway has a side effect under a key at most once; the *)
(* model calls of an agent are recorded and keep within its budget; memory,   *)
(* knowledge and research report as kept only what is there.                  *)
EXTENDS ToolGatewayProperties, AgentRun, KnowledgeStore, ResearchRun, Sums

LEMMA Outcomes1 ==
  /\ NoOutcome \in Outcomes /\ ProviderOutcomes \subseteq Outcomes
  /\ tool \in Tools => Thrown \in Outcomes
  BY DEF NoOutcome, Outcomes, ErrorCodes, ProviderOutcomes, Thrown, Tools

LEMMA StatusTyped == \A o : Status(o) \in ToolCallStatuses
  BY DEF Status, ToolCallStatuses

LEMMA StoredKeyTyped ==
  ASSUME key \in KeyStates, NEW o
  PROVE  StoredKey(o) \in KeyStates
  <1>1. StoredKey(o) \in {"COMPLETED", "FAILED_UNSENT", "FAILED_SUBMITTED", key}
    <2> DEFINE st == Status(o)
    <2> HIDE DEF st
    <2>1. st = Status(o)  BY DEF st
    <2> QED  BY <2>1, Zenon DEF StoredKey
  <1> QED  BY <1>1 DEF KeyStates

LEMMA InitHolds == Init => GatewayInvariant
  <1> SUFFICES ASSUME Init  PROVE GatewayInvariant
    OBVIOUS
  <1>1. TypeOK
    BY Outcomes1, MaxToolTriesAssumption
    DEF Init, TypeOK, AttemptStates, KeyStates, CallPoints
  <1>2. LocalsKept  BY DEF Init, LocalsKept, NoOutcome
  <1>3. ClaimGuards /\ OneEffect  BY DEF Init, ClaimGuards, Holds, OneEffect
  <1> QED  BY <1>1, <1>2, <1>3 DEF GatewayInvariant

\* Every step keeps the types.
LEMMA TypeStep ==
  ASSUME TypeOK, LocalsKept, NEW c \in Calls,
         \/ Admit(c) \/ CreateInvocation(c) \/ ClaimKey(c) \/ LookUp(c) \/ Replay(c)
         \/ StartAttempt(c) \/ Send(c) \/ CompleteAttempt(c) \/ CompleteInvocation(c)
         \/ StoreOutcome(c) \/ ValidateOutput(c) \/ CallFails(c)
  PROVE  TypeOK'
  <1> USE DEF TypeOK, Goto, Answers, Recorded, Forgets, stored, local
  <1>1. /\ id[c] \in Ids /\ tries[c] \in 0..MaxToolTries /\ got[c] \in Outcomes
        /\ MaxToolTries \in Nat \ {0}
    BY MaxToolTriesAssumption
  <1>2. CASE Admit(c)  BY <1>2 DEF Admit, CallPoints
  <1>3. CASE CreateInvocation(c)  BY <1>1, <1>3 DEF CreateInvocation, CallPoints
  <1>4. CASE ClaimKey(c)  BY <1>4 DEF ClaimKey, CallPoints, Claim, KeyStates
  <1>5. CASE LookUp(c)  BY <1>5 DEF LookUp, CallPoints, ReplayOf, ToolCallStatuses
  <1>6. CASE Replay(c)
    <2>1. answer[c] \in ToolCallStatuses  BY <1>6 DEF Replay, LocalsKept
    <2> QED  BY <1>1, <1>6, <2>1 DEF Replay, CallPoints
  <1>7. CASE StartAttempt(c)
    <2>1. tries[c] + 1 \in 1..MaxToolTries  BY <1>1, <1>7 DEF StartAttempt, LocalsKept
    <2>2. attempts' \in [Ids -> [1..MaxToolTries -> AttemptStates]]
      BY <1>1, <1>7, <2>1 DEF StartAttempt, AttemptStates
    <2> QED  BY <1>1, <1>7, <2>1, <2>2 DEF StartAttempt, CallPoints
  <1>8. CASE Send(c)
    <2>1. <<id[c], tries[c]>> \in Ids \X (1..MaxToolTries)
      BY <1>1, <1>8 DEF Send, LocalsKept
    <2>2. effects' \subseteq Ids \X (1..MaxToolTries)  BY <1>8, <2>1 DEF Send
    <2>3. got' \in [Calls -> Outcomes]  BY <1>8, Outcomes1 DEF Send
    <2> QED  BY <1>8, <2>2, <2>3 DEF Send, CallPoints
  <1>9. CASE CompleteAttempt(c)
    <2>1. attempts' \in [Ids -> [1..MaxToolTries -> AttemptStates]]
      BY <1>1, <1>9 DEF CompleteAttempt, AttemptStates
    <2> QED  BY <1>9, <2>1 DEF CompleteAttempt, CallPoints
  <1>10. CASE CompleteInvocation(c)
    <2> DEFINE st == Status(got[c])
    <2>1. st \in ToolCallStatuses  BY StatusTyped
    <2>2. invocation' = [invocation EXCEPT ![id[c]] = st]  BY <1>10 DEF CompleteInvocation
    <2> HIDE DEF st
    <2> QED  BY <1>10, <2>1, <2>2 DEF CompleteInvocation, CallPoints
  <1>11. CASE StoreOutcome(c)
    BY <1>11, StoredKeyTyped DEF StoreOutcome, CallPoints
  <1>12. CASE ValidateOutput(c)
    <2> DEFINE st == Status(got[c])
    <2>1. st \in ToolCallStatuses /\ "VALIDATION_ERROR" \in ToolCallStatuses
      BY StatusTyped DEF ToolCallStatuses
    <2>2. /\ \/ answer' = [answer EXCEPT ![c] = st] /\ UNCHANGED invocation
             \/ /\ answer' = [answer EXCEPT ![c] = "VALIDATION_ERROR"]
                /\ invocation' = [invocation EXCEPT ![id[c]] = "VALIDATION_ERROR"]
      BY <1>12 DEF ValidateOutput, RefusedOutput
    <2> HIDE DEF st
    <2>3. /\ invocation' \in [Ids -> ToolCallStatuses \cup {"NONE", "IN_PROGRESS"}]
          /\ answer' \in [Calls -> ToolCallStatuses \cup {"none", "refused"}]
      <3>1. CASE answer' = [answer EXCEPT ![c] = st] /\ UNCHANGED invocation
        BY <2>1, <3>1
      <3>2. CASE /\ answer' = [answer EXCEPT ![c] = "VALIDATION_ERROR"]
                 /\ invocation' = [invocation EXCEPT ![id[c]] = "VALIDATION_ERROR"]
        BY <1>1, <2>1, <3>2
      <3> QED  BY <2>2, <3>1, <3>2
    <2>4. pc' \in [Calls -> CallPoints]  BY <1>12 DEF ValidateOutput, CallPoints
    <2>5. tries' \in [Calls -> 0..MaxToolTries] /\ got' \in [Calls -> Outcomes]
      BY <1>1, <1>12, Outcomes1 DEF ValidateOutput
    <2> QED  BY <1>12, <2>3, <2>4, <2>5 DEF ValidateOutput
  <1>13. CASE CallFails(c)  BY <1>1, <1>13, Outcomes1 DEF CallFails, CallPoints
  <1> QED
    BY <1>2, <1>3, <1>4, <1>5, <1>6, <1>7, <1>8, <1>9, <1>10, <1>11, <1>12, <1>13


\* Every step keeps what the calls remember.
LEMMA LocalsStep ==
  ASSUME TypeOK, LocalsKept, NEW c \in Calls,
         \/ Admit(c) \/ CreateInvocation(c) \/ ClaimKey(c) \/ LookUp(c) \/ Replay(c)
         \/ StartAttempt(c) \/ Send(c) \/ CompleteAttempt(c) \/ CompleteInvocation(c)
         \/ StoreOutcome(c) \/ ValidateOutput(c) \/ CallFails(c)
  PROVE  LocalsKept'
  <1> USE DEF TypeOK, LocalsKept, Goto, Answers, Forgets, stored
  <1>1. /\ tries[c] \in 0..MaxToolTries /\ MaxToolTries \in Nat \ {0}
        /\ \A o \in ProviderOutcomes : o.errorCode = "NOT_SUBMITTED" => ~o.submitted
        /\ Thrown.errorCode # "NOT_SUBMITTED" /\ NoOutcome.errorCode # "NOT_SUBMITTED"
    BY MaxToolTriesAssumption DEF ProviderOutcomes, Thrown, NoOutcome
  <1>2. CASE Admit(c) \/ CreateInvocation(c) \/ ClaimKey(c)
    BY <1>1, <1>2 DEF Admit, CreateInvocation, ClaimKey
  <1>3. CASE LookUp(c)  BY <1>3 DEF LookUp, ReplayOf, ToolCallStatuses
  <1>4. CASE Replay(c) \/ CompleteInvocation(c) \/ StoreOutcome(c)
    BY <1>4 DEF Replay, CompleteInvocation, StoreOutcome
  <1>5. CASE StartAttempt(c)  BY <1>1, <1>5 DEF StartAttempt
  <1>6. CASE Send(c)
    <2>1. PICK o \in ProviderOutcomes \cup {Thrown} : got' = [got EXCEPT ![c] = o]
      BY <1>6 DEF Send
    <2>2. o.errorCode = "NOT_SUBMITTED" => ~o.submitted  BY <1>1
    <2> QED  BY <1>6, <2>1, <2>2 DEF Send
  <1>7. CASE CompleteAttempt(c)
    <2>1. pc'[c] = "attempt" => tries[c] < MaxToolTries
      BY <1>7 DEF CompleteAttempt, CanRetry
    <2> QED  BY <1>7, <2>1 DEF CompleteAttempt
  <1>8. CASE ValidateOutput(c) \/ CallFails(c)
    BY <1>1, <1>8 DEF ValidateOutput, CallFails
  <1> QED  BY <1>2, <1>3, <1>4, <1>5, <1>6, <1>7, <1>8

\* The call that holds the claim moves on, or lets go of it, and leaves the key and the
\* other calls alone.
LEMMA HolderMoves ==
  ASSUME ClaimGuards, NEW c \in Calls, Holds(c), UNCHANGED key,
         \A d \in Calls \ {c} : pc'[d] = pc[d] /\ got'[d] = got[d],
         pc'[c] \in {"attempt", "send"} => effects' = {},
         Holds(c)' /\ ~got'[c].submitted => effects' = {}
  PROVE  ClaimGuards'
  <1>1. key = "PENDING" /\ ~Claimable(key)  BY DEF ClaimGuards, Claimable
  <1>2. \A d \in Calls \ {c} : ~Holds(d)  BY DEF ClaimGuards
  <1>3. \A d \in Calls \ {c} : ~Holds(d)'  BY <1>2 DEF Holds
  <1>4. \A d \in Calls : pc'[d] \in {"attempt", "send"} => d = c
    BY <1>3 DEF Holds
  <1>5. /\ \A d, e \in Calls : Holds(d)' /\ Holds(e)' => d = e
        /\ \A d \in Calls : Holds(d)' => key' = "PENDING"
        /\ ~Claimable(key')
    BY <1>1, <1>3
  <1> QED  BY <1>3, <1>4, <1>5 DEF ClaimGuards

\* Where the tool is keyed and has side effects, every step keeps the claim's guard.
LEMMA GuardStep ==
  ASSUME TypeOK, LocalsKept, tool.keyed, ~tool.readOnly, ClaimGuards, OneEffect,
         NEW c \in Calls,
         \/ Admit(c) \/ CreateInvocation(c) \/ ClaimKey(c) \/ LookUp(c) \/ Replay(c)
         \/ StartAttempt(c) \/ Send(c) \/ CompleteAttempt(c) \/ CompleteInvocation(c)
         \/ StoreOutcome(c) \/ ValidateOutput(c) \/ CallFails(c)
  PROVE  ClaimGuards' /\ OneEffect'
  <1> USE DEF TypeOK, Goto, Answers, Forgets, stored, Holds
  <1>1. ~Claimable("PENDING") /\ ~Claimable("COMPLETED") /\ ~Claimable("FAILED_SUBMITTED")
    BY DEF Claimable
  <1>2. CASE \/ Admit(c) \/ CreateInvocation(c) \/ LookUp(c) \/ Replay(c)
             \/ ValidateOutput(c) \/ CallFails(c)
    <2>1. /\ key' = key /\ effects' = effects /\ tool' = tool
          /\ pc' \in [Calls -> CallPoints] /\ ~Holds(c)'
          /\ \A d \in Calls \ {c} : pc'[d] = pc[d] /\ got'[d] = got[d]
      <3>1. CASE Admit(c) \/ CreateInvocation(c)  BY <3>1 DEF Admit, CreateInvocation, CallPoints
      <3>2. CASE LookUp(c)  BY <3>2 DEF LookUp, CallPoints
      <3>3. CASE Replay(c)  BY <3>3 DEF Replay, CallPoints
      <3>4. CASE ValidateOutput(c)  BY <3>4 DEF ValidateOutput, CallPoints
      <3>5. CASE CallFails(c)  BY <3>5 DEF CallFails, CallPoints
      <3> QED  BY <1>2, <3>1, <3>2, <3>3, <3>4, <3>5
    <2> QED  BY <2>1 DEF ClaimGuards, OneEffect
  <1>3. CASE ClaimKey(c)
    BY <1>1, <1>3 DEF ClaimKey, Claim, ClaimGuards, OneEffect
  <1>4. CASE StartAttempt(c)
    BY <1>4 DEF StartAttempt, ClaimGuards, OneEffect
  <1>5. CASE Send(c)
    <2>1. effects = {}  BY <1>5 DEF Send, ClaimGuards
    <2>2. effects' \subseteq {<<id[c], tries[c]>>}  BY <1>5, <2>1 DEF Send
    <2>3. ~got'[c].submitted => effects' = {}
      <3>1. Thrown.submitted  BY DEF Thrown
      <3>2. \A o \in ProviderOutcomes : ~o.submitted => TakesEffect(o) = {FALSE}
        BY DEF TakesEffect, Status
      <3> QED  BY <1>5, <2>1, <3>1, <3>2 DEF Send
    <2>4. /\ key' = key /\ tool' = tool /\ pc'[c] = "completeAttempt" /\ pc[c] = "send"
          /\ \A d \in Calls \ {c} : pc'[d] = pc[d] /\ got'[d] = got[d]
      <3>1. key' = key /\ tool' = tool /\ pc[c] = "send"  BY <1>5 DEF Send
      <3>2. pc' = [pc EXCEPT ![c] = "completeAttempt"]  BY <1>5 DEF Send
      <3>3. PICK o : got' = [got EXCEPT ![c] = o]  BY <1>5 DEF Send
      <3> QED  BY <3>1, <3>2, <3>3
    <2>5. OneEffect'  BY <2>2 DEF OneEffect
    <2> QED  BY <2>3, <2>4, <2>5, HolderMoves
  <1>6. CASE CompleteAttempt(c)
    <2>1. pc'[c] = "attempt" => ~got[c].submitted
      BY <1>6 DEF CompleteAttempt, CanRetry
    <2>2. /\ key' = key /\ tool' = tool /\ effects' = effects /\ got' = got
          /\ pc[c] = "completeAttempt" /\ pc'[c] \in {"attempt", "complete"}
          /\ \A d \in Calls \ {c} : pc'[d] = pc[d]
      <3>1. /\ key' = key /\ tool' = tool /\ effects' = effects /\ got' = got
            /\ pc[c] = "completeAttempt"
        BY <1>6 DEF CompleteAttempt
      <3>2. PICK l \in {"attempt", "complete"} : pc' = [pc EXCEPT ![c] = l]
        BY <1>6 DEF CompleteAttempt
      <3> QED  BY <3>1, <3>2
    <2>3. Holds(c)  BY <2>2
    <2>4. effects = {} \/ got[c].submitted  BY <2>2 DEF ClaimGuards
    <2>5. OneEffect'  BY <2>2 DEF OneEffect
    <2> QED  BY <2>1, <2>2, <2>3, <2>4, <2>5, HolderMoves
  <1>7. CASE CompleteInvocation(c)
    BY <1>7 DEF CompleteInvocation, ClaimGuards, OneEffect
  <1>8. CASE StoreOutcome(c)
    <2>1. key = "PENDING"  BY <1>8 DEF StoreOutcome, ClaimGuards
    <2>2. Claimable(key') => ~got[c].submitted
      <3>1. Claimable(StoredKey(got[c])) => got[c].errorCode = "NOT_SUBMITTED"
        BY <1>1, <2>1 DEF StoredKey
      <3> QED  BY <1>8, <3>1 DEF StoreOutcome, LocalsKept
    <2>3. /\ tool' = tool /\ effects' = effects /\ got' = got
          /\ pc[c] = "store" /\ pc'[c] = "validate"
          /\ \A d \in Calls \ {c} : pc'[d] = pc[d]
      BY <1>8 DEF StoreOutcome
    <2>4. \A d \in Calls : ~Holds(d)'  BY <2>3 DEF ClaimGuards
    <2> QED  BY <2>2, <2>3, <2>4 DEF ClaimGuards, OneEffect
  <1> QED  BY <1>2, <1>3, <1>4, <1>5, <1>6, <1>7, <1>8

\* Types, the calls' own memory and the claim's guard together are inductive.
THEOREM GatewayInvariantHolds == Spec => []GatewayInvariant
  <1>1. Init => GatewayInvariant  BY InitHolds
  <1>2. ASSUME GatewayInvariant, [Next]_vars  PROVE GatewayInvariant'
    <2>1. CASE UNCHANGED vars
      BY <1>2, <2>1
      DEF vars, stored, local, GatewayInvariant, TypeOK, LocalsKept, ClaimGuards, Holds,
          OneEffect
    <2>2. ASSUME NEW c \in Calls,
                 \/ Admit(c) \/ CreateInvocation(c) \/ ClaimKey(c) \/ LookUp(c) \/ Replay(c)
                 \/ StartAttempt(c) \/ Send(c) \/ CompleteAttempt(c) \/ CompleteInvocation(c)
                 \/ StoreOutcome(c) \/ ValidateOutput(c) \/ CallFails(c)
          PROVE  GatewayInvariant'
      <3>1. TypeOK' /\ LocalsKept'
        BY <1>2, <2>2, TypeStep, LocalsStep DEF GatewayInvariant
      <3>2. tool' = tool
        BY <2>2
        DEF Admit, CreateInvocation, ClaimKey, LookUp, Replay, StartAttempt, Send,
            CompleteAttempt, CompleteInvocation, StoreOutcome, ValidateOutput, CallFails
      <3>3. tool.keyed /\ ~tool.readOnly => ClaimGuards' /\ OneEffect'
        BY <1>2, <2>2, GuardStep DEF GatewayInvariant
      <3> QED  BY <3>1, <3>2, <3>3 DEF GatewayInvariant
    <2> QED  BY <1>2, <2>1, <2>2 DEF Next
  <1> QED  BY <1>1, <1>2, PTL DEF Spec

\* A keyed tool with side effects takes effect once at most, for any number of requests,
\* ids and attempts, whoever dies where (claim, canRetry, persistClaimOutcome).
THEOREM OneEffectHolds == Spec => []OneEffect
  <1>1. GatewayInvariant => OneEffect  BY DEF GatewayInvariant, OneEffect
  <1> QED  BY <1>1, GatewayInvariantHolds, PTL

-----------------------------------------------------------------------------
(* The records                                                               *)

LEMMA StatusFacts ==
  ASSUME NEW o
  PROVE  /\ Status(o) \in {"SUCCESS", "OUTCOME_UNKNOWN"} => o.submitted
         /\ Status(o) \in {"SUCCESS", "OUTCOME_UNKNOWN", "PROVIDER_ERROR"}
  BY DEF Status

\* One call moves: the invocation it changes is its own, or none inserted it.
LEMMA OthersOwn ==
  ASSUME TypeOK, RecordsAreOwned, NEW c \in Calls, id' = id,
         \A d \in Calls \ {c} : pc'[d] = pc[d] /\ answer'[d] = answer[d] /\ got'[d] = got[d],
         \A i \in Ids \ {id[c]} : invocation'[i] = invocation[i],
         invocation'[id[c]] # invocation[id[c]] \/ Entered(c)' => Entered(c) \/ invocation[id[c]] = "NONE",
         Working(c)' /\ pc'[c] \notin {"store", "validate"} => invocation'[id[c]] = "IN_PROGRESS",
         pc'[c] \in {"store", "validate"} => invocation'[id[c]] = Status(got'[c]),
         Answered(c)' => invocation'[id[c]] = answer'[c]
  PROVE  RecordsAreOwned'
  <1>1. \A d \in Calls \ {c} : /\ Entered(d)' <=> Entered(d)
                               /\ Working(d)' <=> Working(d)
                               /\ Answered(d)' <=> Answered(d)
    BY DEF Entered, Working, Answered
  <1>2. \A d \in Calls : Entered(d) => invocation[id[d]] # "NONE"
    <2> SUFFICES ASSUME NEW d \in Calls, Entered(d)  PROVE invocation[id[d]] # "NONE"
      OBVIOUS
    <2>1. CASE pc[d] \in {"store", "validate"}
      <3>1. invocation[id[d]] = Status(got[d])  BY <2>1 DEF RecordsAreOwned
      <3>2. Status(got[d]) # "NONE"  BY StatusFacts
      <3> QED  BY <3>1, <3>2
    <2>2. CASE Working(d) /\ pc[d] \notin {"store", "validate"}  BY <2>2 DEF RecordsAreOwned
    <2>3. CASE Answered(d)
      BY <2>3 DEF RecordsAreOwned, Answered, ToolCallStatuses
    <2> QED  BY <2>1, <2>2, <2>3 DEF Entered
  <1>3. \A d \in Calls \ {c} : Entered(d) /\ id[d] = id[c] =>
          invocation'[id[c]] = invocation[id[c]] /\ ~Entered(c)'
    BY <1>2 DEF RecordsAreOwned
  <1>4. \A d \in Calls : id[d] \in Ids  BY DEF TypeOK
  <1>5. \A d, f \in Calls : Entered(d)' /\ Entered(f)' /\ id'[d] = id'[f] => d = f
    BY <1>1, <1>3 DEF RecordsAreOwned
  <1>6. ASSUME NEW d \in Calls \ {c}
        PROVE  /\ Working(d)' /\ pc'[d] \notin {"store", "validate"} => invocation'[id'[d]] = "IN_PROGRESS"
               /\ pc'[d] \in {"store", "validate"} => invocation'[id'[d]] = Status(got'[d])
               /\ Answered(d)' => invocation'[id'[d]] = answer'[d]
    <2>1. Entered(d) => invocation'[id[d]] = invocation[id[d]]  BY <1>3, <1>4
    <2>2. /\ Working(d)' => Entered(d)
          /\ pc'[d] \in {"store", "validate"} => Entered(d)
          /\ Answered(d)' => Entered(d)
      BY <1>1 DEF Entered, Working
    <2> QED  BY <1>1, <2>1, <2>2 DEF RecordsAreOwned
  <1> QED  BY <1>5, <1>6 DEF RecordsAreOwned

LEMMA OwnedStep ==
  ASSUME TypeOK, LocalsKept, RecordsAreOwned, NEW c \in Calls,
         \/ Admit(c) \/ CreateInvocation(c) \/ ClaimKey(c) \/ LookUp(c) \/ Replay(c)
         \/ StartAttempt(c) \/ Send(c) \/ CompleteAttempt(c) \/ CompleteInvocation(c)
         \/ StoreOutcome(c) \/ ValidateOutput(c) \/ CallFails(c)
  PROVE  RecordsAreOwned'
  <1>1. /\ pc \in [Calls -> CallPoints] /\ id[c] \in Ids /\ answer[c] \in ToolCallStatuses \cup {"none", "refused"}
        /\ answer \in [Calls -> ToolCallStatuses \cup {"none", "refused"}]
        /\ got \in [Calls -> Outcomes]
        /\ invocation \in [Ids -> ToolCallStatuses \cup {"NONE", "IN_PROGRESS"}]
    BY DEF TypeOK
  <1> USE DEF Goto, Answers, Recorded, Forgets, stored
  <1>2. CASE Admit(c)
    <2>1. ~Entered(c)'
      BY <1>1, <1>2 DEF Admit, Entered, Working, Answered, ToolCallStatuses
    <2> QED  BY <1>1, <1>2, <2>1, OthersOwn DEF Admit, Entered, Working
  <1>3. CASE CreateInvocation(c)
    <2>1. CASE Insertable(id[c])
      BY <1>1, <1>3, <2>1, OthersOwn DEF CreateInvocation, Insertable, Entered, Working, Answered
    <2>2. CASE ~Insertable(id[c])
      <3>1. answer[c] = "none"  BY <1>3 DEF CreateInvocation, LocalsKept
      <3> QED  BY <1>1, <1>3, <2>2, <3>1, OthersOwn
               DEF CreateInvocation, Insertable, Entered, Working, Answered, ToolCallStatuses
    <2> QED  BY <2>1, <2>2
  <1>4. CASE ClaimKey(c) \/ LookUp(c) \/ StartAttempt(c) \/ Send(c) \/ CompleteAttempt(c)
    <2>1. /\ Working(c) /\ pc[c] \notin {"store", "validate"}
          /\ Working(c)' /\ pc'[c] \notin {"store", "validate", "done"}
          /\ invocation' = invocation /\ id' = id
          /\ \A d \in Calls \ {c} : pc'[d] = pc[d] /\ answer'[d] = answer[d] /\ got'[d] = got[d]
      BY <1>1, <1>4 DEF ClaimKey, LookUp, StartAttempt, Send, CompleteAttempt, Working
    <2>2. invocation[id[c]] = "IN_PROGRESS"  BY <2>1 DEF RecordsAreOwned
    <2> QED  BY <2>1, <2>2, OthersOwn DEF Entered, Answered
  <1>5. CASE Replay(c)
    <2>1. Working(c) /\ ~Working(c)' /\ pc'[c] = "done" /\ answer' = answer /\ id' = id /\ got' = got
      BY <1>1, <1>5 DEF Replay, Working
    <2> QED  BY <1>1, <1>5, <2>1, OthersOwn DEF Replay, Entered
  <1>6. CASE CompleteInvocation(c)
    <2>1. /\ Working(c) /\ pc'[c] \in {"store", "validate"} /\ id' = id /\ got' = got
          /\ answer' = answer /\ invocation'[id[c]] = Status(got'[c])
          /\ \A i \in Ids \ {id[c]} : invocation'[i] = invocation[i]
          /\ \A d \in Calls \ {c} : pc'[d] = pc[d]
      BY <1>1, <1>6 DEF CompleteInvocation, Working
    <2> QED  BY <2>1, OthersOwn DEF Entered, Answered
  <1>7. CASE StoreOutcome(c)
    <2>1. /\ Working(c) /\ pc'[c] = "validate" /\ id' = id /\ got' = got /\ pc[c] = "store"
          /\ answer' = answer /\ invocation' = invocation
          /\ \A d \in Calls \ {c} : pc'[d] = pc[d]
      BY <1>1, <1>7 DEF StoreOutcome, Working
    <2>2. invocation[id[c]] = Status(got[c])  BY <2>1 DEF RecordsAreOwned
    <2> QED  BY <2>1, <2>2, OthersOwn DEF Entered, Answered
  <1>8. CASE ValidateOutput(c)
    <2>1. /\ Working(c) /\ ~Working(c)' /\ pc'[c] = "done" /\ id' = id /\ pc[c] = "validate"
          /\ \A d \in Calls \ {c} : pc'[d] = pc[d] /\ got'[d] = got[d] /\ answer'[d] = answer[d]
          /\ \A i \in Ids \ {id[c]} : invocation'[i] = invocation[i]
      BY <1>1, <1>8 DEF ValidateOutput, RefusedOutput, Working
    <2>2. invocation'[id[c]] = answer'[c]
      <3>1. invocation[id[c]] = Status(got[c])  BY <2>1 DEF RecordsAreOwned
      <3>2. CASE Answers(c, Status(got[c])) /\ UNCHANGED invocation  BY <1>1, <3>1, <3>2
      <3>3. CASE Answers(c, "VALIDATION_ERROR") /\ RefusedOutput(c)
        BY <1>1, <3>3 DEF RefusedOutput
      <3> QED  BY <1>8, <3>2, <3>3 DEF ValidateOutput
    <2> QED  BY <2>1, <2>2, OthersOwn DEF Entered, Answered
  <1>9. CASE CallFails(c)
    <2>1. ~Entered(c)'
      BY <1>1, <1>9 DEF CallFails, Entered, Working, Answered, ToolCallStatuses
    <2>2. /\ id' = id /\ invocation' = invocation /\ pc'[c] = "done"
          /\ \A d \in Calls \ {c} : pc'[d] = pc[d] /\ got'[d] = got[d] /\ answer'[d] = answer[d]
      BY <1>1, <1>9 DEF CallFails
    <2> QED  BY <2>1, <2>2, OthersOwn DEF Entered, Working
  <1> QED  BY <1>2, <1>3, <1>4, <1>5, <1>6, <1>7, <1>8, <1>9

\* Nothing a step does takes an effect back.
LEMMA SeenStep ==
  ASSUME TypeOK, LocalsKept, RecordsAreOwned, SuccessesWereSeen, NEW c \in Calls,
         \/ Admit(c) \/ CreateInvocation(c) \/ ClaimKey(c) \/ LookUp(c) \/ Replay(c)
         \/ StartAttempt(c) \/ Send(c) \/ CompleteAttempt(c) \/ CompleteInvocation(c)
         \/ StoreOutcome(c) \/ ValidateOutput(c) \/ CallFails(c)
  PROVE  SuccessesWereSeen'
  <1>1. /\ pc \in [Calls -> CallPoints] /\ id[c] \in Ids
        /\ answer \in [Calls -> ToolCallStatuses \cup {"none", "refused"}]
        /\ got \in [Calls -> Outcomes] /\ got[c] \in Outcomes
        /\ invocation \in [Ids -> ToolCallStatuses \cup {"NONE", "IN_PROGRESS"}]
    BY DEF TypeOK
  <1> USE DEF Goto, Answers, Recorded, Forgets, stored
  <1>2. CASE Admit(c) \/ CreateInvocation(c) \/ StartAttempt(c) \/ CompleteAttempt(c) \/ CallFails(c)
    <2>1. /\ effects' = effects /\ key' = key /\ pc'[c] # "replay"
          /\ \A i \in Ids : invocation'[i] = invocation[i] \/ invocation'[i] = "IN_PROGRESS"
          /\ pc'[c] \in {"completeAttempt", "complete", "store", "validate"} =>
               pc[c] = "completeAttempt" /\ got'[c] = got[c]
          /\ \A d \in Calls \ {c} : pc'[d] = pc[d] /\ got'[d] = got[d] /\ answer'[d] = answer[d]
      BY <1>1, <1>2 DEF Admit, CreateInvocation, StartAttempt, CompleteAttempt, CallFails
    <2> QED  BY <2>1 DEF SuccessesWereSeen
  <1>3. CASE ClaimKey(c)
    <2>1. key' = "COMPLETED" => key = "COMPLETED"  BY <1>3 DEF ClaimKey, Claim
    <2>2. /\ effects' = effects /\ invocation' = invocation /\ got' = got /\ answer' = answer
          /\ pc'[c] \in {"attempt", "lookup"} /\ \A d \in Calls \ {c} : pc'[d] = pc[d]
      BY <1>1, <1>3 DEF ClaimKey
    <2> QED  BY <2>1, <2>2 DEF SuccessesWereSeen
  <1>4. CASE LookUp(c)
    <2>1. answer'[c] = "SUCCESS" => key = "COMPLETED"  BY <1>1, <1>4 DEF LookUp, ReplayOf
    <2>2. /\ effects' = effects /\ invocation' = invocation /\ got' = got /\ key' = key
          /\ pc'[c] = "replay" /\ \A d \in Calls \ {c} : pc'[d] = pc[d] /\ answer'[d] = answer[d]
      BY <1>1, <1>4 DEF LookUp
    <2> QED  BY <2>1, <2>2 DEF SuccessesWereSeen
  <1>5. CASE Replay(c)
    <2>1. /\ effects' = effects /\ got' = got /\ key' = key /\ answer' = answer
          /\ pc[c] = "replay" /\ pc'[c] = "done" /\ \A d \in Calls \ {c} : pc'[d] = pc[d]
          /\ \A i \in Ids : invocation'[i] = invocation[i] \/ invocation'[i] = answer[c]
      BY <1>1, <1>5 DEF Replay
    <2> QED  BY <2>1 DEF SuccessesWereSeen
  <1>6. CASE Send(c)
    <2>1. effects \subseteq effects' /\ (Status(got'[c]) = "SUCCESS" => effects' # {})
      <3>1. Status(Thrown) # "SUCCESS"  BY DEF Thrown, Status
      <3>2. CASE \E o \in ProviderOutcomes : \E e \in TakesEffect(o) :
                   /\ got' = [got EXCEPT ![c] = o]
                   /\ effects' = effects \cup (IF e THEN {<<id[c], tries[c]>>} ELSE {})
        BY <1>1, <3>2 DEF TakesEffect
      <3>3. CASE \E e \in BOOLEAN :
                   /\ got' = [got EXCEPT ![c] = Thrown]
                   /\ effects' = effects \cup (IF e THEN {<<id[c], tries[c]>>} ELSE {})
        BY <1>1, <3>1, <3>3
      <3> QED  BY <1>6, <3>2, <3>3 DEF Send
    <2>2. /\ invocation' = invocation /\ key' = key /\ answer' = answer /\ pc'[c] = "completeAttempt"
          /\ \A d \in Calls \ {c} : pc'[d] = pc[d] /\ got'[d] = got[d]
      BY <1>1, <1>6 DEF Send
    <2> QED  BY <2>1, <2>2 DEF SuccessesWereSeen
  <1>7. CASE CompleteInvocation(c)
    <2>1. /\ effects' = effects /\ got' = got /\ key' = key /\ answer' = answer
          /\ pc[c] = "complete" /\ pc'[c] \in {"store", "validate"}
          /\ \A d \in Calls \ {c} : pc'[d] = pc[d]
          /\ \A i \in Ids : invocation'[i] = invocation[i] \/ invocation'[i] = Status(got[c])
      BY <1>1, <1>7 DEF CompleteInvocation
    <2> QED  BY <2>1 DEF SuccessesWereSeen
  <1>8. CASE StoreOutcome(c)
    <2>1. StoredKey(got[c]) = "COMPLETED" => Status(got[c]) = "SUCCESS" \/ key = "COMPLETED"
      <3> DEFINE st == Status(got[c])
      <3>1. st = Status(got[c])  OBVIOUS
      <3> HIDE DEF st
      <3>2. st \in {"SUCCESS", "OUTCOME_UNKNOWN", "PROVIDER_ERROR"}  BY <3>1, StatusFacts
      <3>3. CASE st = "SUCCESS"  BY <3>1, <3>3
      <3>4. CASE st = "OUTCOME_UNKNOWN"
        <4>1. StoredKey(got[c]) = key  BY <3>1, <3>4 DEF StoredKey
        <4> QED  BY <4>1
      <3>5. CASE st = "PROVIDER_ERROR"
        <4>1. StoredKey(got[c]) \in {"FAILED_UNSENT", "FAILED_SUBMITTED"}  BY <3>1, <3>5 DEF StoredKey
        <4> QED  BY <4>1
      <3> QED  BY <3>2, <3>3, <3>4, <3>5
    <2>2. /\ effects' = effects /\ got' = got /\ key' = StoredKey(got[c]) /\ answer' = answer
          /\ pc[c] = "store" /\ pc'[c] = "validate" /\ invocation' = invocation
          /\ \A d \in Calls \ {c} : pc'[d] = pc[d]
      BY <1>1, <1>8 DEF StoreOutcome
    <2> QED  BY <2>1, <2>2 DEF SuccessesWereSeen
  <1>9. CASE ValidateOutput(c)
    <2>1. /\ effects' = effects /\ key' = key
          /\ pc'[c] = "done"
          /\ \A i \in Ids : invocation'[i] = invocation[i] \/ invocation'[i] = "VALIDATION_ERROR"
          /\ \A d \in Calls \ {c} : pc'[d] = pc[d] /\ got'[d] = got[d] /\ answer'[d] = answer[d]
      BY <1>1, <1>9 DEF ValidateOutput, RefusedOutput
    <2> QED  BY <2>1 DEF SuccessesWereSeen
  <1> QED  BY <1>2, <1>3, <1>4, <1>5, <1>6, <1>7, <1>8, <1>9

LEMMA StartedStep ==
  ASSUME TypeOK, LocalsKept, RecordsAreOwned, SentAreStarted, NEW c \in Calls,
         \/ Admit(c) \/ CreateInvocation(c) \/ ClaimKey(c) \/ LookUp(c) \/ Replay(c)
         \/ StartAttempt(c) \/ Send(c) \/ CompleteAttempt(c) \/ CompleteInvocation(c)
         \/ StoreOutcome(c) \/ ValidateOutput(c) \/ CallFails(c)
  PROVE  SentAreStarted'
  <1>1. /\ pc \in [Calls -> CallPoints] /\ id \in [Calls -> Ids] /\ tries \in [Calls -> 0..MaxToolTries]
        /\ attempts \in [Ids -> [1..MaxToolTries -> AttemptStates]] /\ MaxToolTries \in Nat \ {0}
    BY MaxToolTriesAssumption DEF TypeOK
  <1> USE DEF Goto, Forgets, stored
  <1>2. CASE StartAttempt(c)
    <2>1. /\ tries[c] + 1 \in 1..MaxToolTries /\ id' = id /\ pc[c] = "attempt" /\ pc'[c] = "send"
          /\ tries' = [tries EXCEPT ![c] = @ + 1]
          /\ attempts' = [attempts EXCEPT ![id[c]][tries[c] + 1] = "STARTED"]
          /\ \A d \in Calls \ {c} : pc'[d] = pc[d]
      BY <1>1, <1>2 DEF StartAttempt, LocalsKept
    <2>2. attempts'[id[c]][tries'[c]] = "STARTED"  BY <1>1, <2>1
    <2>3. \A d \in Calls \ {c} : pc[d] = "send" => id[d] # id[c]
      BY <2>1 DEF RecordsAreOwned, Entered, Working
    <2>4. \A d \in Calls \ {c} : id[d] # id[c] => attempts'[id[d]] = attempts[id[d]] /\ tries'[d] = tries[d]
      BY <1>1, <2>1
    <2> QED  BY <2>1, <2>2, <2>3, <2>4 DEF SentAreStarted
  <1>3. CASE CompleteAttempt(c)
    <2>1. /\ id' = id /\ tries' = tries /\ pc[c] = "completeAttempt" /\ pc'[c] # "send"
          /\ \A i \in Ids \ {id[c]} : attempts'[i] = attempts[i]
          /\ \A d \in Calls \ {c} : pc'[d] = pc[d]
      BY <1>1, <1>3 DEF CompleteAttempt
    <2>2. \A d \in Calls \ {c} : pc[d] = "send" => id[d] # id[c]
      BY <2>1 DEF RecordsAreOwned, Entered, Working
    <2> QED  BY <1>1, <2>1, <2>2 DEF SentAreStarted
  <1>4. CASE \/ Admit(c) \/ CreateInvocation(c) \/ ClaimKey(c) \/ LookUp(c) \/ Replay(c)
             \/ Send(c) \/ CompleteInvocation(c) \/ StoreOutcome(c) \/ ValidateOutput(c) \/ CallFails(c)
    <2>1. /\ id' = id /\ attempts' = attempts /\ pc'[c] # "send"
          /\ \A d \in Calls \ {c} : pc'[d] = pc[d] /\ tries'[d] = tries[d]
      BY <1>1, <1>4 DEF Admit, CreateInvocation, ClaimKey, LookUp, Replay, Send, CompleteInvocation,
                        StoreOutcome, ValidateOutput, CallFails
    <2> QED  BY <2>1 DEF SentAreStarted
  <1> QED  BY <1>2, <1>3, <1>4

\* Of a side effect, no record denies what happened.
LEMMA EffectStep ==
  ASSUME TypeOK, LocalsKept, RecordsAreOwned, SentAreStarted, EffectsWereSeen, ~tool.readOnly, NEW c \in Calls,
         \/ Admit(c) \/ CreateInvocation(c) \/ ClaimKey(c) \/ LookUp(c) \/ Replay(c)
         \/ StartAttempt(c) \/ Send(c) \/ CompleteAttempt(c) \/ CompleteInvocation(c)
         \/ StoreOutcome(c) \/ ValidateOutput(c) \/ CallFails(c)
  PROVE  EffectsWereSeen'
  <1>1. /\ pc \in [Calls -> CallPoints] /\ id \in [Calls -> Ids] /\ id[c] \in Ids
        /\ answer \in [Calls -> ToolCallStatuses \cup {"none", "refused"}]
        /\ got \in [Calls -> Outcomes] /\ got[c] \in Outcomes
        /\ invocation \in [Ids -> ToolCallStatuses \cup {"NONE", "IN_PROGRESS"}]
        /\ attempts \in [Ids -> [1..MaxToolTries -> AttemptStates]]
        /\ effects \subseteq Ids \X (1..MaxToolTries)
        /\ tries[c] \in 0..MaxToolTries /\ MaxToolTries \in Nat \ {0}
    BY MaxToolTriesAssumption DEF TypeOK
  <1>2. \A e \in effects : e[1] \in Ids /\ e[2] \in 1..MaxToolTries  BY <1>1
  <1> USE DEF Goto, Answers, Recorded, Forgets, stored
  <1>3. CASE Admit(c) \/ ClaimKey(c) \/ LookUp(c) \/ StoreOutcome(c) \/ CallFails(c)
    <2>1. /\ effects' = effects /\ invocation' = invocation /\ attempts' = attempts /\ id' = id
          /\ pc'[c] \in {"claim", "lookup", "replay", "attempt", "send"} => pc[c] \in {"claim", "lookup"}
          /\ pc'[c] \in {"completeAttempt", "complete", "store", "validate"} =>
               pc[c] = "store" /\ got'[c] = got[c]
          /\ \A d \in Calls \ {c} : pc'[d] = pc[d] /\ got'[d] = got[d]
      BY <1>1, <1>3 DEF Admit, ClaimKey, LookUp, StoreOutcome, CallFails
    <2> QED  BY <2>1 DEF EffectsWereSeen
  <1>4. CASE CreateInvocation(c)
    <2>1. CASE Insertable(id[c])
      <3>1. \A e \in effects : e[1] # id[c]  BY <2>1 DEF EffectsWereSeen, Insertable
      <3>2. /\ effects' = effects /\ attempts' = attempts /\ id' = id /\ got' = got
            /\ invocation' = [invocation EXCEPT ![id[c]] = "IN_PROGRESS"]
            /\ pc'[c] \in {"claim", "attempt"}
            /\ \A d \in Calls \ {c} : pc'[d] = pc[d]
        BY <1>1, <1>4, <2>1 DEF CreateInvocation
      <3>3. \A e \in effects : invocation'[e[1]] = invocation[e[1]]  BY <1>1, <1>2, <3>1, <3>2
      <3> QED  BY <3>1, <3>2, <3>3 DEF EffectsWereSeen
    <2>2. CASE ~Insertable(id[c])
      <3>1. /\ effects' = effects /\ attempts' = attempts /\ id' = id /\ got' = got
            /\ invocation' = invocation /\ pc'[c] = "done"
            /\ \A d \in Calls \ {c} : pc'[d] = pc[d]
        BY <1>1, <1>4, <2>2 DEF CreateInvocation
      <3> QED  BY <3>1 DEF EffectsWereSeen
    <2> QED  BY <2>1, <2>2
  <1>5. CASE Replay(c)
    <2>1. \A e \in effects : e[1] # id[c]  BY <1>5 DEF EffectsWereSeen, Replay
    <2>2. /\ effects' = effects /\ attempts' = attempts /\ id' = id /\ got' = got
          /\ invocation' = [invocation EXCEPT ![id[c]] = answer[c]] /\ pc'[c] = "done"
          /\ \A d \in Calls \ {c} : pc'[d] = pc[d]
      BY <1>1, <1>5 DEF Replay
    <2>3. \A e \in effects : invocation'[e[1]] = invocation[e[1]]  BY <1>1, <1>2, <2>1, <2>2
    <2> QED  BY <2>2, <2>3 DEF EffectsWereSeen
  <1>6. CASE StartAttempt(c)
    <2>1. \A e \in effects : e[1] # id[c]  BY <1>6 DEF EffectsWereSeen, StartAttempt
    <2>2. \A i \in Ids \ {id[c]} : attempts'[i] = attempts[i]  BY <1>1, <1>6 DEF StartAttempt
    <2>3. /\ effects' = effects /\ invocation' = invocation /\ id' = id /\ got' = got
          /\ pc'[c] = "send" /\ \A d \in Calls \ {c} : pc'[d] = pc[d]
      BY <1>1, <1>6 DEF StartAttempt
    <2>4. \A e \in effects : attempts'[e[1]] = attempts[e[1]]  BY <1>2, <2>1, <2>2
    <2> QED  BY <2>1, <2>3, <2>4 DEF EffectsWereSeen
  <1>7. CASE Send(c)
    <2> DEFINE mine == <<id[c], tries[c]>>
    <2>1. /\ effects' = effects \/ effects' = effects \cup {mine}
          /\ Status(got'[c]) = "PROVIDER_ERROR" => effects' = effects
      <3>1. Status(Thrown) # "PROVIDER_ERROR"  BY DEF Thrown, Status
      <3>2. CASE \E o \in ProviderOutcomes : \E e \in TakesEffect(o) :
                   /\ got' = [got EXCEPT ![c] = o]
                   /\ effects' = effects \cup (IF e THEN {<<id[c], tries[c]>>} ELSE {})
        BY <1>1, <3>2 DEF TakesEffect
      <3>3. CASE \E e \in BOOLEAN :
                   /\ got' = [got EXCEPT ![c] = Thrown]
                   /\ effects' = effects \cup (IF e THEN {<<id[c], tries[c]>>} ELSE {})
        BY <1>1, <3>1, <3>3
      <3> QED  BY <1>7, <3>2, <3>3 DEF Send
    <2>2. /\ invocation' = invocation /\ attempts' = attempts /\ id' = id
          /\ pc[c] = "send" /\ pc'[c] = "completeAttempt"
          /\ \A d \in Calls \ {c} : pc'[d] = pc[d] /\ got'[d] = got[d]
      BY <1>1, <1>7 DEF Send
    <2>3. invocation[id[c]] = "IN_PROGRESS" /\ attempts[id[c]][tries[c]] \in AttemptStates
      <3>1. tries[c] \in 1..MaxToolTries  BY <1>1, <2>2 DEF LocalsKept
      <3> QED  BY <1>1, <2>2, <3>1 DEF RecordsAreOwned, Working
    <2>4. attempts[id[c]][tries[c]] \in {"STARTED", "SENT"}  BY <2>2 DEF SentAreStarted
    <2>5. \A d \in Calls \ {c} : Working(d) => id[d] # id[c]
      BY <2>2 DEF RecordsAreOwned, Entered, Working
    <2>6. \A e \in effects : e[1] # id[c]  BY <2>2 DEF EffectsWereSeen
    <2>7. mine[1] = id[c] /\ mine[2] = tries[c]  OBVIOUS
    <2> HIDE DEF mine
    <2> QED  BY <2>1, <2>2, <2>3, <2>4, <2>5, <2>6, <2>7 DEF EffectsWereSeen, Working
  <1>8. CASE CompleteAttempt(c)
    <2> DEFINE says == IF got[c].submitted THEN "SENT" ELSE "UNSENT"
    <2>1. /\ effects' = effects /\ invocation' = invocation /\ id' = id /\ got' = got
          /\ pc[c] = "completeAttempt" /\ pc'[c] \in {"attempt", "complete"}
          /\ \A d \in Calls \ {c} : pc'[d] = pc[d]
          /\ attempts' = [attempts EXCEPT ![id[c]][tries[c]] = says]
      BY <1>1, <1>8 DEF CompleteAttempt
    <2>2. pc'[c] = "attempt" => ~got[c].submitted
      BY <1>1, <1>8 DEF CompleteAttempt, CanRetry
    <2>3. ~got[c].submitted => Status(got[c]) = "PROVIDER_ERROR" /\ \A e \in effects : e[1] # id[c]
      <3>1. ~got[c].submitted => Status(got[c]) = "PROVIDER_ERROR"  BY StatusFacts
      <3> QED  BY <2>1, <3>1 DEF EffectsWereSeen
    <2>4. tries[c] \in 1..MaxToolTries  BY <1>1, <2>1 DEF LocalsKept
    <2>5. ASSUME NEW e \in effects  PROVE attempts'[e[1]][e[2]] \in {"STARTED", "SENT"}
      <3>1. attempts[e[1]][e[2]] \in {"STARTED", "SENT"} /\ e[1] \in Ids /\ e[2] \in 1..MaxToolTries
        BY <1>2 DEF EffectsWereSeen
      <3>2. CASE got[c].submitted  BY <1>1, <2>1, <2>4, <3>1, <3>2
      <3>3. CASE ~got[c].submitted  BY <1>1, <2>1, <2>3, <3>1, <3>3
      <3> QED  BY <3>2, <3>3
    <2> HIDE DEF says
    <2> QED  BY <2>1, <2>2, <2>3, <2>5 DEF EffectsWereSeen
  <1>9. CASE CompleteInvocation(c)
    <2>1. /\ effects' = effects /\ attempts' = attempts /\ id' = id /\ got' = got
          /\ invocation' = [invocation EXCEPT ![id[c]] = Status(got[c])]
          /\ pc[c] = "complete" /\ pc'[c] \in {"store", "validate"}
          /\ \A d \in Calls \ {c} : pc'[d] = pc[d]
      BY <1>1, <1>9 DEF CompleteInvocation
    <2>2. ASSUME NEW e \in effects  PROVE invocation'[e[1]] \notin {"NONE", "PROVIDER_ERROR"}
      <3>1. CASE e[1] = id[c]
        <4>1. Status(got[c]) # "PROVIDER_ERROR"  BY <2>1, <3>1 DEF EffectsWereSeen
        <4>2. Status(got[c]) # "NONE"  BY StatusFacts
        <4>3. invocation'[e[1]] = Status(got[c])  BY <1>1, <2>1, <3>1
        <4> QED  BY <4>1, <4>2, <4>3
      <3>2. CASE e[1] # id[c]
        <4>1. invocation'[e[1]] = invocation[e[1]]  BY <1>1, <1>2, <2>1, <3>2
        <4> QED  BY <4>1 DEF EffectsWereSeen
      <3> QED  BY <3>1, <3>2
    <2> QED  BY <2>1, <2>2 DEF EffectsWereSeen
  <1>10. CASE ValidateOutput(c)
    <2>1. /\ effects' = effects /\ attempts' = attempts /\ id' = id
          /\ pc'[c] = "done"
          /\ \A i \in Ids : invocation'[i] = invocation[i] \/ invocation'[i] = "VALIDATION_ERROR"
          /\ \A d \in Calls \ {c} : pc'[d] = pc[d] /\ got'[d] = got[d]
      BY <1>1, <1>10 DEF ValidateOutput, RefusedOutput
    <2> QED  BY <1>2, <2>1 DEF EffectsWereSeen
  <1> QED  BY <1>3, <1>4, <1>5, <1>6, <1>7, <1>8, <1>9, <1>10

LEMMA RecordsStep ==
  ASSUME GatewayInvariant, RecordInvariant, [Next]_vars
  PROVE  RecordInvariant'
  <1>1. CASE UNCHANGED vars
    BY <1>1 DEF vars, stored, local, RecordInvariant, RecordsAreOwned, SentAreStarted, SuccessesWereSeen, EffectsWereSeen,
                Entered, Working, Answered
  <1>2. ASSUME NEW c \in Calls,
               \/ Admit(c) \/ CreateInvocation(c) \/ ClaimKey(c) \/ LookUp(c) \/ Replay(c)
               \/ StartAttempt(c) \/ Send(c) \/ CompleteAttempt(c) \/ CompleteInvocation(c)
               \/ StoreOutcome(c) \/ ValidateOutput(c) \/ CallFails(c)
        PROVE  RecordInvariant'
    <2>1. tool' = tool
      BY <1>2
      DEF Admit, CreateInvocation, ClaimKey, LookUp, Replay, StartAttempt, Send,
          CompleteAttempt, CompleteInvocation, StoreOutcome, ValidateOutput, CallFails
    <2>2. RecordsAreOwned'  BY <1>2, OwnedStep DEF GatewayInvariant, RecordInvariant
    <2>3. SuccessesWereSeen'  BY <1>2, SeenStep DEF GatewayInvariant, RecordInvariant
    <2>4. ~tool.readOnly => EffectsWereSeen'  BY <1>2, EffectStep DEF GatewayInvariant, RecordInvariant
    <2>5. SentAreStarted'  BY <1>2, StartedStep DEF GatewayInvariant, RecordInvariant
    <2> QED  BY <2>1, <2>2, <2>3, <2>4, <2>5 DEF RecordInvariant
  <1> QED  BY <1>1, <1>2 DEF Next

\* A record is only changed by the call it belongs to, before it said how the call ended,
\* or by the output schema.
LEMMA FinalStep ==
  ASSUME GatewayInvariant, RecordInvariant, NEW c \in Calls, NEW i \in Ids,
         invocation[i] \in ToolCallStatuses, invocation'[i] # invocation[i],
         \/ Admit(c) \/ CreateInvocation(c) \/ ClaimKey(c) \/ LookUp(c) \/ Replay(c)
         \/ StartAttempt(c) \/ Send(c) \/ CompleteAttempt(c) \/ CompleteInvocation(c)
         \/ StoreOutcome(c) \/ ValidateOutput(c) \/ CallFails(c)
  PROVE  invocation[i] = "SUCCESS" /\ invocation'[i] = "VALIDATION_ERROR"
  <1>1. /\ id[c] \in Ids /\ invocation \in [Ids -> ToolCallStatuses \cup {"NONE", "IN_PROGRESS"}]
        /\ RecordsAreOwned
    BY DEF GatewayInvariant, TypeOK, RecordInvariant
  <1>2. "NONE" \notin ToolCallStatuses /\ "IN_PROGRESS" \notin ToolCallStatuses  BY DEF ToolCallStatuses
  <1>3. CASE CreateInvocation(c)
    <2>1. Insertable(id[c]) /\ i = id[c]  BY <1>1, <1>3 DEF CreateInvocation, Recorded
    <2> QED  BY <1>2, <2>1 DEF Insertable
  <1>4. CASE Replay(c) \/ CompleteInvocation(c)
    <2>1. i = id[c]  BY <1>1, <1>4 DEF Replay, CompleteInvocation, Recorded
    <2>2. invocation[id[c]] = "IN_PROGRESS"
      BY <1>1, <1>4 DEF Replay, CompleteInvocation, RecordsAreOwned, Working
    <2> QED  BY <1>2, <2>1, <2>2
  <1>5. CASE ValidateOutput(c)
    <2>1. /\ i = id[c] /\ Status(got[c]) = "SUCCESS" /\ pc[c] = "validate"
          /\ invocation'[i] = "VALIDATION_ERROR"
      BY <1>1, <1>5 DEF ValidateOutput, RefusedOutput, Recorded
    <2> QED  BY <1>1, <2>1 DEF RecordsAreOwned
  <1> QED
    BY <1>3, <1>4, <1>5
    DEF Admit, ClaimKey, LookUp, StartAttempt, Send, CompleteAttempt, StoreOutcome, CallFails, stored

LEMMA RecordsStart == Init => RecordInvariant
  BY DEF Init, RecordInvariant, RecordsAreOwned, SentAreStarted, SuccessesWereSeen, EffectsWereSeen, Entered, Working,
         Answered, ToolCallStatuses

\* Answers are recorded: no other request with the same id overwrites what a call said.
THEOREM AnswersHold == Spec => []AnswersAreRecorded
  <1>1. RecordInvariant => AnswersAreRecorded
    BY DEF RecordInvariant, RecordsAreOwned, AnswersAreRecorded
  <1> QED  BY <1>1, RecordsStart, RecordsStep, GatewayInvariantHolds, PTL DEF Spec

\* What records and key say of the provider is true, for any number of requests, ids and
\* attempts (completeAttempt, completeInvocation, persistClaimOutcome).
THEOREM RecordsHold == Spec => []RecordsAreTrue
  <1>1. RecordInvariant => RecordsAreTrue
    BY DEF RecordInvariant, SuccessesWereSeen, EffectsWereSeen, RecordsAreTrue
  <1> QED  BY <1>1, RecordsStart, RecordsStep, GatewayInvariantHolds, PTL DEF Spec

\* A status once recorded stays, unless the output schema takes a success back.
THEOREM RecordsStay == Spec => RecordsAreFinal
  <1>1. GatewayInvariant /\ RecordInvariant /\ [Next]_vars =>
          [\A i \in Ids : invocation[i] \in ToolCallStatuses /\ invocation'[i] # invocation[i]
             => invocation[i] = "SUCCESS" /\ invocation'[i] = "VALIDATION_ERROR"]_vars
    BY FinalStep DEF Next
  <1> QED  BY <1>1, RecordsStart, RecordsStep, GatewayInvariantHolds, PTL DEF Spec, RecordsAreFinal

-----------------------------------------------------------------------------
(* The attempts of a caller come one after the other, each paid for at most  *)
(* once; what it paid for is in the ledger at its worth or at the estimate.  *)
AgentPoints == {"idle", "lookup", "policy", "context", "call", "next", "ready", "invoke", "record",
                "validate", "fallback", "save", "decide", "specialist", "finish", "over"}
EarlyPoints == {"idle", "lookup", "policy", "context", "call"}
Replies     == ProviderReplies \cup {"none", "blocked"}
CallerOutcomes    == {"none", "RUNNING", "COMPLETED", "FAILED", "AWAITING_APPROVAL", "DRAFTED", "REJECTED"}
CallerFields ==
  [pc : AgentPoints, repair : Nat, tried : Nat, reply : Replies, usage : Nat, spent : Nat,
   reported : Nat, confident : BOOLEAN, checkpoint : CallerOutcomes, result : CallerOutcomes]

\* A table of the ledger: finitely many attempts and what each is charged.
Tries == Nat \X Nat
Tables   == {t \in UNION {[K -> Nat] : K \in SUBSET Tries} : IsFiniteSet(DOMAIN t)}

AgentTypeOK ==
  /\ kind \in [Callers -> {"agent", "draft"}]
  /\ wired \in BOOLEAN
  /\ caller \in [Callers -> CallerFields]
  /\ charges \in [Callers -> Tables]
  /\ billed \in [Callers -> Tables]
  /\ DOMAIN unreported = Callers

\* An attempt that was paid for comes before the next one of a caller in this state.
Behind(k, state) ==
  \/ k[1] < state.repair
  \/ /\ k[1] = state.repair /\ state.pc \notin EarlyPoints
     /\ k[2] < state.tried \/ (k[2] = state.tried /\ state.pc \notin {"ready", "invoke"})

Noted(c, k) == \E r \in invocations : r.call = CallName(c) /\ r.attempt = k /\ r.by = c

PaymentsAreSound(c) ==
  /\ caller[c].pc # "over" =>
       caller[c].result = "none" /\ \A k \in DOMAIN billed[c] : Behind(k, caller[c])
  /\ caller[c].result # "FAILED" =>
       \A k \in DOMAIN billed[c] : Noted(c, k) \/ (caller[c].pc = "record" /\ k = Attempt(c))

Capped(t) == [k \in DOMAIN t |-> IF t[k] < Estimate THEN t[k] ELSE Estimate]

\* What the ledger was told of: the attempts whose answer came with its usage.
Told(c) == [k \in DOMAIN billed[c] \ unreported[c] |-> billed[c][k]]

ChargesAreSound(c) ==
  /\ \A k \in DOMAIN billed[c] \ unreported[c] :
       /\ k \in DOMAIN charges[c]
       /\ billed[c][k] <= charges[c][k] \/ Estimate <= charges[c][k]
  /\ caller[c].pc = "invoke" =>
       Attempt(c) \in DOMAIN charges[c] /\ charges[c][Attempt(c)] = Estimate
  /\ Total(Capped(charges[c]), DOMAIN charges[c]) <= TokenBudget

AgentInvariant ==
  /\ AgentTypeOK
  /\ \A c \in Callers : PaymentsAreSound(c)
  /\ wired => \A c \in Callers : ChargesAreSound(c)

-----------------------------------------------------------------------------
LEMMA TableRule ==
  /\ \A t \in Tables : /\ IsFiniteSet(DOMAIN t) /\ DOMAIN t \subseteq Tries
                       /\ \A k \in DOMAIN t : t[k] \in Nat
  /\ \A K \in SUBSET Tries : IsFiniteSet(K) => \A t \in [K -> Nat] : t \in Tables
  BY DEF Tables

LEMMA ChargedRule ==
  ASSUME NEW t \in Tables, NEW a \in Tries, NEW n \in Nat
  PROVE  /\ Charged(t, a, n) \in Tables
         /\ DOMAIN Charged(t, a, n) = DOMAIN t \cup {a}
         /\ Charged(t, a, n)[a] = n
         /\ \A k \in DOMAIN t \ {a} : Charged(t, a, n)[k] = t[k]
  <1>1. IsFiniteSet(DOMAIN t \cup {a})  BY TableRule, FS_AddElement
  <1>2. Charged(t, a, n) \in [DOMAIN t \cup {a} -> Nat]  BY TableRule DEF Charged
  <1>3. Charged(t, a, n) \in Tables  BY <1>1, <1>2, TableRule
  <1> QED  BY <1>3 DEF Charged

LEMMA ReleasedRule ==
  ASSUME NEW t \in Tables, NEW A
  PROVE  [k \in DOMAIN t \ A |-> t[k]] \in Tables
  <1>1. IsFiniteSet(DOMAIN t \ A)  BY TableRule, FS_Subset
  <1>2. [k \in DOMAIN t \ A |-> t[k]] \in [DOMAIN t \ A -> Nat]  BY TableRule
  <1> QED  BY <1>1, <1>2, TableRule

LEMMA AccumulatedIsTotal ==
  ASSUME NEW c
  PROVE  Accumulated(c) = Total(charges[c], DOMAIN charges[c])
  BY DEF Accumulated, MapThenSumSet, MapThenFoldSet, Total

LEMMA CappedRule ==
  ASSUME NEW t \in Tables
  PROVE  /\ DOMAIN Capped(t) = DOMAIN t
         /\ \A k \in DOMAIN t : /\ Capped(t)[k] \in Nat /\ Capped(t)[k] <= t[k] /\ Capped(t)[k] <= Estimate
                                /\ Capped(t)[k] = (IF t[k] < Estimate THEN t[k] ELSE Estimate)
         /\ Total(Capped(t), DOMAIN t) \in Nat
  <1>1. \A k \in DOMAIN t : Capped(t)[k] \in Nat /\ Capped(t)[k] <= t[k] /\ Capped(t)[k] <= Estimate
    BY TableRule, TokensAssumption DEF Capped
  <1>2. Total(Capped(t), DOMAIN t) \in Nat  BY <1>1, TableRule, TotalCounts
  <1> QED  BY <1>1, <1>2 DEF Capped

\* Reserving the estimate within the budget keeps the capped total within it.
LEMMA ReserveFits ==
  ASSUME NEW t \in Tables, NEW a \in Tries, Total(t, DOMAIN t) + Estimate <= TokenBudget
  PROVE  Total(Capped(Charged(t, a, Estimate)), DOMAIN t \cup {a}) <= TokenBudget
  <1>0. Estimate \in Nat /\ TokenBudget \in Nat  BY TokensAssumption
  <1> DEFINE u == Charged(t, a, Estimate)
             D == DOMAIN t
             g == Capped(u)
  <1>1. /\ u \in Tables /\ DOMAIN u = D \cup {a} /\ u[a] = Estimate
        /\ \A k \in D \ {a} : u[k] = t[k]
    <2>1. /\ Charged(t, a, Estimate) \in Tables
          /\ DOMAIN Charged(t, a, Estimate) = DOMAIN t \cup {a}
          /\ Charged(t, a, Estimate)[a] = Estimate
          /\ \A k \in DOMAIN t \ {a} : Charged(t, a, Estimate)[k] = t[k]
      BY <1>0, ChargedRule, ZenonT(30)
    <2> QED  BY <2>1, Zenon
  <1> HIDE DEF u
  <1>2. \A k \in D \cup {a} : g[k] \in Nat /\ g[k] <= u[k]
    <2>1. \A k \in DOMAIN u : Capped(u)[k] \in Nat /\ Capped(u)[k] <= u[k]
      BY <1>1, CappedRule, Zenon
    <2> QED  BY <1>1, <2>1
  <1>3. IsFiniteSet(D \cup {a}) /\ IsFiniteSet(D) /\ \A k \in D : t[k] \in Nat
    BY <1>1, TableRule
  <1> HIDE DEF u, D, g
  <1>4. Total(g, D \cup {a}) = g[a] + Total(g, (D \cup {a}) \ {a})
    BY <1>2, <1>3, TotalWith
  <1>5. Total(g, (D \cup {a}) \ {a}) <= Total(t, D)
    <2>1. (D \cup {a}) \ {a} \in SUBSET D  OBVIOUS
    <2>2. \A k \in (D \cup {a}) \ {a} : g[k] \in Nat /\ g[k] <= t[k]  BY <1>1, <1>2
    <2> QED  BY <1>3, <2>1, <2>2, TotalGrows
  <1>6. Total(t, D) \in Nat  BY <1>3, TotalCounts
  <1>7. Total(g, (D \cup {a}) \ {a}) \in Nat
    <2>1. IsFiniteSet((D \cup {a}) \ {a})  BY <1>3, FS_Subset
    <2> QED  BY <1>2, <2>1, TotalCounts
  <1>8. Total(t, D) + Estimate <= TokenBudget  BY DEF D
  <1>9. g[a] \in Nat /\ g[a] <= Estimate  BY <1>1, <1>2
  <1>10. Total(g, D \cup {a}) <= TokenBudget
    BY <1>0, <1>4, <1>5, <1>6, <1>7, <1>8, <1>9
  <1> QED  BY <1>10 DEF g, u, D

\* A table of fewer attempts, none at more, has no greater capped total.
LEMMA CappedShrinks ==
  ASSUME NEW t \in Tables, NEW u \in Tables, DOMAIN u \subseteq DOMAIN t,
         \A k \in DOMAIN u : u[k] <= t[k] \/ Estimate <= t[k]
  PROVE  Total(Capped(u), DOMAIN u) <= Total(Capped(t), DOMAIN t)
  <1>1. \A k \in DOMAIN u : Capped(u)[k] \in Nat /\ Capped(u)[k] <= Capped(t)[k]
    BY CappedRule, TableRule, TokensAssumption
  <1>2. IsFiniteSet(DOMAIN t) /\ \A k \in DOMAIN t : Capped(t)[k] \in Nat
    BY CappedRule, TableRule
  <1> QED  BY <1>1, <1>2, TotalGrows

\* What the property counts is the capped total of what the ledger was told of.
LEMMA CountedIsCapped ==
  ASSUME NEW c, Told(c) \in Tables
  PROVE  LET Counted(k) == IF billed[c][k] < Estimate THEN billed[c][k] ELSE Estimate
         IN  MapThenSumSet(Counted, DOMAIN billed[c] \ unreported[c])
               = Total(Capped(Told(c)), DOMAIN Told(c))
  <1> DEFINE D == DOMAIN billed[c] \ unreported[c]
             f == Capped(Told(c))
             Counted(k) == IF billed[c][k] < Estimate THEN billed[c][k] ELSE Estimate
             left(i)  == [s \in SUBSET D |-> IF s = {} THEN 0
                            ELSE Counted(CHOOSE x \in s : TRUE) + i[s \ {CHOOSE x \in s : TRUE}]]
             sum   == CHOOSE i : i = left(i)
             units == [s \in SUBSET D |-> Cardinality(Units(f, s))]
  <1>1. \A s \in SUBSET D : s # {} => f[CHOOSE x \in s : TRUE] = Counted(CHOOSE x \in s : TRUE)
    BY DEF Capped, Told
  <1>2. ASSUME NEW i PROVE i = left(i) <=> Adds(i, f, D)
    BY <1>1 DEF Adds
  <1>3. MapThenSumSet(Counted, D) = sum[D]
    BY DEF MapThenSumSet, MapThenFoldSet
  <1>0. DOMAIN Told(c) = D  BY DEF Told
  <1>4. IsFiniteSet(D) /\ \A x \in D : f[x] \in Nat
    BY <1>0, TableRule, CappedRule
  <1> HIDE DEF D, f, left
  <1>5. Adds(units, f, D)
    BY <1>4, UnitsAdd
  <1>6. Adds(sum, f, D)
    <2> HIDE DEF units
    <2>1. units = left(units)  BY <1>2, <1>5
    <2>2. sum = left(sum)  BY <2>1
    <2> QED  BY <1>2, <2>2
  <1> HIDE DEF sum
  <1>7. D \in SUBSET D  OBVIOUS
  <1>8. sum[D] = units[D]
    BY <1>4, <1>5, <1>6, <1>7, AddsOnce
  <1>9. Total(f, D) = units[D]
    BY <1>4, <1>7, TotalCounts
  <1>10. MapThenSumSet(Counted, D) = Total(f, D)
    BY <1>3, <1>8, <1>9
  <1> QED  BY <1>0, <1>10 DEF D, f

-----------------------------------------------------------------------------
(* Steps of a caller that touch neither the ledger nor the accounting.       *)
LEMMA QuietCaller ==
  ASSUME AgentInvariant, NEW c \in Callers, NEW state \in CallerFields, Move(c, state),
         UNCHANGED <<kind, wired, charges, billed, unreported, invocations>>,
         caller[c].pc \notin {"record", "over"}, wired => state.pc # "invoke",
         state.pc # "over" => state.result = "none" /\ \A k \in DOMAIN billed[c] : Behind(k, state)
  PROVE  AgentInvariant'
  <1>1. /\ caller' \in [Callers -> CallerFields] /\ caller'[c] = state
        /\ \A d \in Callers \ {c} : caller'[d] = caller[d]
    BY DEF AgentInvariant, AgentTypeOK, Move
  <1>2. AgentTypeOK'
    BY <1>1 DEF AgentInvariant, AgentTypeOK
  <1>3. \A d \in Callers : \A k : Noted(d, k)' <=> Noted(d, k)
    BY DEF Noted, CallName
  <1>4. ASSUME NEW d \in Callers PROVE PaymentsAreSound(d)'
    <2>1. PaymentsAreSound(d) /\ PaymentsAreSound(c)  BY DEF AgentInvariant
    <2>2. CASE d = c
      BY <1>1, <1>3, <2>1, <2>2 DEF PaymentsAreSound
    <2>3. CASE d # c
      BY <1>1, <1>3, <2>1, <2>3 DEF PaymentsAreSound, Attempt
    <2> QED  BY <2>2, <2>3
  <1>5. ASSUME wired', NEW d \in Callers PROVE ChargesAreSound(d)'
    <2>1. ChargesAreSound(d)  BY <1>5 DEF AgentInvariant
    <2> QED  BY <1>1, <1>5, <2>1 DEF ChargesAreSound, Attempt
  <1> QED  BY <1>2, <1>4, <1>5 DEF AgentInvariant

LEMMA CallerFacts ==
  ASSUME AgentInvariant, NEW c \in Callers
  PROVE  /\ caller[c] \in CallerFields /\ NewCaller \in CallerFields /\ Attempt(c) \in Tries
         /\ caller[c].pc # "over" =>
              caller[c].result = "none" /\ \A k \in DOMAIN billed[c] : Behind(k, caller[c])
         /\ billed[c] \in Tables /\ charges[c] \in Tables
         /\ \A k \in DOMAIN billed[c] : k \in Tries /\ k[1] \in Nat /\ k[2] \in Nat
         /\ kind[c] \in {"agent", "draft"}
  <1>1. NewCaller \in CallerFields
    BY DEF NewCaller, CallerFields, AgentPoints, Replies, CallerOutcomes
  <1>2. caller[c] \in CallerFields /\ PaymentsAreSound(c) /\ billed[c] \in Tables /\ charges[c] \in Tables
    BY DEF AgentInvariant, AgentTypeOK
  <1>3. \A k \in DOMAIN billed[c] : k \in Tries  BY <1>2, TableRule
  <1>4. Attempt(c) \in Tries  BY <1>2 DEF Attempt, Tries, CallerFields
  <1> QED  BY <1>1, <1>2, <1>3, <1>4 DEF PaymentsAreSound, Tries, AgentInvariant, AgentTypeOK

LEMMA OverState ==
  ASSUME AgentInvariant, NEW c \in Callers, NEW result \in CallerOutcomes, NEW checkpoint \in CallerOutcomes,
         Over(c, result, checkpoint)
  PROVE  \E state \in CallerFields : Move(c, state) /\ state.pc = "over" /\ state.result = result
  <1> DEFINE state == [NewCaller EXCEPT !.pc = "over", !.result = result, !.checkpoint = checkpoint]
  <1>1. NewCaller \in CallerFields  BY CallerFacts
  <1>2. state \in CallerFields /\ state.pc = "over" /\ state.result = result
    BY <1>1 DEF CallerFields, AgentPoints
  <1>3. Move(c, state)  BY DEF Over
  <1> QED  BY <1>2, <1>3

LEMMA ThrownState ==
  ASSUME AgentInvariant, NEW c \in Callers, Throw(c)
  PROVE  \E state \in CallerFields : Move(c, state) /\ state.pc = "over" /\ state.result = "FAILED"
  BY OverState DEF Throw, Settle, CallerOutcomes

\* Variables no quiet step writes.
Quiet == UNCHANGED <<kind, wired, charges, billed, unreported, invocations>>

LEMMA EndsQuietly ==
  ASSUME AgentInvariant, NEW c \in Callers, Quiet, caller[c].pc \notin {"record", "over"},
         Throw(c) \/ \E result, checkpoint \in CallerOutcomes : Over(c, result, checkpoint)
  PROVE  AgentInvariant'
  <1>1. PICK state \in CallerFields : Move(c, state) /\ state.pc = "over"
    BY OverState, ThrownState
  <1> QED  BY <1>1, QuietCaller DEF Quiet

LEMMA GoesOn ==
  ASSUME AgentInvariant, NEW c \in Callers, Quiet, caller[c].pc \notin {"record", "over"},
         NEW point \in AgentPoints \ {"invoke", "over"}, Go(c, point),
         point \in EarlyPoints => caller[c].pc \in EarlyPoints,
         point = "ready" => caller[c].pc = "ready"
  PROVE  AgentInvariant'
  <1> DEFINE state == [caller[c] EXCEPT !.pc = point]
  <1>1. /\ state \in CallerFields /\ state.pc = point /\ state.result = caller[c].result
        /\ state.repair = caller[c].repair /\ state.tried = caller[c].tried
    BY CallerFacts DEF CallerFields
  <1>2. Move(c, state)  BY DEF Go
  <1> HIDE DEF state
  <1>3. \A k \in DOMAIN billed[c] : Behind(k, state)
    BY <1>1, CallerFacts DEF Behind
  <1>4. caller[c].result = "none"  BY CallerFacts
  <1> QED  BY <1>1, <1>2, <1>3, <1>4, QuietCaller DEF Quiet

LEMMA QuietSteps ==
  ASSUME AgentInvariant, NEW c \in Callers,
         \/ StartCaller(c) \/ CheckRequest(c) \/ EvaluatePolicy(c) \/ AssembleContext(c)
         \/ InvokeRouter(c) \/ NextModel(c) \/ NotReady(c) \/ Validate(c) \/ FallBack(c)
         \/ SaveArtifact(c) \/ FinishDraft(c) \/ DecideAgent(c) \/ RunSpecialist(c) \/ FinishAgent(c)
  PROVE  AgentInvariant'
  <1>0. Quiet /\ caller[c].pc \notin {"record", "over"}
    BY DEF Quiet, StartCaller, CheckRequest, EvaluatePolicy, AssembleContext, InvokeRouter, NextModel,
           NotReady, Validate, FallBack, SaveArtifact, FinishDraft, DecideAgent, RunSpecialist, FinishAgent
  <1>1. caller[c] \in CallerFields /\ caller[c].result = "none"
    BY <1>0, CallerFacts
  <1>2. \A k \in DOMAIN billed[c] : Behind(k, caller[c]) /\ k[1] \in Nat /\ k[2] \in Nat
    BY <1>0, CallerFacts
  <1>3. ASSUME NEW state \in CallerFields, Move(c, state), state.pc \notin {"invoke", "over"},
               state.result = "none", \A k \in DOMAIN billed[c] : Behind(k, state)
        PROVE  AgentInvariant'
    BY <1>0, <1>3, QuietCaller DEF Quiet
  <1> DEFINE Plain(point) == /\ point \in AgentPoints \ {"invoke", "over"} /\ Go(c, point)
                             /\ point \in EarlyPoints => caller[c].pc \in EarlyPoints
                             /\ point = "ready" => caller[c].pc = "ready"
             Ends == Throw(c) \/ \E result, checkpoint \in CallerOutcomes : Over(c, result, checkpoint)
             Good == (\E point : Plain(point)) \/ Ends
  <1>4. ASSUME Good PROVE AgentInvariant'
    BY <1>0, <1>4, GoesOn, EndsQuietly
  <1>a. CASE StartCaller(c)
    <2>1. CASE Go(c, "call")
      <3>1. Plain("call")  BY <1>a, <2>1 DEF StartCaller, AgentPoints, EarlyPoints
      <3> QED  BY <1>4, <3>1
    <2>2. CASE Move(c, [caller[c] EXCEPT !.pc = "lookup", !.checkpoint = "RUNNING"])
      <3> DEFINE state == [caller[c] EXCEPT !.pc = "lookup", !.checkpoint = "RUNNING"]
      <3>1. /\ state \in CallerFields /\ state.pc = "lookup" /\ state.result = "none"
            /\ state.repair = caller[c].repair /\ state.tried = caller[c].tried
        BY <1>1 DEF CallerFields, AgentPoints, CallerOutcomes
      <3>2. caller[c].pc = "idle"  BY <1>a DEF StartCaller
      <3>3. Move(c, state)  BY <2>2
      <3> HIDE DEF state
      <3>4. \A k \in DOMAIN billed[c] : Behind(k, state)
        BY <1>2, <3>1, <3>2 DEF Behind, EarlyPoints
      <3> QED  BY <1>3, <3>1, <3>3, <3>4
    <2> QED  BY <1>a, <2>1, <2>2 DEF StartCaller
  <1>b. CASE CheckRequest(c)
    <2>1. Plain("policy") \/ Throw(c)  BY <1>b DEF CheckRequest, AgentPoints, EarlyPoints
    <2> QED  BY <1>4, <2>1
  <1>c. CASE EvaluatePolicy(c)
    <2>1. Plain("context") \/ Ends
      BY <1>c DEF EvaluatePolicy, AgentPoints, EarlyPoints, Settle, CallerOutcomes
    <2> QED  BY <1>4, <2>1
  <1>d. CASE AssembleContext(c)
    <2>1. Plain("call") \/ Throw(c)  BY <1>d DEF AssembleContext, AgentPoints, EarlyPoints
    <2> QED  BY <1>4, <2>1
  <1>e. CASE InvokeRouter(c)
    <2>1. CASE Throw(c)  BY <1>4, <2>1
    <2>2. CASE Move(c, [caller[c] EXCEPT !.pc = "next", !.tried = 0, !.reply = "none"])
      <3> DEFINE state == [caller[c] EXCEPT !.pc = "next", !.tried = 0, !.reply = "none"]
      <3>1. /\ state \in CallerFields /\ state.pc = "next" /\ state.result = "none"
            /\ state.repair = caller[c].repair
        BY <1>1 DEF CallerFields, AgentPoints, Replies
      <3>2. caller[c].pc = "call"  BY <1>e DEF InvokeRouter
      <3>3. Move(c, state)  BY <2>2
      <3> HIDE DEF state
      <3>4. \A k \in DOMAIN billed[c] : Behind(k, state)
        BY <1>2, <3>1, <3>2 DEF Behind, EarlyPoints
      <3> QED  BY <1>3, <3>1, <3>3, <3>4
    <2> QED  BY <1>e, <2>1, <2>2 DEF InvokeRouter
  <1>f. CASE NextModel(c)
    <2>1. CASE Throw(c)  BY <1>4, <2>1
    <2>2. CASE \E point \in {"ready", "next"} : Move(c, [caller[c] EXCEPT !.tried = caller[c].tried + 1, !.pc = point])
      <3>0. PICK point \in {"ready", "next"} : Move(c, [caller[c] EXCEPT !.tried = caller[c].tried + 1, !.pc = point])
        BY <2>2
      <3> DEFINE n == caller[c].tried + 1
                 state == [caller[c] EXCEPT !.tried = n, !.pc = point]
      <3>a. n \in Nat  BY <1>1 DEF CallerFields
      <3>3. Move(c, state)  BY <3>0
      <3> HIDE DEF n
      <3>1. /\ state \in CallerFields /\ state.pc = point /\ state.result = "none"
            /\ state.repair = caller[c].repair /\ state.tried = n
        BY <1>1, <3>a DEF CallerFields, AgentPoints
      <3>2. caller[c].pc = "next" /\ caller[c].tried \in Nat /\ n = caller[c].tried + 1
        BY <1>1, <1>f DEF NextModel, CallerFields, n
      <3> HIDE DEF state
      <3>4. \A k \in DOMAIN billed[c] : Behind(k, state)
        BY <1>2, <3>1, <3>2 DEF Behind, EarlyPoints
      <3> QED  BY <1>3, <3>1, <3>3, <3>4
    <2> QED  BY <1>f, <2>1, <2>2 DEF NextModel
  <1>g. CASE NotReady(c)
    BY <1>4, <1>g DEF NotReady
  <1>h. CASE Validate(c)
    <2>1. CASE Go(c, "fallback")
      <3>1. Plain("fallback")  BY <2>1 DEF AgentPoints, EarlyPoints
      <3> QED  BY <1>4, <3>1
    <2> DEFINE spent == caller[c].spent + caller[c].usage
               more == caller[c].repair + 1
               again == [caller[c] EXCEPT !.pc = "call", !.repair = more, !.spent = spent]
    <2>2. CASE Move(c, again)
      <3>0. spent \in Nat /\ caller[c].repair \in Nat /\ more \in Nat /\ more = caller[c].repair + 1
        BY <1>1 DEF CallerFields
      <3> HIDE DEF spent, more
      <3>1. /\ again \in CallerFields /\ again.pc = "call" /\ again.result = "none"
            /\ again.repair = more
        BY <1>1, <3>0 DEF CallerFields, AgentPoints
      <3> HIDE DEF again
      <3>4. \A k \in DOMAIN billed[c] : Behind(k, again)
        BY <1>2, <3>0, <3>1 DEF Behind
      <3> QED  BY <1>3, <2>2, <3>1, <3>4
    <2>3. CASE \E confident \in BOOLEAN :
                 Move(c, [caller[c] EXCEPT !.pc = "save", !.reply = "none", !.confident = confident,
                                           !.reported = caller[c].usage])
      <3>0. PICK confident \in BOOLEAN :
              Move(c, [caller[c] EXCEPT !.pc = "save", !.reply = "none", !.confident = confident,
                                        !.reported = caller[c].usage])
        BY <2>3
      <3> DEFINE state == [caller[c] EXCEPT !.pc = "save", !.reply = "none", !.confident = confident,
                                            !.reported = caller[c].usage]
      <3>1. /\ state \in CallerFields /\ state.pc = "save" /\ state.result = "none"
            /\ state.repair = caller[c].repair /\ state.tried = caller[c].tried
        BY <1>1 DEF CallerFields, AgentPoints, Replies
      <3>2. caller[c].pc = "validate"  BY <1>h DEF Validate
      <3>3. Move(c, state)  BY <3>0
      <3> HIDE DEF state
      <3>4. \A k \in DOMAIN billed[c] : Behind(k, state)
        BY <1>2, <3>1, <3>2 DEF Behind, EarlyPoints
      <3> QED  BY <1>3, <3>1, <3>3, <3>4
    <2> QED  BY <1>h, <2>1, <2>2, <2>3 DEF Validate
  <1>i. CASE FallBack(c)
    <2> DEFINE state == [caller[c] EXCEPT !.pc = "save", !.reported = 0, !.confident = FALSE]
    <2>1. /\ state \in CallerFields /\ state.pc = "save" /\ state.result = "none"
          /\ state.repair = caller[c].repair /\ state.tried = caller[c].tried
      BY <1>1 DEF CallerFields, AgentPoints
    <2>2. Move(c, state) /\ caller[c].pc = "fallback"  BY <1>i DEF FallBack
    <2> HIDE DEF state
    <2>3. \A k \in DOMAIN billed[c] : Behind(k, state)
      BY <1>2, <2>1, <2>2 DEF Behind, EarlyPoints
    <2> QED  BY <1>3, <2>1, <2>2, <2>3
  <1>j. CASE SaveArtifact(c)
    <2>1. Plain("decide") \/ Throw(c)  BY <1>j DEF SaveArtifact, AgentPoints, EarlyPoints
    <2> QED  BY <1>4, <2>1
  <1>k. CASE FinishDraft(c)
    <2>1. Ends  BY <1>k DEF FinishDraft, CallerOutcomes
    <2> QED  BY <1>4, <2>1
  <1>l. CASE DecideAgent(c)
    <2>1. Plain("specialist") \/ Ends
      BY <1>l DEF DecideAgent, AgentPoints, EarlyPoints, Settle, CallerOutcomes
    <2> QED  BY <1>4, <2>1
  <1>m. CASE RunSpecialist(c)
    <2>1. CASE Settle(c, "FAILED")
      <3>1. Ends  BY <2>1 DEF Settle, CallerOutcomes
      <3> QED  BY <1>4, <3>1
    <2>2. ASSUME NEW status \in {"COMPLETED", "FAILED", "AWAITING_APPROVAL"},
                 Move(c, [caller[c] EXCEPT !.pc = "finish", !.checkpoint = status])
          PROVE  AgentInvariant'
      <3> DEFINE state == [caller[c] EXCEPT !.pc = "finish", !.checkpoint = status]
      <3>1. /\ state \in CallerFields /\ state.pc = "finish" /\ state.result = "none"
            /\ state.repair = caller[c].repair /\ state.tried = caller[c].tried
        BY <1>1 DEF CallerFields, AgentPoints, CallerOutcomes
      <3>2. Move(c, state) /\ caller[c].pc = "specialist"  BY <1>m, <2>2 DEF RunSpecialist
      <3> HIDE DEF state
      <3>3. \A k \in DOMAIN billed[c] : Behind(k, state)
        BY <1>2, <3>1, <3>2 DEF Behind, EarlyPoints
      <3> QED  BY <1>3, <3>1, <3>2, <3>3
    <2> QED  BY <1>m, <2>1, <2>2 DEF RunSpecialist
  <1>n. CASE FinishAgent(c)
    <2>1. caller[c].checkpoint \in CallerOutcomes  BY <1>1 DEF CallerFields
    <2>2. Ends  BY <1>n, <2>1 DEF FinishAgent, Settle, CallerOutcomes
    <2> QED  BY <1>4, <2>2
  <1> QED  BY <1>a, <1>b, <1>c, <1>d, <1>e, <1>f, <1>g, <1>h, <1>i, <1>j, <1>k, <1>l, <1>m, <1>n

-----------------------------------------------------------------------------
(* Steps that reserve, charge or record an attempt.                          *)
LEMMA ReserveKeeps ==
  ASSUME AgentInvariant, NEW c \in Callers, TryReserve(c)
  PROVE  AgentInvariant'
  <1>0. /\ caller[c] \in CallerFields /\ caller[c].result = "none" /\ caller[c].pc = "ready"
        /\ charges[c] \in Tables /\ Attempt(c) \in Tries /\ UNCHANGED <<kind, wired, billed, unreported, invocations>>
    BY CallerFacts DEF TryReserve
  <1>1. \A k \in DOMAIN billed[c] : Behind(k, caller[c]) /\ k[1] \in Nat /\ k[2] \in Nat
    BY <1>0, CallerFacts
  <1> DEFINE blocked == [caller[c] EXCEPT !.pc = "record", !.reply = "blocked"]
             state   == [caller[c] EXCEPT !.pc = "invoke"]
  <1>2. CASE Move(c, blocked) /\ UNCHANGED charges
    <2>1. /\ blocked \in CallerFields /\ blocked.pc = "record" /\ blocked.result = "none"
          /\ blocked.repair = caller[c].repair /\ blocked.tried = caller[c].tried
      BY <1>0 DEF CallerFields, AgentPoints, Replies
    <2> HIDE DEF blocked
    <2>2. \A k \in DOMAIN billed[c] : Behind(k, blocked)
      BY <1>0, <1>1, <2>1 DEF Behind, EarlyPoints
    <2> QED  BY <1>0, <1>2, <2>1, <2>2, QuietCaller
  <1>3. /\ state \in CallerFields /\ state.pc = "invoke" /\ state.result = "none"
        /\ state.repair = caller[c].repair /\ state.tried = caller[c].tried
    BY <1>0 DEF CallerFields, AgentPoints
  <1> HIDE DEF state, blocked
  <1>4. \A k \in DOMAIN billed[c] : Behind(k, state)
    BY <1>0, <1>1, <1>3 DEF Behind, EarlyPoints
  <1>5. CASE ~wired /\ Move(c, state) /\ UNCHANGED charges
    BY <1>0, <1>3, <1>4, <1>5, QuietCaller
  <1>6. CASE /\ wired /\ Fits(c) /\ Move(c, state)
             /\ charges' = [charges EXCEPT ![c] = Charged(charges[c], Attempt(c), Estimate)]
    <2> DEFINE t == charges[c]
               a == Attempt(c)
               u == Charged(t, a, Estimate)
    <2>0. Estimate \in Nat  BY TokensAssumption
    <2>1. /\ u \in Tables /\ DOMAIN u = DOMAIN t \cup {a} /\ u[a] = Estimate
          /\ \A k \in DOMAIN t \ {a} : u[k] = t[k]
      <3>1. t \in Tables /\ a \in Tries  BY <1>0
      <3> HIDE DEF t, a
      <3> QED  BY <2>0, <3>1, ChargedRule, ZenonT(90)
    <2>2. Total(Capped(u), DOMAIN u) <= TokenBudget
      BY <1>0, <1>6, <2>1, AccumulatedIsTotal, ReserveFits DEF Fits
    <2> HIDE DEF u
    <2>3. /\ charges' \in [Callers -> Tables] /\ charges'[c] = u
          /\ \A d \in Callers \ {c} : charges'[d] = charges[d]
      BY <1>6, <2>1 DEF AgentInvariant, AgentTypeOK, u
    <2>4. /\ caller' \in [Callers -> CallerFields] /\ caller'[c] = state
          /\ \A d \in Callers \ {c} : caller'[d] = caller[d]
      BY <1>3, <1>6 DEF AgentInvariant, AgentTypeOK, Move
    <2>5. AgentTypeOK'
      BY <1>0, <2>3, <2>4 DEF AgentInvariant, AgentTypeOK
    <2>6. \A d \in Callers : \A k : Noted(d, k)' <=> Noted(d, k)
      BY <1>0 DEF Noted, CallName
    <2>7. ASSUME NEW d \in Callers PROVE PaymentsAreSound(d)'
      <3>1. PaymentsAreSound(d)  BY DEF AgentInvariant
      <3>2. CASE d = c
        BY <1>0, <1>3, <1>4, <2>4, <2>6, <3>1, <3>2 DEF PaymentsAreSound
      <3>3. CASE d # c
        BY <1>0, <2>4, <2>6, <3>1, <3>3 DEF PaymentsAreSound, Attempt
      <3> QED  BY <3>2, <3>3
    <2>8. ASSUME NEW d \in Callers PROVE ChargesAreSound(d)'
      <3>1. ChargesAreSound(d)  BY <1>6 DEF AgentInvariant
      <3>2. CASE d = c
        <4>1. Attempt(c)' = a  BY <1>3, <2>4 DEF Attempt
        <4>2. \A k \in DOMAIN billed[c] \ unreported[c] : k \in DOMAIN u /\ (billed[c][k] <= u[k] \/ Estimate <= u[k])
          BY <2>0, <2>1, <3>1, <3>2 DEF ChargesAreSound
        <4> QED  BY <1>0, <2>1, <2>2, <2>3, <3>2, <4>1, <4>2 DEF ChargesAreSound
      <3>3. CASE d # c
        BY <1>0, <2>3, <2>4, <3>1, <3>3 DEF ChargesAreSound, Attempt
      <3> QED  BY <3>2, <3>3
    <2> QED  BY <2>5, <2>7, <2>8 DEF AgentInvariant
  <1> QED  BY <1>2, <1>5, <1>6 DEF TryReserve, Go, blocked, state

LEMMA ProviderKeeps ==
  ASSUME AgentInvariant, NEW c \in Callers, InvokeProvider(c)
  PROVE  AgentInvariant'
  <1>0. /\ caller[c] \in CallerFields /\ caller[c].result = "none" /\ caller[c].pc = "invoke"
        /\ charges[c] \in Tables /\ billed[c] \in Tables /\ Attempt(c) \in Tries
        /\ UNCHANGED <<kind, wired, invocations>>
    BY CallerFacts DEF InvokeProvider
  <1>1. \A k \in DOMAIN billed[c] : Behind(k, caller[c]) /\ k \in Tries /\ k[1] \in Nat /\ k[2] \in Nat
    BY <1>0, CallerFacts
  <1> DEFINE Answer(reply, took, reported) ==
               /\ unreported' = IF reply \in {"ok", "malformed"} /\ reported < took
                                  THEN [unreported EXCEPT ![c] = unreported[c] \cup {Attempt(c)}] ELSE unreported
               /\ billed' = IF reply = "unsent" THEN billed
                            ELSE [billed EXCEPT ![c] = Charged(billed[c], Attempt(c), took)]
               /\ charges' = IF wired THEN [charges EXCEPT ![c] = Reconciled(charges[c], Attempt(c), reply, reported)]
                                      ELSE charges
               /\ IF reply = "garbled" THEN Throw(c)
                  ELSE Move(c, [caller[c] EXCEPT !.pc = "record", !.reply = reply,
                                                 !.usage = IF reply = "ok" THEN reported ELSE 0])
  <1>a. PICK reply \in ProviderReplies, took \in Usages : \E reported \in {0, took} : Answer(reply, took, reported)
    BY DEF InvokeProvider
  <1>b. PICK reported \in {0, took} : Answer(reply, took, reported)
    BY <1>a
  <1>2. Answer(reply, took, reported)
    BY <1>b
  <1>3. took \in Nat /\ reported \in Nat /\ Estimate \in Nat  BY TokensAssumption
  <1> DEFINE t == charges[c]
             b == billed[c]
             a == Attempt(c)
             u == IF wired THEN Reconciled(t, a, reply, reported) ELSE t
             v == IF reply = "unsent" THEN b ELSE Charged(b, a, took)
             n == IF reply = "ok" THEN reported ELSE 0
             w == unreported'[c]
             recorded == [caller[c] EXCEPT !.pc = "record", !.reply = reply, !.usage = n]
  <1>4. PICK state \in CallerFields :
          /\ Move(c, state)
          /\ \/ state.pc = "over" /\ state.result = "FAILED"
             \/ /\ state.pc = "record" /\ state.result = "none"
                /\ state.repair = caller[c].repair /\ state.tried = caller[c].tried
    <2>1. CASE reply = "garbled"  BY <1>2, <2>1, ThrownState
    <2>2. CASE reply # "garbled"
      <3>1. Move(c, recorded)  BY <1>2, <2>2
      <3>2. n \in Nat  BY <1>3
      <3> HIDE DEF n
      <3>3. /\ recorded \in CallerFields /\ recorded.pc = "record" /\ recorded.result = "none"
            /\ recorded.repair = caller[c].repair /\ recorded.tried = caller[c].tried
        BY <1>0, <3>2 DEF CallerFields, AgentPoints, Replies
      <3> QED  BY <3>1, <3>3
    <2> QED  BY <2>1, <2>2
  <1>5. /\ Charged(b, a, took) \in Tables /\ DOMAIN Charged(b, a, took) = DOMAIN b \cup {a}
        /\ Charged(b, a, took)[a] = took
        /\ \A k \in DOMAIN b \ {a} : Charged(b, a, took)[k] = b[k]
    <2>1. b \in Tables /\ a \in Tries  BY <1>0
    <2> HIDE DEF b, a
    <2> QED  BY <1>3, <2>1, ChargedRule, ZenonT(90)
  <1>6. /\ Charged(t, a, reported) \in Tables /\ DOMAIN Charged(t, a, reported) = DOMAIN t \cup {a}
        /\ Charged(t, a, reported)[a] = reported
        /\ \A k \in DOMAIN t \ {a} : Charged(t, a, reported)[k] = t[k]
    <2>1. t \in Tables /\ a \in Tries  BY <1>0
    <2> HIDE DEF t, a
    <2> QED  BY <1>3, <2>1, ChargedRule, ZenonT(90)
  <1>7. [k \in DOMAIN t \ {a} |-> t[k]] \in Tables  BY <1>0, ReleasedRule
  <1>8. v \in Tables /\ DOMAIN v \subseteq DOMAIN b \cup {a}  BY <1>0, <1>5
  <1>9. u \in Tables  BY <1>0, <1>6, <1>7 DEF Reconciled
  <1>10. /\ charges' \in [Callers -> Tables] /\ charges'[c] = u
         /\ \A d \in Callers \ {c} : charges'[d] = charges[d]
    BY <1>2, <1>9 DEF AgentInvariant, AgentTypeOK
  <1>11. /\ billed' \in [Callers -> Tables] /\ billed'[c] = v
         /\ \A d \in Callers \ {c} : billed'[d] = billed[d]
    BY <1>2, <1>8 DEF AgentInvariant, AgentTypeOK
  <1>12. /\ caller' \in [Callers -> CallerFields] /\ caller'[c] = state
         /\ \A d \in Callers \ {c} : caller'[d] = caller[d]
    BY <1>4 DEF AgentInvariant, AgentTypeOK, Move
  <1>19. /\ DOMAIN unreported' = Callers /\ unreported[c] \subseteq w
         /\ reply \in {"ok", "malformed"} => a \in w \/ reported = took
         /\ \A d \in Callers \ {c} : unreported'[d] = unreported[d]
    <2>1. DOMAIN unreported = Callers  BY DEF AgentInvariant, AgentTypeOK
    <2> HIDE DEF a
    <2>2. CASE reply \in {"ok", "malformed"} /\ reported < took
      <3>1. unreported' = [unreported EXCEPT ![c] = unreported[c] \cup {a}]  BY <1>2, <2>2 DEF a
      <3> QED  BY <2>1, <3>1
    <2>3. CASE ~(reply \in {"ok", "malformed"} /\ reported < took)
      <3>1. unreported' = unreported  BY <1>2, <2>3
      <3>2. reported < took \/ reported = took  BY <1>2, <1>3
      <3> QED  BY <2>1, <2>3, <3>1, <3>2
    <2> QED  BY <2>2, <2>3
  <1> HIDE DEF w
  <1>13. AgentTypeOK'
    BY <1>0, <1>10, <1>11, <1>12, <1>19 DEF AgentInvariant, AgentTypeOK
  <1>14. \A d \in Callers : \A k : Noted(d, k)' <=> Noted(d, k)
    BY <1>0 DEF Noted, CallName
  <1>15. a \notin DOMAIN b
    BY <1>0, <1>1 DEF Attempt, Behind, CallerFields
  <1>16. ASSUME wired PROVE ChargesAreSound(c)'
    <2>1. ChargesAreSound(c)  BY <1>16 DEF AgentInvariant
    <2>2. a \in DOMAIN t /\ t[a] = Estimate  BY <1>0, <2>1 DEF ChargesAreSound
    <2>3. \A k \in DOMAIN b \ w : k \in DOMAIN t /\ (b[k] <= t[k] \/ Estimate <= t[k])
      BY <1>19, <2>1 DEF ChargesAreSound
    <2>4. /\ DOMAIN u \subseteq DOMAIN t
          /\ \A k \in DOMAIN u : u[k] <= t[k] \/ Estimate <= t[k]
          /\ \A k \in DOMAIN v \ w : k \in DOMAIN u /\ (v[k] <= u[k] \/ Estimate <= u[k])
      <3>0. \A k \in DOMAIN t : t[k] \in Nat  BY <1>0, TableRule
      <3>1. CASE reply \in {"ok", "malformed"}
        <4>1. u = Charged(t, a, reported) /\ v = Charged(b, a, took)
          BY <1>16, <3>1 DEF Reconciled
        <4> HIDE DEF u, v, t, b, a
        <4>2. a \in w \/ reported = took  BY <1>19, <3>1
        <4>3. ASSUME NEW k \in DOMAIN v \ w PROVE k \in DOMAIN u /\ (v[k] <= u[k] \/ Estimate <= u[k])
          <5>1. CASE k = a
            <6>1. reported = took  BY <4>2, <4>3, <5>1
            <6>2. v[k] = took /\ u[k] = took /\ k \in DOMAIN u  BY <1>5, <1>6, <4>1, <5>1, <6>1
            <6> QED  BY <1>3, <6>2
          <5>2. CASE k # a  BY <1>5, <1>6, <2>3, <4>1, <4>3, <5>2
          <5> QED  BY <5>1, <5>2
        <4>4. DOMAIN u \subseteq DOMAIN t  BY <1>6, <2>2, <4>1
        <4>5. \A k \in DOMAIN u : u[k] <= t[k] \/ Estimate <= t[k]
          BY <1>3, <1>6, <2>2, <3>0, <4>1
        <4> QED  BY <4>3, <4>4, <4>5
      <3>2. CASE reply = "unsent"
        <4>1. u = [k \in DOMAIN t \ {a} |-> t[k]] /\ v = b
          BY <1>16, <3>2 DEF Reconciled
        <4> QED  BY <1>3, <1>15, <2>2, <2>3, <3>0, <4>1
      <3>3. CASE reply \notin {"ok", "malformed", "unsent"}
        <4>1. u = t /\ v = Charged(b, a, took)
          BY <1>16, <3>3 DEF Reconciled
        <4> QED  BY <1>3, <1>5, <1>15, <2>2, <2>3, <3>0, <4>1
      <3> QED  BY <3>1, <3>2, <3>3
    <2> HIDE DEF u, v
    <2>5. Total(Capped(u), DOMAIN u) <= Total(Capped(t), DOMAIN t)
      BY <1>0, <1>9, <2>4, CappedShrinks
    <2>6. Total(Capped(u), DOMAIN u) <= TokenBudget
      <3>1. Total(Capped(t), DOMAIN t) <= TokenBudget  BY <2>1 DEF ChargesAreSound
      <3>2. Total(Capped(t), DOMAIN t) \in Nat /\ Total(Capped(u), DOMAIN u) \in Nat
        BY <1>0, <1>9, CappedRule
      <3> QED  BY <2>5, <3>1, <3>2, TokensAssumption
    <2>7. ASSUME NEW k \in (DOMAIN billed[c] \ unreported[c])'
          PROVE  k \in DOMAIN u /\ (v[k] <= u[k] \/ Estimate <= u[k])
      BY <1>11, <2>4, <2>7 DEF w
    <2> QED  BY <1>4, <1>10, <1>11, <1>12, <2>6, <2>7 DEF ChargesAreSound
  <1> HIDE DEF u, v
  <1>17. ASSUME NEW d \in Callers PROVE PaymentsAreSound(d)'
    <2>1. PaymentsAreSound(d) /\ PaymentsAreSound(c)  BY DEF AgentInvariant
    <2>2. CASE d = c
      <3>1. Attempt(c)' = a \/ state.pc = "over"  BY <1>4, <1>12 DEF Attempt
      <3>2. state.pc # "over" => \A k \in DOMAIN v : Behind(k, state)
        <4>1. a[1] = caller[c].repair /\ a[2] = caller[c].tried  BY DEF Attempt
        <4>2. ASSUME state.pc # "over", NEW k \in DOMAIN v PROVE Behind(k, state)
          <5>1. CASE k = a  BY <1>4, <4>1, <4>2, <5>1 DEF Behind, EarlyPoints
          <5>2. CASE k # a
            <6>1. Behind(k, caller[c])  BY <1>1, <1>8, <5>2
            <6> QED  BY <1>0, <1>4, <4>2, <6>1 DEF Behind, EarlyPoints
          <5> QED  BY <5>1, <5>2
        <4> QED  BY <4>2
      <3>3. \A k \in DOMAIN b : Noted(c, k)  BY <1>0, <2>1 DEF PaymentsAreSound
      <3> HIDE DEF a
      <3> QED  BY <1>4, <1>8, <1>11, <1>12, <1>14, <2>2, <3>1, <3>2, <3>3 DEF PaymentsAreSound
    <2>3. CASE d # c
      BY <1>0, <1>11, <1>12, <1>14, <2>1, <2>3 DEF PaymentsAreSound, Attempt
    <2> QED  BY <2>2, <2>3
  <1>18. ASSUME wired', NEW d \in Callers PROVE ChargesAreSound(d)'
    <2>1. ChargesAreSound(d)  BY <1>0, <1>18 DEF AgentInvariant
    <2>2. CASE d = c  BY <1>0, <1>16, <1>18, <2>2
    <2>3. CASE d # c
      BY <1>10, <1>11, <1>12, <1>19, <2>1, <2>3 DEF ChargesAreSound, Attempt
    <2> QED  BY <2>2, <2>3
  <1> QED  BY <1>13, <1>17, <1>18 DEF AgentInvariant

LEMMA RecordKeeps ==
  ASSUME AgentInvariant, NEW c \in Callers, RecordAttempt(c)
  PROVE  AgentInvariant'
  <1>0. /\ caller[c] \in CallerFields /\ caller[c].result = "none" /\ caller[c].pc = "record"
        /\ UNCHANGED <<kind, wired, charges, billed, unreported>>
    BY CallerFacts DEF RecordAttempt
  <1>1. \A k \in DOMAIN billed[c] : Behind(k, caller[c]) /\ k[1] \in Nat /\ k[2] \in Nat
    BY <1>0, CallerFacts
  <1>2. ASSUME NEW point \in {"validate", "next", "fallback"}, Go(c, point)
        PROVE  \E state \in CallerFields :
                 /\ Move(c, state) /\ state.pc = point /\ state.result = "none"
                 /\ \A k \in DOMAIN billed[c] : Behind(k, state)
    <2> DEFINE state == [caller[c] EXCEPT !.pc = point]
    <2>1. /\ state \in CallerFields /\ state.pc = point /\ state.result = "none"
          /\ state.repair = caller[c].repair /\ state.tried = caller[c].tried
      BY <1>0 DEF CallerFields, AgentPoints
    <2>2. Move(c, state)  BY <1>2 DEF Go
    <2> HIDE DEF state
    <2>3. \A k \in DOMAIN billed[c] : Behind(k, state)
      BY <1>0, <1>1, <2>1 DEF Behind, EarlyPoints
    <2> QED  BY <2>1, <2>2, <2>3
  <1>3. caller[c].reply \in DOMAIN AfterAttempt => AfterAttempt[caller[c].reply] \in {"validate", "next", "fallback"}
    BY DEF AfterAttempt
  <1>4. \/ Throw(c)
        \/ /\ invocations' = invocations \cup {Row(c)}
           /\ \E point \in {"validate", "next", "fallback"} : Go(c, point)
    BY <1>3 DEF RecordAttempt, Unrecorded
  <1>5. invocations \subseteq invocations'  BY DEF RecordAttempt
  <1>6. PICK state \in CallerFields :
          /\ Move(c, state)
          /\ \/ state.pc = "over" /\ state.result = "FAILED"
             \/ /\ state.pc \in {"validate", "next", "fallback"} /\ state.result = "none"
                /\ invocations' = invocations \cup {Row(c)}
                /\ \A k \in DOMAIN billed[c] : Behind(k, state)
    BY <1>2, <1>4, ThrownState
  <1>7. /\ caller' \in [Callers -> CallerFields] /\ caller'[c] = state
        /\ \A d \in Callers \ {c} : caller'[d] = caller[d]
    BY <1>6 DEF AgentInvariant, AgentTypeOK, Move
  <1>8. AgentTypeOK'
    BY <1>0, <1>7 DEF AgentInvariant, AgentTypeOK
  <1>9. \A d \in Callers : \A k : Noted(d, k) => Noted(d, k)'
    BY <1>0, <1>5 DEF Noted, CallName
  <1>11. ASSUME NEW d \in Callers PROVE PaymentsAreSound(d)'
    <2>1. PaymentsAreSound(d)  BY DEF AgentInvariant
    <2>2. CASE d = c
      <3>1. \A k \in DOMAIN billed[c] : Noted(c, k) \/ k = Attempt(c)
        BY <1>0, <2>1, <2>2 DEF PaymentsAreSound
      <3>2. state.result # "FAILED" => \A k \in DOMAIN billed[c] : Noted(c, k)'
        <4> SUFFICES ASSUME state.result # "FAILED", NEW k \in DOMAIN billed[c] PROVE Noted(c, k)'
          OBVIOUS
        <4>2. CASE Noted(c, k)  BY <1>9, <4>2
        <4>3. CASE k = Attempt(c)
          <5>1. Row(c) \in invocations'  BY <1>6
          <5>2. Row(c).call = CallName(c) /\ Row(c).attempt = k /\ Row(c).by = c
            BY <4>3 DEF Row
          <5>3. CallName(c)' = CallName(c)  BY <1>0 DEF CallName
          <5> QED  BY <5>1, <5>2, <5>3 DEF Noted
        <4> QED  BY <3>1, <4>2, <4>3
      <3> QED  BY <1>0, <1>6, <1>7, <2>2, <3>2 DEF PaymentsAreSound
    <2>3. CASE d # c
      BY <1>0, <1>7, <1>9, <2>1, <2>3 DEF PaymentsAreSound, Attempt
    <2> QED  BY <2>2, <2>3
  <1>12. ASSUME wired', NEW d \in Callers PROVE ChargesAreSound(d)'
    <2>1. ChargesAreSound(d)  BY <1>0, <1>12 DEF AgentInvariant
    <2> QED  BY <1>0, <1>6, <1>7, <2>1 DEF ChargesAreSound, Attempt
  <1> QED  BY <1>8, <1>11, <1>12 DEF AgentInvariant

LEMMA AgentInitIsSound == AgentInit => AgentInvariant
  <1> SUFFICES ASSUME AgentInit PROVE AgentInvariant
    OBVIOUS
  <1>1. NoCharge \in Tables /\ DOMAIN NoCharge = {}
    <2>1. NoCharge \in [{} -> Nat] /\ {} \in SUBSET Tries  BY DEF NoCharge
    <2> QED  BY <2>1, TableRule, FS_EmptySet DEF NoCharge
  <1>2. NewCaller \in CallerFields
    BY DEF NewCaller, CallerFields, AgentPoints, Replies, CallerOutcomes
  <1>3. AgentTypeOK
    BY <1>1, <1>2 DEF AgentInit, AgentTypeOK
  <1>4. \A c \in Callers : caller[c] = NewCaller /\ charges[c] = NoCharge /\ billed[c] = NoCharge
    BY DEF AgentInit
  <1>5. NewCaller.pc = "idle" /\ NewCaller.result = "none"  BY DEF NewCaller
  <1>6. \A c \in Callers : PaymentsAreSound(c)
    BY <1>1, <1>4, <1>5 DEF PaymentsAreSound
  <1>7. Total(Capped(NoCharge), {}) = 0
    <2>1. IsFiniteSet({})  BY FS_EmptySet
    <2>2. Units(Capped(NoCharge), {}) = {}  BY DEF Units
    <2> QED  BY <2>1, <2>2, TotalCounts, FS_EmptySet
  <1>8. \A c \in Callers : ChargesAreSound(c)
    BY <1>1, <1>4, <1>5, <1>7, TokensAssumption DEF ChargesAreSound
  <1> QED  BY <1>3, <1>6, <1>8 DEF AgentInvariant

LEMMA AgentStepKeeps ==
  ASSUME AgentInvariant, [AgentNext]_agentVars
  PROVE  AgentInvariant'
  <1>1. CASE UNCHANGED agentVars
    BY <1>1 DEF agentVars, AgentInvariant, AgentTypeOK, PaymentsAreSound, ChargesAreSound,
       Attempt, Noted, CallName
  <1>2. ASSUME NEW c \in Callers, AgentStep(c) PROVE AgentInvariant'
    BY <1>2, QuietSteps, ReserveKeeps, ProviderKeeps, RecordKeeps DEF AgentStep
  <1> QED  BY <1>1, <1>2 DEF AgentNext

LEMMA AgentHolds == AgentSpec => []AgentInvariant
  BY AgentInitIsSound, AgentStepKeeps, PTL DEF AgentSpec

(* A call that answers was billed nothing that llm_invocations does not hold: *)
(* the router's listener writes the row of an attempt before anything else,   *)
(* and what throws there fails the call.                                      *)
THEOREM PaymentsAreRecorded == AgentSpec => []PaidCallsAreRecorded
  <1>1. AgentInvariant => PaidCallsAreRecorded
    <2> SUFFICES ASSUME AgentInvariant, NEW c \in Callers, caller[c].result \notin {"none", "FAILED"},
                        NEW k \in DOMAIN billed[c]
                 PROVE  \E r \in invocations : r.call = CallName(c) /\ r.attempt = k /\ r.by = c
      BY DEF PaidCallsAreRecorded
    <2>1. PaymentsAreSound(c)  BY DEF AgentInvariant
    <2>2. caller[c].pc = "over"  BY <2>1 DEF PaymentsAreSound
    <2> QED  BY <2>1, <2>2 DEF PaymentsAreSound, Noted
  <1> QED  BY <1>1, AgentHolds, PTL

(* The reservation of tryReserve counts what is charged already, a charge is  *)
(* given back only for an attempt that never left, and an answer that reports *)
(* its usage is charged that: so what an execution's attempts took, but for   *)
(* the answers without their usage, holds to its budget, however many repairs *)
(* and fallbacks there were.                                                  *)
THEOREM BudgetsHold == AgentSpec => []SpendingWithinBudget
  <1>1. AgentInvariant => SpendingWithinBudget
    <2> SUFFICES ASSUME AgentInvariant, wired, NEW c \in Callers
                 PROVE  LET Counted(k) == IF billed[c][k] < Estimate THEN billed[c][k] ELSE Estimate
                        IN  MapThenSumSet(Counted, DOMAIN billed[c] \ unreported[c]) <= TokenBudget
      BY DEF SpendingWithinBudget
    <2>1. ChargesAreSound(c) /\ billed[c] \in Tables /\ charges[c] \in Tables
      BY CallerFacts DEF AgentInvariant
    <2>2. Told(c) \in Tables  BY <2>1, ReleasedRule DEF Told
    <2>3. /\ DOMAIN Told(c) \subseteq DOMAIN charges[c]
          /\ \A k \in DOMAIN Told(c) : Told(c)[k] <= charges[c][k] \/ Estimate <= charges[c][k]
      BY <2>1 DEF ChargesAreSound, Told
    <2> DEFINE spent   == Total(Capped(Told(c)), DOMAIN Told(c))
               charged == Total(Capped(charges[c]), DOMAIN charges[c])
    <2>4. spent <= charged
      BY <2>1, <2>2, <2>3, CappedShrinks
    <2>5. spent \in Nat /\ charged \in Nat /\ charged <= TokenBudget /\ TokenBudget \in Nat
      BY <2>1, <2>2, CappedRule, TokensAssumption DEF ChargesAreSound
    <2> HIDE DEF charged
    <2>6. spent <= TokenBudget
      BY <2>4, <2>5
    <2> QED  BY <2>2, <2>6, CountedIsCapped
  <1> QED  BY <1>1, AgentHolds, PTL

-----------------------------------------------------------------------------
(* Memory and knowledge: whatever fails, dies or overlaps, what is reported   *)
(* as kept is there.  An attempt's claims are about what it has itself        *)
(* written, which only grows, and what was asked is settled before it starts. *)

AttemptStages ==
  {"idle", "gate", "entry", "embed", "vector", "audit", "run", "version", "chunk",
   "embedChunk", "chunkVector", "done", "failed", "lost"}
AttemptType == [pc : AttemptStages, seq : Nat, kept : Nat, profile : Nat, blank : BOOLEAN]
RunStatuses == {"RUNNING", "PARTIAL", "COMPLETED", "FAILED"}
RunRows     == [status : RunStatuses, dedup : BOOLEAN]
WriteAttempts     == Writes \X (1..MaxAttempts)
IngestionAttempts == Ingestions \X (1..MaxAttempts)
MemoryType   == [Writes -> [name : {"none", "new", "given"}, fit : BOOLEAN]]
MaterialType == [Ingestions -> [content : Contents \cup {{}}, key : Ingestions \cup {"none"}]]
AuditType    == [key : Writes, decision : {"ACCEPTED", "REJECTED"}, by : WriteAttempts]

StoreTypeOK ==
  /\ profile \in [Profiles -> {"READY", "ACTIVE", "DRAINING"}]
  /\ serves \in Profiles \cup {0}
  /\ memory \in MemoryType /\ material \in MaterialType
  /\ attempt \in [Attempts -> AttemptType]
  /\ audits \subseteq AuditType
  /\ ingestionRuns \in [DOMAIN ingestionRuns -> RunRows]
  /\ DOMAIN ingestionRuns \subseteq IngestionAttempts

Begun(t) == attempt[t].pc # "idle"

\* A later attempt follows an earlier one, so what was asked is settled by then.
FirstBegan == \A t \in Attempts : Begun(t) => Begun(<<t[1], 1>>)

Searchable(t) == attempt[t].blank \/ \E p \in Profiles : <<Name(t), p>> \in vectors
EntryIsThere(t) ==
  /\ attempt[t].pc \in {"embed", "vector", "audit"} => Name(t) \in entries
  /\ attempt[t].pc = "vector" => attempt[t].profile \in Profiles
  /\ attempt[t].pc = "audit" => Searchable(t)
AuditIsTrue(a) ==
  /\ Begun(a.by)
  /\ a.decision = "ACCEPTED" => Name(a.by) \in entries /\ Searchable(a.by)

Indexed(t, seq) ==
  /\ seq \in chunks
  /\ attempt[t].blank \/ \E p \in Profiles : <<seq, p>> \in chunkVectors
ChunksAreThere(t) ==
  /\ attempt[t].pc \in {"embedChunk", "chunkVector"} => attempt[t].seq \in chunks
  /\ attempt[t].pc = "chunkVector" => attempt[t].profile \in Profiles
  /\ attempt[t].pc \in {"version", "chunk", "embedChunk", "chunkVector"} =>
       \A seq \in material[t[1]].content :
         seq < attempt[t].seq \/ (attempt[t].pc = "chunk" /\ seq = attempt[t].seq) => Indexed(t, seq)
  /\ attempt[t].pc \in {"idle", "run", "version"} => attempt[t].seq = 0
RunIsWhole(t) ==
  /\ Begun(t)
  /\ ingestionRuns[t].status = "COMPLETED" /\ ~ingestionRuns[t].dedup
       => \A seq \in material[t[1]].content : Indexed(t, seq)

StoreInvariant ==
  /\ StoreTypeOK
  /\ FirstBegan
  /\ \A t \in WriteAttempts : EntryIsThere(t)
  /\ \A a \in audits : AuditIsTrue(a)
  /\ \A t \in IngestionAttempts : ChunksAreThere(t)
  /\ \A t \in DOMAIN ingestionRuns : RunIsWhole(t)

StoreBounds == /\ ChunkCount \in Nat \ {0} /\ Contents \subseteq SUBSET (1..ChunkCount)
               /\ Profiles \subseteq Nat \ {0} /\ MaxAttempts \in Nat \ {0}

LEMMA StoreConstants == StoreBounds
  BY ChunksAssumption, ProfilesAssumption, AttemptsAssumption DEF StoreBounds

\* What every step leaves to the other attempts.
StoreGrows ==
  /\ entries \subseteq entries' /\ vectors \subseteq vectors'
  /\ chunks \subseteq chunks' /\ chunkVectors \subseteq chunkVectors'
  /\ \A t \in Attempts : Begun(t) =>
       /\ Begun(t)' /\ (attempt[t].blank => attempt'[t].blank)
       /\ t[1] \in Writes => memory'[t[1]] = memory[t[1]]
       /\ t[1] \in Ingestions => material'[t[1]] = material[t[1]]

OnlyMoves(t) == \A u \in Attempts \ {t} : attempt'[u] = attempt[u]

LEMMA BegunAttempts ==
  ASSUME NEW t \in Attempts
  PROVE  /\ <<t[1], 1>> \in Attempts
         /\ t[1] \in Writes => t \in WriteAttempts
         /\ t[1] \in Ingestions => t \in IngestionAttempts
  BY StoreConstants DEF Attempts, StoreBounds, WriteAttempts, IngestionAttempts

LEMMA AuditsStay ==
  ASSUME StoreInvariant, StoreGrows, NEW a \in audits
  PROVE  AuditIsTrue(a)'
  <1>0. AuditIsTrue(a) /\ audits \subseteq AuditType
    BY DEF StoreInvariant, StoreTypeOK
  <1>1. a.by \in Attempts /\ a.by[1] \in Writes /\ Begun(a.by)
    BY <1>0 DEF AuditIsTrue, AuditType, WriteAttempts, Attempts
  <1>2. /\ Begun(a.by)' /\ (attempt[a.by].blank => attempt'[a.by].blank)
        /\ memory'[a.by[1]] = memory[a.by[1]]
    BY <1>1 DEF StoreGrows
  <1>3. Name(a.by)' = Name(a.by)  BY <1>2 DEF Name
  <1> QED  BY <1>0, <1>2, <1>3 DEF AuditIsTrue, Searchable, StoreGrows

LEMMA IndexedStays ==
  ASSUME StoreGrows, NEW t \in Attempts, Begun(t), NEW seq, Indexed(t, seq)
  PROVE  Indexed(t, seq)'
  BY DEF StoreGrows, Indexed

LEMMA RunsStay ==
  ASSUME StoreInvariant, StoreGrows, NEW t \in DOMAIN ingestionRuns,
         t \in DOMAIN ingestionRuns', ingestionRuns'[t] = ingestionRuns[t]
  PROVE  RunIsWhole(t)'
  <1>1. t \in Attempts /\ t[1] \in Ingestions /\ RunIsWhole(t)
    BY DEF StoreInvariant, StoreTypeOK, IngestionAttempts, Attempts
  <1>2. Begun(t)' /\ material'[t[1]] = material[t[1]]
    BY <1>1 DEF StoreGrows, RunIsWhole
  <1> QED  BY <1>1, <1>2, IndexedStays DEF RunIsWhole

LEMMA OtherEntries ==
  ASSUME StoreInvariant, StoreGrows, NEW u \in WriteAttempts, attempt'[u] = attempt[u]
  PROVE  EntryIsThere(u)'
  <1>1. u \in Attempts /\ u[1] \in Writes /\ EntryIsThere(u)
    BY DEF StoreInvariant, WriteAttempts, Attempts
  <1>2. CASE Begun(u)
    <2>1. Name(u)' = Name(u)  BY <1>1, <1>2 DEF Name, StoreGrows
    <2> QED  BY <1>1, <2>1 DEF EntryIsThere, Searchable, StoreGrows
  <1>3. CASE ~Begun(u)  BY <1>3 DEF Begun, EntryIsThere
  <1> QED  BY <1>2, <1>3

LEMMA OtherChunks ==
  ASSUME StoreInvariant, StoreGrows, NEW u \in IngestionAttempts, attempt'[u] = attempt[u]
  PROVE  ChunksAreThere(u)'
  <1>1. u \in Attempts /\ u[1] \in Ingestions /\ ChunksAreThere(u)
    BY DEF StoreInvariant, IngestionAttempts, Attempts
  <1>2. CASE Begun(u)
    <2>1. material'[u[1]] = material[u[1]]  BY <1>1, <1>2 DEF StoreGrows
    <2> QED  BY <1>1, <1>2, <2>1, IndexedStays DEF ChunksAreThere, StoreGrows
  <1>3. CASE ~Begun(u)  BY <1>1, <1>3 DEF Begun, ChunksAreThere
  <1> QED  BY <1>2, <1>3

\* The rule of a step of one attempt.
LEMMA AttemptRule ==
  ASSUME StoreInvariant, StoreTypeOK', FirstBegan', StoreGrows, NEW t \in Attempts, OnlyMoves(t),
         t \in WriteAttempts => EntryIsThere(t)',
         t \in IngestionAttempts => ChunksAreThere(t)',
         \A a \in audits' \ audits : AuditIsTrue(a)',
         \A u \in DOMAIN ingestionRuns' :
           (u \in DOMAIN ingestionRuns /\ ingestionRuns'[u] = ingestionRuns[u]) \/ RunIsWhole(u)'
  PROVE  StoreInvariant'
  <1>1. \A u \in WriteAttempts : EntryIsThere(u)'
    BY OtherEntries DEF OnlyMoves, WriteAttempts, Attempts
  <1>2. \A u \in IngestionAttempts : ChunksAreThere(u)'
    BY OtherChunks DEF OnlyMoves, IngestionAttempts, Attempts
  <1>3. \A a \in audits' : AuditIsTrue(a)'
    BY AuditsStay
  <1>4. \A u \in DOMAIN ingestionRuns' : RunIsWhole(u)'
    BY RunsStay
  <1> QED  BY <1>1, <1>2, <1>3, <1>4 DEF StoreInvariant

\* A step of an attempt that has begun, which asks for nothing else.
AttemptStays(t) ==
  /\ attempt' \in [Attempts -> AttemptType] /\ OnlyMoves(t)
  /\ Begun(t) /\ Begun(t)' /\ (attempt[t].blank => attempt'[t].blank)
  /\ UNCHANGED <<profile, serves, requested>>
  /\ entries \subseteq entries' /\ vectors \subseteq vectors'
  /\ chunks \subseteq chunks' /\ chunkVectors \subseteq chunkVectors'

LEMMA BegunRule ==
  ASSUME StoreInvariant, NEW t \in Attempts, AttemptStays(t)
  PROVE  StoreGrows /\ FirstBegan'
  <1>1. memory' = memory /\ material' = material  BY DEF AttemptStays, requested
  <1>2. \A u \in Attempts : Begun(u) => Begun(u)' /\ (attempt[u].blank => attempt'[u].blank)
    BY DEF AttemptStays, OnlyMoves, Begun
  <1>3. FirstBegan'
    <2>1. SUFFICES ASSUME NEW u \in Attempts, Begun(u)' PROVE Begun(<<u[1], 1>>)'
      BY DEF FirstBegan
    <2>2. Begun(u)  BY <2>1 DEF AttemptStays, OnlyMoves, Begun
    <2> QED  BY <2>2, <1>2, BegunAttempts DEF StoreInvariant, FirstBegan
  <1> QED  BY <1>1, <1>2, <1>3 DEF StoreGrows, AttemptStays

\* The same, for a step that writes no audit and no run.
LEMMA QuietAttemptRule ==
  ASSUME StoreInvariant, NEW t \in Attempts, AttemptStays(t), UNCHANGED <<audits, ingestionRuns>>,
         StoreGrows => (t \in WriteAttempts => EntryIsThere(t)') /\ (t \in IngestionAttempts => ChunksAreThere(t)')
  PROVE  StoreInvariant'
  <1>1. StoreGrows /\ FirstBegan'  BY BegunRule
  <1>2. StoreTypeOK'
    BY DEF AttemptStays, requested, StoreInvariant, StoreTypeOK
  <1> QED  BY <1>1, <1>2, AttemptRule DEF AttemptStays

LEMMA AttemptFields ==
  ASSUME StoreTypeOK, NEW t \in Attempts
  PROVE  /\ attempt[t].pc \in AttemptStages /\ attempt[t].seq \in Nat /\ attempt[t].kept \in Nat
         /\ attempt[t].profile \in Nat /\ attempt[t].blank \in BOOLEAN
         /\ attempt[t] = [pc |-> attempt[t].pc, seq |-> attempt[t].seq, kept |-> attempt[t].kept,
                          profile |-> attempt[t].profile, blank |-> attempt[t].blank]
  BY DEF StoreTypeOK, AttemptType

\* Step moves an attempt to another stage and keeps the rest of it.
LEMMA StepMoves ==
  ASSUME StoreTypeOK, NEW t \in Attempts, NEW point \in AttemptStages, Step(t, point)
  PROVE  /\ attempt' \in [Attempts -> AttemptType] /\ OnlyMoves(t)
         /\ attempt'[t].pc = point /\ attempt'[t].seq = attempt[t].seq
         /\ attempt'[t].profile = attempt[t].profile /\ attempt'[t].blank = attempt[t].blank
  <1>1. attempt \in [Attempts -> AttemptType]  BY DEF StoreTypeOK
  <1>2. attempt'[t] = [attempt[t] EXCEPT !.pc = point]  BY <1>1 DEF Step
  <1>3. attempt[t] \in AttemptType  BY <1>1
  <1>4. [attempt[t] EXCEPT !.pc = point] \in AttemptType  BY <1>3 DEF AttemptType
  <1>5. attempt' \in [Attempts -> AttemptType] /\ OnlyMoves(t)
    BY <1>1, <1>4 DEF Step, OnlyMoves
  <1> QED  BY <1>2, <1>3, <1>5 DEF AttemptType

LEMMA EmbedMoves ==
  ASSUME StoreTypeOK, NEW t \in Attempts, NEW point \in AttemptStages, NEW without \in AttemptStages,
         Embed(t, point, without)
  PROVE  /\ attempt' \in [Attempts -> AttemptType] /\ OnlyMoves(t)
         /\ attempt'[t].seq = attempt[t].seq /\ attempt'[t].profile = serves /\ serves \in Profiles
         /\ attempt[t].blank => attempt'[t].blank
         /\ attempt'[t].pc = point \/ (attempt'[t].pc = without /\ attempt'[t].blank)
  <1>1. attempt \in [Attempts -> AttemptType] /\ serves \in Profiles /\ serves \in Nat
    BY StoreConstants DEF StoreTypeOK, Embed, StoreBounds
  <1>2. PICK blank \in BOOLEAN :
          attempt' = [attempt EXCEPT ![t].pc = IF blank THEN without ELSE point,
                                     ![t].profile = serves, ![t].kept = @ + 1,
                                     ![t].blank = @ \/ blank]
    BY DEF Embed
  <1>3. attempt[t] \in AttemptType  BY <1>1
  <1>4. attempt'[t] = [attempt[t] EXCEPT !.pc = IF blank THEN without ELSE point, !.profile = serves,
                                         !.kept = @ + 1, !.blank = @ \/ blank]
    BY <1>1, <1>2
  <1>5. attempt'[t] \in AttemptType
    <2>1. (attempt[t].blank \/ blank) \in BOOLEAN  OBVIOUS
    <2>2. attempt[t].seq \in Nat /\ attempt[t].kept + 1 \in Nat  BY <1>3 DEF AttemptType
    <2>3. attempt'[t] = [pc |-> IF blank THEN without ELSE point, seq |-> attempt[t].seq,
                         kept |-> attempt[t].kept + 1, profile |-> serves,
                         blank |-> attempt[t].blank \/ blank]
      BY <1>3, <1>4 DEF AttemptType
    <2> QED  BY <1>1, <2>1, <2>2, <2>3 DEF AttemptType
  <1>6. \A u \in Attempts \ {t} : attempt'[u] = attempt[u]  BY <1>1, <1>2
  <1>7. DOMAIN attempt' = Attempts /\ attempt' = [u \in Attempts |-> attempt'[u]]  BY <1>1, <1>2
  <1>8. attempt' \in [Attempts -> AttemptType]  BY <1>1, <1>5, <1>6, <1>7
  <1> QED  BY <1>1, <1>3, <1>4, <1>6, <1>8 DEF AttemptType, OnlyMoves

LEMMA WriteStepKeeps ==
  ASSUME StoreInvariant, NEW t \in WriteAttempts, WriteStep(t)
  PROVE  StoreInvariant'
  <1>0. StoreTypeOK /\ t \in Attempts /\ EntryIsThere(t) /\ t[1] \in Writes
    BY DEF StoreInvariant, WriteAttempts, Attempts
  <1>a. ASSUME NEW decision \in {"ACCEPTED", "REJECTED"}, Audit(t, decision), Step(t, "done"), Begun(t),
               UNCHANGED <<profile, serves, requested, entries, vectors, ingested>>,
               decision = "ACCEPTED" => Name(t) \in entries /\ Searchable(t)
        PROVE  StoreInvariant'
    <2>1. /\ attempt' \in [Attempts -> AttemptType] /\ OnlyMoves(t)
          /\ attempt'[t].pc = "done" /\ attempt'[t].blank = attempt[t].blank
      BY <1>0, <1>a, StepMoves DEF AttemptStages
    <2>2. AttemptStays(t)
      BY <1>a, <2>1 DEF AttemptStays, Begun, ingested
    <2>3. StoreGrows /\ FirstBegan'  BY <1>0, <2>2, BegunRule
    <2>4. audits' = audits \cup {[key |-> t[1], decision |-> decision, by |-> t]}
      BY <1>a DEF Audit
    <2>5. audits' \subseteq AuditType
      BY <1>0, <2>4 DEF StoreTypeOK, AuditType
    <2>6. StoreTypeOK'
      BY <1>0, <1>a, <2>1, <2>5 DEF StoreTypeOK, ingested, requested
    <2>7. decision = "ACCEPTED" => Name(t)' \in entries' /\ Searchable(t)'
      BY <1>0, <1>a, <2>1 DEF Name, requested, Searchable
    <2>8. \A a \in audits' \ audits : AuditIsTrue(a)'
      BY <2>1, <2>4, <2>7 DEF AuditIsTrue, Begun
    <2>9. EntryIsThere(t)' /\ ChunksAreThere(t)' /\ ingestionRuns' = ingestionRuns
      BY <1>a, <2>1 DEF EntryIsThere, ChunksAreThere, ingested
    <2> QED  BY <1>0, <2>1, <2>3, <2>6, <2>8, <2>9, AttemptRule
  <1>1. CASE PassGate(t)
    <2>1. CASE Step(t, "entry") /\ UNCHANGED audits
      <3>1. attempt'[t].pc = "entry" /\ attempt'[t].blank = attempt[t].blank
        BY <1>0, <2>1, StepMoves DEF AttemptStages
      <3>2. AttemptStays(t)
        BY <1>0, <1>1, <2>1, <3>1, StepMoves DEF PassGate, AttemptStages, AttemptStays, Begun, ingested
      <3>3. EntryIsThere(t)' /\ ChunksAreThere(t)'
        BY <3>1 DEF EntryIsThere, ChunksAreThere
      <3> QED  BY <1>0, <1>1, <2>1, <3>2, <3>3, QuietAttemptRule DEF PassGate, ingested
    <2>2. CASE Audit(t, "REJECTED") /\ Step(t, "done")
      BY <1>a, <1>1, <2>2 DEF PassGate, Begun
    <2> QED  BY <1>1, <2>1, <2>2 DEF PassGate
  <1>2. CASE InsertEntry(t)
    <2>1. attempt'[t].pc = "embed" /\ attempt'[t].blank = attempt[t].blank
      BY <1>0, <1>2, StepMoves DEF InsertEntry, AttemptStages
    <2>2. AttemptStays(t)
      BY <1>0, <1>2, <2>1, StepMoves DEF InsertEntry, AttemptStages, AttemptStays, Begun, ingested
    <2>3. Name(t)' = Name(t)  BY <1>2 DEF InsertEntry, Name, requested
    <2>4. EntryIsThere(t)' /\ ChunksAreThere(t)'
      BY <1>2, <2>1, <2>3 DEF InsertEntry, EntryIsThere, ChunksAreThere
    <2> QED  BY <1>0, <1>2, <2>2, <2>4, QuietAttemptRule DEF InsertEntry, ingested
  <1>3. CASE EmbedEntry(t)
    <2>1. /\ attempt'[t].profile \in Profiles
          /\ attempt'[t].pc = "vector" \/ (attempt'[t].pc = "audit" /\ attempt'[t].blank)
      BY <1>0, <1>3, EmbedMoves DEF EmbedEntry, AttemptStages
    <2>2. AttemptStays(t)
      BY <1>0, <1>3, <2>1, EmbedMoves DEF EmbedEntry, AttemptStages, AttemptStays, Begun, ingested, written
    <2>3. Name(t)' = Name(t) /\ Name(t) \in entries /\ entries' = entries
      BY <1>0, <1>3 DEF EmbedEntry, Name, requested, written, EntryIsThere
    <2>4. EntryIsThere(t)' /\ ChunksAreThere(t)'
      BY <2>1, <2>3 DEF EntryIsThere, ChunksAreThere, Searchable
    <2> QED  BY <1>0, <1>3, <2>2, <2>4, QuietAttemptRule DEF EmbedEntry, ingested, written
  <1>4. CASE InsertEmbedding(t)
    <2>1. /\ attempt'[t].pc = "audit" /\ attempt'[t].blank = attempt[t].blank
          /\ attempt[t].profile \in Profiles
      BY <1>0, <1>4, StepMoves DEF InsertEmbedding, AttemptStages, EntryIsThere
    <2>2. AttemptStays(t)
      BY <1>0, <1>4, <2>1, StepMoves DEF InsertEmbedding, AttemptStages, AttemptStays, Begun, ingested
    <2>3. Name(t)' = Name(t) /\ Name(t) \in entries /\ entries' = entries
          /\ <<Name(t), attempt[t].profile>> \in vectors'
      BY <1>0, <1>4 DEF InsertEmbedding, Name, requested, EntryIsThere
    <2>4. EntryIsThere(t)' /\ ChunksAreThere(t)'
      BY <2>1, <2>3 DEF EntryIsThere, ChunksAreThere, Searchable
    <2> QED  BY <1>0, <1>4, <2>2, <2>4, QuietAttemptRule DEF InsertEmbedding, ingested
  <1>5. CASE AuditWrite(t)
    <2>1. Name(t) \in entries /\ Searchable(t) /\ Begun(t)
      BY <1>0, <1>5 DEF AuditWrite, AuditedAt, EntryIsThere, Begun
    <2> QED  BY <1>a, <1>5, <2>1 DEF AuditWrite
  <1>6. CASE WriteThrows(t)
    <2>1. /\ attempt'[t].pc = "failed" /\ attempt'[t].blank = attempt[t].blank
          /\ attempt[t].pc # "idle"
      BY <1>0, <1>6, StepMoves DEF WriteThrows, AttemptStages
    <2>2. AttemptStays(t)
      BY <1>0, <1>6, <2>1, StepMoves DEF WriteThrows, AttemptStages, AttemptStays, Begun, ingested, written
    <2>4. EntryIsThere(t)' /\ ChunksAreThere(t)'
      BY <2>1 DEF EntryIsThere, ChunksAreThere
    <2> QED  BY <1>0, <1>6, <2>2, <2>4, QuietAttemptRule DEF WriteThrows, ingested, written
  <1> QED  BY <1>1, <1>2, <1>3, <1>4, <1>5, <1>6 DEF WriteStep

\* A run's own step may end it; the runs of other attempts stay.
LEMMA RunRule ==
  ASSUME StoreInvariant, NEW t \in IngestionAttempts, AttemptStays(t), audits' = audits,
         DOMAIN ingestionRuns' = DOMAIN ingestionRuns \cup {t} \/ DOMAIN ingestionRuns' = DOMAIN ingestionRuns,
         ingestionRuns' \in [DOMAIN ingestionRuns' -> RunRows],
         \A u \in DOMAIN ingestionRuns \ {t} : ingestionRuns'[u] = ingestionRuns[u],
         StoreGrows => EntryIsThere(t)' /\ ChunksAreThere(t)'
                       /\ (t \in DOMAIN ingestionRuns' => RunIsWhole(t)')
  PROVE  StoreInvariant'
  <1>0. t \in Attempts  BY DEF IngestionAttempts, Attempts
  <1>1. StoreGrows /\ FirstBegan'  BY <1>0, BegunRule
  <1>2. StoreTypeOK'
    BY DEF AttemptStays, requested, StoreInvariant, StoreTypeOK
  <1>3. \A u \in DOMAIN ingestionRuns' :
          (u \in DOMAIN ingestionRuns /\ ingestionRuns'[u] = ingestionRuns[u]) \/ RunIsWhole(u)'
    BY <1>1
  <1> QED  BY <1>0, <1>1, <1>2, <1>3, AttemptRule DEF AttemptStays

LEMMA SetRunSets ==
  ASSUME StoreTypeOK, NEW t, NEW status \in RunStatuses, NEW dedup \in BOOLEAN, SetRun(t, status, dedup)
  PROVE  /\ DOMAIN ingestionRuns' = DOMAIN ingestionRuns
         /\ ingestionRuns' \in [DOMAIN ingestionRuns' -> RunRows]
         /\ \A u \in DOMAIN ingestionRuns \ {t} : ingestionRuns'[u] = ingestionRuns[u]
         /\ t \in DOMAIN ingestionRuns =>
              ingestionRuns'[t].status = status /\ ingestionRuns'[t].dedup = dedup
  BY DEF StoreTypeOK, SetRun, RunRows

LEMMA IngestionStepKeeps ==
  ASSUME StoreInvariant, NEW t \in IngestionAttempts, IngestionStep(t)
  PROVE  StoreInvariant'
  <1>0. /\ StoreTypeOK /\ t \in Attempts /\ ChunksAreThere(t) /\ t[1] \in Ingestions
        /\ t \in DOMAIN ingestionRuns => RunIsWhole(t)
        /\ attempt[t].seq \in Nat /\ attempt[t].blank \in BOOLEAN
    BY AttemptFields DEF StoreInvariant, IngestionAttempts, Attempts
  <1>a. material[t[1]].content \subseteq 1..ChunkCount /\ ChunkCount \in Nat
    BY <1>0, StoreConstants DEF StoreTypeOK, MaterialType, StoreBounds
  <1>1. CASE StartIngestionRun(t)
    <2>1. /\ attempt'[t].pc \in {"done", "version"} /\ attempt'[t].seq = 0
          /\ attempt'[t].blank = attempt[t].blank
      BY <1>0, <1>1, StepMoves DEF StartIngestionRun, AttemptStages, ChunksAreThere
    <2>2. AttemptStays(t) /\ audits' = audits
      BY <1>0, <1>1, <2>1, StepMoves DEF StartIngestionRun, AttemptStages, AttemptStays, Begun, written
    <2>3. EntryIsThere(t)' /\ Begun(t)'
      BY <2>1 DEF EntryIsThere, Begun
    <2>4. ChunksAreThere(t)'
      <3>1. material' = material  BY <1>1 DEF StartIngestionRun, requested
      <3>2. \A seq \in material[t[1]].content : ~(seq < 0)  BY <1>a
      <3> QED  BY <2>1, <3>1, <3>2 DEF ChunksAreThere
    <2>5. CASE UNCHANGED ingestionRuns
      <3>1. StoreGrows /\ t \in DOMAIN ingestionRuns => RunIsWhole(t)'
        BY <1>0, <2>5, RunsStay
      <3> QED  BY <2>2, <2>3, <2>4, <2>5, <3>1, <1>0, RunRule DEF StoreTypeOK
    <2>6. CASE ingestionRuns' = [u \in DOMAIN ingestionRuns \cup {t} |->
                 IF u = t THEN [status |-> "RUNNING", dedup |-> FALSE] ELSE ingestionRuns[u]]
      <3>1. RunIsWhole(t)'  BY <2>3, <2>6 DEF RunIsWhole
      <3>2. ingestionRuns' \in [DOMAIN ingestionRuns' -> RunRows]
        BY <1>0, <2>6 DEF StoreTypeOK, RunRows, RunStatuses
      <3> QED  BY <2>2, <2>3, <2>4, <2>6, <3>1, <3>2, RunRule
    <2> QED  BY <1>1, <2>5, <2>6 DEF StartIngestionRun
  <1>2. CASE InsertSourceVersion(t)
    <2>1. /\ attempt'[t].pc \in {"done", "chunk"} /\ attempt'[t].seq = 0
          /\ attempt'[t].blank = attempt[t].blank
      BY <1>0, <1>2, StepMoves DEF InsertSourceVersion, AttemptStages, ChunksAreThere
    <2>2. AttemptStays(t) /\ audits' = audits
      BY <1>0, <1>2, <2>1, StepMoves DEF InsertSourceVersion, AttemptStages, AttemptStays, Begun, written
    <2>3. EntryIsThere(t)' /\ Begun(t)'
      BY <2>1 DEF EntryIsThere, Begun
    <2>4. ChunksAreThere(t)'
      <3>1. material' = material  BY <1>2 DEF InsertSourceVersion, requested
      <3>2. \A seq \in material[t[1]].content : ~(seq < 0 \/ seq = 0)  BY <1>a
      <3> QED  BY <2>1, <3>1, <3>2 DEF ChunksAreThere
    <2>5. CASE UNCHANGED ingestionRuns
      <3>1. StoreGrows /\ t \in DOMAIN ingestionRuns => RunIsWhole(t)'
        BY <1>0, <2>5, RunsStay
      <3> QED  BY <2>2, <2>3, <2>4, <2>5, <3>1, <1>0, RunRule DEF StoreTypeOK
    <2>6. CASE SetRun(t, "COMPLETED", TRUE)
      <3>1. t \in DOMAIN ingestionRuns => RunIsWhole(t)'
        BY <1>0, <2>3, <2>6, SetRunSets DEF RunIsWhole, RunStatuses
      <3> QED  BY <1>0, <2>2, <2>3, <2>4, <2>6, <3>1, SetRunSets, RunRule DEF RunStatuses
    <2> QED  BY <1>2, <2>5, <2>6 DEF InsertSourceVersion
  <1>3. CASE InsertChunk(t)
    <2> DEFINE next  == attempt[t].seq + 1
               keeps == next \in material[t[1]].content
               point == IF keeps THEN "embedChunk" ELSE "chunk"
    <2>1. /\ attempt[t].pc = "chunk" /\ chunks' = IF keeps THEN chunks \cup {next} ELSE chunks
          /\ attempt' = [attempt EXCEPT ![t].seq = next, ![t].pc = point]
          /\ UNCHANGED <<profile, serves, requested, written, version, chunkVectors, ingestionRuns>>
      BY <1>3 DEF InsertChunk
    <2>2. /\ attempt'[t].pc = point /\ attempt'[t].seq = next /\ attempt'[t].blank = attempt[t].blank
          /\ attempt' \in [Attempts -> AttemptType] /\ OnlyMoves(t)
      <3>1. attempt \in [Attempts -> AttemptType] /\ attempt[t] \in AttemptType
        BY <1>0 DEF StoreTypeOK
      <3>a. point \in AttemptStages /\ next \in Nat  BY <1>0 DEF AttemptStages
      <3> HIDE DEF point, next
      <3>2. [attempt[t] EXCEPT !.seq = next, !.pc = point] \in AttemptType
        BY <3>1, <3>a DEF AttemptType
      <3>3. attempt' = [attempt EXCEPT ![t] = [attempt[t] EXCEPT !.seq = next, !.pc = point]]
        BY <2>1, <3>1
      <3>4. attempt' \in [Attempts -> AttemptType] /\ OnlyMoves(t)
        BY <3>1, <3>2, <3>3 DEF OnlyMoves
      <3>5. attempt'[t] = [attempt[t] EXCEPT !.seq = next, !.pc = point]
        BY <1>0, <3>1, <3>3
      <3> QED  BY <3>1, <3>4, <3>5 DEF AttemptType
    <2>3. AttemptStays(t)
      BY <2>1, <2>2 DEF AttemptStays, Begun, written
    <2>4. ASSUME StoreGrows PROVE EntryIsThere(t)' /\ ChunksAreThere(t)'
      <3>1. material' = material /\ Begun(t)  BY <2>1 DEF requested, Begun
      <3>2. \A seq \in material[t[1]].content : seq \in Nat  BY <1>a
      <3>3. \A seq \in material[t[1]].content : seq < next => Indexed(t, seq)'
        BY <1>0, <2>1, <2>4, <3>1, <3>2, IndexedStays DEF ChunksAreThere
      <3> QED  BY <2>1, <2>2, <3>1, <3>3 DEF EntryIsThere, ChunksAreThere
    <2> QED  BY <1>0, <2>1, <2>3, <2>4, QuietAttemptRule DEF written
  <1>4. CASE EmbedChunk(t)
    <2>1. /\ attempt'[t].profile \in Profiles /\ attempt'[t].seq = attempt[t].seq
          /\ attempt'[t].pc = "chunkVector" \/ (attempt'[t].pc = "chunk" /\ attempt'[t].blank)
      BY <1>0, <1>4, EmbedMoves DEF EmbedChunk, AttemptStages
    <2>2. AttemptStays(t)
      BY <1>0, <1>4, <2>1, EmbedMoves DEF EmbedChunk, AttemptStages, AttemptStays, Begun, ingested, written
    <2>3. attempt[t].pc = "embedChunk" /\ chunks' = chunks /\ material' = material /\ Begun(t)
      BY <1>4 DEF EmbedChunk, requested, ingested, Begun
    <2>4. ASSUME StoreGrows PROVE EntryIsThere(t)' /\ ChunksAreThere(t)'
      <3>1. \A seq \in material[t[1]].content : seq < attempt[t].seq => Indexed(t, seq)'
        BY <1>0, <2>3, <2>4, IndexedStays DEF ChunksAreThere
      <3>2. attempt'[t].blank => Indexed(t, attempt[t].seq)'
        BY <1>0, <2>1, <2>3 DEF ChunksAreThere, Indexed
      <3> QED  BY <2>1, <2>3, <3>1, <3>2, <1>0 DEF EntryIsThere, ChunksAreThere
    <2> QED  BY <1>0, <1>4, <2>2, <2>4, QuietAttemptRule DEF EmbedChunk, ingested, written
  <1>5. CASE InsertChunkEmbedding(t)
    <2>1. /\ attempt'[t].pc = "chunk" /\ attempt'[t].seq = attempt[t].seq
          /\ attempt'[t].blank = attempt[t].blank
      BY <1>0, <1>5, StepMoves DEF InsertChunkEmbedding, AttemptStages
    <2>2. AttemptStays(t)
      BY <1>0, <1>5, <2>1, StepMoves DEF InsertChunkEmbedding, AttemptStages, AttemptStays, Begun, written
    <2>3. /\ attempt[t].pc = "chunkVector" /\ chunks' = chunks /\ material' = material /\ Begun(t)
          /\ <<attempt[t].seq, attempt[t].profile>> \in chunkVectors'
      BY <1>5 DEF InsertChunkEmbedding, requested, Begun
    <2>4. ASSUME StoreGrows PROVE EntryIsThere(t)' /\ ChunksAreThere(t)'
      <3>0. attempt[t].profile \in Profiles  BY <1>0, <2>3 DEF ChunksAreThere
      <3>1. \A seq \in material[t[1]].content : seq < attempt[t].seq => Indexed(t, seq)'
        BY <1>0, <2>3, <2>4, IndexedStays DEF ChunksAreThere
      <3>2. Indexed(t, attempt[t].seq)'
        BY <1>0, <2>1, <2>3, <3>0 DEF ChunksAreThere, Indexed
      <3> QED  BY <2>1, <2>3, <3>1, <3>2, <1>0 DEF EntryIsThere, ChunksAreThere
    <2> QED  BY <1>0, <1>5, <2>2, <2>4, QuietAttemptRule DEF InsertChunkEmbedding, written
  <1>6. CASE CompleteIngestionRun(t)
    <2>1. /\ attempt'[t].pc = "done" /\ attempt'[t].blank = attempt[t].blank
          /\ attempt[t].pc = "chunk" /\ attempt[t].seq = ChunkCount
      BY <1>0, <1>6, StepMoves DEF CompleteIngestionRun, AttemptStages
    <2>2. AttemptStays(t) /\ audits' = audits
      BY <1>0, <1>6, <2>1, StepMoves DEF CompleteIngestionRun, AttemptStages, AttemptStays, Begun, written
    <2>3. EntryIsThere(t)' /\ ChunksAreThere(t)' /\ Begun(t)'
      BY <2>1 DEF EntryIsThere, ChunksAreThere, Begun
    <2>4. ASSUME StoreGrows PROVE RunIsWhole(t)'
      <3>1. material' = material /\ Begun(t)  BY <1>6, <2>1 DEF CompleteIngestionRun, requested, Begun
      <3>2. \A seq \in material[t[1]].content : Indexed(t, seq)
        BY <1>0, <1>a, <2>1 DEF ChunksAreThere
      <3> QED  BY <1>0, <2>3, <2>4, <3>1, <3>2, IndexedStays DEF RunIsWhole
    <2> DEFINE status == IF attempt[t].kept = 0 THEN "PARTIAL" ELSE "COMPLETED"
    <2>5. status \in RunStatuses /\ SetRun(t, status, FALSE)
      BY <1>6 DEF CompleteIngestionRun, RunStatuses
    <2> HIDE DEF status
    <2> QED  BY <1>0, <2>2, <2>3, <2>4, <2>5, SetRunSets, RunRule
  <1>7. CASE IngestionFails(t)
    <2>1. /\ attempt'[t].pc = "failed" /\ attempt'[t].blank = attempt[t].blank
          /\ attempt[t].pc # "idle"
      BY <1>0, <1>7, StepMoves DEF IngestionFails, AttemptStages
    <2>2. AttemptStays(t) /\ audits' = audits
      BY <1>0, <1>7, <2>1, StepMoves DEF IngestionFails, AttemptStages, AttemptStays, Begun, written
    <2>3. EntryIsThere(t)' /\ ChunksAreThere(t)' /\ Begun(t)'
      BY <2>1 DEF EntryIsThere, ChunksAreThere, Begun
    <2>4. SetRun(t, "FAILED", FALSE)  BY <1>7 DEF IngestionFails, Caught
    <2>5. t \in DOMAIN ingestionRuns => RunIsWhole(t)'
      BY <1>0, <2>3, <2>4, SetRunSets DEF RunIsWhole, RunStatuses
    <2> QED  BY <1>0, <2>2, <2>3, <2>4, <2>5, SetRunSets, RunRule DEF RunStatuses
  <1>8. CASE IngestionThrows(t)
    <2>1. attempt'[t].pc = "failed" /\ attempt'[t].blank = attempt[t].blank /\ attempt[t].pc # "idle"
      BY <1>0, <1>8, StepMoves DEF IngestionThrows, AttemptStages
    <2>2. AttemptStays(t)
      BY <1>0, <1>8, <2>1, StepMoves DEF IngestionThrows, AttemptStages, AttemptStays, Begun, written, ingested
    <2>3. EntryIsThere(t)' /\ ChunksAreThere(t)'
      BY <2>1 DEF EntryIsThere, ChunksAreThere
    <2> QED  BY <1>0, <1>8, <2>2, <2>3, QuietAttemptRule DEF IngestionThrows, written, ingested
  <1> QED  BY <1>1, <1>2, <1>3, <1>4, <1>5, <1>6, <1>7, <1>8 DEF IngestionStep

\* An attempt that starts: the first one settles what is asked, for all that follow.
LEMMA StartRule ==
  ASSUME StoreInvariant, NEW x \in Writes \cup Ingestions, NEW n \in 1..MaxAttempts,
         NEW point \in {"gate", "run"}, MayStart(<<x, n>>), Step(<<x, n>>, point),
         UNCHANGED <<profile, serves, written, ingested>>,
         memory' \in MemoryType, material' \in MaterialType,
         memory' = memory \/ (n = 1 /\ \A w \in Writes \ {x} : memory'[w] = memory[w]),
         material' = material \/ (n = 1 /\ \A j \in Ingestions \ {x} : material'[j] = material[j])
  PROVE  StoreInvariant'
  <1> DEFINE t == <<x, n>>
  <1>0. t \in Attempts /\ StoreTypeOK /\ attempt[t].pc = "idle" /\ FirstBegan /\ t[1] = x
        /\ point \in AttemptStages /\ n \in Nat
    BY StoreConstants DEF Attempts, StoreInvariant, MayStart, AttemptStages, StoreBounds
  <1>1. /\ attempt' \in [Attempts -> AttemptType] /\ OnlyMoves(t)
        /\ attempt'[t].pc = point /\ attempt'[t].seq = attempt[t].seq
    BY <1>0, StepMoves
  <1>2. n = 1 => \A u \in Attempts : Begun(u) => u[1] # x
    BY <1>0 DEF FirstBegan, Begun
  <1>3. \A u \in Attempts : Begun(u) => u # t  BY <1>0 DEF Begun
  <1>4. StoreGrows
    <2>1. \A u \in Attempts : Begun(u) => attempt'[u] = attempt[u]
      BY <1>1, <1>3 DEF OnlyMoves
    <2> QED  BY <1>2, <2>1 DEF StoreGrows, Begun, written, ingested
  <1>5. FirstBegan'
    <2>1. SUFFICES ASSUME NEW u \in Attempts, Begun(u)' PROVE Begun(<<u[1], 1>>)'
      BY DEF FirstBegan
    <2>2. CASE u # t
      <3>1. Begun(u)  BY <1>1, <2>1, <2>2 DEF OnlyMoves, Begun
      <3> QED  BY <1>0, <1>4, <3>1, BegunAttempts DEF FirstBegan, StoreGrows
    <2>3. CASE u = t /\ n = 1  BY <2>1, <2>3
    <2>4. CASE u = t /\ n > 1
      <3>1. Begun(<<x, n - 1>>) /\ <<x, n - 1>> \in Attempts
        <4>1. n - 1 \in 1..MaxAttempts  BY <2>4, StoreConstants DEF StoreBounds
        <4> QED  BY <2>4, <4>1 DEF MayStart, Begun, Attempts
      <3>2. Begun(<<x, 1>>)  BY <1>0, <3>1 DEF FirstBegan
      <3> QED  BY <1>0, <1>4, <2>4, <3>2, BegunAttempts DEF StoreGrows
    <2> QED  BY <1>0, <2>2, <2>3, <2>4
  <1>6. StoreTypeOK'
    BY <1>0, <1>1 DEF StoreTypeOK, written, ingested
  <1>7. EntryIsThere(t)'  BY <1>1 DEF EntryIsThere
  <1>8. t \in IngestionAttempts => ChunksAreThere(t)'
    BY <1>0, <1>1 DEF ChunksAreThere, StoreInvariant
  <1> HIDE DEF t
  <1> QED
    BY <1>0, <1>1, <1>4, <1>5, <1>6, <1>7, <1>8, AttemptRule DEF written, ingested

LEMMA StartsKeep ==
  ASSUME StoreInvariant, NEW n \in 1..MaxAttempts,
         \/ \E w \in Writes : StartWrite(w, n)
         \/ \E j \in Ingestions : StartIngestion(j, n)
  PROVE  StoreInvariant'
  <1>0. StoreTypeOK  BY DEF StoreInvariant
  <1>1. ASSUME NEW w \in Writes, StartWrite(w, n) PROVE StoreInvariant'
    <2>1. memory' \in MemoryType
      BY <1>0, <1>1 DEF StartWrite, StoreTypeOK, MemoryType
    <2>2. memory' = memory \/ (n = 1 /\ \A v \in Writes \ {w} : memory'[v] = memory[v])
      BY <1>0, <1>1 DEF StartWrite, StoreTypeOK, MemoryType
    <2> QED  BY <1>0, <1>1, <2>1, <2>2, StartRule DEF StartWrite, StoreTypeOK
  <1>2. ASSUME NEW j \in Ingestions, StartIngestion(j, n) PROVE StoreInvariant'
    <2>1. material' \in MaterialType
      BY <1>0, <1>2 DEF StartIngestion, StoreTypeOK, MaterialType
    <2>2. material' = material \/ (n = 1 /\ \A i \in Ingestions \ {j} : material'[i] = material[i])
      BY <1>0, <1>2 DEF StartIngestion, StoreTypeOK, MaterialType
    <2> QED  BY <1>0, <1>2, <2>1, <2>2, StartRule DEF StartIngestion, StoreTypeOK
  <1> QED  BY <1>1, <1>2

LEMMA ProfileStepKeeps ==
  ASSUME StoreInvariant, ProfileStep
  PROVE  StoreInvariant'
  <1>0. StoreTypeOK  BY DEF StoreInvariant
  <1>1. ASSUME UNCHANGED <<requested, written, ingested>>, StoreTypeOK',
               \A u \in Attempts : attempt'[u] = attempt[u]
                                   \/ (attempt[u].pc # "idle" /\ attempt'[u] = [attempt[u] EXCEPT !.pc = "lost"])
        PROVE  StoreInvariant'
    <2>1. \A u \in Attempts : /\ Begun(u)' <=> Begun(u)
                              /\ attempt'[u].blank = attempt[u].blank
                              /\ attempt'[u] = attempt[u] \/ attempt'[u].pc = "lost"
      BY <1>0, <1>1, AttemptFields DEF Begun
    <2>2. StoreGrows  BY <1>1, <2>1 DEF StoreGrows, requested, written, ingested
    <2>3. FirstBegan'  BY <2>1, BegunAttempts DEF StoreInvariant, FirstBegan
    <2>4. ASSUME NEW u \in WriteAttempts PROVE EntryIsThere(u)'
      BY <2>1, <2>2, OtherEntries DEF EntryIsThere, WriteAttempts, Attempts
    <2>5. ASSUME NEW u \in IngestionAttempts PROVE ChunksAreThere(u)'
      BY <2>1, <2>2, OtherChunks DEF ChunksAreThere, IngestionAttempts, Attempts
    <2>6. \A a \in audits' : AuditIsTrue(a)'  BY <1>1, <2>2, AuditsStay DEF written
    <2>7. \A u \in DOMAIN ingestionRuns' : RunIsWhole(u)'  BY <1>1, <2>2, RunsStay DEF ingested
    <2> QED  BY <1>1, <2>3, <2>4, <2>5, <2>6, <2>7 DEF StoreInvariant
  <1>2. CASE \E p \in Profiles : PromoteProfile(p)
    <2>1. StoreTypeOK' /\ attempt' = attempt /\ UNCHANGED <<requested, written, ingested>>
      BY <1>0, <1>2 DEF StoreTypeOK, PromoteProfile, After, requested, written, ingested
    <2> QED  BY <1>1, <2>1
  <1>3. CASE BootWorker
    <2>1. StoreTypeOK' /\ attempt' = attempt /\ UNCHANGED <<requested, written, ingested>>
      BY <1>0, <1>3 DEF StoreTypeOK, BootWorker, Active, requested, written, ingested
    <2> QED  BY <1>1, <2>1
  <1>4. CASE CrashWorker
    <2>1. attempt' = [t \in Attempts |-> IF Running(t) THEN [attempt[t] EXCEPT !.pc = "lost"]
                                                       ELSE attempt[t]]
          /\ UNCHANGED <<profile, requested, written, ingested>> /\ serves' = 0
      BY <1>4 DEF CrashWorker
    <2>2. \A u \in Attempts : [attempt[u] EXCEPT !.pc = "lost"] \in AttemptType /\ attempt[u] \in AttemptType
      BY <1>0 DEF StoreTypeOK, AttemptType, AttemptStages
    <2>3. attempt' \in [Attempts -> AttemptType]  BY <2>1, <2>2
    <2>4. StoreTypeOK'  BY <1>0, <2>1, <2>3 DEF StoreTypeOK, requested, written, ingested
    <2> QED  BY <1>1, <2>1, <2>4 DEF Running
  <1> QED  BY <1>2, <1>3, <1>4 DEF ProfileStep

LEMMA StoreNextKeeps ==
  ASSUME StoreInvariant, [StoreNext]_storeVars
  PROVE  StoreInvariant'
  <1>1. CASE MemoryNext
    BY <1>1, WriteStepKeeps, StartsKeep DEF MemoryNext, WriteAttempts
  <1>2. CASE KnowledgeNext
    BY <1>2, IngestionStepKeeps, StartsKeep DEF KnowledgeNext, IngestionAttempts
  <1>3. CASE UNCHANGED storeVars
    BY <1>3 DEF storeVars, requested, written, ingested, StoreInvariant, StoreTypeOK, FirstBegan,
                EntryIsThere, AuditIsTrue, ChunksAreThere, RunIsWhole, Begun, Searchable, Indexed, Name
  <1> QED  BY <1>1, <1>2, <1>3, ProfileStepKeeps DEF StoreNext

LEMMA StoreInitHolds ==
  ASSUME StoreInit
  PROVE  StoreInvariant
  <1>1. NoAttempt \in AttemptType /\ \A t \in Attempts : attempt[t] = NoAttempt
    BY DEF StoreInit, NoAttempt, AttemptType, AttemptStages
  <1>2. StoreTypeOK
    BY <1>1 DEF StoreInit, StoreTypeOK, MemoryType, MaterialType
  <1>3. \A t \in Attempts : ~Begun(t) /\ EntryIsThere(t) /\ ChunksAreThere(t)
    BY <1>1 DEF NoAttempt, Begun, EntryIsThere, ChunksAreThere
  <1>4. DOMAIN ingestionRuns = {} /\ audits = {}  BY DEF StoreInit
  <1> QED
    BY <1>2, <1>3, <1>4 DEF StoreInvariant, FirstBegan, WriteAttempts, IngestionAttempts, Attempts

LEMMA StoreInvariantHolds == StoreSpec => []StoreInvariant
  BY StoreInitHolds, StoreNextKeeps, PTL DEF StoreSpec

\* Whatever attempts fail, die or overlap, a memory write is audited as accepted only
\* when its entry is there with the vector the provider gave.
THEOREM AcceptedWritesAreFound == StoreSpec => []AcceptedIsSearchable
  <1>1. StoreInvariant => AcceptedIsSearchable
    BY DEF StoreInvariant, AuditIsTrue, Searchable, AcceptedIsSearchable
  <1> QED  BY <1>1, StoreInvariantHolds, PTL

\* Whatever attempts fail, die or overlap, an ingestion is recorded as completed only
\* when it, and not a duplicate, stored each chunk it may keep with its vector.
THEOREM CompletedIngestionsAreWhole == StoreSpec => []CompletedRunsAreWhole
  <1>1. StoreInvariant => CompletedRunsAreWhole
    BY DEF StoreInvariant, RunIsWhole, Indexed, CompletedRunsAreWhole
  <1> QED  BY <1>1, StoreInvariantHolds, PTL

-----------------------------------------------------------------------------
(* Research: a run that succeeded has written all it found.  A run's claims   *)
(* are about the accounts it passed and about the one it is at; the rows they *)
(* name bear its name, and an insert never takes a row that bears one.        *)

AskPoints == {"lookup", "quota", "count", "ask"}
ResearchPoints ==
  AskPoints \cup {"idle", "next", "account", "insert", "claim", "enrich", "contact", "role", "person",
                  "signal", "proof", "detect", "lead", "succeed", "done", "catch", "thrown"}
ResearchStages == {"accounts", "intelligence", "contacts", "enriched", "signals"}
ResearchType ==
  [pc : ResearchPoints, stage : ResearchStages, at : Nat, fact : Facts \cup {"none"},
   skipped : SUBSET Found]
TableType == [Found -> [status : {"NONE", "DUPLICATE", "DISCOVERED", "ENRICHED"} \cup LeadOutcomes,
                        by : Researches \cup {"none"}, refers : BOOLEAN]]

ResearchTypeOK ==
  /\ research \in [Researches -> ResearchType]
  /\ runRow \in [Researches -> {"NONE", "RUNNING", "SUCCEEDED", "FAILED"}]
  /\ accountRow \in TableType /\ contactRows \in TableType /\ leadRows \in TableType
  /\ cached \in [DOMAIN cached -> Facts]

\* Where a run is in its current account.
At(r) == research[r].at
Among(r, pcs, stages) ==
  research[r].pc \in pcs \/ (research[r].pc \in AskPoints /\ research[r].stage \in stages)
Listing(r)     == Among(r, {}, {"accounts"})
Unwritten(r)   == Among(r, {"account", "insert"}, {"intelligence"})
Discovered(r)  == Among(r, {"claim", "enrich"}, {})
Enriched(r)    == Among(r, {"contact", "role", "person"}, {"contacts", "enriched"})
WithContact(r) == Among(r, {"signal", "proof", "detect", "lead"}, {"signals"})

\* A row of this run's.
Wrote(table, r, a, statuses) == table[a].by = r /\ table[a].status \in statuses
HasClaim(r, a) == \E e \in evidence : e.type = "INDUSTRY" /\ e.of = a /\ e.by = r
Referred(r, a) == accountRow[a].refers => HasClaim(r, a)
Inserted(table, r, a) == table[a].by = r /\ table[a].status # "NONE"

WholeAccount(r, a) ==
  /\ Wrote(accountRow, r, a, {"ENRICHED", "DUPLICATE"})
  /\ accountRow[a].status = "ENRICHED" =>
       /\ Referred(r, a)
       /\ a \in research[r].skipped \/ (Inserted(contactRows, r, a) /\ Inserted(leadRows, r, a))

RunIsSound(r) ==
  /\ Listing(r) => At(r) = 0
  /\ research[r].pc = "next" => At(r) <= AccountCount /\ \A a \in Found : a <= At(r) => WholeAccount(r, a)
  /\ Unwritten(r) \/ Discovered(r) \/ Enriched(r) \/ WithContact(r) =>
       At(r) \in Found /\ \A a \in Found : a < At(r) => WholeAccount(r, a)
  /\ Discovered(r) => Wrote(accountRow, r, At(r), {"DISCOVERED"})
  /\ research[r].pc = "enrich" /\ Known(r) => HasClaim(r, At(r))
  /\ Enriched(r) \/ WithContact(r) => Wrote(accountRow, r, At(r), {"ENRICHED"}) /\ Referred(r, At(r))
  /\ WithContact(r) => Inserted(contactRows, r, At(r))
  /\ research[r].pc \in {"succeed", "done"} => \A a \in Found : WholeAccount(r, a)
  /\ runRow[r] = "SUCCEEDED" => research[r].pc = "done"
  /\ research[r].pc = "idle" => At(r) = 0

ResearchInvariant == ResearchTypeOK /\ \A r \in Researches : RunIsSound(r)

\* What a step leaves to the other runs.
RowsOfOthers(r) ==
  /\ \A q \in Researches \ {r} : research'[q] = research[q] /\ runRow'[q] = runRow[q]
  /\ evidence \subseteq evidence'
  /\ \A a \in Found :
       /\ accountRow[a].status # "NONE" /\ accountRow[a].by # r => accountRow'[a] = accountRow[a]
       /\ contactRows[a].status # "NONE" => contactRows'[a] = contactRows[a]
       /\ leadRows[a].status # "NONE" => leadRows'[a] = leadRows[a]

LEMMA OthersStaySound ==
  ASSUME NEW r \in Researches, RowsOfOthers(r), NEW q \in Researches \ {r}, RunIsSound(q)
  PROVE  RunIsSound(q)'
  <1>1. /\ research'[q] = research[q] /\ runRow'[q] = runRow[q] /\ Known(q)' = Known(q) /\ At(q)' = At(q)
        /\ Listing(q)' = Listing(q) /\ Unwritten(q)' = Unwritten(q) /\ Discovered(q)' = Discovered(q)
        /\ Enriched(q)' = Enriched(q) /\ WithContact(q)' = WithContact(q)
    BY DEF RowsOfOthers, Known, At, Listing, Unwritten, Discovered, Enriched, WithContact, Among
  <1>2. \A a : HasClaim(q, a) => HasClaim(q, a)'
    BY DEF RowsOfOthers, HasClaim
  <1>3. ASSUME NEW a \in Found, NEW S, "NONE" \notin S, Wrote(accountRow, q, a, S)
        PROVE  accountRow'[a] = accountRow[a]
    BY <1>3 DEF RowsOfOthers, Wrote
  <1>4. ASSUME NEW a \in Found, WholeAccount(q, a) PROVE WholeAccount(q, a)'
    <2>1. accountRow'[a] = accountRow[a]  BY <1>3, <1>4 DEF WholeAccount
    <2> QED  BY <1>1, <1>2, <1>4, <2>1 DEF WholeAccount, RowsOfOthers, Wrote, Inserted, Referred
  <1>5. Discovered(q) => Discovered(q)' /\ Wrote(accountRow, q, At(q), {"DISCOVERED"})'
    BY <1>1, <1>3 DEF RunIsSound, Wrote
  <1>6. Enriched(q) \/ WithContact(q) => Wrote(accountRow, q, At(q), {"ENRICHED"})' /\ Referred(q, At(q))'
    BY <1>1, <1>2, <1>3 DEF RunIsSound, Wrote, Referred
  <1>7. WithContact(q) => Inserted(contactRows, q, At(q))'
    BY <1>1 DEF RunIsSound, Inserted, RowsOfOthers
  <1> QED  BY <1>1, <1>2, <1>4, <1>5, <1>6, <1>7 DEF RunIsSound

LEMMA ResearchRule ==
  ASSUME ResearchInvariant, ResearchTypeOK', NEW r \in Researches, RowsOfOthers(r), RunIsSound(r)'
  PROVE  ResearchInvariant'
  BY OthersStaySound DEF ResearchInvariant

LEMMA RunFields ==
  ASSUME ResearchTypeOK, NEW r \in Researches
  PROVE  /\ research[r].pc \in ResearchPoints /\ research[r].stage \in ResearchStages /\ At(r) \in Nat
         /\ research[r].skipped \subseteq Found /\ research[r].fact \in Facts \cup {"none"}
         /\ AccountCount \in Nat \ {0} /\ \A a \in Found : a \in Nat /\ 1 <= a /\ a <= AccountCount
  BY AccountCountAssumption DEF ResearchTypeOK, ResearchType, Found, At

\* How a run moves on.
RunMoves(r) ==
  /\ research' \in [Researches -> ResearchType]
  /\ \A q \in Researches \ {r} : research'[q] = research[q]

LEMMA GoOnMoves ==
  ASSUME ResearchTypeOK, NEW r \in Researches, NEW point \in ResearchPoints, GoOn(r, point)
  PROVE  /\ RunMoves(r) /\ At(r)' = At(r) /\ Known(r)' = Known(r)
         /\ research'[r].pc = point /\ research'[r].stage = research[r].stage
         /\ research'[r].skipped = research[r].skipped
  <1>1. research \in [Researches -> ResearchType] /\ research[r] \in ResearchType  BY DEF ResearchTypeOK
  <1>2. research'[r] = [research[r] EXCEPT !.pc = point]  BY <1>1 DEF GoOn
  <1>3. [research[r] EXCEPT !.pc = point] \in ResearchType  BY <1>1 DEF ResearchType
  <1>4. RunMoves(r)  BY <1>1, <1>3 DEF GoOn, RunMoves
  <1> QED  BY <1>1, <1>2, <1>4 DEF ResearchType, At, Known

LEMMA FetchMoves ==
  ASSUME ResearchTypeOK, NEW r \in Researches, NEW stage \in ResearchStages, Fetch(r, stage)
  PROVE  /\ RunMoves(r) /\ At(r)' = At(r) /\ Known(r)' = Known(r)
         /\ research'[r].pc = "lookup" /\ research'[r].stage = stage
         /\ research'[r].skipped = research[r].skipped
  <1>1. research \in [Researches -> ResearchType] /\ research[r] \in ResearchType  BY DEF ResearchTypeOK
  <1>2. research'[r] = [research[r] EXCEPT !.pc = "lookup", !.stage = stage]  BY <1>1 DEF Fetch
  <1>3. [research[r] EXCEPT !.pc = "lookup", !.stage = stage] \in ResearchType
    BY <1>1 DEF ResearchType, ResearchPoints, AskPoints
  <1>4. RunMoves(r)  BY <1>1, <1>3 DEF Fetch, RunMoves
  <1> QED  BY <1>1, <1>2, <1>4 DEF ResearchType, At, Known

\* A step that writes at most evidence, and keeps the run's place among the accounts.
LEMMA QuietRunRule ==
  ASSUME ResearchInvariant, NEW r \in Researches, RunMoves(r),
         UNCHANGED <<accountRow, contactRows, leadRows>>, evidence \subseteq evidence',
         cached' \in [DOMAIN cached' -> Facts], UNCHANGED runRow,
         research'[r].skipped = research[r].skipped, At(r)' = At(r),
         \/ research'[r].pc \in {"catch", "thrown"}
         \/ /\ Known(r)' = Known(r) \/ ~Discovered(r)'
            /\ Listing(r)' => Listing(r) \/ research[r].pc = "idle"
            /\ research'[r].pc = "next" => Listing(r)
            /\ Unwritten(r)' => Unwritten(r)
            /\ Discovered(r)' => Discovered(r)
            /\ research'[r].pc = "enrich" => ~Known(r) \/ HasClaim(r, At(r))'
            /\ Enriched(r)' => Enriched(r)
            /\ WithContact(r)' => WithContact(r)
            /\ research'[r].pc \notin {"succeed", "done", "idle"},
         research[r].pc # "done"
  PROVE  ResearchInvariant'
  <1>1. ResearchTypeOK /\ RunIsSound(r)  BY DEF ResearchInvariant
  <1>2. ResearchTypeOK'  BY <1>1 DEF ResearchTypeOK, RunMoves
  <1>3. RowsOfOthers(r)  BY DEF RunMoves, RowsOfOthers
  <1>4. /\ \A a \in Found : WholeAccount(r, a) => WholeAccount(r, a)'
        /\ \A a : HasClaim(r, a) => HasClaim(r, a)'
    BY DEF WholeAccount, Wrote, Inserted, Referred, HasClaim
  <1>5. RunIsSound(r)'
    <2>1. CASE research'[r].pc \in {"catch", "thrown"}
      BY <1>1, <2>1 DEF RunIsSound, Listing, Unwritten, Discovered, Enriched, WithContact, Among, AskPoints
    <2>2. CASE research'[r].pc \notin {"catch", "thrown"}
      <3>1. \A a \in Found : At(r) = 0 => ~(a <= At(r))  BY <1>1, RunFields
      <3>2. At(r) = 0 => At(r) <= AccountCount  BY <1>1, RunFields
      <3>3. /\ Wrote(accountRow, r, At(r), {"DISCOVERED"})' = Wrote(accountRow, r, At(r), {"DISCOVERED"})
            /\ Wrote(accountRow, r, At(r), {"ENRICHED"})' = Wrote(accountRow, r, At(r), {"ENRICHED"})
            /\ Referred(r, At(r)) => Referred(r, At(r))'
            /\ Inserted(contactRows, r, At(r))' = Inserted(contactRows, r, At(r))
        BY <1>4 DEF Wrote, Referred, HasClaim, Inserted
      <3>4. Listing(r)' => At(r)' = 0  BY <1>1, <2>2 DEF RunIsSound
      <3>5. (research[r].pc = "next")' =>
              At(r)' <= AccountCount /\ \A a \in Found : a <= At(r)' => WholeAccount(r, a)'
        BY <1>1, <1>4, <2>2, <3>1, <3>2 DEF RunIsSound
      <3>6. (Unwritten(r) \/ Discovered(r) \/ Enriched(r) \/ WithContact(r))' =>
              At(r)' \in Found /\ \A a \in Found : a < At(r)' => WholeAccount(r, a)'
        BY <1>1, <1>4, <2>2 DEF RunIsSound
      <3>7. /\ Discovered(r)' => Wrote(accountRow, r, At(r), {"DISCOVERED"})'
            /\ (research[r].pc = "enrich" /\ Known(r))' => HasClaim(r, At(r))'
            /\ (Enriched(r) \/ WithContact(r))' =>
                 Wrote(accountRow, r, At(r), {"ENRICHED"})' /\ Referred(r, At(r))'
            /\ WithContact(r)' => Inserted(contactRows, r, At(r))'
        BY <1>1, <1>4, <2>2, <3>3 DEF RunIsSound, Discovered, Among
      <3>8. /\ (research[r].pc \notin {"succeed", "done"})'
            /\ (runRow[r] = "SUCCEEDED")' => (research[r].pc = "done")'
            /\ (research[r].pc = "idle")' => At(r)' = 0
        BY <1>1, <2>2 DEF RunIsSound
      <3> QED  BY <3>4, <3>5, <3>6, <3>7, <3>8 DEF RunIsSound
    <2> QED  BY <2>1, <2>2
  <1> QED  BY <1>2, <1>3, <1>5, ResearchRule

LEMMA QuestionsKeep ==
  ASSUME ResearchInvariant, NEW r \in Researches,
         \/ LookUpCache(r) \/ CheckQuota(r) \/ RecordUsage(r) \/ AskProvider(r)
         \/ FindSignalEvidence(r) \/ DatabaseThrows(r) \/ CrashResearch(r)
  PROVE  ResearchInvariant'
  <1>0. ResearchTypeOK /\ research[r] \in ResearchType
    BY DEF ResearchInvariant, ResearchTypeOK
  <1>1. ASSUME NEW fact \in Facts, research[r].pc \in {"lookup", "ask"},
               UNCHANGED <<runRow, rows>>, cached' \in [DOMAIN cached' -> Facts],
               research' = [research EXCEPT ![r].pc = Then[research[r].stage], ![r].fact = fact]
        PROVE  ResearchInvariant'
    <2>1. research'[r] = [research[r] EXCEPT !.pc = Then[research[r].stage], !.fact = fact]
      BY <1>0, <1>1 DEF ResearchTypeOK
    <2>2. research[r].stage \in ResearchStages  BY <1>0, RunFields
    <2>3. /\ Then[research[r].stage] \in {"next", "insert", "contact", "role", "signal"}
          /\ Then[research[r].stage] = "next" => research[r].stage = "accounts"
          /\ Then[research[r].stage] = "insert" => research[r].stage = "intelligence"
          /\ Then[research[r].stage] \in {"contact", "role"} => research[r].stage \in {"contacts", "enriched"}
          /\ Then[research[r].stage] = "signal" => research[r].stage = "signals"
      BY <2>2 DEF Then, ResearchStages
    <2> DEFINE point == Then[research[r].stage]
    <2>4. point \in ResearchPoints  BY <2>3 DEF ResearchPoints
    <2> HIDE DEF point
    <2>5. [research[r] EXCEPT !.pc = point, !.fact = fact] \in ResearchType
      BY <1>0, <2>4 DEF ResearchType
    <2>6. research' = [research EXCEPT ![r] = [research[r] EXCEPT !.pc = point, !.fact = fact]]
      BY <1>0, <1>1 DEF ResearchTypeOK, point
    <2>7. RunMoves(r)  BY <1>0, <2>5, <2>6 DEF RunMoves, ResearchTypeOK
    <2>8. /\ research'[r].pc = point /\ research'[r].skipped = research[r].skipped /\ At(r)' = At(r)
      BY <1>0, <2>1 DEF ResearchType, At, point
    <2> USE DEF point
    <2>9. /\ Listing(r)' = FALSE /\ Discovered(r)' = FALSE
          /\ research'[r].pc = "next" => Listing(r)
          /\ Unwritten(r)' => Unwritten(r)
          /\ Enriched(r)' => Enriched(r)
          /\ WithContact(r)' => WithContact(r)
          /\ research'[r].pc \notin {"succeed", "done", "idle", "enrich"}
      BY <1>1, <2>3, <2>8 DEF Listing, Unwritten, Discovered, Enriched, WithContact, Among, AskPoints
    <2> HIDE DEF point
    <2> QED  BY <1>1, <2>7, <2>8, <2>9, QuietRunRule DEF rows
  <1>2. ASSUME NEW point \in {"quota", "count", "ask"}, research[r].pc \in AskPoints, GoOn(r, point),
               UNCHANGED <<runRow, rows, cached>>
        PROVE  ResearchInvariant'
    <2>1. point \in ResearchPoints  BY DEF ResearchPoints, AskPoints
    <2>2. /\ RunMoves(r) /\ At(r)' = At(r) /\ Known(r)' = Known(r)
          /\ research'[r].pc = point /\ research'[r].stage = research[r].stage
          /\ research'[r].skipped = research[r].skipped
      BY <1>0, <1>2, <2>1, GoOnMoves
    <2>3. /\ Listing(r)' = Listing(r) /\ Unwritten(r)' = Unwritten(r) /\ Discovered(r)' = Discovered(r)
          /\ Enriched(r)' = Enriched(r) /\ WithContact(r)' = WithContact(r)
      BY <1>2, <2>2 DEF Listing, Unwritten, Discovered, Enriched, WithContact, Among, AskPoints
    <2>4. /\ research'[r].pc \notin {"succeed", "done", "idle", "enrich", "next"}
          /\ research[r].pc # "done" /\ cached' \in [DOMAIN cached' -> Facts]
      BY <1>0, <1>2, <2>2 DEF AskPoints, ResearchTypeOK
    <2> QED  BY <1>2, <2>2, <2>3, <2>4, QuietRunRule DEF rows
  <1>3. ASSUME NEW point \in {"catch", "thrown"}, GoOn(r, point), research[r].pc # "done",
               UNCHANGED <<runRow, rows, cached>>
        PROVE  ResearchInvariant'
    <2>1. point \in ResearchPoints  BY DEF ResearchPoints
    <2>2. cached' \in [DOMAIN cached' -> Facts]  BY <1>0, <1>3 DEF ResearchTypeOK
    <2> QED  BY <1>0, <1>3, <2>1, <2>2, GoOnMoves, QuietRunRule DEF rows
  <1>4. ASSUME NEW point \in {"detect", "proof"}, GoOn(r, point), research[r].pc = "signal",
               UNCHANGED <<runRow, rows, cached>>
        PROVE  ResearchInvariant'
    <2>1. point \in ResearchPoints  BY DEF ResearchPoints
    <2>2. /\ RunMoves(r) /\ At(r)' = At(r) /\ Known(r)' = Known(r)
          /\ research'[r].pc = point /\ research'[r].skipped = research[r].skipped
      BY <1>0, <1>4, <2>1, GoOnMoves
    <2>3. /\ Listing(r)' = FALSE /\ Unwritten(r)' = FALSE /\ Discovered(r)' = FALSE
          /\ Enriched(r)' = FALSE /\ WithContact(r)
          /\ research'[r].pc \notin {"succeed", "done", "idle", "enrich", "next"}
          /\ cached' \in [DOMAIN cached' -> Facts]
      BY <1>0, <1>4, <2>2 DEF Listing, Unwritten, Discovered, Enriched, WithContact, Among, AskPoints, ResearchTypeOK
    <2> QED  BY <1>4, <2>2, <2>3, QuietRunRule DEF rows
  <1>5. CASE LookUpCache(r)
    <2>1. Question(r) \in DOMAIN cached => cached[Question(r)] \in Facts
      BY <1>0 DEF ResearchTypeOK
    <2>2. cached' \in [DOMAIN cached' -> Facts]  BY <1>0, <1>5 DEF LookUpCache, ResearchTypeOK
    <2> QED  BY <1>1, <1>2, <1>5, <2>1, <2>2 DEF LookUpCache, AskPoints
  <1>6. CASE CheckQuota(r)  BY <1>2, <1>3, <1>6 DEF CheckQuota, Fails, AskPoints
  <1>7. CASE RecordUsage(r)  BY <1>2, <1>7 DEF RecordUsage, AskPoints
  <1>8. CASE AskProvider(r)
    <2>1. ASSUME NEW fact \in Facts,
                 cached' = [k \in DOMAIN cached \cup {Question(r)} |->
                              IF k = Question(r) THEN fact ELSE cached[k]]
          PROVE  cached' \in [DOMAIN cached' -> Facts]
      BY <1>0, <2>1 DEF ResearchTypeOK
    <2> QED  BY <1>1, <1>3, <1>8, <2>1 DEF AskProvider, Fails
  <1>9. CASE FindSignalEvidence(r)  BY <1>4, <1>9 DEF FindSignalEvidence
  <1>10. CASE DatabaseThrows(r) \/ CrashResearch(r)
    BY <1>3, <1>10 DEF DatabaseThrows, CrashResearch, Fails, Awaits
  <1> QED  BY <1>5, <1>6, <1>7, <1>8, <1>9, <1>10

\* What a run has written stays whole while it works on another account.
KeepsEarlier(r) ==
  /\ evidence \subseteq evidence' /\ research[r].skipped \subseteq research'[r].skipped
  /\ \A a \in Found \ {At(r)} : /\ accountRow'[a] = accountRow[a]
                                /\ contactRows'[a] = contactRows[a] /\ leadRows'[a] = leadRows[a]

LEMMA EarlierStayWhole ==
  ASSUME NEW r, KeepsEarlier(r), NEW a \in Found \ {At(r)}, WholeAccount(r, a)
  PROVE  WholeAccount(r, a)'
  BY DEF KeepsEarlier, WholeAccount, Wrote, Inserted, Referred, HasClaim

\* What a run inserts bears its name, and the row was nobody's.
LEMMA InsertsRow ==
  ASSUME ResearchTypeOK, NEW r \in Researches, At(r) \in Found,
         NEW status \in {"DUPLICATE", "DISCOVERED", "ENRICHED"} \cup LeadOutcomes
  PROVE  /\ Inserts(accountRow, r, status) =>
              /\ accountRow' \in TableType /\ accountRow[At(r)].status = "NONE"
              /\ accountRow'[At(r)].status = status /\ accountRow'[At(r)].by = r
              /\ \A a \in Found \ {At(r)} : accountRow'[a] = accountRow[a]
         /\ Inserts(contactRows, r, status) =>
              /\ contactRows' \in TableType /\ contactRows[At(r)].status = "NONE"
              /\ contactRows'[At(r)].status = status /\ contactRows'[At(r)].by = r
              /\ \A a \in Found \ {At(r)} : contactRows'[a] = contactRows[a]
         /\ Inserts(leadRows, r, status) =>
              /\ leadRows' \in TableType /\ leadRows[At(r)].status = "NONE"
              /\ leadRows'[At(r)].status = status /\ leadRows'[At(r)].by = r
              /\ \A a \in Found \ {At(r)} : leadRows'[a] = leadRows[a]
  <1>1. ASSUME NEW table \in TableType, NEW after, table[At(r)].status = "NONE",
               after = [table EXCEPT ![At(r)].status = status, ![At(r)].by = r]
        PROVE  /\ after \in TableType /\ after[At(r)].status = status /\ after[At(r)].by = r
               /\ \A a \in Found \ {At(r)} : after[a] = table[a]
    BY <1>1 DEF TableType
  <1> QED  BY <1>1 DEF Inserts, Exists, At, ResearchTypeOK

LEMMA OutcomesAreReal == "NONE" \notin LeadOutcomes
  <1>1. \A passed \in BOOLEAN, score \in {"high", "middle", "low", "refused"} : Outcome(passed, score) # "NONE"
    BY DEF Outcome
  <1> QED  BY <1>1, ScoresAssumption DEF LeadOutcomes

LEMMA AccountWritesKeep ==
  ASSUME ResearchInvariant, NEW r \in Researches, MatchAccount(r) \/ InsertAccount(r)
  PROVE  ResearchInvariant'
  <1>0. ResearchTypeOK /\ RunIsSound(r)  BY DEF ResearchInvariant
  <1>1. Unwritten(r) /\ research[r].pc \in {"account", "insert"}
    BY DEF MatchAccount, InsertAccount, Unwritten, Among
  <1>2. At(r) \in Found /\ \A a \in Found : a < At(r) => WholeAccount(r, a)
    BY <1>0, <1>1 DEF RunIsSound
  <1>3. CASE Fails(r) /\ UNCHANGED <<runRow, rows, cached>>
    BY <1>0, <1>1, <1>3, GoOnMoves, QuietRunRule DEF Fails, ResearchPoints, ResearchTypeOK, rows
  <1>4. CASE Fetch(r, "intelligence") /\ UNCHANGED <<runRow, rows, cached>>
    <2>1. /\ RunMoves(r) /\ At(r)' = At(r) /\ research'[r].pc = "lookup"
          /\ research'[r].stage = "intelligence" /\ research'[r].skipped = research[r].skipped
      BY <1>0, <1>4, FetchMoves DEF ResearchStages
    <2>2. /\ Listing(r)' = FALSE /\ Discovered(r)' = FALSE /\ Enriched(r)' = FALSE
          /\ WithContact(r)' = FALSE /\ cached' \in [DOMAIN cached' -> Facts]
      BY <1>0, <1>4, <2>1 DEF Listing, Discovered, Enriched, WithContact, Among, AskPoints, ResearchTypeOK
    <2> QED  BY <1>1, <1>4, <2>1, <2>2, QuietRunRule DEF rows
  <1>5. ASSUME NEW status \in {"DUPLICATE", "DISCOVERED"}, Inserts(accountRow, r, status),
               GoOn(r, IF status = "DUPLICATE" THEN "next" ELSE "claim"),
               UNCHANGED <<runRow, contactRows, leadRows, evidence, signalRow, cached, usage>>
        PROVE  ResearchInvariant'
    <2> DEFINE point == IF status = "DUPLICATE" THEN "next" ELSE "claim"
    <2>1. /\ RunMoves(r) /\ At(r)' = At(r) /\ research'[r].pc = point
          /\ research'[r].skipped = research[r].skipped
      BY <1>0, <1>5, GoOnMoves DEF ResearchPoints
    <2>2. /\ accountRow' \in TableType /\ accountRow[At(r)].status = "NONE"
          /\ accountRow'[At(r)].status = status /\ accountRow'[At(r)].by = r
          /\ \A a \in Found \ {At(r)} : accountRow'[a] = accountRow[a]
      BY <1>0, <1>2, <1>5, InsertsRow
    <2>3. ResearchTypeOK'  BY <1>0, <1>5, <2>1, <2>2 DEF ResearchTypeOK, RunMoves
    <2>4. RowsOfOthers(r)  BY <1>5, <2>1, <2>2 DEF RowsOfOthers, RunMoves
    <2>5. KeepsEarlier(r)  BY <1>5, <2>1, <2>2 DEF KeepsEarlier
    <2>6. \A a \in Found : a < At(r) => WholeAccount(r, a)'
      BY <1>0, <1>2, <2>5, EarlierStayWhole, RunFields
    <2>7. Wrote(accountRow, r, At(r), {status})'  BY <2>1, <2>2 DEF Wrote
    <2>8. status = "DUPLICATE" => WholeAccount(r, At(r))'
      BY <2>1, <2>2 DEF WholeAccount, Wrote
    <2>9. At(r) <= AccountCount /\ At(r) \in Nat /\ \A a \in Found : a <= At(r) => a < At(r) \/ a = At(r)
      BY <1>0, <1>2, RunFields
    <2>10. RunIsSound(r)'
      <3>1. /\ Listing(r)' = FALSE /\ Unwritten(r)' = FALSE /\ Enriched(r)' = FALSE
            /\ WithContact(r)' = FALSE /\ research'[r].pc \in {"next", "claim"}
            /\ Discovered(r)' = (status = "DISCOVERED")
            /\ research'[r].pc = "next" => status = "DUPLICATE"
        BY <2>1 DEF Listing, Unwritten, Discovered, Enriched, WithContact, Among, AskPoints
      <3>2. runRow'[r] # "SUCCEEDED"  BY <1>0, <1>1, <1>5 DEF RunIsSound
      <3>4. status = "DUPLICATE" => \A a \in Found : a <= At(r) => WholeAccount(r, a)'
        BY <2>1, <2>6, <2>8, <2>9
      <3>5. At(r)' \in Found /\ \A a \in Found : a < At(r)' => WholeAccount(r, a)'
        BY <1>2, <2>1, <2>6
      <3>6. status = "DISCOVERED" => Wrote(accountRow, r, At(r), {"DISCOVERED"})'
        BY <2>7
      <3>7. (status = "DUPLICATE") => At(r)' <= AccountCount /\ \A a \in Found : a <= At(r)' => WholeAccount(r, a)'
        BY <2>1, <2>9, <3>4
      <3> QED  BY <3>1, <3>2, <3>5, <3>6, <3>7 DEF RunIsSound
    <2> QED  BY <2>3, <2>4, <2>10, ResearchRule
  <1>6. CASE MatchAccount(r)
    BY <1>3, <1>4, <1>5, <1>6 DEF MatchAccount, rows
  <1>7. CASE InsertAccount(r)
    BY <1>3, <1>5, <1>7 DEF InsertAccount, rows
  <1> QED  BY <1>6, <1>7

\* A piece of evidence more, or the run fails on one that is there.
LEMMA EvidenceKeeps ==
  ASSUME ResearchInvariant, NEW r \in Researches,
         SaveClaims(r) \/ SaveRole(r) \/ SaveSignalEvidence(r) \/ DetectSignal(r)
  PROVE  ResearchInvariant'
  <1>0. ResearchTypeOK /\ RunIsSound(r) /\ cached' \in [DOMAIN cached' -> Facts]
    BY DEF ResearchInvariant, ResearchTypeOK, SaveClaims, SaveRole, SaveSignalEvidence, DetectSignal
  <1>1. UNCHANGED <<runRow, accountRow, contactRows, leadRows>> /\ research[r].pc # "done"
    BY DEF SaveClaims, SaveRole, SaveSignalEvidence, DetectSignal
  <1>2. ASSUME Fails(r), UNCHANGED evidence PROVE ResearchInvariant'
    BY <1>0, <1>1, <1>2, GoOnMoves, QuietRunRule DEF Fails, ResearchPoints
  <1>3. ASSUME NEW from \in {"claim", "role", "proof", "detect"}, research[r].pc = from,
               NEW point \in {"enrich", "person", "detect", "lead"}, GoOn(r, point),
               from = "claim" <=> point = "enrich", from = "role" <=> point = "person",
               evidence \subseteq evidence', point = "enrich" => ~Known(r) \/ HasClaim(r, At(r))'
        PROVE  ResearchInvariant'
    <2>1. /\ RunMoves(r) /\ At(r)' = At(r) /\ Known(r)' = Known(r)
          /\ research'[r].pc = point /\ research'[r].skipped = research[r].skipped
      BY <1>0, <1>3, GoOnMoves DEF ResearchPoints
    <2>2. /\ Listing(r)' = FALSE /\ Unwritten(r)' = FALSE
          /\ Discovered(r)' => Discovered(r)
          /\ Enriched(r)' => Enriched(r)
          /\ WithContact(r)' => WithContact(r)
          /\ research'[r].pc \notin {"succeed", "done", "idle", "next"}
      BY <1>3, <2>1 DEF Listing, Unwritten, Discovered, Enriched, WithContact, Among, AskPoints
    <2> QED  BY <1>0, <1>1, <1>3, <2>1, <2>2, QuietRunRule
  <1>4. CASE SaveClaims(r)
    <2>1. CASE ~Known(r) /\ GoOn(r, "enrich") /\ UNCHANGED evidence
      BY <1>3, <1>4, <2>1 DEF SaveClaims
    <2>2. CASE evidence' = evidence \cup {Observation(r, "INDUSTRY")} /\ GoOn(r, "enrich")
      <3>1. At(r)' = At(r)  BY <1>0, <2>2, GoOnMoves DEF ResearchPoints
      <3> DEFINE claim == Observation(r, "INDUSTRY")
      <3>a. claim.type = "INDUSTRY" /\ claim.of = At(r) /\ claim.by = r
        BY DEF Observation, At
      <3>2. HasClaim(r, At(r))'  BY <2>2, <3>1, <3>a DEF HasClaim
      <3> QED  BY <1>3, <1>4, <2>2, <3>2 DEF SaveClaims
    <2> QED  BY <1>2, <1>4, <2>1, <2>2 DEF SaveClaims, SavesEvidence
  <1>5. CASE SaveRole(r)
    BY <1>2, <1>3, <1>5 DEF SaveRole, SavesEvidence
  <1>6. CASE SaveSignalEvidence(r)
    BY <1>2, <1>3, <1>6 DEF SaveSignalEvidence, SavesEvidence
  <1>7. CASE DetectSignal(r)
    BY <1>3, <1>7 DEF DetectSignal
  <1> QED  BY <1>4, <1>5, <1>6, <1>7

LEMMA EnrichKeeps ==
  ASSUME ResearchInvariant, NEW r \in Researches, EnrichAccount(r)
  PROVE  ResearchInvariant'
  <1>0. ResearchTypeOK /\ RunIsSound(r) /\ research[r].pc = "enrich"
    BY DEF ResearchInvariant, EnrichAccount
  <1>1. /\ At(r) \in Found /\ \A a \in Found : a < At(r) => WholeAccount(r, a)
        /\ Wrote(accountRow, r, At(r), {"DISCOVERED"})
        /\ Known(r) => HasClaim(r, At(r))
        /\ runRow[r] # "SUCCEEDED"
    BY <1>0 DEF RunIsSound, Discovered, Among
  <1>2. /\ RunMoves(r) /\ At(r)' = At(r) /\ research'[r].pc = "lookup" /\ research'[r].stage = "contacts"
        /\ research'[r].skipped = research[r].skipped
    BY <1>0, FetchMoves DEF EnrichAccount, ResearchStages
  <1>3. /\ accountRow' = [accountRow EXCEPT ![At(r)].status = "ENRICHED", ![At(r)].refers = Known(r)]
        /\ UNCHANGED <<runRow, contactRows, leadRows, evidence, signalRow, cached, usage>>
    BY DEF EnrichAccount, At
  <1>4. /\ accountRow' \in TableType /\ accountRow'[At(r)].status = "ENRICHED"
        /\ accountRow'[At(r)].refers = Known(r) /\ accountRow'[At(r)].by = accountRow[At(r)].by
        /\ \A a \in Found \ {At(r)} : accountRow'[a] = accountRow[a]
    <2>1. Known(r) \in BOOLEAN  BY DEF Known
    <2> DEFINE row == [accountRow[At(r)] EXCEPT !.status = "ENRICHED", !.refers = Known(r)]
    <2>2. accountRow \in TableType /\ At(r) \in Found  BY <1>0, <1>1 DEF ResearchTypeOK
    <2>3. accountRow' = [accountRow EXCEPT ![At(r)] = row]  BY <1>3, <2>2 DEF TableType
    <2>4. /\ row \in [status : {"NONE", "DUPLICATE", "DISCOVERED", "ENRICHED"} \cup LeadOutcomes,
                       by : Researches \cup {"none"}, refers : BOOLEAN]
          /\ row.status = "ENRICHED" /\ row.refers = Known(r) /\ row.by = accountRow[At(r)].by
      BY <2>1, <2>2 DEF TableType
    <2> HIDE DEF row
    <2> QED  BY <2>2, <2>3, <2>4 DEF TableType
  <1>5. ResearchTypeOK'  BY <1>0, <1>2, <1>3, <1>4 DEF ResearchTypeOK, RunMoves
  <1>6. RowsOfOthers(r)  BY <1>1, <1>2, <1>3, <1>4 DEF RowsOfOthers, RunMoves, Wrote
  <1>7. \A a \in Found : a < At(r) => WholeAccount(r, a)'
    <2>1. KeepsEarlier(r)  BY <1>2, <1>3, <1>4 DEF KeepsEarlier
    <2> QED  BY <1>0, <1>1, <2>1, EarlierStayWhole, RunFields
  <1>8. Wrote(accountRow, r, At(r), {"ENRICHED"})' /\ Referred(r, At(r))'
    BY <1>1, <1>2, <1>3, <1>4 DEF Wrote, Referred, HasClaim
  <1>9. /\ Listing(r)' = FALSE /\ Unwritten(r)' = FALSE /\ Discovered(r)' = FALSE /\ WithContact(r)' = FALSE
    BY <1>2 DEF Listing, Unwritten, Discovered, WithContact, Among, AskPoints
  <1>10. At(r)' \in Found /\ \A a \in Found : a < At(r)' => WholeAccount(r, a)'
    BY <1>1, <1>2, <1>7
  <1>11. RunIsSound(r)'  BY <1>1, <1>2, <1>3, <1>8, <1>9, <1>10 DEF RunIsSound
  <1> QED  BY <1>5, <1>6, <1>11, ResearchRule

LEMMA ContactKeeps ==
  ASSUME ResearchInvariant, NEW r \in Researches, InsertFoundContact(r)
  PROVE  ResearchInvariant'
  <1>0. ResearchTypeOK /\ RunIsSound(r) /\ research[r].pc = "person"
    BY DEF ResearchInvariant, InsertFoundContact
  <1>1. /\ At(r) \in Found /\ \A a \in Found : a < At(r) => WholeAccount(r, a)
        /\ Wrote(accountRow, r, At(r), {"ENRICHED"}) /\ Referred(r, At(r))
        /\ runRow[r] # "SUCCEEDED"
    BY <1>0 DEF RunIsSound, Enriched, Among
  <1>2. CASE Fails(r) /\ UNCHANGED contactRows
    BY <1>0, <1>2, GoOnMoves, QuietRunRule DEF InsertFoundContact, Fails, ResearchPoints, ResearchTypeOK
  <1>3. CASE Inserts(contactRows, r, "ENRICHED") /\ (Fetch(r, "signals") \/ GoOn(r, "lead"))
    <2>1. /\ RunMoves(r) /\ At(r)' = At(r) /\ research'[r].skipped = research[r].skipped
          /\ research'[r].pc = "lead" \/ (research'[r].pc = "lookup" /\ research'[r].stage = "signals")
      BY <1>0, <1>3, GoOnMoves, FetchMoves DEF ResearchPoints, ResearchStages
    <2>2. /\ contactRows' \in TableType /\ contactRows[At(r)].status = "NONE"
          /\ contactRows'[At(r)].status = "ENRICHED" /\ contactRows'[At(r)].by = r
          /\ \A a \in Found \ {At(r)} : contactRows'[a] = contactRows[a]
      BY <1>0, <1>1, <1>3, InsertsRow
    <2>3. UNCHANGED <<runRow, accountRow, leadRows, evidence, signalRow, cached, usage>>
      BY DEF InsertFoundContact
    <2>4. ResearchTypeOK'  BY <1>0, <2>1, <2>2, <2>3 DEF ResearchTypeOK, RunMoves
    <2>5. RowsOfOthers(r)  BY <2>1, <2>2, <2>3 DEF RowsOfOthers, RunMoves
    <2>6. KeepsEarlier(r)  BY <2>1, <2>2, <2>3 DEF KeepsEarlier
    <2>7. At(r)' \in Found /\ \A a \in Found : a < At(r)' => WholeAccount(r, a)'
      BY <1>0, <1>1, <2>1, <2>6, EarlierStayWhole, RunFields
    <2>8. Wrote(accountRow, r, At(r), {"ENRICHED"})' /\ Referred(r, At(r))' /\ Inserted(contactRows, r, At(r))'
      BY <1>1, <2>1, <2>2, <2>3 DEF Wrote, Referred, HasClaim, Inserted
    <2>9. /\ Listing(r)' = FALSE /\ Unwritten(r)' = FALSE /\ Discovered(r)' = FALSE
          /\ research'[r].pc \notin {"next", "enrich", "succeed", "done", "idle"}
      BY <2>1 DEF Listing, Unwritten, Discovered, Among, AskPoints
    <2>10. RunIsSound(r)'  BY <1>1, <2>3, <2>7, <2>8, <2>9 DEF RunIsSound
    <2> QED  BY <2>4, <2>5, <2>10, ResearchRule
  <1> QED  BY <1>2, <1>3 DEF InsertFoundContact

\* A run that has done with an account goes on to the next, or fails.
LEMMA NextRule ==
  ASSUME ResearchInvariant, NEW r \in Researches, RowsOfOthers(r), KeepsEarlier(r), ResearchTypeOK',
         At(r) \in Found, \A a \in Found : a < At(r) => WholeAccount(r, a), WholeAccount(r, At(r))',
         At(r)' = At(r), research'[r].pc = "next", runRow'[r] # "SUCCEEDED"
  PROVE  ResearchInvariant'
  <1>1. ResearchTypeOK  BY DEF ResearchInvariant
  <1>2. /\ At(r) \in Nat /\ At(r) <= AccountCount
        /\ \A a \in Found : a <= At(r) => a < At(r) \/ a = At(r)
        /\ \A a \in Found : a < At(r) => a # At(r)
    BY <1>1, RunFields
  <1>3. \A a \in Found : a <= At(r)' => WholeAccount(r, a)'
    BY <1>2, EarlierStayWhole
  <1>4. /\ Listing(r)' = FALSE /\ Unwritten(r)' = FALSE /\ Discovered(r)' = FALSE
        /\ Enriched(r)' = FALSE /\ WithContact(r)' = FALSE
    BY DEF Listing, Unwritten, Discovered, Enriched, WithContact, Among, AskPoints
  <1>5. RunIsSound(r)'  BY <1>2, <1>3, <1>4 DEF RunIsSound
  <1> QED  BY <1>5, ResearchRule

LEMMA SkipKeeps ==
  ASSUME ResearchInvariant, NEW r \in Researches, MatchContact(r)
  PROVE  ResearchInvariant'
  <1>0. /\ ResearchTypeOK /\ RunIsSound(r) /\ research[r].pc = "contact"
        /\ UNCHANGED <<runRow, rows, cached, usage>>
    BY DEF ResearchInvariant, MatchContact
  <1>1. /\ At(r) \in Found /\ \A a \in Found : a < At(r) => WholeAccount(r, a)
        /\ Wrote(accountRow, r, At(r), {"ENRICHED"}) /\ Referred(r, At(r))
        /\ runRow[r] # "SUCCEEDED" /\ Enriched(r)
    BY <1>0 DEF RunIsSound, Enriched, Among
  <1>2. CASE Fetch(r, "enriched")
    <2>1. /\ RunMoves(r) /\ At(r)' = At(r) /\ research'[r].pc = "lookup"
          /\ research'[r].stage = "enriched" /\ research'[r].skipped = research[r].skipped
      BY <1>0, <1>2, FetchMoves DEF ResearchStages
    <2>2. /\ Listing(r)' = FALSE /\ Unwritten(r)' = FALSE /\ Discovered(r)' = FALSE
          /\ WithContact(r)' = FALSE /\ cached' \in [DOMAIN cached' -> Facts]
      BY <1>0, <2>1 DEF Listing, Unwritten, Discovered, WithContact, Among, AskPoints, ResearchTypeOK
    <2> QED  BY <1>0, <1>1, <2>1, <2>2, QuietRunRule DEF rows
  <1>3. CASE research' = [research EXCEPT ![r].pc = "next", ![r].skipped = @ \cup {research[r].at}]
    <2>1. research \in [Researches -> ResearchType] /\ research[r] \in ResearchType
      BY <1>0 DEF ResearchTypeOK
    <2>2. research'[r] = [research[r] EXCEPT !.pc = "next", !.skipped = @ \cup {At(r)}]
      BY <1>3, <2>1 DEF At
    <2>3. [research[r] EXCEPT !.pc = "next", !.skipped = @ \cup {At(r)}] \in ResearchType
      BY <1>1, <2>1 DEF ResearchType, ResearchPoints
    <2>4. research' = [research EXCEPT ![r] = [research[r] EXCEPT !.pc = "next", !.skipped = @ \cup {At(r)}]]
      BY <1>3, <2>1 DEF At
    <2>5. RunMoves(r)  BY <2>1, <2>3, <2>4 DEF RunMoves
    <2>6. /\ At(r)' = At(r) /\ research'[r].pc = "next"
          /\ research'[r].skipped = research[r].skipped \cup {At(r)}
      BY <2>1, <2>2 DEF ResearchType, At
    <2>7. ResearchTypeOK' /\ RowsOfOthers(r)
      BY <1>0, <2>5 DEF ResearchTypeOK, RunMoves, rows, RowsOfOthers
    <2>8. KeepsEarlier(r)  BY <1>0, <2>6 DEF KeepsEarlier, rows
    <2>9. WholeAccount(r, At(r))'
      BY <1>0, <1>1, <2>6 DEF WholeAccount, Wrote, Referred, HasClaim, rows
    <2> QED  BY <1>0, <1>1, <2>6, <2>7, <2>8, <2>9, NextRule
  <1> QED  BY <1>2, <1>3 DEF MatchContact

LEMMA LeadKeeps ==
  ASSUME ResearchInvariant, NEW r \in Researches, SaveScoredLead(r)
  PROVE  ResearchInvariant'
  <1>0. ResearchTypeOK /\ RunIsSound(r) /\ research[r].pc = "lead"
        /\ UNCHANGED <<runRow, contactRows, accountRow, evidence, signalRow, cached, usage>>
    BY DEF ResearchInvariant, SaveScoredLead
  <1>1. /\ At(r) \in Found /\ \A a \in Found : a < At(r) => WholeAccount(r, a)
        /\ Wrote(accountRow, r, At(r), {"ENRICHED"}) /\ Referred(r, At(r))
        /\ Inserted(contactRows, r, At(r)) /\ runRow[r] # "SUCCEEDED"
    BY <1>0 DEF RunIsSound, WithContact, Among
  <1>2. CASE Fails(r) /\ UNCHANGED leadRows
    BY <1>0, <1>2, GoOnMoves, QuietRunRule DEF Fails, ResearchPoints, ResearchTypeOK
  <1>3. ASSUME NEW outcome \in LeadOutcomes, Inserts(leadRows, r, outcome),
               NEW point \in {"next", "catch"}, GoOn(r, point)
        PROVE  ResearchInvariant'
    <2>1. /\ RunMoves(r) /\ At(r)' = At(r) /\ research'[r].skipped = research[r].skipped
          /\ research'[r].pc = point
      BY <1>0, <1>3, GoOnMoves DEF ResearchPoints
    <2>2. /\ leadRows' \in TableType /\ leadRows[At(r)].status = "NONE"
          /\ leadRows'[At(r)].status = outcome /\ leadRows'[At(r)].by = r
          /\ \A a \in Found \ {At(r)} : leadRows'[a] = leadRows[a]
      BY <1>0, <1>1, <1>3, InsertsRow
    <2>3. ResearchTypeOK'  BY <1>0, <2>1, <2>2 DEF ResearchTypeOK, RunMoves
    <2>4. RowsOfOthers(r)  BY <1>0, <2>1, <2>2 DEF RowsOfOthers, RunMoves
    <2>5. KeepsEarlier(r)  BY <1>0, <2>1, <2>2 DEF KeepsEarlier
    <2>6. WholeAccount(r, At(r))'
      BY <1>0, <1>1, <2>1, <2>2, OutcomesAreReal DEF WholeAccount, Wrote, Referred, HasClaim, Inserted
    <2>7. CASE point = "next"
      BY <1>0, <1>1, <2>1, <2>3, <2>4, <2>5, <2>6, <2>7, NextRule
    <2>8. CASE point = "catch"
      <3>1. RunIsSound(r)'
        BY <1>0, <1>1, <2>1, <2>8 DEF RunIsSound, Listing, Unwritten, Discovered, Enriched, WithContact,
                                      Among, AskPoints
      <3> QED  BY <2>3, <2>4, <3>1, ResearchRule
    <2> QED  BY <2>7, <2>8
  <1> QED  BY <1>2, <1>3 DEF SaveScoredLead, Fails

LEMMA NextAccountKeeps ==
  ASSUME ResearchInvariant, NEW r \in Researches, NextAccount(r)
  PROVE  ResearchInvariant'
  <1>0. /\ ResearchTypeOK /\ RunIsSound(r) /\ research[r].pc = "next"
        /\ UNCHANGED <<runRow, rows, cached, usage>>
    BY DEF ResearchInvariant, NextAccount
  <1>1. At(r) <= AccountCount /\ \A a \in Found : a <= At(r) => WholeAccount(r, a)
        /\ runRow[r] # "SUCCEEDED"
    BY <1>0 DEF RunIsSound
  <1> DEFINE point == IF At(r) = AccountCount THEN "succeed" ELSE "account"
  <1>2. research' = [research EXCEPT ![r].at = @ + 1, ![r].pc = point]
    BY DEF NextAccount, At
  <1>3. research \in [Researches -> ResearchType] /\ research[r] \in ResearchType
    BY <1>0 DEF ResearchTypeOK
  <1>4. point \in ResearchPoints /\ At(r) + 1 \in Nat  BY <1>0, RunFields DEF ResearchPoints
  <1> HIDE DEF point
  <1>5. research'[r] = [research[r] EXCEPT !.at = At(r) + 1, !.pc = point]
        /\ research' = [research EXCEPT ![r] = [research[r] EXCEPT !.at = At(r) + 1, !.pc = point]]
    BY <1>2, <1>3 DEF At
  <1>6. [research[r] EXCEPT !.at = At(r) + 1, !.pc = point] \in ResearchType
    BY <1>3, <1>4 DEF ResearchType
  <1>7. RunMoves(r)  BY <1>3, <1>5, <1>6 DEF RunMoves
  <1>8. At(r)' = At(r) + 1 /\ research'[r].pc = point /\ research'[r].skipped = research[r].skipped
    BY <1>3, <1>5 DEF ResearchType, At
  <1>9. ResearchTypeOK' /\ RowsOfOthers(r)
    BY <1>0, <1>7 DEF ResearchTypeOK, RunMoves, rows, RowsOfOthers
  <1>10. \A a \in Found : WholeAccount(r, a) => WholeAccount(r, a)'
    BY <1>0, <1>8 DEF WholeAccount, Wrote, Inserted, Referred, HasClaim, rows
  <1>11. /\ point \in {"succeed", "account"} /\ At(r) \in Nat /\ AccountCount \in Nat
         /\ point = "succeed" => \A a \in Found : a <= At(r)
         /\ point = "account" => At(r) + 1 \in Found
         /\ \A a \in Found : a < At(r) + 1 => a <= At(r)
    BY <1>0, <1>1, RunFields DEF point, Found
  <1>12. /\ Listing(r)' = FALSE /\ Discovered(r)' = FALSE
         /\ Enriched(r)' = FALSE /\ WithContact(r)' = FALSE /\ (Unwritten(r)' => point = "account")
    BY <1>8, <1>11 DEF Listing, Unwritten, Discovered, Enriched, WithContact, Among, AskPoints
  <1>13. RunIsSound(r)'
    BY <1>0, <1>1, <1>8, <1>10, <1>11, <1>12 DEF RunIsSound
  <1> QED  BY <1>9, <1>13, ResearchRule

LEMMA RunEndsKeep ==
  ASSUME ResearchInvariant, NEW r \in Researches, StartResearch(r) \/ Succeed(r) \/ CatchFailure(r)
  PROVE  ResearchInvariant'
  <1>0. ResearchTypeOK /\ RunIsSound(r) /\ UNCHANGED <<rows, cached, usage>>
    BY DEF ResearchInvariant, StartResearch, Succeed, CatchFailure
  <1>1. ASSUME NEW status \in {"RUNNING", "SUCCEEDED", "FAILED"},
               runRow' = [runRow EXCEPT ![r] = status] \/ (runRow' = runRow /\ research[r].pc # "done"),
               RunMoves(r), At(r)' = At(r), research'[r].skipped = research[r].skipped,
               \/ research'[r].pc = "thrown" /\ status # "SUCCEEDED"
               \/ research'[r].pc = "done" /\ research[r].pc = "succeed"
               \/ research[r].pc = "idle" /\ status = "RUNNING"
                  /\ research'[r].pc = "lookup" /\ research'[r].stage = "accounts"
        PROVE  ResearchInvariant'
    <2>1. ResearchTypeOK'  BY <1>0, <1>1 DEF ResearchTypeOK, RunMoves, rows
    <2>2. RowsOfOthers(r)  BY <1>0, <1>1 DEF RowsOfOthers, RunMoves, rows, ResearchTypeOK
    <2>3. \A a \in Found : WholeAccount(r, a) => WholeAccount(r, a)'
      BY <1>0, <1>1 DEF WholeAccount, Wrote, Inserted, Referred, HasClaim, rows
    <2>4. runRow'[r] = "SUCCEEDED" => status = "SUCCEEDED" /\ research'[r].pc = "done"
      BY <1>0, <1>1 DEF RunIsSound, ResearchTypeOK
    <2>5. /\ Unwritten(r)' = FALSE /\ Discovered(r)' = FALSE /\ Enriched(r)' = FALSE /\ WithContact(r)' = FALSE
          /\ Listing(r)' => research[r].pc = "idle"
      BY <1>1 DEF Listing, Unwritten, Discovered, Enriched, WithContact, Among, AskPoints
    <2>6. RunIsSound(r)'
      BY <1>0, <1>1, <2>3, <2>4, <2>5 DEF RunIsSound
    <2> QED  BY <2>1, <2>2, <2>6, ResearchRule
  <1>2. CASE StartResearch(r)
    BY <1>0, <1>1, <1>2, GoOnMoves, FetchMoves DEF StartResearch, ResearchPoints, ResearchStages
  <1>3. CASE Succeed(r)
    BY <1>0, <1>1, <1>3, GoOnMoves DEF Succeed, ResearchPoints
  <1>4. CASE CatchFailure(r)
    BY <1>0, <1>1, <1>4, GoOnMoves DEF CatchFailure, ResearchPoints
  <1> QED  BY <1>2, <1>3, <1>4

LEMMA ResearchNextKeeps ==
  ASSUME ResearchInvariant, [ResearchNext]_researchVars
  PROVE  ResearchInvariant'
  <1>1. ASSUME UNCHANGED <<research, runRow, rows>>, cached' \in [DOMAIN cached' -> Facts]
        PROVE  ResearchInvariant'
    BY <1>1, SMTT(30) DEF ResearchInvariant, ResearchTypeOK, RunIsSound, rows, Listing, Unwritten, Discovered,
                Enriched, WithContact, Among, At, Known, WholeAccount, Wrote, Inserted, Referred, HasClaim
  <1>2. CASE CacheExpires
    BY <1>1, <1>2 DEF CacheExpires
  <1>3. CASE UNCHANGED researchVars
    BY <1>1, <1>3 DEF researchVars, ResearchInvariant, ResearchTypeOK
  <1> QED
    BY <1>2, <1>3, QuestionsKeep, AccountWritesKeep, EvidenceKeeps, EnrichKeeps, ContactKeeps,
       SkipKeeps, LeadKeeps, NextAccountKeeps, RunEndsKeep DEF ResearchNext

LEMMA ResearchInitHolds ==
  ASSUME ResearchInit
  PROVE  ResearchInvariant
  <1>1. ResearchTypeOK
    BY DEF ResearchInit, ResearchTypeOK, NewResearch, NoRow, ResearchType, ResearchPoints, ResearchStages, TableType
  <1>2. ASSUME NEW r \in Researches PROVE RunIsSound(r)
    BY DEF ResearchInit, NewResearch, RunIsSound, Listing, Unwritten, Discovered, Enriched, WithContact,
           Among, AskPoints, At
  <1> QED  BY <1>1, <1>2 DEF ResearchInvariant

\* Whatever other runs insert meanwhile and whatever fails or dies, a run that is recorded
\* as succeeded wrote itself every account it found, and all that belongs to it.
THEOREM SucceededRunsAreWhole == ResearchSpec => []SucceededRunIsWhole
  <1>1. ResearchInvariant => SucceededRunIsWhole
    BY DEF ResearchInvariant, RunIsSound, WholeAccount, Wrote, Inserted, Referred, HasClaim,
           SucceededRunIsWhole
  <1> QED  BY <1>1, ResearchInitHolds, ResearchNextKeeps, PTL DEF ResearchSpec
=============================================================================
