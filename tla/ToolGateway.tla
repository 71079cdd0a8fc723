----------------------------- MODULE ToolGateway ----------------------------
(* ToolGateway.execute: concurrent and repeated requests for one logical side *)
(* effect.  The invocation and its attempts are written before the provider   *)
(* is reached, and the idempotency claim decides who may reach it.            *)
EXTENDS Naturals, IdempotencyStore

CONSTANTS
  Calls,         \* requests to the gateway; each runs once
  Ids,           \* toolCallIds; a request that is repeated may bring the same one
  MaxToolTries,  \* attempts of a call: the tool's maxRetries + 1
  ToolFaults     \* "crash": a process dies, or the database refuses, at an await

ASSUME MaxToolTriesAssumption == MaxToolTries \in Nat \ {0}
ASSUME ToolFaultsAssumption == ToolFaults \subseteq {"crash"}

VARIABLES
  tool,        \* the definition all calls resolve to
  invocation,  \* tool_invocations, the status by id
  attempts,    \* tool_invocation_attempts, by id and number
  key,         \* the idempotency record of the requests' key
  effects,     \* the attempts, <<id, number>>, that took effect at the provider
  pc, id,      \* where each call is, and its toolCallId
  tries,       \* the number of its attempt
  got,         \* what its provider answered
  answer       \* the status it returns

local  == <<pc, id, tries, got, answer>>
stored == <<invocation, attempts, key>>
vars   == <<tool, stored, effects, local>>

\* readOnly: sideEffectClass READ_ONLY.  keyed: idempotencyRequired, with a key given.
Tools == [readOnly: BOOLEAN, keyed: BOOLEAN]

\* ERROR stands for every code but the one persistClaimOutcome looks for.
ErrorCodes == {"NONE", "NOT_SUBMITTED", "ERROR"}
Outcomes   == [submitted: BOOLEAN, resultKnown: BOOLEAN, retryable: BOOLEAN,
               errorCode: ErrorCodes]
NoOutcome  == [submitted |-> FALSE, resultKnown |-> FALSE, retryable |-> FALSE,
               errorCode |-> "NONE"]

\* PROVIDER_ERROR stands for every status of a definite failure of the provider.
ToolCallStatuses == {"SUCCESS", "OUTCOME_UNKNOWN", "PROVIDER_ERROR", "VALIDATION_ERROR"}
AttemptStates    == {"NONE", "STARTED", "SENT", "UNSENT"}    \* by submitted: null, true, false
CallPoints == {"idle", "invoke", "claim", "lookup", "replay", "attempt", "send",
               "completeAttempt", "complete", "store", "validate", "done"}

Init ==
  /\ tool \in Tools
  /\ invocation = [i \in Ids |-> "NONE"]
  /\ attempts = [i \in Ids |-> [n \in 1..MaxToolTries |-> "NONE"]]
  /\ key = "ABSENT"
  /\ effects = {}
  /\ pc = [c \in Calls |-> "idle"]
  /\ id \in [Calls -> Ids]
  /\ tries = [c \in Calls |-> 0]
  /\ got = [c \in Calls |-> NoOutcome]
  /\ answer = [c \in Calls |-> "none"]

-----------------------------------------------------------------------------
(* What the gateway makes of an outcome *)

\* mapOutcomeStatus.  Its rules on exceptions and timeouts after a submission follow
\* from the second one; its others name kinds of definite failure.
Status(o) ==
  CASE o.resultKnown /\ o.submitted /\ o.errorCode = "NONE" -> "SUCCESS"
    [] o.submitted /\ ~o.resultKnown                        -> "OUTCOME_UNKNOWN"
    [] OTHER                                                -> "PROVIDER_ERROR"

CanRetry(o, n) == /\ n < MaxToolTries /\ o.retryable
                  /\ tool.readOnly \/ ~o.submitted

\* Variant: an exception is taken for a request that was not sent.
Thrown_Unsent == [submitted |-> FALSE, resultKnown |-> FALSE, retryable |-> FALSE,
                  errorCode |-> "ERROR"]
Thrown == [submitted |-> ~tool.readOnly, resultKnown |-> FALSE, retryable |-> FALSE,
           errorCode |-> "ERROR"]

\* The providers' contract: a success is final and has no code; a request that was not
\* submitted is known to have failed, and it and a rejected one had no effect.
ProviderOutcomes ==
  {o \in Outcomes : /\ o.errorCode = "NONE" => o.submitted /\ o.resultKnown /\ ~o.retryable
                    /\ o.errorCode = "NOT_SUBMITTED" => ~o.submitted
                    /\ ~o.submitted => o.resultKnown}
TakesEffect(o) == IF Status(o) = "SUCCESS" THEN {TRUE}
                  ELSE IF Status(o) = "OUTCOME_UNKNOWN" THEN BOOLEAN ELSE {FALSE}

\* Variant: an unknown outcome gives the key back.
StoredKey_Release(o) == IF Status(o) = "SUCCESS" THEN "COMPLETED" ELSE "FAILED_UNSENT"
\* persistClaimOutcome
StoredKey(o) ==
  CASE Status(o) = "SUCCESS"         -> "COMPLETED"
    [] Status(o) = "OUTCOME_UNKNOWN" -> key
    [] OTHER -> IF o.errorCode = "NOT_SUBMITTED" THEN "FAILED_UNSENT" ELSE "FAILED_SUBMITTED"

-----------------------------------------------------------------------------
Goto(c, p) == pc' = [pc EXCEPT ![c] = p]
Answers(c, s) == answer' = [answer EXCEPT ![c] = s]
Forgets(c) == tries' = [tries EXCEPT ![c] = 0] /\ got' = [got EXCEPT ![c] = NoOutcome]
Recorded(c, s) == invocation' = [invocation EXCEPT ![id[c]] = s]

\* Resolution, policy, approval, input schema and readiness only read; a refusal
\* leaves nothing behind.
Admit(c) ==
  /\ pc[c] = "idle"
  /\ \/ Goto(c, "invoke") /\ UNCHANGED answer
     \/ Goto(c, "done") /\ Answers(c, "refused")
  /\ UNCHANGED <<tool, stored, effects, id, tries, got>>

\* Variant: an invocation of the same id is overwritten.
Insertable_Upsert(i) == TRUE
\* tool_call_id is the primary key: a second insert throws.
Insertable(i) == invocation[i] = "NONE"

CreateInvocation(c) ==
  /\ pc[c] = "invoke"
  /\ \/ /\ Insertable(id[c])
        /\ Recorded(c, "IN_PROGRESS")
        /\ Goto(c, IF tool.keyed THEN "claim" ELSE "attempt")
     \/ /\ ~Insertable(id[c])
        /\ Goto(c, "done")
        /\ UNCHANGED invocation
  /\ UNCHANGED <<tool, attempts, key, effects, id, tries, got, answer>>

ClaimKey(c) ==
  /\ pc[c] = "claim"
  /\ key' = Claim(key)
  /\ Goto(c, IF Claimable(key) THEN "attempt" ELSE "lookup")
  /\ UNCHANGED <<tool, invocation, attempts, effects, id, tries, got, answer>>

\* Only a COMPLETED record is replayed, and it holds a SUCCESS.
ReplayOf(k) == IF k = "COMPLETED" THEN "SUCCESS" ELSE "OUTCOME_UNKNOWN"

\* The record is read after the claim failed, in a transaction of its own.
LookUp(c) ==
  /\ pc[c] = "lookup"
  /\ Answers(c, ReplayOf(key))
  /\ Goto(c, "replay")
  /\ UNCHANGED <<tool, stored, effects, id, tries, got>>

Replay(c) ==
  /\ pc[c] = "replay"
  /\ Recorded(c, answer[c])
  /\ Goto(c, "done")
  /\ UNCHANGED <<tool, attempts, key, effects, id, tries, got, answer>>

StartAttempt(c) ==
  /\ pc[c] = "attempt"
  /\ tries' = [tries EXCEPT ![c] = @ + 1]
  /\ attempts' = [attempts EXCEPT ![id[c]][tries[c] + 1] = "STARTED"]
  /\ Goto(c, "send")
  /\ UNCHANGED <<tool, invocation, key, effects, id, got, answer>>

Send(c) ==
  /\ pc[c] = "send"
  /\ \/ \E o \in ProviderOutcomes : \E e \in TakesEffect(o) :
          /\ got' = [got EXCEPT ![c] = o]
          /\ effects' = effects \cup (IF e THEN {<<id[c], tries[c]>>} ELSE {})
     \/ \E e \in BOOLEAN :
          /\ got' = [got EXCEPT ![c] = Thrown]
          /\ effects' = effects \cup (IF e THEN {<<id[c], tries[c]>>} ELSE {})
  /\ Goto(c, "completeAttempt")
  /\ UNCHANGED <<tool, stored, id, tries, answer>>

CompleteAttempt(c) ==
  /\ pc[c] = "completeAttempt"
  /\ attempts' = [attempts EXCEPT ![id[c]][tries[c]] =
                    IF got[c].submitted THEN "SENT" ELSE "UNSENT"]
  /\ Goto(c, IF Status(got[c]) # "SUCCESS" /\ CanRetry(got[c], tries[c])
             THEN "attempt" ELSE "complete")
  /\ UNCHANGED <<tool, invocation, key, effects, id, tries, got, answer>>

CompleteInvocation(c) ==
  /\ pc[c] = "complete"
  /\ Recorded(c, Status(got[c]))
  /\ Goto(c, IF tool.keyed THEN "store" ELSE "validate")
  /\ UNCHANGED <<tool, attempts, key, effects, id, tries, got, answer>>

StoreOutcome(c) ==
  /\ pc[c] = "store"
  /\ key' = StoredKey(got[c])
  /\ Goto(c, "validate")
  /\ UNCHANGED <<tool, invocation, attempts, effects, id, tries, got, answer>>

\* Variant: the answer is refused without a word in the record.
RefusedOutput_Unrecorded(c) == UNCHANGED invocation
RefusedOutput(c) == Recorded(c, "VALIDATION_ERROR")

\* The output schema is looked at last, when record and key are already written.
ValidateOutput(c) ==
  /\ pc[c] = "validate"
  /\ \/ Answers(c, Status(got[c])) /\ UNCHANGED invocation
     \/ /\ Status(got[c]) = "SUCCESS"
        /\ Answers(c, "VALIDATION_ERROR") /\ RefusedOutput(c)
  /\ Goto(c, "done") /\ Forgets(c)
  /\ UNCHANGED <<tool, attempts, key, effects, id>>

\* The call throws or its process dies.
CallFails(c) ==
  /\ "crash" \in ToolFaults
  /\ pc[c] \notin {"idle", "done"}
  /\ Goto(c, "done") /\ Answers(c, "none") /\ Forgets(c)
  /\ UNCHANGED <<tool, stored, effects, id>>

-----------------------------------------------------------------------------
Next == \E c \in Calls :
  \/ Admit(c) \/ CreateInvocation(c) \/ ClaimKey(c) \/ LookUp(c) \/ Replay(c)
  \/ StartAttempt(c) \/ Send(c) \/ CompleteAttempt(c) \/ CompleteInvocation(c)
  \/ StoreOutcome(c) \/ ValidateOutput(c) \/ CallFails(c)

Spec == Init /\ [][Next]_vars
=============================================================================
