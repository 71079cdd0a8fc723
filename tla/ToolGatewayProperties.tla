------------------------ MODULE ToolGatewayProperties -----------------------
(* What must hold of the tool gateway's records and answers. *)
EXTENDS ToolGateway, FiniteSets

Answered(c) == pc[c] = "done" /\ answer[c] \in ToolCallStatuses

\* Records, keys and the places of calls keep their types.
TypeOK ==
  /\ tool \in Tools
  /\ invocation \in [Ids -> ToolCallStatuses \cup {"NONE", "IN_PROGRESS"}]
  /\ attempts \in [Ids -> [1..MaxToolTries -> AttemptStates]]
  /\ key \in KeyStates
  /\ effects \subseteq Ids \X (1..MaxToolTries)
  /\ pc \in [Calls -> CallPoints]
  /\ id \in [Calls -> Ids]
  /\ tries \in [Calls -> 0..MaxToolTries]
  /\ got \in [Calls -> Outcomes]
  /\ answer \in [Calls -> ToolCallStatuses \cup {"none", "refused"}]

\* A keyed tool with side effects takes effect once at most, however many requests
\* race, die, time out, are retried or are sent again (claim, canRetry, persistClaimOutcome).
OneEffect == tool.keyed /\ ~tool.readOnly => \A e, f \in effects : e = f

\* A call that said how it ended said what its invocation says, however it was entered:
\* fresh, replayed or refused by the output schema (completeInvocation).
AnswersAreRecorded == \A c \in Calls : Answered(c) => invocation[id[c]] = answer[c]

\* What records and key say is true of the provider: a success, recorded, replayed or kept
\* in the key, had its effect; a side effect's invocation recorded as failed for sure had
\* none in any attempt, and an attempt recorded as not submitted had none.
RecordsAreTrue ==
  /\ (\E i \in Ids : invocation[i] = "SUCCESS") \/ key = "COMPLETED" => effects # {}
  /\ ~tool.readOnly => \A e \in effects :
       /\ invocation[e[1]] # "PROVIDER_ERROR"
       /\ attempts[e[1]][e[2]] \in {"STARTED", "SENT"}

\* A status once recorded stays, unless the output schema takes a success back.
RecordsAreFinal ==
  [][\A i \in Ids : invocation[i] \in ToolCallStatuses /\ invocation'[i] # invocation[i]
       => invocation[i] = "SUCCESS" /\ invocation'[i] = "VALIDATION_ERROR"]_vars

-----------------------------------------------------------------------------
(* The inductive invariant behind OneEffect *)

\* A call counts its attempts, keeps an outcome the providers can give, and replays
\* a status, which it answers no earlier.
LocalsKept == \A c \in Calls :
  /\ pc[c] \in {"idle", "invoke", "claim"} => tries[c] = 0
  /\ pc[c] = "attempt" => tries[c] < MaxToolTries
  /\ pc[c] \in {"send", "completeAttempt"} => tries[c] > 0
  /\ pc[c] \in {"idle", "invoke"} => answer[c] = "none"
  /\ pc[c] = "replay" => answer[c] \in ToolCallStatuses
  /\ got[c].errorCode = "NOT_SUBMITTED" => ~got[c].submitted

\* The calls that own the claim.
Holds(c) == pc[c] \in {"attempt", "send", "completeAttempt", "complete", "store"}

\* One call holds the claim, the record says so, and nothing had an effect before the
\* holder submits or while the claim can be taken.
ClaimGuards ==
  /\ \A c, d \in Calls : Holds(c) /\ Holds(d) => c = d
  /\ \A c \in Calls : Holds(c) => key = "PENDING"
  /\ Claimable(key) => effects = {}
  /\ \A c \in Calls : pc[c] \in {"attempt", "send"} => effects = {}
  /\ \A c \in Calls : Holds(c) /\ pc[c] \notin {"attempt", "send"} /\ ~got[c].submitted
                     => effects = {}

GatewayInvariant ==
  TypeOK /\ LocalsKept /\ (tool.keyed /\ ~tool.readOnly => ClaimGuards /\ OneEffect)

-----------------------------------------------------------------------------
(* The inductive invariant behind the records *)

Working(c) == pc[c] \in {"claim", "lookup", "replay", "attempt", "send", "completeAttempt",
                         "complete", "store", "validate"}
Entered(c) == Working(c) \/ Answered(c)

\* An invocation belongs to the call that inserted it, says IN_PROGRESS until that call
\* records its end, and then what the call answers.
RecordsAreOwned ==
  /\ \A c, d \in Calls : Entered(c) /\ Entered(d) /\ id[c] = id[d] => c = d
  /\ \A c \in Calls :
       /\ Working(c) /\ pc[c] \notin {"store", "validate"} => invocation[id[c]] = "IN_PROGRESS"
       /\ pc[c] \in {"store", "validate"} => invocation[id[c]] = Status(got[c])
       /\ Answered(c) => invocation[id[c]] = answer[c]

\* A success was seen at the provider, and so was the success that a key keeps.
SuccessesWereSeen ==
  /\ (\E i \in Ids : invocation[i] = "SUCCESS") \/ key = "COMPLETED" => effects # {}
  /\ \A c \in Calls :
       /\ pc[c] = "replay" /\ answer[c] = "SUCCESS" => effects # {}
       /\ pc[c] \in {"completeAttempt", "complete", "store", "validate"} /\ Status(got[c]) = "SUCCESS"
            => effects # {}

\* Until a call sees its side effect, or cannot tell, its invocation has had none.
EffectsWereSeen ==
  /\ \A e \in effects : /\ invocation[e[1]] \notin {"NONE", "PROVIDER_ERROR"}
                        /\ attempts[e[1]][e[2]] \in {"STARTED", "SENT"}
  /\ \A c \in Calls :
       \/ pc[c] \in {"claim", "lookup", "replay", "attempt", "send"}
       \/ /\ pc[c] \in {"completeAttempt", "complete", "store", "validate"}
          /\ Status(got[c]) = "PROVIDER_ERROR"
       => \A e \in effects : e[1] # id[c]

\* The attempt a call is about to send is on record.
SentAreStarted == \A c \in Calls : pc[c] = "send" => attempts[id[c]][tries[c]] = "STARTED"

RecordInvariant ==
  /\ RecordsAreOwned /\ SentAreStarted /\ SuccessesWereSeen
  /\ ~tool.readOnly => EffectsWereSeen
=============================================================================
