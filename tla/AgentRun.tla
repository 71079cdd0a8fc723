------------------------------ MODULE AgentRun -------------------------------
(* Calls to language models: AgentExecutor.execute and the personalization of *)
(* outreach drafts, the reasoning engine they share, the router's fallback    *)
(* from provider to provider, its budget ledger and the accounting table.     *)
EXTENDS Naturals, FiniteSetsExt, SequencesExt

CONSTANTS
  Callers,      \* executions of agents, and drafts being personalized; each runs once
  Models,       \* the models of the catalog, numbered in the order of their names
  MaxRepairs,   \* maxRetries of the reasoning engine
  TokenBudget,  \* budget.maxTokens of an execution
  Estimate,     \* the tokens reserved for an attempt
  Usages,       \* what an attempt may really take
  ModelFaults   \* "database": an INSERT is refused; "secret": no key for a provider

ASSUME ModelsAssumption == Models \subseteq Nat
ASSUME TokensAssumption ==
  MaxRepairs \in Nat /\ TokenBudget \in Nat /\ Estimate \in Nat /\ Usages \subseteq Nat

VARIABLES
  kind,         \* of each caller, "agent" or "draft"
  catalog,      \* [status, price] of each model, as rankCandidates sees it
  wired,        \* the router was given a budget ledger
  caller,       \* where each caller is
  charges,      \* the ledger: the charge of each attempt, by caller
  billed,       \* what each attempt that reached a provider took, by caller
  unreported,   \* the attempts whose answer came without its usage, by caller
  invocations   \* ai_runtime.llm_invocations

agentVars == <<kind, catalog, wired, caller, charges, billed, unreported, invocations>>

\* An attempt is a pair: the repair it belongs to and its place in the route.
NoCharge == [k \in {} |-> 0]
Charged(table, attempt, n) ==
  [k \in DOMAIN table \cup {attempt} |-> IF k = attempt THEN n ELSE table[k]]
NewCaller == [pc |-> "idle", repair |-> 0, tried |-> 0, reply |-> "none", usage |-> 0,
              spent |-> 0, reported |-> 0, confident |-> FALSE,
              checkpoint |-> "none", result |-> "none"]

AgentInit ==
  /\ kind \in [Callers -> {"agent", "draft"}]
  /\ catalog \in [Models -> [status: {"ready", "unregistered", "ineligible"}, price: 1..2]]
  /\ wired \in BOOLEAN
  /\ caller = [c \in Callers |-> NewCaller]
  /\ charges = [c \in Callers |-> NoCharge]
  /\ billed = [c \in Callers |-> NoCharge]
  /\ unreported = [c \in Callers |-> {}]
  /\ invocations = {}

Move(c, state) == caller' = [caller EXCEPT ![c] = state]
Go(c, pc)      == Move(c, [caller[c] EXCEPT !.pc = pc])
Over(c, result, checkpoint) ==
  Move(c, [NewCaller EXCEPT !.pc = "over", !.result = result, !.checkpoint = checkpoint])
Settle(c, result) == Over(c, result, result)

\* What an exception does: execute answers FAILED, the draft's activity throws it on.
Throw(c) == IF kind[c] = "agent" THEN Settle(c, "FAILED")
                                 ELSE Over(c, "FAILED", "none")

-----------------------------------------------------------------------------
(* AgentExecutor, up to the reasoning *)

StartCaller(c) ==
  /\ caller[c].pc = "idle"
  /\ IF kind[c] = "agent" THEN Move(c, [caller[c] EXCEPT !.pc = "lookup", !.checkpoint = "RUNNING"])
                          ELSE Go(c, "call")
  /\ UNCHANGED <<kind, catalog, wired, charges, billed, unreported, invocations>>

\* Deadline and budget, then the agent: it exists, is active and has the capabilities.
CheckRequest(c) ==
  /\ caller[c].pc = "lookup"
  /\ Go(c, "policy") \/ Throw(c)
  /\ UNCHANGED <<kind, catalog, wired, charges, billed, unreported, invocations>>

\* DENY ends the execution; so does REQUIRE_APPROVAL, unless a valid approval is bound to it.
EvaluatePolicy(c) ==
  /\ caller[c].pc = "policy"
  /\ \/ \E outcome \in {"ALLOW", "REQUIRE_APPROVAL"}, bound \in BOOLEAN :
          IF outcome = "REQUIRE_APPROVAL" /\ ~bound THEN Settle(c, "AWAITING_APPROVAL")
                                                   ELSE Go(c, "context")
     \/ Settle(c, "FAILED")
  /\ UNCHANGED <<kind, catalog, wired, charges, billed, unreported, invocations>>

\* Memory and knowledge are retrieved together; one that fails fails the execution.
AssembleContext(c) ==
  /\ caller[c].pc = "context"
  /\ Go(c, "call") \/ Throw(c)
  /\ UNCHANGED <<kind, catalog, wired, charges, billed, unreported, invocations>>

-----------------------------------------------------------------------------
(* LLMRouter.invoke *)

Eligible == {m \in Models : catalog[m].status # "ineligible"}
Cheapest == {m \in Eligible : \A n \in Eligible : catalog[m].price <= catalog[n].price}
Before(m, n) == \/ catalog[m].price < catalog[n].price
                \/ catalog[m].price = catalog[n].price /\ m < n
Route == SetToSortSeq(Eligible, Before)

Attempt(c) == <<caller[c].repair, caller[c].tried>>
Accumulated(c) == LET Charge(k) == charges[c][k] IN MapThenSumSet(Charge, DOMAIN charges[c])

\* No model, or a tie for the best one, is an error.
InvokeRouter(c) ==
  /\ caller[c].pc = "call"
  /\ IF Cardinality(Cheapest) = 1
     THEN Move(c, [caller[c] EXCEPT !.pc = "next", !.tried = 0, !.reply = "none"])
     ELSE Throw(c)
  /\ UNCHANGED <<kind, catalog, wired, charges, billed, unreported, invocations>>

\* The next model of the route; the last failure of all is thrown.
NextModel(c) ==
  /\ caller[c].pc = "next"
  /\ LET tried == caller[c].tried IN
       IF tried = Len(Route) THEN Throw(c)
       ELSE Move(c, [caller[c] EXCEPT !.tried = tried + 1,
                       !.pc = IF catalog[Route[tried + 1]].status = "ready" THEN "ready" ELSE "next"])
  /\ UNCHANGED <<kind, catalog, wired, charges, billed, unreported, invocations>>

\* checkReadiness throws outside the try: there is no fallback and no record.
NotReady(c) ==
  /\ caller[c].pc = "ready" /\ "secret" \in ModelFaults
  /\ Throw(c)
  /\ UNCHANGED <<kind, catalog, wired, charges, billed, unreported, invocations>>

\* Variant: an estimate is compared with the budget alone.
Fits_EstimateOnly(c) == Estimate <= TokenBudget
Fits(c) == Accumulated(c) + Estimate <= TokenBudget

TryReserve(c) ==
  /\ caller[c].pc = "ready"
  /\ IF wired /\ ~Fits(c)
       THEN Move(c, [caller[c] EXCEPT !.pc = "record", !.reply = "blocked"]) /\ UNCHANGED charges
       ELSE /\ charges' = IF wired THEN [charges EXCEPT ![c] = Charged(@, Attempt(c), Estimate)]
                                   ELSE charges
            /\ Go(c, "invoke")
  /\ UNCHANGED <<kind, catalog, wired, billed, unreported, invocations>>

\* unsent: nothing was dispatched (the key, the deadline).  malformed: not the JSON asked
\* for, with its usage.  refused: a status that is final.  down: a timeout, 429 or 5xx.
\* garbled: the body cannot be read, an error the router does not know.
ProviderReplies == {"ok", "unsent", "malformed", "refused", "down", "garbled"}

\* commitActual with what was reported, release, or retain: the reservation stays.
Reconciled(table, attempt, reply, reported) ==
  CASE reply \in {"ok", "malformed"} -> Charged(table, attempt, reported)
    [] reply = "unsent" -> [k \in DOMAIN table \ {attempt} |-> table[k]]
    [] OTHER -> table

\* An answer may come without its usage, which is then read as 0.
InvokeProvider(c) ==
  /\ caller[c].pc = "invoke"
  /\ \E reply \in ProviderReplies, usage \in Usages : \E reported \in {0, usage} :
       /\ billed' = IF reply = "unsent" THEN billed
                    ELSE [billed EXCEPT ![c] = Charged(@, Attempt(c), usage)]
       /\ unreported' = IF reply \in {"ok", "malformed"} /\ reported < usage
                          THEN [unreported EXCEPT ![c] = @ \cup {Attempt(c)}] ELSE unreported
       /\ charges' = IF wired THEN [charges EXCEPT ![c] = Reconciled(@, Attempt(c), reply, reported)]
                              ELSE charges
       /\ IF reply = "garbled" THEN Throw(c)
          ELSE Move(c, [caller[c] EXCEPT !.pc = "record", !.reply = reply,
                                         !.usage = IF reply = "ok" THEN reported ELSE 0])
  /\ UNCHANGED <<kind, catalog, wired, invocations>>

AfterAttempt == [ok |-> "validate", down |-> "next", blocked |-> "fallback"]

\* llmCallId: a draft passes no idempotency key, and all drafts share one name.
CallName(c) == IF kind[c] = "agent" THEN <<c>> ELSE <<"undefined">>
Row(c) == [call |-> CallName(c), attempt |-> Attempt(c), by |-> c]
Taken(row) == \E r \in invocations : r.call = row.call /\ r.attempt = row.attempt

\* Variant: the failure of the INSERT is swallowed.
Unrecorded_Ignored(c) ==
  IF caller[c].reply \in DOMAIN AfterAttempt
    THEN Go(c, AfterAttempt[caller[c].reply]) ELSE Throw(c)
Unrecorded(c) == Throw(c)

\* emitAttempt: the table's key is the call and the attempt.
RecordAttempt(c) ==
  /\ caller[c].pc = "record"
  /\ \/ /\ ~Taken(Row(c))
        /\ invocations' = invocations \cup {Row(c)}
        /\ IF caller[c].reply \in DOMAIN AfterAttempt
             THEN Go(c, AfterAttempt[caller[c].reply]) ELSE Throw(c)
     \/ /\ Taken(Row(c)) \/ "database" \in ModelFaults
        /\ Unrecorded(c)
        /\ UNCHANGED invocations
  /\ UNCHANGED <<kind, catalog, wired, charges, billed, unreported>>

-----------------------------------------------------------------------------
(* ProductionReasoningEngine.reason *)

\* An invalid output is repaired by another call, unless the tokens it knows of are spent.
Validate(c) ==
  /\ caller[c].pc = "validate"
  /\ LET spent == caller[c].spent + caller[c].usage
         again == caller[c].repair < MaxRepairs /\ spent < TokenBudget
     IN \/ \E confident \in BOOLEAN :
             Move(c, [caller[c] EXCEPT !.pc = "save", !.reply = "none", !.confident = confident,
                                       !.reported = caller[c].usage])
        \/ IF again THEN Move(c, [caller[c] EXCEPT !.pc = "call", !.repair = caller[c].repair + 1, !.spent = spent])
                    ELSE Go(c, "fallback")
  /\ UNCHANGED <<kind, catalog, wired, charges, billed, unreported, invocations>>

\* The answer without an output: no confidence, and no usage whatever was spent.
FallBack(c) ==
  /\ caller[c].pc = "fallback"
  /\ Move(c, [caller[c] EXCEPT !.pc = "save", !.reported = 0, !.confident = FALSE])
  /\ UNCHANGED <<kind, catalog, wired, charges, billed, unreported, invocations>>

SaveArtifact(c) ==
  /\ caller[c].pc = "save"
  /\ \/ Go(c, "decide")
     \/ "database" \in ModelFaults /\ Throw(c)
  /\ UNCHANGED <<kind, catalog, wired, charges, billed, unreported, invocations>>

-----------------------------------------------------------------------------
(* What the caller makes of it *)

\* personalize: claims without evidence are dropped, then the draft is validated.
FinishDraft(c) ==
  /\ caller[c].pc = "decide" /\ kind[c] = "draft"
  /\ \E result \in {"DRAFTED", "REJECTED"} : Over(c, result, "none")
  /\ UNCHANGED <<kind, catalog, wired, charges, billed, unreported, invocations>>

\* Low confidence, a high risk or little autonomy ask for an approval.
DecideAgent(c) ==
  /\ caller[c].pc = "decide" /\ kind[c] = "agent"
  /\ IF caller[c].reported > TokenBudget THEN Settle(c, "FAILED")
     ELSE \E asks \in BOOLEAN :
            IF asks \/ ~caller[c].confident THEN Settle(c, "AWAITING_APPROVAL")
                                            ELSE Go(c, "specialist")
  /\ UNCHANGED <<kind, catalog, wired, charges, billed, unreported, invocations>>

\* The specialist's status is saved before the budget is checked for the last time.
RunSpecialist(c) ==
  /\ caller[c].pc = "specialist"
  /\ \/ Settle(c, "FAILED")
     \/ \E status \in {"COMPLETED", "FAILED", "AWAITING_APPROVAL"} :
          Move(c, [caller[c] EXCEPT !.pc = "finish", !.checkpoint = status])
  /\ UNCHANGED <<kind, catalog, wired, charges, billed, unreported, invocations>>

FinishAgent(c) ==
  /\ caller[c].pc = "finish"
  /\ Settle(c, caller[c].checkpoint) \/ Settle(c, "FAILED")
  /\ UNCHANGED <<kind, catalog, wired, charges, billed, unreported, invocations>>

AgentStep(c) ==
  \/ StartCaller(c) \/ CheckRequest(c) \/ EvaluatePolicy(c) \/ AssembleContext(c)
  \/ InvokeRouter(c) \/ NextModel(c) \/ NotReady(c) \/ TryReserve(c) \/ InvokeProvider(c)
  \/ RecordAttempt(c) \/ Validate(c) \/ FallBack(c)
  \/ SaveArtifact(c) \/ FinishDraft(c) \/ DecideAgent(c) \/ RunSpecialist(c) \/ FinishAgent(c)

AgentNext == \E c \in Callers : AgentStep(c)
AgentSpec == AgentInit /\ [][AgentNext]_agentVars

-----------------------------------------------------------------------------
\* With a ledger, what an execution's attempts really took, each counted at no more than
\* its estimate, stays within its budget, whatever failed, was repaired or fell back
\* (the reservation, and the charge kept after a failure).  An answer without its usage
\* is charged nothing, and left out here: what it took comes on top.
SpendingWithinBudget ==
  wired => \A c \in Callers :
    LET Counted(k) == IF billed[c][k] < Estimate THEN billed[c][k] ELSE Estimate
    IN  MapThenSumSet(Counted, DOMAIN billed[c] \ unreported[c]) <= TokenBudget

\* A caller that did not fail has a row for every attempt it paid for: the loss of a row
\* is never silent (a listener that throws fails the call).
PaidCallsAreRecorded ==
  \A c \in Callers : caller[c].result \notin {"none", "FAILED"}
    => \A k \in DOMAIN billed[c] :
         \E r \in invocations : r.call = CallName(c) /\ r.attempt = k /\ r.by = c
=============================================================================
