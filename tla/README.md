# Verification of ProjectX (vega-revenue-os)

TLA+ models of the parts of ProjectX whose correctness depends on the order of
concurrent calls, retries and failures, the TLC configurations that check them on
small instances, and proofs checked by TLAPS. Paths are relative to `src/`.

## 1. The system

ProjectX is a TypeScript monorepo: an API and Temporal workers (`apps/`) over
packages for the domain, outreach, missions, the tool gateway, the LLM gateway and
the agent runtime. Durable state is in Postgres; every aggregate is a row with a
version, saved by a compare-and-swap on the version it was loaded at
(`AggregateRoot.loadedVersion`). Long running work is a Temporal workflow whose
activities may run more than once.

| Component | State it keeps | Operations | Interacts with | Hard behaviour | What makes it correct |
|---|---|---|---|---|---|
| Outreach send path (`packages/outreach`) | message executions, sequences, campaigns, idempotency records | `prepareDraft`, `executeApprovedSend`, `recordResponse`, reconcile, `expireApprovalWait`, relink | safety gate, email provider, approvals, suppression list | calls race on one row, four saves in a row, provider's answer may be lost, a worker may die anywhere | a message reaches its recipient at most once; records and answers agree with what was delivered |
| Outreach sequence workflow (`apps/temporal-worker`) | the workflow's approval slot and counter | approval signal, the wait for it, drafting and sending each step, continue-as-new | send path, approvals | signals race with activities and timeouts | every step is drafted, approved and sent, or the workflow ends and says why |
| Approvals (`packages/mission-orchestrator`, `packages/domain`) | approval requests | request, decide, expire | missions, sequence workflow | the save and the signal are separate | a decision reaches the workflow that waits for it |
| Missions (`packages/domain`, `packages/mission-orchestrator`, `mission-workflow.ts`) | mission and tasks | start, pause, resume, cancel, step, replan, approvals | agents, Temporal | crash between a task's start and its result; a single slot for control signals | a mission ends, no task is lost or run twice, status agrees with the tasks |
| Graph inbound mail (`packages/outreach/src/infrastructure/graph-inbound`, `apps/api/src/graph-inbound`) | claims of messages, poll checkpoints, the subscription | webhook, poller, administration | conversations, suppression, sequence workflow | claim before processing; two sources of one message | a mail is taken on once; the checkpoint passes no mail a poll was given and has not claimed |
| Conversations (`packages/conversation`) | conversations, leads, suppressions | record a reply, classify, decide, save | graph inbound, sequence workflow | find-then-create; two aggregates saved in turn; a change that raises no version | opt-outs are kept and reach the suppression list; who declined stays declined |
| Tool gateway (`packages/tool-gateway`) | invocation records, idempotency claims | invoke with policy, retry, record | agents, connectors | crash between execution and record; replays | a tool call has one effect and one answer |
| LLM gateway (`packages/llm-gateway`) | execution budget ledger | reserve, call, commit or retain, fall back | providers, agents | usage unknown after a failure, repairs and fallbacks on one budget, a listener that throws | the budget bounds what is told to be spent; what was paid is recorded or the call fails |
| Agent runtime (`packages/ai-runtime`) | executions, checkpoints, invocations, memory, knowledge | execute, write memory, ingest, embed, switch profile | LLM and tool gateway, Temporal activities | every step is a transaction of its own, activities are retried and overlap | accepted means searchable, a completed ingestion is whole |
| Intelligence (`packages/intelligence`) | research runs, accounts, contacts, leads, evidence, signals, cache, quota | run research, protect, change and read contacts | provider, vault, outreach | runs of one workspace overlap; stale copies of contacts; keys rotate | a succeeded run is whole; suppression stands |
| Control plane (`packages/control-plane`) | agent versions, capabilities, policies, autonomy, emergency stop | seed, register, transition, evaluate | agents, operators | images seed in parallel with transitions; a decision reads four tables in turn | approved definitions do not change; decisions are as strict as what held, as far as rules do not contradict each other |
| Identity (`packages/identity`, `apps/api/src/identity`) | users, workspaces, memberships, key rings | sign in, invite, create workspace, issue, verify, rotate | API | first sign-ins race, sessions outlive roles, rotation by deployment | roles come from owners and admins |
| Real-send operator script (`scripts/phase14-8-real-send`) | a state file; leads, campaigns, sequences, approvals | prepare, execute | sequence workflow, send path | six saves in a row, two operators, a plan beside them | nothing later without what it needs; what the operator approved is sent |
| Graph email provider (`packages/outreach/src/infrastructure/graph`) | accepted sends of one process | send | Microsoft Graph, send path | answers that are lost or ambiguous, restarts, a lookup of sent items | only certain outcomes are reported as such |
| Rate limiter, cache, lifecycle, event bus (`packages/infrastructure`) | Redis counters, in-flight counters | check, drain, publish | all | read-then-write on Redis; drain against new work | limits hold, shutdown finishes |
| Specialist agents, application handlers, API controllers | — | prompts, command handlers, HTTP | the components above | little concurrency of their own | functional |

The machine readable list, with the sources of each component and whether it is
modelled, is `PROJECT.json`; its `hazards` name the lines where things can go wrong.

## 2. Modules

| Module | Stands for |
|---|---|
| `MessageExecution` | the `OutreachMessageExecution` aggregate: status table, operations, versions, and the compare-and-swap of its repository. No state of its own |
| `IdempotencyStore` | one record of `PostgresIdempotencyStore` and its `claim`, for the send path and the tool gateway |
| `OutreachSend` | the send path: every operation that writes executions, sequences, campaigns and idempotency records, with the gate and the provider |
| `OutreachSendProperties` | type invariant, safety, action and liveness properties of `OutreachSend`, the inductive invariant `ClaimProtectsSend`, and the refinement of `SendLedger` |
| `SendLedger` | abstract: what a sequence promises its recipients and its operators, with no calls, copies, claims or versions |
| `OutreachSendProof` | TLAPS: `TypeCorrect`, `NoDuplicateDelivery`, `BarsHold` |
| `OutreachLedgerProof` | TLAPS: what records say of the send path, `LedgerImplemented`, `BudgetHolds`, `RefusalsAreTrue`, `ClosedStayUnsent`, `ClaimsAreOwned` |
| `MCOutreachSend` | instance for TLC, with the symmetry of calls |
| `MissionRules` | the `Mission` aggregate: its status tables, its operations as functions on a copy, an agent's answer applied to a copy. No state of its own |
| `MissionRun` | one mission: the service's calls, the Temporal workflow, the engine's activities, approvals of its tasks |
| `MissionRunProperties` | type invariant, safety, action and liveness properties of `MissionRun`, the inductive invariant `RunInvariant`, and the refinement of `MissionLife` |
| `MissionLife` | abstract: the life of a mission as its owner sees it: status, whether it has a plan, which tasks are done |
| `MissionProof` | TLAPS: `MissionTypeCorrect`, `OrderHolds`, `LifeImplemented`, `StartsAreHeldBack`, `ReturnsWhenOver`, `FailuresHaveAFailedTask` |
| `ToolGateway` | `ToolGateway.execute`: invocation and attempt records, the claim, retries, replays |
| `ToolGatewayProperties` | its type invariant, safety and action properties, and the inductive `GatewayInvariant` and `RecordInvariant` |
| `MCToolGateway` | instance for TLC, with the symmetry of requests and of ids |
| `Conversation` | the conversation aggregate, its classifier and policy, and what it does to the lead. No state of its own |
| `InboundMail` | webhook, mailbox polls, the subscription's administration, the conversation service and the workflow's `interpretReply`, over Postgres |
| `InboundMailProperties` | its safety and action properties |
| `InboundProof` | TLAPS: `MailsAreClaimedOnce`, `CheckpointsCover`, `OptOutsAreSuppressed`, `DeclinedStays` |
| `MCInboundMail` | instance for TLC: two mails, handlers apart from polls, the symmetry of each |
| `SequenceRun` | `outreachSequenceWorkflow`, its activities, the approval requests it waits for and the approvers |
| `AgentRun` | `AgentExecutor.execute` and draft personalization over reasoning engine, `LlmRouter`, budget ledger and invocation accounting |
| `KnowledgeStore` | memory writes, embeddings and their profiles, knowledge ingestion |
| `ResearchRun` | `ResearchEngine.run` |
| `ControlPlane` | seeds, registration and lifecycle of an agent version; policy evaluation |
| `OperatorRun` | the operator script, and the outreach agent that plans a campaign |
| `Identity` | sign-in, workspaces, invitations, sessions, key rings |
| `ContactChannels` | contacts, their protected addresses and the keys these are protected with |
| `GraphMail` | the Graph email provider |
| `RunsProof` | TLAPS about `SequenceRun` and `OperatorRun` |
| `AgentsProof` | TLAPS about `ToolGateway`, `AgentRun`, `KnowledgeStore` and `ResearchRun` |
| `PlatformProof` | TLAPS about `ControlPlane`, `ContactChannels`, `GraphMail` and `Identity` |
| `Sums` | TLAPS: what the fold `MapThenSumSet` of the community modules computes, for the budgets of `OutreachLedgerProof` and `AgentsProof` |
| `MCPlatform` | instance for TLC of the nine modules from `SequenceRun` to `GraphMail` |
| `MCMission` | instance for TLC: two tasks, one after the other, with the symmetry of calls and of attempts |

### OutreachSend

A process `p` is one call of an operation; it runs once. `pc[p]` is the `await` the
call is at; what the code does between two awaits belongs to the step before it.
So the interleavings are those of Node and Postgres, no finer and no coarser.
`snap`, `sq`, `cp` and `view` are the call's local copies (the aggregates it loaded,
the idempotency record it read); `row`, `key`, `seq` and `camp` are the Postgres
tables, per step of the sequence; `allowed`, `suppressed` and `approval` are what the
gate asks for; `delivered` counts what the provider really took.

| Action | Code |
|---|---|
| `LoadExecution`, `LoadSequence`, `LoadCampaign` | `executeSend`'s loads, its early returns on a settled status, the approve/markSending prologue |
| `RecipientUnavailable` | `recoverAndVerifyRecipient` fails |
| `GateAllowlist` … `GateClaim` | `SendSafetyGate.evaluate`, in order; `Deny` is the caller's reaction |
| `SelectProvider`, `SaveAttempt`, `ProviderSend` | provider selection, the save before the submission, the submission and its four outcomes |
| `SaveAccepted`, `SaveCampaign`, `MarkCompleted`, `ReloadCampaign`, `SaveSequence`, `SaveCompletion` | the accepted path and `advanceSequence` |
| `SaveDenied`/`ReleaseDenied`, `SaveRetry`/`ReleaseRetry`, `SaveUnknown` | the three other outcomes |
| `DupGet`, `DupLoad`, `DupSave` | `handleDuplicateSendIdempotency`, also entered from a caught `ConcurrencyConflictError` |
| `Prepare*`, `Reconcile*`, `Respond*`, `Expire*`, `Link*` | the other writers of the same rows |
| `Crash` | a worker dies; the call never resumes |
| `Approve`, `Disapprove`, `RemoveFromAllowlist`, `OptOut` | what others do to the gate's inputs |

Abstracted: message texts, ids, timestamps, the attempt counter, tenant scoping
(one tenant, one sequence), cost budgets (the count budget is modelled), the
campaign and sequence approval steps (both start RUNNING). The rate limiter is its
answer: with a configuration it may say RETRYABLE at any time, which it also does
when Redis is down. `delivered` grows on an accepted or ambiguous submission; the
provider's own deduplication (one process's memory) may or may not hide a repeat.
A workflow retry is a new call, so the number of calls bounds the retries.

Fault and operation sets are constants (`Faults`, `Ops`), so one module serves every
run, and each theorem names exactly the faults it excludes.

### MissionRun

`row` is the mission with its tasks in Postgres; a call (`pc`, `op`, `held`) and an
activity attempt (`at`, `copy`, `task`, `result`) work on copies of it. `wf` is where
`MissionWorkflow` is, `control` its single slot for control signals, `slot` and
`attempt` the activity it awaits. As before, a step is what the code does between two
awaits.

| Action | Code |
|---|---|
| `LoadMission`, `SaveMission`, `LaunchWorkflow`, `SignalWorkflow` | `MissionOrchestratorService`: start, pause, resume, cancel and replan: load with the early returns, save with its retries, then the workflow's start or the signal |
| `WorkflowLoop`, `Wake` | the head of the workflow's loop and its wait during a pause |
| `Dispatch`, `Deliver`, `Throw`, `AttemptTimesOut`, `Discard` | Temporal: an attempt begins, its answer is taken, it failed or timed out and is retried, an attempt nobody waits for ends |
| `LoadPlan`, `LoadReplan`, `LoadStep` | `planMission`, `replanMission`, `executeMissionStep` up to their first save: no runnable task closes the mission, otherwise one task starts |
| `SaveAndPublish` | `saveAndPublish` with its reload and reapply after a conflict, and what follows it |
| `RunAgent`, `RecordResult`, `RequestApproval`, `Report` | the agent's answer, `handleTaskResult` on the mission as it is then, the approval request, the status the step returns |
| `Decide` | a decision on the request of a task; its signal to the workflow is cleared unread (`mission-workflow.ts:91`), so nothing else follows |
| `CallCrashes`, `WorkerCrashes`, `ActivityThrows` | a process dies; an await fails |

Abstracted: goals, plan contents, costs and prompts; a plan is a version over one
fixed set of tasks, so a replan keeps or resets each of them; agents' `TIMED_OUT` and
`CANCELLED` are handled as `FAILED` and left out. A conflict, the reload and the
reapply are one step: versions only grow, so the conflict still stands at the reload.
The checkpoint activity changes nothing. `save` without domain events does not raise
the version (`SavedBy`). `block`, `schedule` and `archive` have no caller in these
paths and are not actions.

### ToolGateway

All requests are for one logical side effect: they resolve to one definition (`tool`)
and bring one idempotency key, each with a `toolCallId` that a repeated request may
bring again. `invocation` and `attempts` are the two tables, `key` the idempotency
record, `effects` what really happened at the provider.

| Action | Code |
|---|---|
| `Admit` | resolution, policy, approval binding, input schema, provider and readiness: they only read, a refusal leaves nothing behind |
| `CreateInvocation` | the insert under the primary key `tool_call_id`; a second one throws |
| `ClaimKey`, `LookUp`, `Replay` | `claim`, the read after it failed (a transaction of its own), `handleExistingClaim` |
| `StartAttempt`, `Send`, `CompleteAttempt` | one turn of `executeWithRetry`: STARTED row, the provider's outcome or exception, the attempt's outcome and `canRetry` |
| `CompleteInvocation`, `StoreOutcome`, `ValidateOutput` | the record of the result, `persistClaimOutcome`, the output schema, which overwrites a SUCCESS |
| `CallFails` | a refused query or a dead process: the same for what is stored |

Abstracted: inputs, outputs and the names of definite failures (all are
PROVIDER_ERROR). Providers keep their contract (`ProviderOutcomes`): what they call not
submitted, or rejected, had no effect; an unknown outcome or an exception may have.

### InboundMail

`says` is what each mail says and `sender` whom it is from: the recipient of our message,
someone else, or not given, as Graph may leave `from` out. `key` and `pollKey` are the
claims in the idempotency store, which differ because webhook and poller build them from
different strings; `rows` are the conversations (more than one may be created, one per
handler), `lead` the lead they share, `suppressed` the suppressed addresses. A handler is
one run of the webhook, or of `interpretReply` for a mail the workflow was signalled;
`held` and `heldLead` are the copies it loaded. `checkpoint` is in the poller's memory.
Two histories say what the rows forget: `optOuts`, the webhook's mails that left their
conversation opted out, and `unlisted`, the mails a poll asked for and was not given (one
page, in no order, whose next link is not followed) or did not ask for (the look-back of a
poll that has no checkpoint).

| Action | Code |
|---|---|
| `Receive`, `ClaimMail`, `FetchAndCorrelate` | the controller, the validator, the ingress up to the correlated reply |
| `HandleReply`, `SaveReply` | `handleReply`: find or create, record the reply, save under the version loaded |
| `Suppress` | `persistReplyBasedOptOut`: the mail's sender; without one nothing is done |
| `ClassifyAndAct`, `UpdateLead`, `SaveLead`, `SaveDecision` | `classifyAndAct` in the order of its awaits: the lead before the conversation |
| `SignalReply`, `Interpret` | the signal to the sequence's workflow, and its activity |
| `ListMails`, `PollMail`, `FinishPoll`, `PollThrows` | `pollMailbox`: the checkpoint or the look-back, one page of mails, the claim and correlation of each, the new checkpoint; a call that fails ends the poll and keeps the checkpoint |
| `CreateSubscription` … `DeleteRow` | the administration: Graph first, the row second |
| `HandlerCrashes`, `AdministrationCrashes` | a process dies |
| `PollerRestarts` | the process of the polls dies: polls under way end, the checkpoint is forgotten |

A save of an unchanged version is what matters here: `recordReply` raises the version
only when the status table lets it move (`Conversation!RecordReply`).

### The components of the platform run

These share no state with one another in the code, or only through what is an input
here. One step is again what the code does between two awaits.

| Module | State | Actions |
|---|---|---|
| `SequenceRun` | the workflow (`run`), each step's execution, requests, approvers | the loop of `outreach-sequence-workflow.ts` from `LoopHead` to `AwaitReply`; `LoadRequest`, `SaveRequest`, `SignalRun` of the approval service; `TimePasses` expires a request. A send's inside is `OutreachSend`, here it is one step with that module's answers |
| `AgentRun` | callers, the ledger's charges, what providers billed, accounting rows | policy, context, the router's attempts (`TryReserve` … `RecordAttempt`), repair, fallback, artifact, decision, specialist. `wired` is whether the router has a ledger: the worker builds it without one. `unreported` remembers the answers that came without their usage, which the ledger takes for free |
| `KnowledgeStore` | profiles, entries, vectors, chunks, audits, runs, attempts of activities | each transaction of a memory write, of an ingestion, and of a profile's switch; attempts that time out run on |
| `ResearchRun` | runs, accounts, contacts, leads, evidence, signals, cache, usage | each save of `ResearchEngine.run`, its catch, cache expiry |
| `ControlPlane` | the version's row, capability, tables of policy, evaluations | the seeds' registration and transitions, operators' transitions, the reads of an evaluation, the changes they race with. The autonomy rules of one level and risk are rows by rule id, and the read takes any of them |
| `OperatorRun` | leads, campaigns, sequences, executions, approvals, the state file, workflows | the saves of prepare and execute, of the planning agent, and what the workflow does with them |
| `Identity` | users, workspaces, memberships, secrets, rings, sessions | sign-in await by await, guarded requests, deployments and refreshes of the ring. `held` remembers every role anyone had |
| `ContactChannels` | contacts, secrets of the two key rings, runs | canonicalise, read version and key, insert, load, change, update, recover; rotation by publishing a key, its version and its alias |
| `GraphMail` | what Graph took, the accepted map, calls | token, submission, lookup; the listing's delay; a restart empties the map |

Of `ContactChannels`, `SuppressionStands` reads the saves and their versions only; the
fingerprints, the rotation of keys and the recovery of a recipient are other writers of
the same rows it must stand beside, and no property is about what they yield.

Abstracted: texts, prompts, vectors, scores and ciphertexts are names; cost and tokens
are small numbers; tenants appear where the code confuses or separates them
(`Identity`), elsewhere there is one.

## 3. Runs

| Run | Bounds | Shows |
|---|---|---|
| `send_races` | 3 calls, 1 step, all operations, all faults | types; an execution recorded or answered as completed was accepted (`CompletedIsTrue`); no write takes an acceptance back (`AcceptanceIsNeverLost`); a final failure is left only by reconciliation (`OnlyReconciliationReopens`) |
| `ledger` | 3 calls, 2 steps, budget of one message, all operations, no denials, no rate limit | at most one delivery per step; deliveries never exceed `maxSendCount`; failed means not delivered; the refinement of `SendLedger` |
| `liveness` | 2 calls, fair, no crashes, no retryable answers | a claim has an owner and is resolved; an acceptance is recorded, and advances the sequence unless a relink replaced the version a send of that step holds; a call begun after the recipient was barred, or the execution settled, never submits |
| `mission_races` | 3 calls of any operation, 1 attempt at a time, crashes, failing awaits, timeouts | tasks complete in order; the saved rows are a mission's life; no task starts in a mission that does not execute |
| `mission_ends` | 3 calls (start, cancel, replan), fair, no faults | a started mission settles; it fails only because a task failed; the workflow returns only when the mission is over |
| `inbound` | 3 handlers or 2 polls, 2 mails of three kinds and three senders, crashes, restarts, failed fetches | a mail is taken on once; behind the checkpoint is nothing unclaimed but what polls were not given; an opt-out suppresses its sender, if it names one; who declined stays declined |
| `tool_gateway` | 3 requests, 3 ids, 2 attempts, crashes, keyed and unkeyed, read-only and not | one effect at most; answers and records agree; a recorded success happened, a recorded refusal did not; a recorded status is final |
| `platform` | thirteen subjects, each in behaviours of its own; two processes of most kinds | fourteen properties of the nine modules above |
| `rate_limit_duplicate` | 3 calls, rate limits | **violated**: a refused call releases a claim it does not own, two sends |
| `mission_crash` | 1 call, crashes | **violated**: a worker dies after a task's start was saved, the retry finds no runnable task and fails the mission |
| `opt_out_lost` | 3 mails, 3 handlers, no faults | **violated**: an unsubscribing reply to a scheduled follow-up is erased by a handler that loaded the conversation before |
| `operator_denied` | 2 prepares, a plan, 1 execute, no faults | **violated**: the send the operator approved is denied, as the approval's key is not the execution's |

The properties of `platform`, by subject: `sequence` — `SendsAreApproved`,
`VerdictsStand`, `TimeoutLeavesNoWait`; `agent` — `SpendingWithinBudget`,
`PaidCallsAreRecorded`; `memory` — `AcceptedIsSearchable`; `knowledge` —
`CompletedRunsAreWhole`; `research` — `SucceededRunIsWhole`; `versions` —
`ApprovedIsImmutable`; `policy` — `DecisionsRestrict`; `prepares`, `plans` —
`PreparedIsWhole`; `identity` — `RolesAreGivenByInviters`; `contacts`, `keys` —
`SuppressionStands`; `mail` — `ReportsAreCertain`. A behaviour runs one subject and the
others rest in one initial state, so the run is the union of their instances, not
their product. `MCPlatform` states where a subject is bounded below its constants:
two attempts of ingestions at a time, two research runs only while they ask four
questions, two operators, three of four sign-ins and requests once keys rotate. All
components name two of their processes alike (`x1`, `x2`), so the swap of the two is a
symmetry of each.

Bounds. Three concurrent calls are the least that show every race of the send path
found so far: one that acts, one whose copy is stale, one that loads what the others
left. One step is enough for properties of one row; two where the sequence's or the
campaign's progress matters, with a budget of one message so that the second step is
the one that must not be sent. For missions two tasks, one depending on the other,
are the least with an order; TLC runs one activity attempt at a time, whose timeouts,
crashes and retries include attempts that outlive their caller; any number of slots
beside one another is covered by the theorems. For the tool gateway three requests are
one that gives the key back and two that race for it, and two attempts are the least
with a retry. For inbound mail three handlers are two that race for one mail and one
that holds what they change; two mails are the least with an order; two polls are
the least that overlap or follow a restart. Polls and handlers share the mails and the
send's record only, which neither writes, so a behaviour of that run has either the one or
the other (`Apart`); the theorems have any number of both. As headers decide the correlation
there, the two addresses are alike, and the first one given is the recipient's
(`ApartInit`).
For the platform two processes of a kind are those that race, with a second round,
chunk, account, key, attempt or definition where the code loops or compares; two autonomy rules are the least that disagree, and a
caller that gets answers without their usage runs alone, as each has a budget of its own. Versions
and counters that have no bound of their own are bounded by the calls, each of which
runs once.

Every call runs once, so runs end: `CHECK_DEADLOCK FALSE`.

A passing run leaves out a fault only where a violated run, or the code's plain
design, shows that the fault breaks the property: `ledger` has neither denials nor
rate limits; `liveness` has no crashes, retryable answers or rate limits, which
wedge the claim, and no reconcile, because a reconciled delivery never advances the
sequence. `mission_ends` has no pause, resume or faults;
its agents may ask for approval, and the mission then rests PAUSED. These
weaker promises were each seen to fail while modelling, or are plain from the code the
models follow. They are not kept as runs because no document states them, because a kept
run shows the same cause, or because the property that is checked names the exception;
where a comment says otherwise it is quoted:

- a denial by the gate is saved as FAILED_PRE_SUBMISSION over a send in flight
  (`outreach-execution.service.ts:259`);
- a relink of the sequence between a send's load of it and its save makes `advanceSequence`
  conflict; the duplicate handler then completes the call, and nobody advances the sequence
  (`:434`): `AcceptedAdvances` excuses the steps a relink overtook;
- a caller with a stale copy keeps the claim a retryable answer gave back (`:299`);
- a call that lost the claim marks the execution for reconciliation on the strength of a
  record it read before, while the next owner of the key is submitting; an operator who
  finds no trace of the message records FAILED (`p0-3-reconciliation.md:27`), and it is
  delivered (`:567`; four calls, sends and reconciliations, retryable answers). What does
  hold, and is checked and proved (in `ClosedCallsNeverSubmit`), is that only a call that was
  already under way when the operator wrote can deliver it;
- a crash between the execution's save and the campaign's loses the spend (`:331`);
- a crash between claim and outcome leaves the execution SENDING and its record
  PENDING for good (`:301`);
- two attempts run the agent on one task when the first one timed out
  (`mission-execution-engine.ts:207`);
- an approved task is never run again, and after a resume the mission fails with it
  (`mission-workflow.ts:91`);
- a mission paused and resumed while its plan is computed is executed, and completed,
  without a task (`mission-execution-engine.ts:237`);
- the tool gateway stores SUCCESS under the key before it looks at the output schema:
  the first caller is told VALIDATION_ERROR, a later one SUCCESS (`tool-gateway.ts:214`);
- the workflow returns or waits on the status its step's own copy had, while the row
  says PAUSED or EXECUTING (`mission-execution-engine.ts:240`);
- an approval signalled while a send is on its way is cleared with the slot, and the
  workflow waits for another (`outreach-sequence-workflow.ts:105`);
- an opt-out suppresses the mail's sender, or nobody if Graph does not give one
  (`graph-message-normalizer.ts:85`, `persist-reply-opt-out.ts:33`). The comment above
  (`:14`) resolves the address through the execution, and the gate looks at the execution's
  recipient: a prospect who answers from another address is opted out of the conversation
  and not suppressed. `OptOutReachesSuppression` is about the sender;
- a poll is given one page of the inbox, in no order, and does not follow the link to the
  next (`fetch-graph-inbound-message-fetcher.ts:53`): what the page left out may be older
  than the new checkpoint and is not asked for again. The checkpoint is in memory, and a
  restarted poller looks back an hour (`graph-reconciliation-poller.ts:16`, `:46`, `:66`).
  `CheckpointCoversClaims` is about the mails the polls were given;
- a poll claims `poll:<id>`, the webhook another key (`:76`): a mail the webhook took is not
  skipped by a poll, although the comment at `:50` says so. `processed` has no reader yet;
- a reply whose handler crashes after its claim is answered as a duplicate from then
  on (`graph-inbound-ingress.service.ts:99`); a second reply to a conversation with a
  scheduled follow-up is dropped;
- an answer without `usage` is committed as free (`openai.provider.ts:111`,
  `anthropic.provider.ts:118`, `llm-router.ts:222`, `:253`), so an execution can take more than its
  budget, although unknown usage is "never treated as free"
  (`execution-budget-ledger.ts:14`): `SpendingWithinBudget` counts the answers that told it;
- of several autonomy rules for one level and risk, which only their `rule_id` keeps apart,
  the decision follows any (`control-plane/src/infrastructure.ts:479`, `:492`), a laxer one than another that
  stood throughout too: `DecisionsRestrict` compares with the laxest;
- the retry of a failed ingestion is deduplicated by the version row its first attempt
  left, and completes without content (`knowledge-ingestion-service.ts:94`): the
  property is about runs that do not call themselves deduplicated;
- a failure after a research run's success leaves its row RUNNING
  (`research-engine.ts:160`);
- two concurrent first sign-ins create two workspaces (`auth.service.ts:67`).

`findings` in `PROJECT.json` quote the documents and comments the code disagrees
with. Every property of a passing run has a mutant (the operators called *Variant*
in the modules): a plausible bug TLC finds.

Fairness: `FairSpec` of the send path and of missions has weak fairness on the steps of a call that
has begun (Node runs a resolved promise's continuation; Postgres, providers and
agents answer or time out), and for missions on the steps of an attempt and of the
workflow: Temporal dispatches, retries and delivers, and its history survives its
workers. Nothing is assumed of calls beginning, of crashes, or of people: whether an
operator reconciles or an approver decides is not assumed.

## 4. Proofs

### The send path

`TypeCorrect` (`Spec => []TypeOK`) holds for every set of calls, sequence length,
budget, operations and faults. It is proved per action, over lemmas that the
aggregate's operations take copies to copies.

`NoDuplicateDelivery`: without a rate limit configuration, `Spec =>
[]AtMostOneDelivery`. At-most-once is not inductive by itself; `ClaimProtectsSend`
is, together with `TypeOK`:

1. *Copies trail rows* (`CopyTrails`): a copy was loaded at a version the row had, and
   if neither moved they agree.
2. *Copies say what they are used for* (`CopyAgrees`): a call before its save holds
   SENDING; if its copy is fresh the row is not settled; a key given back after
   a denial belongs to a settled row.
3. *One sender* (`OneSender`): at most one call per step can still submit
   (`MaySend`), nothing was delivered before it does, and a claimable key of an
   unsettled execution means nobody sent and nobody can.

A call that wins the claim with a stale copy is not a sender: its `SaveAttempt` must
fail first. That is why saving the attempt before the submission matters, and why
a rate-limited call, which frees a key it never claimed while the row keeps its
version, breaks the argument; the theorem's only assumption is its absence. Every
step is one of three kinds: it keeps the copy's facts and makes nobody a sender
(`QuietStep`), it leaves the copy behind (`AwayStep`), or it is the claim, the
submission or the release, which have proofs of their own.

`BarsHold` (`Spec => BarredCallsNeverSubmit`, every operation and fault) is a safety
property written with `=>` and `[]`: a call that is idle while its step is barred never
reaches the provider. The points behind each of the gate's checks are entered only
through that check (`CallsEnterInOrder`), and no step lifts a bar (`BarsStay`), so a
call that is not yet behind the check that stops it never gets there (`Stopped`).

`SettledStayUnsent` (`Spec => SettledCallsNeverSubmit`, every operation and fault) is its
counterpart for the early returns of `executeApprovedSend`: a call that is idle while
its execution is settled loads a settled copy, `BeginSending` takes no settled status
into SENDING (`SettledNeverBegins`), a row that settled stays so (`KeptLaw`), and the
gate is entered only from the loads (`CallsLoadInOrder`). The invariant is `Returns`.
`ClosedStayUnsent` joins the two to the property the run checks.

`OutreachLedgerProof` proves what rows, records, the sequence and the campaign say of
one another. It goes in four layers, each inductive relative to the ones before:

1. `RecordsSound`, for every operation and fault. A copy knows what it will write
   (`CopyKnows`), a fresh copy knows its row (`FreshKnows`), and a call that goes on as
   if the message were accepted is beside a row that records it (`AcceptanceKnown`);
   a row that records an acceptance was delivered, a COMPLETED key belongs to such a
   row (`StepSound`). Any step raises a row's version or leaves it (`KeptLaw`), which is
   all another call's facts depend on (`OthersKnow`). From it: `CompletionsAreTrue`,
   `AcceptancesStay`, `OnlyOperatorsReopen`.
2. `ProgressSound`, for every operation and fault. The sequence is past recorded steps
   only (`SeqSound`), one call at a time counts an acceptance and it is that of the next
   step (`OneAcceptor`), the spend is at most one step ahead (`CampSound`), and a call
   whose copy of the execution is fresh has a copy of the campaign that spent exactly
   the steps before it (`Spends`): hence no step beyond the budget is submitted. With
   `NoDuplicateDelivery` it gives `LedgerImplemented` (`Spec => LedgerSpec`) and, with
   the sum lemma below, `BudgetHolds`; both need the absence of a rate limit, without
   which a step may be delivered twice.
3. `FailureSound`, for `RefusalsAreTrue` (`[]FailureMeansNotSent`): a send that began
   was approved, and a denial that still holds its row refuses a send nobody began,
   nobody may begin, or nobody goes on with (`DenialHarmless`). It assumes neither a
   rate limit nor a `deny`: a revoked approval, an opt-out or a removal from the
   allowlist that comes between two calls' gates lets the later call's refusal
   overwrite a send in flight. Those are the bounds of the `ledger` run too.

4. `ClaimSound`, for `ClaimsAreOwned` (`[]ClaimHasOwner`): who waits for a claim waits
   for a call whose next save will take. A record becomes PENDING by `GateClaim` only;
   the claimer's copy is fresh because the row cannot have moved but by a settlement or
   by another caller's saved attempt (`RowMoves`), and an attempt is saved under a claim
   (`AttemptsClaimed`); from then on every other call's copy is stale, and the owner
   settles the execution or goes on (`OwnerStays`). It assumes no crash, which leaves a
   claim without a call, and no retryable answer or rate limit, which give a claim back
   to callers with stale copies: with them TLC finds the claim stuck (section 3). It is
   the safety half of `ClaimResolves`; what is left of that to fairness is that the
   owner's next await returns.

Failures that an operator records are another matter: they may be untrue, as section 3
says, and `FailureMeansNotSent` is not about them.

Constants are assumed to be what the modules' ASSUMEs say: at least one step, a
natural budget, operations and faults from their sets. Only the liveness properties
`ClaimResolves` and `AcceptedAdvances` stay with TLC: fairness and ENABLED are out of
the prover's reach.

### Sums

The prover has no induction over data, but it has the library's fact that a
well-founded relation has minimal elements. `Sums` uses it for the one recursive
function the properties contain: among the subsets of a finite set on which
`MapThenSumSet` were not the number of units (pairs of an element and a number up to
its value), a smallest one would exist, and taking its chosen element away shows it
does not (`TotalCounts`). Sums are then compared by comparing finite sets of units.

### Missions

`MissionProof` proves `Spec => []RunInvariant` for every set of tasks, every
dependency relation, any number of calls and attempts and every choice of
operations, answers and faults, and from it, with the same generality, `MissionTypeCorrect`
(`[]TypeOK`), `OrderHolds` (`[]CompletedInOrder`), `LifeImplemented`
(`Spec => LifeSpec`: the detailed run implements `MissionLife`) and
`StartsAreHeldBack` (`Spec => TasksStartWhileExecuting`).

`CompletedInOrder` is about the row; the row becomes whatever copy is saved, so the
invariant has to know what copies are:

1. *Rows and copies are sound* (`AllSound`): the order of tasks, the statuses a
   mission can have, and that tasks are there if and only if a plan is.
2. *Copies trail the row* (`CopiesTrail`): no copy has a later version than the row.
3. *Copies follow* (`CopiesFollow`): a copy that will be saved and has the row's
   version is one step of a mission's life (`LifeStep`) after the row.
4. *Work is known* (`WorkKnown`): an attempt that works on a task has one, and an
   answer it will record is one an agent can give.

The operations on copies are lemmas of their own (`PlanSound`, `ReplanSound`,
`MarkSound`, `CompleteSound`, `CloseSound`, `RecordSound`, `TurnSound`): sound copy
in, sound copy out, one step of the life between. `AttemptKeeps` and `CallKeeps`
then reduce every action to what it leaves in one slot or one call. Only a save
changes the row, and a save that goes through raises the version, which makes every
other copy stale; the one save that does not (`SavedBy`, a task that was not run)
writes the row back as it is. Assumed of the constants: there is a task, a
dependency is a task, `MaxAttempts` is positive (the named assumptions of
`MissionRules` and `MissionRun`).

`StartsAreHeldBack` adds `StartsHeld`: a copy about to be saved starts a task of the row
only if it says EXECUTING and, while it is fresh, so does the row. A commit raises the
version and leaves no other copy fresh, so this is kept by every save without knowing
what was saved.

Two properties of `mission_ends` do not hold under every fault, and their theorems name
what they need:

- `ReturnsWhenOver` (`[]EndedMeansTerminal`) needs that no attempt outlives its timeout
  and that nobody calls `pauseMission`; crashes, failing awaits, resumes, cancels and
  replans are allowed. Then the attempt the workflow waits for is the only one
  (`OneAttempt`), and an attempt that closes the mission finds it EXECUTING or over
  (`Closing`). With a pause between the computation of `closeSave` and its save, or with
  two attempts, the step answers a terminal status its mission does not have
  (`mission-execution-engine.ts:240`).
- `FailuresHaveAFailedTask` (`[]FailedMeansTaskFailed`) needs a run without faults,
  pauses and resumes, and a plan without cycles, which `validateTaskGraph` enforces
  (`mission.ts:591`). Its invariant `NeverFails` shows more: such a mission is never
  FAILED, as a failed task leaves it BLOCKED. While an attempt works, only a cancel
  writes the row, so either the mission is over or every copy is fresh and one step
  ahead of the row (`Follows`), and each task of an executing mission is pending,
  completed or the one under way (`TasksWorked`); without cycles, no runnable task then
  means that all are completed (`NothingLeft`). A crash, an exception or a timeout leaves
  a RUNNING task behind (`mission_crash`), a resume an AWAITING_APPROVAL one, and the
  next step fails the mission although no task failed.

Only `StartedMissionSettles`, which needs fairness, is left to TLC.

### The tool gateway

`AgentsProof` proves `OneEffectHolds` (`Spec => []OneEffect`) for every set of
requests and ids, any number of attempts and with crashes. `GatewayInvariant` is
inductive: besides types and what a call remembers (`LocalsKept`), `ClaimGuards` says
that one call at most is between its claim and its release (`Holds`), the record is
PENDING while it is, and there was no effect before the holder submits, after an
outcome that says so, or while the record can be claimed. A retry or a release after a
possible submission would break the last part.

What answers and records say (`AnswersHold`, `RecordsHold`, `RecordsStay`) rests on a
second invariant, `RecordInvariant`: a record under way belongs to one call
(`RecordsAreOwned`), a success is recorded only by a call that saw it, an effect was
seen or may still be reported as unknown, and what counts as sent had a STARTED
attempt.

### Inbound mail

`InboundInvariant` of `InboundProof` is inductive for any number of handlers, polls
and mails, and gives four theorems. What each needs beyond the property itself:

1. *Claims are held* (`ClaimsAreHeld`): no handler gives a claim back, so the second
   one finds it taken.
2. *Polls cover* (`PollsCover`): a poll has claimed, or still has to look at, or was
   never given every mail below the one it reached; only then may the checkpoint take its
   place. A restart takes it back to "not known", below which there is nothing to cover.
3. *Leads are held* (`LeadsAreHeld`): a copy of the lead with the row's version is one
   step after the row and does not qualify one that declined; the save compares
   versions, and raises them.
4. *Opt-outs are seen* (`OptOutsAreSeen`): every mail of `optOuts` is settled
   (`Settled`): its sender is not given or suppressed, or its handler is at the suppression
   or was lost there; a conversation is opted out by such a mail only, and copies of a
   decision have no flag.

### Agents, knowledge and research

The other parts of `AgentsProof` are about any number of callers, writes, ingestions and
runs, and any attempt of theirs that fails, dies or overlaps.

- `PaymentsAreRecorded` and `BudgetsHold`: the attempts of a caller are ordered by
  repair and by model, and one it was billed for lies behind it (`Behind`), so none is
  paid twice. What was billed and told (`Told`) is charged in the ledger at its worth or at the estimate,
  and the charges, each capped by the estimate, sum up to the budget at most
  (`ChargesAreSound`): `tryReserve` compares with all that is charged, and only an
  attempt that never left gives its charge back. An attempt that costs more than its
  estimate is outside the promise: it is charged at its cost after the fact; and so is an
  answer without its usage, which is charged nothing.
- `AcceptedWritesAreFound`, `CompletedIngestionsAreWhole`: what an attempt claims is about
  entries, vectors and chunks it has itself written; these only grow, and what was asked
  is settled before it starts.
- `SucceededRunsAreWhole`: a run has claims about the accounts it has passed and about
  the one it is at; rows bear the name of the run that wrote them and no insert takes
  such a row. `ScoresAssumption` names the scores a contact can get.

### The sequence workflow and the operator's script

`RunsProof` proves the three properties of `SequenceRun` from `SequenceInvariant`: a
request has its target, a call that signals saved the verdict it signals, the steps are
done in their order, and where the workflow is says what its execution awaits.
`PreparationsAreWhole` is by the points of the script: what each one has behind it is
saved (`PreparationIsSound`, `ExecuteIsSound`), rows are never taken away, and statuses
only move on, so that a crash, a refused query or a lost version between two saves
leaves a beginning of the same order.

### The platform's components

`PlatformProof` proves `ApprovedVersionsAreImmutable` from types alone, since the update
re-checks the lifecycle it read; `DecisionsAreStrict` from what an evaluation has read so
far against the laxest value each source had since it began, of several autonomy rules
the laxest; `SuppressedStaySuppressed`
from copies that trail their row (a stale one cannot be saved, a fresh one cannot revive);
`MailReportsAreCertain` from the accepted map naming only calls Graph took; and
`RolesComeFromInviters`: whatever a session, a request or a row knows of a role was once
held. Its assumption `EmailAssumption`, that the provider vouches for one email address
per user id, is needed: a user is stored under his email but his role is looked up by
his id (`auth.service.ts:75-81`).

The theorems are about the modules' own specifications, for every value of their
constants.

### What is only model-checked

Every invariant and action property of a passing run is stated by a theorem; those of
`ledger`, of `mission_ends` and `ClaimHasOwner` under the hypotheses named above. What holds under
fairness only (`ClaimResolves`, `AcceptedAdvances`, `StartedMissionSettles`) is
model-checked, since the provers have no rule for ENABLED. Neither do proofs say
anything of the violated runs, or of the symmetry TLC uses.

## 5. Plan

The parts of the system whose order of steps matters are modelled. Still worth doing:

1. theorems: `ReturnsWhenOver` and `FailuresHaveAFailedTask` with pauses that come while
   no attempt is under way;
2. composition: `SequenceRun` with `OutreachSend` in place of its one-step send;
3. the Redis rate limiter with its renewed expiry (`redis-cache.ts:88`), and the drain
   of `process-lifecycle.ts:86`, as small modules.

## 6. Not modelled

- Redis rate limiter, cache, process lifecycle and event bus: timers and counters of
  external systems; the limiter is its answer in `OutreachSend`.
- Renewal of Graph subscriptions, validation handshakes, listing and escalation of
  approvals, pausing of campaigns: no caller that races with the rest.
- HTTP controllers, DTO validation and formatting, prompts, scoring formulas,
  retrieval and ranking, memory consolidation, audit trails and telemetry: functions
  of their inputs, or writes nothing reads.
- Migrations, operator bootstrap and workers that only start and stop.
- The Temporal client and server, Microsoft Graph, Postgres, the vault and model
  providers are external: modelled by how the code uses them.

