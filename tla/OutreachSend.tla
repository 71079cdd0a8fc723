---------------------------- MODULE OutreachSend ----------------------------
(***************************************************************************)
(* The send path of one outreach sequence: OutreachExecutionService with   *)
(* its SendSafetyGate, the Postgres repositories and idempotency store, and *)
(* the other writers of the same rows (draft preparation, operator         *)
(* reconciliation, recorded responses, the bounded approval wait, the link  *)
(* to the workflow).                                                        *)
(*                                                                         *)
(* A process runs one call from start to end.  Every await of the code is a *)
(* step of its own, so calls interleave exactly where the code yields; what *)
(* runs between two awaits is part of the step before it.  pc names the     *)
(* await a call is at, and the local variables are the copies it loaded.    *)
(***************************************************************************)
EXTENDS MessageExecution, IdempotencyStore, FiniteSets

CONSTANTS
  Procs,         \* the calls that run; each runs once
  NumSteps,      \* length of the sequence
  MaxSendCount,  \* the campaign's budget.maxSendCount
  Ops,           \* the operations calls may run, a subset of AllOps
  Faults         \* the disturbances that may happen, a subset of AllFaults

AllOps == {"send", "prepare", "reconcile", "respond", "expire", "link"}

\* crash       a worker process dies and the call is never resumed
\* deny        the recipient leaves the allowlist or opts out, or an approval
\*             is rejected or lapses
\* rateLimit   a rateLimitConfig is set, so the limiter (or Redis being down)
\*             may answer RETRYABLE
\* unavailable no provider is registered, or the recipient cannot be recovered
\* retryable   the provider reports FAILED with RETRYABLE, or RATE_LIMITED
\* rejected    the provider reports a final FAILED
\* ambiguous   the provider's answer is lost
\* noDraft     personalization of a draft fails
AllFaults == {"crash", "deny", "rateLimit", "unavailable", "retryable", "rejected",
              "ambiguous", "noDraft"}

ASSUME NumStepsAssumption == NumSteps \in Nat \ {0}
ASSUME MaxSendCountAssumption == MaxSendCount \in Nat
ASSUME OpsAssumption == Ops \subseteq AllOps
ASSUME FaultsAssumption == Faults \subseteq AllFaults

Steps == 1..NumSteps

VARIABLES
  row,         \* outreach.message_executions, one row per step
  key,         \* idempotency.keys, one record per step's key
  seq,         \* outreach.sequences: status, steps completed, version
  camp,        \* outreach.campaigns: status, sentCount, version
  allowed,     \* the recipient is on the tenant allowlist
  suppressed,  \* the recipient has a suppression record
  approval,    \* what ApprovalVerificationAdapter.verify answers, per step
  delivered,   \* messages the provider really took, per step
  pc,          \* where each call is
  at,          \* the step each call is about
  snap,        \* the execution aggregate each call holds
  sq,          \* the sequence aggregate each call holds
  cp,          \* the campaign aggregate each call holds
  view         \* the idempotency record a duplicate caller read

db   == <<row, key, seq, camp>>
env  == <<allowed, suppressed, approval>>
vars == <<row, key, seq, camp, allowed, suppressed, approval, delivered,
          pc, at, snap, sq, cp, view>>

\* completed, failed and retryable are answers of executeApprovedSend; awaiting and
\* undrafted those of prepareDraft; ok ends the other operations.
Results == {"completed", "failed", "retryable", "awaiting", "undrafted", "ok",
            "threw", "crashed"}

SendPoints == {"loadSequence", "loadCampaign", "allowlist", "suppression", "approval",
               "rateLimit", "claim", "selectProvider", "saveAttempt", "providerSend",
               "saveAccepted", "saveCampaign", "markCompleted", "reloadCampaign",
               "saveSequence", "saveCompletion", "saveRetry", "releaseRetry",
               "saveDenied", "releaseDenied", "saveUnknown",
               "dupGet", "dupLoad", "dupSave"}
OtherPoints == {"findDraft", "saveDraft", "reconcileSave", "reconcileKey", "respondSave",
                "expireSave", "linkSave"}

Done(p) == pc[p] \in Results
Running(p) == pc[p] \in SendPoints \cup OtherPoints

SeqCopies  == [st : {"RUNNING", "COMPLETED"}, idx : Nat, ver : Nat]
CampCopies == [st : {"RUNNING", "COMPLETED"}, sent : Nat, ver : Nat]
NoSeq  == [st |-> "RUNNING", idx |-> 0, ver |-> 0]
NoCamp == [st |-> "RUNNING", sent |-> 0, ver |-> 0]

\* prepareDraft stores a fresh execution after create, startDrafting, setDraft.
DraftedRow == Stored(SetDraft(StartedDraft))

-----------------------------------------------------------------------------
(* Control flow helpers.                                                   *)

Goto(p, l) == pc' = [pc EXCEPT ![p] = l]

\* The call returns: its local copies go out of scope.
Finish(p, result) ==
  /\ Goto(p, result)
  /\ snap' = [snap EXCEPT ![p] = NoCopy]
  /\ sq' = [sq EXCEPT ![p] = NoSeq]
  /\ cp' = [cp EXCEPT ![p] = NoCamp]
  /\ view' = [view EXCEPT ![p] = "ABSENT"]

Current(p) == CanCommit(row[at[p]], snap[p])

\* executionRepository.save: compare-and-swap on the loaded version.
SaveExecution(p) ==
  row' = IF Current(p) THEN [row EXCEPT ![at[p]] = Stored(snap[p])] ELSE row

\* A save inside a send.  Once stored, the copy counts as loaded at its own
\* version; a ConcurrencyConflictError is caught by executeApprovedSend and
\* resolved from the authoritative state, by the duplicate handler.
SaveThen(p, next) ==
  /\ SaveExecution(p)
  /\ snap' = IF Current(p) THEN [snap EXCEPT ![p].loaded = snap[p].ver] ELSE snap
  /\ Goto(p, IF Current(p) THEN next ELSE "dupGet")
  /\ UNCHANGED <<key, seq, camp, env, delivered, at, sq, cp, view>>

\* Variants of ResultOf: the status itself as the answer; SENDING taken for done.
ResultOf_Raw(st) == st
ResultOf_Optimistic(st) == IF st \in PositiveStatuses \cup {"SENDING"} THEN "completed" ELSE "failed"

\* What resultFromExecution answers for a status.
ResultOf(st) == IF st \in PositiveStatuses THEN "completed" ELSE "failed"

-----------------------------------------------------------------------------
(* executeApprovedSend: the loads.                                         *)

LoadExecution(p, s) ==
  /\ "send" \in Ops
  /\ pc[p] = "idle" /\ row[s] # NoRow
  /\ at' = [at EXCEPT ![p] = s]
  /\ snap' = [snap EXCEPT ![p] = Reconstitute(row[s])]
  /\ Goto(p, "loadSequence")
  /\ UNCHANGED <<db, env, delivered, sq, cp, view>>

LoadSequence(p) ==
  /\ pc[p] = "loadSequence"
  /\ sq' = [sq EXCEPT ![p] = seq]
  /\ Goto(p, "loadCampaign")
  /\ UNCHANGED <<db, env, delivered, at, snap, cp, view>>

\* Variant: a send that failed is taken up again when it is asked for again.
LoadCampaign_Resending(p) ==
  /\ pc[p] = "loadCampaign"
  /\ IF snap[p].st \in PositiveStatuses
       THEN Finish(p, ResultOf(snap[p].st))
       ELSE /\ cp' = [cp EXCEPT ![p] = camp]
            /\ snap' = [snap EXCEPT ![p].st = "SENDING", ![p].ver = @ + 1]
            /\ Goto(p, "allowlist")
            /\ UNCHANGED <<sq, view>>
  /\ UNCHANGED <<db, env, delivered, at>>

\* The last load, then the early returns on the loaded status; otherwise the
\* copy is approved and marked SENDING in memory only.
LoadCampaign(p) ==
  /\ pc[p] = "loadCampaign"
  /\ \/ /\ snap[p].st \in SettledStatuses
        /\ Finish(p, ResultOf(snap[p].st))
     \/ /\ snap[p].st \notin SettledStatuses
        /\ BeginSending(snap[p]).st # "SENDING"
        /\ Finish(p, "failed")
     \/ /\ BeginSending(snap[p]).st = "SENDING"
        /\ cp' = [cp EXCEPT ![p] = camp]
        /\ snap' = [snap EXCEPT ![p] = BeginSending(snap[p])]
        /\ Goto(p, "allowlist")
        /\ UNCHANGED <<sq, view>>
  /\ UNCHANGED <<db, env, delivered, at>>

\* recoverAndVerifyRecipient fails: the call returns without writing anything.
RecipientUnavailable(p) ==
  /\ "unavailable" \in Faults
  /\ pc[p] = "allowlist"
  /\ Finish(p, "failed")
  /\ UNCHANGED <<db, env, delivered, at>>

-----------------------------------------------------------------------------
(* SendSafetyGate.evaluate, in its order.  A denial marks the copy failed   *)
(* in memory; the save that follows is a step of its own.                   *)

Deny(p) ==
  /\ snap' = [snap EXCEPT ![p] = MarkNonRetryable(snap[p])]
  /\ Goto(p, "saveDenied")

Gate(p, check, ok, next) ==
  /\ pc[p] = check
  /\ IF ok THEN Goto(p, next) /\ UNCHANGED snap ELSE Deny(p)
  /\ UNCHANGED <<db, env, delivered, at, sq, cp, view>>

GateAllowlist(p)   == Gate(p, "allowlist", allowed, "suppression")

\* Variant: the suppression list is not consulted.
GateSuppression_Skipped(p) == Gate(p, "suppression", TRUE, "approval")
GateSuppression(p) == Gate(p, "suppression", ~suppressed, "approval")
GateApproval(p)    == Gate(p, "approval", approval[at[p]] = "APPROVED", "rateLimit")

\* checkRateLimits: without a configuration always null; with one the limiter
\* may refuse, or be unreachable, and both are RETRYABLE.
GateRateLimit(p) ==
  /\ pc[p] = "rateLimit"
  /\ \/ /\ Goto(p, "claim")
        /\ UNCHANGED snap
     \/ /\ "rateLimit" \in Faults
        /\ snap' = [snap EXCEPT ![p] = MarkRetryable(snap[p])]
        /\ Goto(p, "saveRetry")
  /\ UNCHANGED <<db, env, delivered, at, sq, cp, view>>

\* Budget and the spend it records on the copy, then the atomic claim.
GateClaim(p) ==
  /\ pc[p] = "claim"
  /\ \/ /\ cp[p].sent + 1 > MaxSendCount
        /\ Deny(p)
        /\ UNCHANGED <<key, cp>>
     \/ /\ cp[p].sent + 1 <= MaxSendCount
        /\ cp' = [cp EXCEPT ![p].sent = cp[p].sent + 1]
        /\ key' = [key EXCEPT ![at[p]] = Claim(key[at[p]])]
        /\ Goto(p, IF Claimable(key[at[p]]) THEN "selectProvider" ELSE "dupGet")
        /\ UNCHANGED snap
  /\ UNCHANGED <<row, seq, camp, env, delivered, at, sq, view>>

-----------------------------------------------------------------------------
(* The submission.                                                         *)

\* registry.select; with a provider, markProviderAttempt on the copy.
SelectProvider(p) ==
  /\ pc[p] = "selectProvider"
  /\ \/ /\ Goto(p, "saveAttempt")
        /\ UNCHANGED snap
     \/ /\ "unavailable" \in Faults
        /\ Deny(p)
  /\ UNCHANGED <<db, env, delivered, at, sq, cp, view>>

SaveAttempt(p) == pc[p] = "saveAttempt" /\ SaveThen(p, "providerSend")

\* provider.send and the aggregate's reaction to its answer.  An accepted send
\* reaches the recipient unless this provider instance already accepted the key;
\* an ambiguous one may or may not have reached it.
ProviderSend(p) ==
  LET s == at[p]
      deliver == delivered' = [delivered EXCEPT ![s] = delivered[s] + 1]
  IN
  /\ pc[p] = "providerSend"
  /\ \/ /\ deliver \/ (delivered[s] > 0 /\ UNCHANGED delivered)
        /\ snap' = [snap EXCEPT ![p] = MarkAccepted(snap[p])]
        /\ Goto(p, "saveAccepted")
     \/ /\ "ambiguous" \in Faults
        /\ deliver \/ UNCHANGED delivered
        /\ snap' = [snap EXCEPT ![p] = MarkDeliveryUnknown(snap[p])]
        /\ Goto(p, "saveUnknown")
     \/ /\ "retryable" \in Faults
        /\ snap' = [snap EXCEPT ![p] = MarkRetryable(snap[p])]
        /\ Goto(p, "saveRetry")
        /\ UNCHANGED delivered
     \/ /\ "rejected" \in Faults
        /\ Deny(p)
        /\ UNCHANGED delivered
  /\ UNCHANGED <<db, env, at, sq, cp, view>>

\* Variant: the campaign is not saved.
SaveAccepted_NoSpend(p) == pc[p] = "saveAccepted" /\ SaveThen(p, "markCompleted")

\* Accepted: execution, campaign, key, then advanceSequence.
SaveAccepted(p) == pc[p] = "saveAccepted" /\ SaveThen(p, "saveCampaign")

SaveCampaignThen(p, here, next) ==
  /\ pc[p] = here
  /\ \/ /\ camp.ver = cp[p].ver
        /\ camp' = cp[p]
        /\ Goto(p, next)
     \/ /\ camp.ver # cp[p].ver
        /\ Goto(p, "dupGet")
        /\ UNCHANGED camp
  /\ UNCHANGED <<row, key, seq, env, delivered, at, snap, sq, cp, view>>

\* Variant: the idempotency record is left PENDING.
SaveCampaign_NoRecord(p) == SaveCampaignThen(p, "saveCampaign", "reloadCampaign")
SaveCampaign(p) == SaveCampaignThen(p, "saveCampaign", "markCompleted")

\* Variant: the call is answered as soon as its record is completed.
MarkCompleted_Answered(p) ==
  /\ pc[p] = "markCompleted"
  /\ key' = [key EXCEPT ![at[p]] = "COMPLETED"]
  /\ Finish(p, "completed")
  /\ UNCHANGED <<row, seq, camp, env, delivered, at>>

MarkCompleted(p) ==
  /\ pc[p] = "markCompleted"
  /\ key' = [key EXCEPT ![at[p]] = "COMPLETED"]
  /\ Goto(p, "reloadCampaign")
  /\ UNCHANGED <<row, seq, camp, env, delivered, at, snap, sq, cp, view>>

\* advanceSequence: the campaign is read again, then completeStep on the
\* sequence loaded at the start of the call.
ReloadCampaign(p) ==
  /\ pc[p] = "reloadCampaign"
  /\ \/ /\ sq[p].st = "RUNNING"
        /\ cp' = [cp EXCEPT ![p] = camp]
        /\ Goto(p, "saveSequence")
        /\ UNCHANGED <<snap, sq, view>>
     \/ /\ sq[p].st # "RUNNING"
        /\ Finish(p, "failed")
  /\ UNCHANGED <<db, env, delivered, at>>

HasMoreSteps(q) == q.idx + 1 < NumSteps

\* completeStep: one event, and one more when the last step completes it.
CompleteStep(q) ==
  IF HasMoreSteps(q)
    THEN [st |-> "RUNNING", idx |-> q.idx + 1, ver |-> q.ver + 1]
    ELSE [st |-> "COMPLETED", idx |-> q.idx + 1, ver |-> q.ver + 2]

SaveSequence(p) ==
  /\ pc[p] = "saveSequence"
  /\ \/ /\ seq.ver = sq[p].ver
        /\ seq' = CompleteStep(sq[p])
        /\ IF HasMoreSteps(sq[p])
             THEN Finish(p, "completed")
             ELSE Goto(p, "saveCompletion") /\ UNCHANGED <<snap, sq, cp, view>>
     \/ /\ seq.ver # sq[p].ver
        /\ Goto(p, "dupGet")
        /\ UNCHANGED <<seq, snap, sq, cp, view>>
  /\ UNCHANGED <<row, key, camp, env, delivered, at>>

\* campaign.complete on the copy read by ReloadCampaign, whole row written back.
CompleteCampaign(c) ==
  IF c.st = "RUNNING" THEN [c EXCEPT !.st = "COMPLETED", !.ver = c.ver + 1] ELSE c

SaveCompletion(p) ==
  /\ pc[p] = "saveCompletion"
  /\ \/ /\ camp.ver = cp[p].ver
        /\ camp' = CompleteCampaign(cp[p])
        /\ Finish(p, "completed")
     \/ /\ camp.ver # cp[p].ver
        /\ Goto(p, "dupGet")
        /\ UNCHANGED <<camp, snap, sq, cp, view>>
  /\ UNCHANGED <<row, key, seq, env, delivered, at>>

\* Not sent: the execution is saved first, then the key is marked FAILED with
\* submitted = false.  A gate denial takes this path without owning the key.
SaveDenied(p) == pc[p] = "saveDenied" /\ SaveThen(p, "releaseDenied")
SaveRetry(p)  == pc[p] = "saveRetry" /\ SaveThen(p, "releaseRetry")

MarkIdempotencyFailed(p, here, result) ==
  /\ pc[p] = here
  /\ key' = [key EXCEPT ![at[p]] = "FAILED_UNSENT"]
  /\ Finish(p, result)
  /\ UNCHANGED <<row, seq, camp, env, delivered, at>>

ReleaseDenied(p) == MarkIdempotencyFailed(p, "releaseDenied", "failed")
ReleaseRetry(p)  == MarkIdempotencyFailed(p, "releaseRetry", "retryable")

\* Ambiguous: the execution is saved, the key stays PENDING.
SaveUnknown(p) ==
  /\ pc[p] = "saveUnknown"
  /\ SaveExecution(p)
  /\ IF Current(p)
       THEN Finish(p, "failed")
       ELSE Goto(p, "dupGet") /\ UNCHANGED <<snap, sq, cp, view>>
  /\ UNCHANGED <<key, seq, camp, env, delivered, at>>

-----------------------------------------------------------------------------
(* handleDuplicateSendIdempotency, also reached through a caught conflict.  *)

DupGet(p) ==
  /\ pc[p] = "dupGet"
  /\ view' = [view EXCEPT ![p] = key[at[p]]]
  /\ Goto(p, "dupLoad")
  /\ UNCHANGED <<db, env, delivered, at, snap, sq, cp>>

\* Variant: any record the caller lost against proves a submission.
Resolved_Trusting(e, k) == MarkAccepted(Transition(e, "SENDING"))

\* What the handler writes on an unsettled execution for the record it read.  A
\* PENDING record never expires in the Postgres store, so it writes nothing.
Resolved(e, k) ==
  IF k = "COMPLETED" THEN MarkAccepted(Transition(e, "SENDING"))
                     ELSE MarkRequiresReconciliation(e)

DupLoad(p) ==
  LET e == Reconstitute(row[at[p]]) IN
  /\ pc[p] = "dupLoad"
  /\ \/ /\ view[p] = "PENDING" \/ e.st \in SettledStatuses
        /\ Finish(p, ResultOf(e.st))
     \/ /\ view[p] # "PENDING" /\ e.st \notin SettledStatuses
        /\ snap' = [snap EXCEPT ![p] = Resolved(e, view[p])]
        /\ Goto(p, "dupSave")
        /\ UNCHANGED <<sq, cp, view>>
  /\ UNCHANGED <<db, env, delivered, at>>

\* saveAuthoritative swallows a conflict and its caller answers from the copy.
DupSave(p) ==
  /\ pc[p] = "dupSave"
  /\ SaveExecution(p)
  /\ Finish(p, ResultOf(snap[p].st))
  /\ UNCHANGED <<key, seq, camp, env, delivered, at>>

-----------------------------------------------------------------------------
(* prepareDraft.                                                           *)

PrepareLoad(p) ==
  /\ "prepare" \in Ops
  /\ pc[p] = "idle" /\ seq.idx < NumSteps
  /\ at' = [at EXCEPT ![p] = seq.idx + 1]
  /\ Goto(p, "findDraft")
  /\ UNCHANGED <<db, env, delivered, snap, sq, cp, view>>

\* An existing execution is reported as awaiting approval, whatever its status.
\* Otherwise personalization decides: a failure calls reject, which DRAFTING
\* refuses, and the DRAFTING execution is what gets saved.
PrepareFind(p) ==
  /\ pc[p] = "findDraft"
  /\ \/ /\ row[at[p]] # NoRow
        /\ Finish(p, "awaiting")
     \/ /\ row[at[p]] = NoRow
        /\ \/ snap' = [snap EXCEPT ![p] = SetDraft(StartedDraft)]
           \/ "noDraft" \in Faults /\ snap' = [snap EXCEPT ![p] = Reject(StartedDraft)]
        /\ Goto(p, "saveDraft")
        /\ UNCHANGED <<sq, cp, view>>
  /\ UNCHANGED <<db, env, delivered, at>>

\* INSERT ... ON CONFLICT DO NOTHING under the unique key of migration 034; no
\* row inserted is a ConcurrencyConflictError nobody catches.
PrepareSave(p) ==
  /\ pc[p] = "saveDraft"
  /\ row' = IF row[at[p]] = NoRow THEN [row EXCEPT ![at[p]] = Stored(snap[p])] ELSE row
  /\ Finish(p, IF row[at[p]] # NoRow THEN "threw"
               ELSE IF snap[p].st = "DRAFTING" THEN "undrafted" ELSE "awaiting")
  /\ UNCHANGED <<key, seq, camp, env, delivered, at>>

-----------------------------------------------------------------------------
(* The other writers.  Each loads, decides, and saves with compare-and-swap; *)
(* a conflict is an exception that ends the call.                          *)

Load(p, op, s, copy, next) ==
  /\ op \in Ops
  /\ pc[p] = "idle"
  /\ at' = [at EXCEPT ![p] = s]
  /\ snap' = [snap EXCEPT ![p] = copy]
  /\ Goto(p, next)
  /\ UNCHANGED <<db, env, delivered, sq, cp, view>>

SaveOrThrow(p, here) ==
  /\ pc[p] = here
  /\ SaveExecution(p)
  /\ Finish(p, IF Current(p) THEN "ok" ELSE "threw")
  /\ UNCHANGED <<key, seq, camp, env, delivered, at>>

\* The operator follows the runbook and asks the provider what happened.
ReconcileLoad(p, s) ==
  /\ row[s].st \in Reconcilable
  /\ Load(p, "reconcile", s,
          MarkReconciled(Reconstitute(row[s]), IF delivered[s] > 0 THEN "DELIVERED" ELSE "FAILED"),
          "reconcileSave")

ReconcileSave(p) ==
  /\ pc[p] = "reconcileSave"
  /\ SaveExecution(p)
  /\ IF Current(p)
       THEN Goto(p, "reconcileKey") /\ UNCHANGED <<snap, sq, cp, view>>
       ELSE Finish(p, "threw")
  /\ UNCHANGED <<key, seq, camp, env, delivered, at>>

ReconcileKey(p) ==
  /\ pc[p] = "reconcileKey"
  /\ key' = [key EXCEPT ![at[p]] =
               IF snap[p].st = "DELIVERED" THEN "COMPLETED" ELSE "FAILED_SUBMITTED"]
  /\ Finish(p, "ok")
  /\ UNCHANGED <<row, seq, camp, env, delivered, at>>

\* A recipient opens or answers a message that reached them.
RespondLoad(p, s) ==
  /\ row[s] # NoRow /\ delivered[s] > 0
  /\ \E kind \in {"OPENED", "REPLIED"} :
       Load(p, "respond", s, RecordResponse(Reconstitute(row[s]), kind), "respondSave")

RespondSave(p) == SaveOrThrow(p, "respondSave")

\* expireApprovalWait skips every status but PENDING_APPROVAL.
ExpireLoad(p, s) ==
  /\ row[s].st = "PENDING_APPROVAL"
  /\ Load(p, "expire", s, MarkNonRetryable(Reconstitute(row[s])), "expireSave")

ExpireSave(p) == SaveOrThrow(p, "expireSave")

\* OutreachSequenceLifecycleService: load, start the workflow, link, save.
LinkLoad(p) ==
  /\ "link" \in Ops
  /\ pc[p] = "idle"
  /\ sq' = [sq EXCEPT ![p] = seq]
  /\ Goto(p, "linkSave")
  /\ UNCHANGED <<db, env, delivered, at, snap, cp, view>>

LinkSave(p) ==
  /\ pc[p] = "linkSave"
  /\ \/ /\ seq.ver = sq[p].ver
        /\ seq' = [sq[p] EXCEPT !.ver = sq[p].ver + 1]
        /\ Finish(p, "ok")
     \/ /\ seq.ver # sq[p].ver
        /\ Finish(p, "threw")
        /\ UNCHANGED seq
  /\ UNCHANGED <<row, key, camp, env, delivered, at>>

-----------------------------------------------------------------------------
(* The environment.                                                        *)

\* A process death: the call stops where it is and nothing of it survives.
Crash(p) ==
  /\ "crash" \in Faults
  /\ Running(p)
  /\ Finish(p, "crashed")
  /\ UNCHANGED <<db, env, delivered, at>>

Approve(s) ==
  /\ approval[s] = "PENDING"
  /\ approval' = [approval EXCEPT ![s] = "APPROVED"]
  /\ UNCHANGED <<db, allowed, suppressed, delivered, pc, at, snap, sq, cp, view>>

\* A rejection, or the approval's timeout passing before or after a decision.
Disapprove(s) ==
  /\ "deny" \in Faults
  /\ approval[s] \in {"PENDING", "APPROVED"}
  /\ \E outcome \in {"REJECTED", "EXPIRED"} :
       /\ outcome = "REJECTED" => approval[s] = "PENDING"
       /\ approval' = [approval EXCEPT ![s] = outcome]
  /\ UNCHANGED <<db, allowed, suppressed, delivered, pc, at, snap, sq, cp, view>>

RemoveFromAllowlist ==
  /\ "deny" \in Faults
  /\ allowed /\ allowed' = FALSE
  /\ UNCHANGED <<db, suppressed, approval, delivered, pc, at, snap, sq, cp, view>>

OptOut ==
  /\ "deny" \in Faults
  /\ ~suppressed /\ suppressed' = TRUE
  /\ UNCHANGED <<db, allowed, approval, delivered, pc, at, snap, sq, cp, view>>

-----------------------------------------------------------------------------

\* The sequence and campaign were approved and started, the workflow linked, and
\* the first step drafted.
Init ==
  /\ row = [s \in Steps |-> IF s = 1 THEN DraftedRow ELSE NoRow]
  /\ key = [s \in Steps |-> "ABSENT"]
  /\ seq = [st |-> "RUNNING", idx |-> 0, ver |-> 0]
  /\ camp = [st |-> "RUNNING", sent |-> 0, ver |-> 0]
  /\ allowed = TRUE
  /\ suppressed = FALSE
  /\ approval = [s \in Steps |-> "PENDING"]
  /\ delivered = [s \in Steps |-> 0]
  /\ pc = [p \in Procs |-> "idle"]
  /\ at = [p \in Procs |-> 1]
  /\ snap = [p \in Procs |-> NoCopy]
  /\ sq = [p \in Procs |-> NoSeq]
  /\ cp = [p \in Procs |-> NoCamp]
  /\ view = [p \in Procs |-> "ABSENT"]

SendStep(p) ==
  \/ LoadSequence(p) \/ LoadCampaign(p) \/ RecipientUnavailable(p)
  \/ GateAllowlist(p) \/ GateSuppression(p) \/ GateApproval(p)
  \/ GateRateLimit(p) \/ GateClaim(p)
  \/ SelectProvider(p) \/ SaveAttempt(p) \/ ProviderSend(p)
  \/ SaveAccepted(p) \/ SaveCampaign(p) \/ MarkCompleted(p)
  \/ ReloadCampaign(p) \/ SaveSequence(p) \/ SaveCompletion(p)
  \/ SaveDenied(p) \/ ReleaseDenied(p) \/ SaveRetry(p) \/ ReleaseRetry(p)
  \/ SaveUnknown(p)
  \/ DupGet(p) \/ DupLoad(p) \/ DupSave(p)

OtherStep(p) ==
  \/ PrepareFind(p) \/ PrepareSave(p)
  \/ ReconcileSave(p) \/ ReconcileKey(p)
  \/ RespondSave(p) \/ ExpireSave(p) \/ LinkSave(p)

Start(p) ==
  \/ \E s \in Steps : \/ LoadExecution(p, s) \/ ReconcileLoad(p, s)
                       \/ RespondLoad(p, s) \/ ExpireLoad(p, s)
  \/ PrepareLoad(p) \/ LinkLoad(p)

Environment ==
  \/ \E s \in Steps : Approve(s) \/ Disapprove(s)
  \/ RemoveFromAllowlist \/ OptOut

Next ==
  \/ \E p \in Procs : Start(p) \/ SendStep(p) \/ OtherStep(p) \/ Crash(p)
  \/ Environment

Spec == Init /\ [][Next]_vars

\* A call that has begun and whose process lives gets to its next await.
Fairness == \A p \in Procs : WF_vars(SendStep(p)) /\ WF_vars(OtherStep(p))
FairSpec == Spec /\ Fairness
=============================================================================
