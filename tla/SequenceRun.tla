---------------------------- MODULE SequenceRun -----------------------------
(* OutreachSequenceWorkflow with the approvals it waits for: one workflow per *)
(* sequence drafts a step, waits for a signal that names an approval request, *)
(* sends, waits for a reply and goes on.  Approvers decide requests at any    *)
(* time.  The inside of a send is OutreachSend; here it is one step.          *)
EXTENDS Naturals

CONSTANTS
  Requests,       \* approval requests
  Approvers,      \* calls of ApprovalApplicationService that decide; each runs once
  SequenceSteps,  \* the steps of the sequence
  MaxRounds,      \* maxIterations of the workflow
  SequenceFaults  \* "activity": an activity throws; "signal": Temporal refuses a signal;
                  \* "conflict": another caller saved the sequence

ASSUME SequenceStepsAssumption == SequenceSteps \in Nat \ {0}
ASSUME MaxRoundsAssumption == MaxRounds \in Nat \ {0}

VARIABLES
  position,   \* the steps completed; the sequence is COMPLETED at the last one
  execution,  \* the status of each step's execution
  request,    \* mission.approvals
  approver,   \* the deciding calls
  bounded,    \* approvalTimeoutMs was given
  run,        \* the workflow
  sent        \* the pairs <<step, request>> whose message was accepted

sequenceVars == <<position, execution, request, approver, bounded, run, sent>>

Positions == 1..SequenceSteps
\* ACCEPTED and FAILED stand for the classes executeSend tells apart.
ExecutionStates == {"NONE", "DRAFTING", "PENDING_APPROVAL", "SENDING", "ACCEPTED", "FAILED"}
Verdicts        == {"APPROVED", "REJECTED", "EXPIRED"}
ApprovalTransitions ==
  [PENDING   |-> Verdicts \cup {"ESCALATED"},
   ESCALATED |-> Verdicts,
   APPROVED  |-> {}, REJECTED |-> {}, EXPIRED |-> {}]

\* A request fits if its idempotency key and action type are those of its execution;
\* it is late once its timeoutSeconds have passed.
NoRequest == [status |-> "NONE", target |-> 1, fits |-> TRUE, late |-> FALSE, version |-> 0]
NoCall    == [pc |-> "idle", status |-> "NONE", target |-> 1, verdict |-> "NONE", base |-> 0,
              request |-> "none"]

SequenceInit ==
  /\ position = 0
  /\ execution = [s \in Positions |-> "NONE"]
  /\ request = [q \in Requests |-> NoRequest]
  /\ approver = [a \in Approvers |-> NoCall]
  /\ bounded \in BOOLEAN
  /\ run = [pc |-> "unstarted", slot |-> "none", used |-> "none", reply |-> FALSE,
            round |-> 0, result |-> "none"]
  /\ sent = {}

-----------------------------------------------------------------------------
(* Approvals *)

\* requestApproval, called for a drafted execution.
RequestApproval(q, s) ==
  /\ request[q].status = "NONE" /\ execution[s] # "NONE"
  /\ \E fits \in BOOLEAN :
       request' = [request EXCEPT ![q] = [status |-> "PENDING", target |-> s, fits |-> fits,
                                          late |-> FALSE, version |-> 1]]
  /\ UNCHANGED <<position, execution, approver, bounded, run, sent>>

TimePasses(q) ==
  /\ request[q].status # "NONE" /\ ~request[q].late
  /\ request' = [request EXCEPT ![q].late = TRUE]
  /\ UNCHANGED <<position, execution, approver, bounded, run, sent>>

\* approve, reject and timeout load the request and move their copy, or throw.
LoadRequest(a, q, verdict) ==
  /\ approver[a].pc = "idle" /\ request[q].status # "NONE"
  /\ approver' = [approver EXCEPT ![a] =
       [pc |-> IF verdict \in ApprovalTransitions[request[q].status] THEN "save" ELSE "thrown",
        status |-> verdict, target |-> request[q].target, verdict |-> verdict,
        base |-> request[q].version, request |-> q]]
  /\ UNCHANGED <<position, execution, request, bounded, run, sent>>

\* Variant: the UPDATE without its version condition.
Current_Always(r, base) == TRUE
Current(r, base) == r.version = base

SaveRequest(a) ==
  /\ approver[a].pc = "save"
  /\ LET q == approver[a].request IN
       IF Current(request[q], approver[a].base)
         THEN /\ request' = [request EXCEPT ![q].status = approver[a].status,
                                            ![q].version = approver[a].base + 1]
              /\ approver' = [approver EXCEPT ![a].pc = "signal"]
         ELSE approver' = [approver EXCEPT ![a].pc = "thrown"] /\ UNCHANGED request
  /\ UNCHANGED <<position, execution, bounded, run, sent>>

\* One signal for every verdict, with the request alone; the last one fills the slot.
SignalRun(a) ==
  /\ approver[a].pc = "signal"
  /\ \/ /\ run.pc \notin {"unstarted", "returned"}
        /\ run' = [run EXCEPT !.slot = approver[a].request]
        /\ approver' = [approver EXCEPT ![a].pc = "told"]
     \/ /\ run.pc \in {"unstarted", "returned"} \/ "signal" \in SequenceFaults
        /\ approver' = [approver EXCEPT ![a].pc = "thrown"]
        /\ UNCHANGED run
  /\ UNCHANGED <<position, execution, request, bounded, sent>>

-----------------------------------------------------------------------------
(* The workflow *)

\* REJECT_DUPLICATE: the workflow of a sequence starts once.
StartRun ==
  /\ run.pc = "unstarted"
  /\ run' = [run EXCEPT !.pc = "loop"]
  /\ UNCHANGED <<position, execution, request, approver, bounded, sent>>

Return(result) == run' = [run EXCEPT !.pc = "returned", !.result = result]

LoopHead ==
  /\ run.pc = "loop"
  /\ IF run.round = MaxRounds THEN Return("FAILED")
     ELSE IF position = SequenceSteps THEN Return("COMPLETED")
     ELSE run' = [run EXCEPT !.pc = "draft", !.round = @ + 1]
  /\ UNCHANGED <<position, execution, request, approver, bounded, sent>>

\* prepareDraft answers AWAITING_APPROVAL for any execution it finds.  When the
\* personalization fails, reject refuses a DRAFTING execution, which is saved as it is.
PrepareDraft ==
  /\ run.pc = "draft"
  /\ \/ /\ execution[position + 1] # "NONE"
        /\ run' = [run EXCEPT !.pc = "wait"]
        /\ UNCHANGED execution
     \/ /\ execution[position + 1] = "NONE"
        /\ execution' = [execution EXCEPT ![position + 1] = "PENDING_APPROVAL"]
        /\ run' = [run EXCEPT !.pc = "wait"]
     \/ /\ execution[position + 1] = "NONE"
        /\ execution' = [execution EXCEPT ![position + 1] = "DRAFTING"]
        /\ Return("FAILED")
  /\ UNCHANGED <<position, request, approver, bounded, sent>>

TakeSignal ==
  /\ run.pc = "wait" /\ run.slot # "none"
  /\ run' = [run EXCEPT !.pc = "send", !.used = run.slot]
  /\ UNCHANGED <<position, execution, request, approver, bounded, sent>>

\* Variant: the wait ends and its execution is left as it is.
Expired_Left(status) == status
Expired(status) == IF status = "PENDING_APPROVAL" THEN "FAILED" ELSE status

ExpireWait ==
  /\ run.pc = "wait" /\ bounded /\ run.slot = "none"
  /\ run' = [run EXCEPT !.pc = "expire"]
  /\ UNCHANGED <<position, execution, request, approver, bounded, sent>>

ExpireApprovalWait ==
  /\ run.pc = "expire"
  /\ execution' = [execution EXCEPT ![position + 1] = Expired(@)]
  /\ Return("TIMEOUT")
  /\ UNCHANGED <<position, request, approver, bounded, sent>>

\* Variant: the decision is taken from the fact that a signal came.
Verified_Signalled(q) == request[q].fits
\* verify: tenant and target agree since the signal carries the request's own execution.
Verified(q) == request[q].fits /\ request[q].status = "APPROVED" /\ ~request[q].late

\* What executeSend leaves and answers for a request: [execution, answer].
SendOutcomes(q) ==
  LET status == execution[request[q].target] IN
  IF status = "ACCEPTED" THEN {<<"ACCEPTED", "COMPLETED">>}
  ELSE IF status \in {"FAILED", "DRAFTING"} THEN {<<status, "FAILED">>}
  ELSE IF status \in {"PENDING_APPROVAL", "SENDING"} /\ ~Verified(q) THEN {<<"FAILED", "FAILED">>}
  ELSE {<<"FAILED", "FAILED">>, <<"SENDING", "RETRYABLE">>, <<"ACCEPTED", "COMPLETED">>}

AfterSend == [COMPLETED |-> "reply", RETRYABLE |-> "loop", FAILED |-> "returned"]

May(fault) == IF fault \in SequenceFaults THEN BOOLEAN ELSE {FALSE}

\* The slot is cleared when the activity is over: a signal that came meanwhile is gone.
\* The sequence's advance is lost to a conflict, or to a throw after the message went out.
ExecuteSend ==
  /\ run.pc = "send"
  /\ \E o \in SendOutcomes(run.used), throws \in May("activity"), lost \in May("conflict") :
       LET target  == request[run.used].target
           accepts == o[1] = "ACCEPTED" /\ execution[target] # "ACCEPTED"
           result  == IF throws THEN "FAILED" ELSE o[2]
       IN  /\ execution' = [execution EXCEPT ![target] = o[1]]
           /\ position' = IF accepts /\ ~lost THEN position + 1 ELSE position
           /\ sent' = IF accepts THEN sent \cup {<<target, run.used>>} ELSE sent
           /\ run' = [run EXCEPT !.pc = AfterSend[result], !.slot = "none",
                                 !.result = IF result = "FAILED" THEN "FAILED" ELSE @]
  /\ UNCHANGED <<request, approver, bounded>>

\* The reply's signal may come at any time, and is kept until it is interpreted.
ReplySignal ==
  /\ run.pc \notin {"unstarted", "returned"} /\ sent # {} /\ ~run.reply
  /\ run' = [run EXCEPT !.reply = TRUE]
  /\ UNCHANGED <<position, execution, request, approver, bounded, sent>>

\* recordResponse and interpretReply, then the sleep; or the wait for a reply is over.
AwaitReply ==
  /\ run.pc = "reply"
  /\ run' = [run EXCEPT !.pc = "loop", !.reply = FALSE]
  /\ UNCHANGED <<position, execution, request, approver, bounded, sent>>

\* Activities have one attempt: one that throws fails the workflow.
ActivityFails ==
  /\ "activity" \in SequenceFaults
  /\ run.pc \in {"loop", "draft", "expire", "send", "reply"}
  /\ Return("FAILED")
  /\ UNCHANGED <<position, execution, request, approver, bounded, sent>>

-----------------------------------------------------------------------------
SequenceNext ==
  \/ \E q \in Requests, s \in Positions : RequestApproval(q, s)
  \/ \E q \in Requests : TimePasses(q)
  \/ \E a \in Approvers, q \in Requests, v \in Verdicts : LoadRequest(a, q, v)
  \/ \E a \in Approvers : SaveRequest(a) \/ SignalRun(a)
  \/ StartRun \/ LoopHead \/ PrepareDraft \/ TakeSignal \/ ExpireWait \/ ExpireApprovalWait
  \/ ExecuteSend \/ ReplySignal \/ AwaitReply \/ ActivityFails

SequenceSpec == SequenceInit /\ [][SequenceNext]_sequenceVars

-----------------------------------------------------------------------------
\* Every message that reached the provider did so on a request for its own execution
\* that an approver granted and nobody revoked (verify, whatever was signalled).
SendsAreApproved ==
  \A p \in sent : /\ request[p[2]].status = "APPROVED"
                  /\ request[p[2]].target = p[1] /\ request[p[2]].fits

\* Of the approvers who decide a request one wins, and the workflow hears of no other
\* verdict (the version condition of the approval's save).
VerdictsStand ==
  \A a \in Approvers : approver[a].pc \in {"signal", "told"}
    => request[approver[a].request].status = approver[a].verdict

\* A workflow that timed out leaves no execution that still awaits an approval
\* (expireApprovalWait).
TimeoutLeavesNoWait ==
  run.result = "TIMEOUT" => \A s \in Positions : execution[s] # "PENDING_APPROVAL"
=============================================================================
