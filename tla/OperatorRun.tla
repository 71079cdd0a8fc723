----------------------------- MODULE OperatorRun ----------------------------
(* How an outreach sequence comes to be and is released: the operator script  *)
(* prepares one and starts its workflow, a planning task only saves one, and  *)
(* the script's second command confirms, approves and signals.  The inside of *)
(* the workflow is SequenceRun; here it is what the script observes of it.    *)
EXTENDS Naturals

CONSTANTS
  Prepares,       \* runs of "prepare"; the campaign and the sequence bear the run's name
  Plans,          \* plan-outreach requests, which may be repeated
  Executes,       \* runs of "execute"
  Recipients,     \* addresses, each the address of one contact
  OperatorFaults  \* "crash": the script dies, or a query or a call of Temporal throws, maybe
                  \* after it took effect; "secret": the address cannot be recovered

Preparations == Prepares \cup Plans
Scripts      == Preparations \cup Executes

ASSUME ScriptsAssumption ==
  /\ Prepares \cap Plans = {} /\ Preparations \cap Executes = {}
  /\ "none" \notin Scripts /\ "torn" \notin Scripts /\ "elsewhere" \notin Scripts

VARIABLES
  leadRow,       \* the recipients whose lead is saved
  campaignRow,   \* outreach.campaigns, the status
  sequenceRow,   \* outreach.sequences
  executionRow,  \* outreach.message_executions of the only step
  approvalRow,   \* mission.approvals: the request of each execute
  stateFile,     \* .phase14-8-real-send-state.json
  lists,         \* the allowlist and the suppression list
  flow,          \* OutreachSequenceWorkflow of each sequence, and its approval slot
  script         \* the runs

prepared     == <<leadRow, campaignRow, sequenceRow>>
released     == <<executionRow, approvalRow, flow>>
operatorVars == <<prepared, released, stateFile, lists, script>>

SEQUENCE_STATE_TRANSITIONS ==
  [DRAFT |-> {"PENDING_APPROVAL", "CANCELLED"}, PENDING_APPROVAL |-> {"APPROVED", "CANCELLED"},
   APPROVED |-> {"RUNNING", "CANCELLED"},
   RUNNING |-> {"WAITING", "PAUSED", "COMPLETED", "CANCELLED", "FAILED"},
   WAITING |-> {"RUNNING", "PAUSED", "COMPLETED", "CANCELLED", "FAILED"},
   PAUSED |-> {"RUNNING", "CANCELLED"}, COMPLETED |-> {}, CANCELLED |-> {}, FAILED |-> {}]
CAMPAIGN_STATE_TRANSITIONS ==
  [DRAFT |-> {"PENDING_APPROVAL", "CANCELLED"}, PENDING_APPROVAL |-> {"APPROVED", "CANCELLED"},
   APPROVED |-> {"RUNNING", "CANCELLED"}, RUNNING |-> {"PAUSED", "COMPLETED", "CANCELLED"},
   PAUSED |-> {"RUNNING", "CANCELLED"}, COMPLETED |-> {}, CANCELLED |-> {}]

\* What an aggregate has become when it is saved: a plan leaves it as created, the script
\* walks it to RUNNING and throws if a step is refused.
Walk == <<"DRAFT", "PENDING_APPROVAL", "APPROVED", "RUNNING">>
Walkable(transitions) == \A i \in 1..3 : Walk[i + 1] \in transitions[Walk[i]]
SavedAs(p) == IF p \in Plans THEN "DRAFT" ELSE "RUNNING"

NoSequence == [status |-> "NONE", linked |-> FALSE, version |-> 0]

OperatorInit ==
  /\ leadRow = {}
  /\ campaignRow = [p \in Preparations |-> "NONE"]
  /\ sequenceRow = [p \in Preparations |-> NoSequence]
  /\ executionRow = [p \in Preparations |-> "NONE"]
  /\ approvalRow = [e \in Executes |-> [status |-> "NONE", sequence |-> "none"]]
  /\ stateFile = [sequence |-> "none", recipient |-> "none"]
  /\ lists = [allowed |-> Recipients, suppressed |-> {}]
  /\ flow = [p \in Preparations |-> [pc |-> "none", slot |-> "none"]]
  /\ script = [s \in Scripts |-> [pc |-> "idle", recipient |-> "none", sequence |-> "none", base |-> 0]]

To(s, pc) == script' = [script EXCEPT ![s].pc = pc]
Fault(fault) == fault \in OperatorFaults

-----------------------------------------------------------------------------
(* Before either command goes on: the mode, the live switch and the lists.    *)

Configured(mode, live, wanted) == mode = "ALLOWLIST_ONLY" /\ live = wanted

StartPrepare(p) ==
  /\ script[p].pc = "idle" /\ p \in Prepares
  /\ \E mode \in {"ALLOWLIST_ONLY", "LIVE"}, live \in BOOLEAN, r \in Recipients :
       script' = [script EXCEPT ![p].recipient = r,
                    ![p].pc = IF Configured(mode, live, FALSE) THEN "allowlist" ELSE "thrown"]
  /\ UNCHANGED <<prepared, released, stateFile, lists>>

CheckAllowlist(s) ==
  /\ script[s].pc = "allowlist"
  /\ To(s, IF script[s].recipient \in lists.allowed THEN "suppression" ELSE "thrown")
  /\ UNCHANGED <<prepared, released, stateFile, lists>>

CheckSuppression(s) ==
  /\ script[s].pc = "suppression"
  /\ To(s, IF script[s].recipient \in lists.suppressed THEN "thrown"
           ELSE IF s \in Executes THEN "find" ELSE "lead")
  /\ UNCHANGED <<prepared, released, stateFile, lists>>

\* An opt-out arrives, or an administrator takes a recipient off the allowlist; once, as a bound.
ListsChange(r) ==
  /\ lists = [allowed |-> Recipients, suppressed |-> {}]
  /\ \/ lists' = [lists EXCEPT !.suppressed = {r}]
     \/ lists' = [lists EXCEPT !.allowed = @ \ {r}]
  /\ UNCHANGED <<prepared, released, stateFile, script>>

-----------------------------------------------------------------------------
(* prepare, and plan-outreach *)

\* The lead's name is made of the recipient: its second insert breaks the primary key.
SaveLead(p) ==
  /\ script[p].pc = "lead"
  /\ leadRow' = leadRow \cup {script[p].recipient}
  /\ To(p, IF script[p].recipient \in leadRow THEN "thrown" ELSE "recipient")
  /\ UNCHANGED <<campaignRow, sequenceRow, released, stateFile, lists>>

\* A plan is asked for a lead that exists; a failed one may be asked for again.
StartPlan(p) ==
  /\ p \in Plans /\ script[p].pc \in {"idle", "thrown"}
  /\ \E r \in leadRow : script' = [script EXCEPT ![p].pc = "recipient", ![p].recipient = r]
  /\ UNCHANGED <<prepared, released, stateFile, lists>>

\* The contact may be missing or have no protected address.
ResolveRecipient(p) ==
  /\ script[p].pc = "recipient"
  /\ To(p, "campaign") \/ To(p, "thrown")
  /\ UNCHANGED <<prepared, released, stateFile, lists>>

SaveCampaign(p) ==
  /\ script[p].pc = "campaign"
  /\ IF campaignRow[p] = "NONE" /\ (p \in Prepares => Walkable(CAMPAIGN_STATE_TRANSITIONS))
       THEN campaignRow' = [campaignRow EXCEPT ![p] = SavedAs(p)] /\ To(p, "sequence")
       ELSE To(p, "thrown") /\ UNCHANGED campaignRow
  /\ UNCHANGED <<leadRow, sequenceRow, released, stateFile, lists>>

SaveSequence(p) ==
  /\ script[p].pc = "sequence"
  /\ IF p \in Prepares => Walkable(SEQUENCE_STATE_TRANSITIONS)
       THEN /\ sequenceRow' = [sequenceRow EXCEPT ![p] =
                                 [status |-> SavedAs(p), linked |-> FALSE, version |-> 1]]
            /\ script' = [script EXCEPT ![p].base = 1, ![p].pc = IF p \in Plans THEN "done" ELSE "start"]
       ELSE To(p, "thrown") /\ UNCHANGED sequenceRow
  /\ UNCHANGED <<leadRow, campaignRow, released, stateFile, lists>>

\* The workflow's name is made of the sequence's, so it starts once.
StartWorkflow(p) ==
  /\ script[p].pc = "start"
  /\ flow' = [flow EXCEPT ![p].pc = "started"]
  /\ To(p, "link")
  /\ UNCHANGED <<prepared, executionRow, approvalRow, stateFile, lists>>

\* Variant: a sequence that somebody else saved is taken for linked.
Refused_Tolerated == "observe"
Refused == "thrown"

\* The row is saved at the version the script knows.
LinkWorkflow(p) ==
  /\ script[p].pc = "link"
  /\ IF sequenceRow[p].version = script[p].base
       THEN /\ sequenceRow' = [sequenceRow EXCEPT ![p].linked = TRUE, ![p].version = @ + 1]
            /\ To(p, "observe")
       ELSE To(p, Refused) /\ UNCHANGED sequenceRow
  /\ UNCHANGED <<leadRow, campaignRow, released, stateFile, lists>>

\* The execution was seen awaiting its approval, or the wait is over; both are reported.
ObserveDraft(p) ==
  /\ script[p].pc = "observe"
  /\ To(p, "write")
  /\ UNCHANGED <<prepared, released, stateFile, lists>>

\* The file of an earlier prepare is overwritten; a crash may leave half of it.
WriteState(p) ==
  /\ script[p].pc = "write"
  /\ \/ /\ stateFile' = [sequence |-> p, recipient |-> script[p].recipient]
        /\ To(p, "done")
     \/ /\ Fault("crash")
        /\ stateFile' = [sequence |-> "torn", recipient |-> "none"]
        /\ To(p, "thrown")
  /\ UNCHANGED <<prepared, released, lists>>

-----------------------------------------------------------------------------
(* execute *)

\* A sequence given by name wins over the file's; the recipient is always the file's.
ReadState(e) ==
  /\ script[e].pc = "idle" /\ e \in Executes
  /\ \E mode \in {"ALLOWLIST_ONLY", "LIVE"}, live \in BOOLEAN, input \in Preparations \cup {"none"} :
       LET sequence == IF input = "none" THEN stateFile.sequence ELSE input
           goesOn   == /\ Configured(mode, live, TRUE)
                       /\ stateFile.sequence # "torn" /\ sequence # "none"
       IN script' = [script EXCEPT ![e].pc = IF goesOn THEN "load" ELSE "thrown",
                       ![e].sequence  = IF goesOn THEN sequence ELSE "none",
                       ![e].recipient = IF goesOn THEN stateFile.recipient ELSE "none"]
  /\ UNCHANGED <<prepared, released, stateFile, lists>>

\* The address is recovered from the file's ciphertext and compared with its fingerprint.
RecoverRecipient(e) ==
  /\ script[e].pc = "load"
  /\ \/ To(e, IF sequenceRow[script[e].sequence].status # "NONE" /\ script[e].recipient # "none"
                THEN "allowlist" ELSE "thrown")
     \/ Fault("secret") /\ To(e, "thrown")
  /\ UNCHANGED <<prepared, released, stateFile, lists>>

FindExecution(e) ==
  /\ script[e].pc = "find"
  /\ To(e, IF executionRow[script[e].sequence] \in {"PENDING_APPROVAL", "DRAFTING"}
             THEN "confirm" ELSE "thrown")
  /\ UNCHANGED <<prepared, released, stateFile, lists>>

ConfirmSend(e) ==
  /\ script[e].pc = "confirm"
  /\ To(e, "request") \/ To(e, "thrown")
  /\ UNCHANGED <<prepared, released, stateFile, lists>>

\* A fresh name each time: two runs ask twice for the same execution.
AskApproval(e) ==
  /\ script[e].pc = "request"
  /\ approvalRow' = [approvalRow EXCEPT ![e] = [status |-> "PENDING", sequence |-> script[e].sequence]]
  /\ To(e, "approve")
  /\ UNCHANGED <<prepared, executionRow, flow, stateFile, lists>>

ApproveOwn(e) ==
  /\ script[e].pc = "approve"
  /\ approvalRow' = [approvalRow EXCEPT ![e].status = "APPROVED"]
  /\ To(e, "signal")
  /\ UNCHANGED <<prepared, executionRow, flow, stateFile, lists>>

Open(p) == flow[p].pc \in {"started", "waiting"}

SignalApproval(e) ==
  /\ script[e].pc = "signal"
  /\ LET p == script[e].sequence IN
       \/ /\ Open(p)
          /\ flow' = [flow EXCEPT ![p].slot = e]
          /\ To(e, "await")
       \/ ~Open(p) /\ To(e, "thrown") /\ UNCHANGED flow
  /\ UNCHANGED <<prepared, executionRow, approvalRow, stateFile, lists>>

\* The run ends with the execution's status, or throws when the wait is over.
AwaitTerminal(e) ==
  /\ script[e].pc = "await"
  /\ \/ executionRow[script[e].sequence] \in {"PROVIDER_ACCEPTED", "REPLIED", "FAILED", "UNAPPROVED"} /\ To(e, "done")
     \/ To(e, "thrown")
  /\ UNCHANGED <<prepared, released, stateFile, lists>>

\* A query or a call throws, or the script dies: what was saved stays.
ScriptThrows(s) ==
  /\ Fault("crash")
  /\ script[s].pc \notin {"idle", "done", "thrown"}
  /\ To(s, "thrown")
  /\ UNCHANGED <<prepared, released, stateFile, lists>>

-----------------------------------------------------------------------------
(* What the script sees of the workflow, and the other tasks of a plan *)

\* A draft is saved when it is ready, or as DRAFTING when its personalization failed, and
\* the workflow then ends.  The status of the sequence is not looked at.
Drafted(p, failed) ==
  executionRow' = [executionRow EXCEPT ![p] = IF failed THEN "DRAFTING" ELSE "PENDING_APPROVAL"]

Draft(p) ==
  /\ flow[p].pc = "started"
  /\ \E failed \in BOOLEAN :
       /\ Drafted(p, failed)
       /\ flow' = [flow EXCEPT ![p].pc = IF failed THEN "closed" ELSE "waiting"]
  /\ UNCHANGED <<prepared, approvalRow, stateFile, lists, script>>

DraftMessage(n) ==
  /\ n \in Plans /\ sequenceRow[n].status # "NONE" /\ executionRow[n] = "NONE"
  /\ \E failed \in BOOLEAN : Drafted(n, failed)
  /\ UNCHANGED <<prepared, approvalRow, flow, stateFile, lists, script>>

\* Somebody else had an approval for the send, and signals that it was granted.
ApprovedElsewhere(p) ==
  /\ flow[p].pc = "waiting" /\ flow[p].slot = "none"
  /\ flow' = [flow EXCEPT ![p].slot = "elsewhere"]
  /\ UNCHANGED <<prepared, executionRow, approvalRow, stateFile, lists, script>>

\* The gate compares the idempotency keys of the request and of the execution.
ApprovalKey(e) == <<"phase14-8-approval", approvalRow[e].sequence>>
SendKey(p)     == <<"outreach:v2", p>>
Valid(p, approval) ==
  \/ approval = "elsewhere"
  \/ /\ approval \in Executes
     /\ approvalRow[approval].status = "APPROVED" /\ approvalRow[approval].sequence = p
     /\ ApprovalKey(approval) = SendKey(p)

\* FAILED: another reason of the gate's, or the provider's.  UNAPPROVED stands for an
\* execution that FAILED because the gate denied its approval.  The sequence of an
\* accepted message completes if it is RUNNING.
Release(p, approval) ==
  \/ /\ executionRow' = [executionRow EXCEPT ![p] = "FAILED"]
     /\ UNCHANGED <<campaignRow, sequenceRow>>
  \/ /\ ~Valid(p, approval)
     /\ executionRow' = [executionRow EXCEPT ![p] = "UNAPPROVED"]
     /\ UNCHANGED <<campaignRow, sequenceRow>>
  \/ /\ Valid(p, approval)
     /\ executionRow' = [executionRow EXCEPT ![p] = "PROVIDER_ACCEPTED"]
     /\ IF "COMPLETED" \in SEQUENCE_STATE_TRANSITIONS[sequenceRow[p].status]
          THEN /\ sequenceRow' = [sequenceRow EXCEPT ![p].status = "COMPLETED", ![p].version = @ + 1]
               /\ campaignRow' = [campaignRow EXCEPT ![p] = "COMPLETED"]
          ELSE UNCHANGED <<campaignRow, sequenceRow>>

ReleaseSend(p) ==
  /\ flow[p].pc = "waiting" /\ flow[p].slot # "none"
  /\ Release(p, flow[p].slot)
  /\ flow' = [flow EXCEPT ![p].pc = "closed"]
  /\ UNCHANGED <<leadRow, approvalRow, stateFile, lists, script>>

ExecutePlanned(n) ==
  /\ n \in Plans /\ executionRow[n] = "PENDING_APPROVAL"
  /\ \E approval \in Executes \cup {"elsewhere"} : Release(n, approval)
  /\ UNCHANGED <<leadRow, approvalRow, flow, stateFile, lists, script>>

RecordReply(n) ==
  /\ n \in Plans /\ executionRow[n] = "PROVIDER_ACCEPTED"
  /\ executionRow' = [executionRow EXCEPT ![n] = "REPLIED"]
  /\ UNCHANGED <<prepared, approvalRow, flow, stateFile, lists, script>>

OperatorNext ==
  \/ \E r \in Recipients : ListsChange(r)
  \/ \E s \in Scripts : CheckAllowlist(s) \/ CheckSuppression(s) \/ ScriptThrows(s)
  \/ \E p \in Preparations : \/ StartPrepare(p) \/ SaveLead(p) \/ StartPlan(p)
                             \/ ResolveRecipient(p) \/ SaveCampaign(p) \/ SaveSequence(p)
                             \/ StartWorkflow(p) \/ LinkWorkflow(p) \/ ObserveDraft(p) \/ WriteState(p)
  \/ \E e \in Executes : \/ ReadState(e) \/ RecoverRecipient(e) \/ FindExecution(e) \/ ConfirmSend(e)
                         \/ AskApproval(e) \/ ApproveOwn(e) \/ SignalApproval(e) \/ AwaitTerminal(e)
  \/ \E p \in Preparations : \/ Draft(p) \/ ApprovedElsewhere(p) \/ ReleaseSend(p)
                             \/ DraftMessage(p) \/ ExecutePlanned(p) \/ RecordReply(p)

OperatorSpec == OperatorInit /\ [][OperatorNext]_operatorVars

-----------------------------------------------------------------------------
(* Whatever crashed or was refused on the way, nothing later is there without *)
(* what it needs: no sequence without its campaign; no workflow without its   *)
(* lead, its running campaign and its started sequence; no state file for a   *)
(* sequence whose link to the workflow is not saved; no approval for a        *)
(* sequence without an execution.                                             *)
PreparedIsWhole ==
  /\ \A p \in Preparations : sequenceRow[p].status # "NONE" => campaignRow[p] # "NONE"
  /\ \A p \in Prepares : flow[p].pc # "none" =>
       /\ script[p].recipient \in leadRow /\ campaignRow[p] \in {"RUNNING", "COMPLETED"}
       /\ sequenceRow[p].status \in {"RUNNING", "COMPLETED"}
  /\ stateFile.sequence \in Prepares =>
       /\ sequenceRow[stateFile.sequence].linked
       /\ stateFile.recipient = script[stateFile.sequence].recipient
  /\ \A e \in Executes : approvalRow[e].status # "NONE" => executionRow[approvalRow[e].sequence] # "NONE"

(* The runbook of the real send has the gate allow what the operator approved *)
(* with the execute command.                                                  *)
OperatorApprovalIsHonoured ==
  \A p \in Prepares, e \in Executes :
    flow[p].slot = e /\ approvalRow[e].sequence = p /\ approvalRow[e].status = "APPROVED"
      => executionRow[p] # "UNAPPROVED"
=============================================================================
