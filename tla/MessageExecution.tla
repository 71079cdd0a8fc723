-------------------------- MODULE MessageExecution --------------------------
(***************************************************************************)
(* The OutreachMessageExecution aggregate and the row its repository       *)
(* keeps: the status machine, the operations that move it, the version    *)
(* that applyEvent bumps and the compare-and-swap of save.  The module has *)
(* no state; OutreachSend keeps the rows and the loaded copies.            *)
(*                                                                         *)
(* A row is [st, ver].  A loaded copy also carries loaded, the version it  *)
(* was read at (AggregateRoot.loadedVersion).  Message ids, drafts, error  *)
(* texts, timestamps and the attempt counter are abstracted: no decision   *)
(* of the modelled store reads them.                                       *)
(***************************************************************************)
EXTENDS Naturals

\* BOUNCED and CANCELLED are declared by the code but no transition reaches them.
Statuses == {"PENDING", "DRAFTING", "PENDING_APPROVAL", "APPROVED", "SENDING",
             "PROVIDER_ACCEPTED", "DELIVERY_PENDING", "DELIVERED", "OPENED",
             "REPLIED", "BOUNCED", "FAILED_PRE_SUBMISSION", "DELIVERY_FAILED",
             "DELIVERY_UNKNOWN", "REQUIRES_RECONCILIATION", "FAILED", "CANCELLED"}

\* MESSAGE_EXECUTION_STATE_TRANSITIONS, as the set of legal pairs.
Transitions ==
  {<<"PENDING", "DRAFTING">>,
   <<"DRAFTING", "PENDING_APPROVAL">>, <<"DRAFTING", "FAILED">>,
   <<"PENDING_APPROVAL", "APPROVED">>, <<"PENDING_APPROVAL", "FAILED">>,
   <<"APPROVED", "SENDING">>,
   <<"SENDING", "PROVIDER_ACCEPTED">>, <<"SENDING", "FAILED_PRE_SUBMISSION">>,
   <<"SENDING", "DELIVERY_UNKNOWN">>, <<"SENDING", "REQUIRES_RECONCILIATION">>,
   <<"PROVIDER_ACCEPTED", "DELIVERY_PENDING">>,
   <<"DELIVERY_PENDING", "DELIVERED">>, <<"DELIVERY_PENDING", "DELIVERY_FAILED">>,
   <<"DELIVERY_PENDING", "DELIVERY_UNKNOWN">>,
   <<"DELIVERY_PENDING", "REQUIRES_RECONCILIATION">>,
   <<"DELIVERED", "OPENED">>, <<"OPENED", "REPLIED">>}

PositiveStatuses == {"PROVIDER_ACCEPTED", "DELIVERY_PENDING", "DELIVERED", "OPENED", "REPLIED"}
FailureStatuses  == {"FAILED_PRE_SUBMISSION", "DELIVERY_FAILED", "DELIVERY_UNKNOWN",
                     "REQUIRES_RECONCILIATION", "FAILED", "CANCELLED", "BOUNCED"}
\* Variant: the operator may also reopen a rejected send.
Reconcilable_Wider == {"DELIVERY_UNKNOWN", "REQUIRES_RECONCILIATION", "FAILED_PRE_SUBMISSION"}
Reconcilable     == {"DELIVERY_UNKNOWN", "REQUIRES_RECONCILIATION"}
SettledStatuses  == PositiveStatuses \cup FailureStatuses

NoRow == [st |-> "ABSENT", ver |-> 0]
Rows  == [st : Statuses \cup {"ABSENT"}, ver : Nat]
NoCopy == [st |-> "ABSENT", ver |-> 0, loaded |-> 0]
Copies == [st : Statuses \cup {"ABSENT"}, ver : Nat, loaded : Nat]

-----------------------------------------------------------------------------
(* Persistence: reconstitute, and save's UPDATE ... WHERE version = loaded. *)

Reconstitute(r) == [st |-> r.st, ver |-> r.ver, loaded |-> r.ver]
Stored(e) == [st |-> e.st, ver |-> e.ver]
\* Variant: the UPDATE without its version condition.
CanCommit_Unchecked(r, e) == TRUE
CanCommit(r, e) == r.ver = e.loaded

-----------------------------------------------------------------------------
(* Operations.  A transition the table forbids leaves the aggregate as it  *)
(* is (a failed Result the callers mostly ignore); a legal one applies one *)
(* event, hence one version.                                               *)

Transition(e, to) ==
  IF <<e.st, to>> \in Transitions
    THEN [e EXCEPT !.st = to, !.ver = e.ver + 1]
    ELSE e

\* create, startDrafting: the two events before the draft is known.
StartedDraft == [st |-> "DRAFTING", ver |-> 2, loaded |-> 0]
SetDraft(e) == Transition(e, "PENDING_APPROVAL")

\* reject only accepts PENDING_APPROVAL.
Reject(e) == IF e.st = "PENDING_APPROVAL" THEN Transition(e, "FAILED") ELSE e

\* The prologue of a send: approve if pending, then markSending if approved.
BeginSending(e) ==
  Transition(IF e.st = "PENDING_APPROVAL" THEN Transition(e, "APPROVED") ELSE e, "SENDING")

PreSubmission(e) == e.st \in {"SENDING", "APPROVED"}

\* RETRYABLE and RATE_LIMITED: before submission neither the status nor the
\* version moves, so the save that follows leaves the row's version unchanged.
MarkRetryable(e) ==
  IF PreSubmission(e) THEN e ELSE Transition(e, "REQUIRES_RECONCILIATION")

MarkNonRetryable(e) ==
  Transition(e, IF PreSubmission(e) THEN "FAILED_PRE_SUBMISSION"
                ELSE IF e.st \in PositiveStatuses \ {"REPLIED"} THEN "DELIVERY_FAILED"
                ELSE "FAILED")

\* markProviderAccepted followed by markDeliveryPending.
MarkAccepted(e) == Transition(Transition(e, "PROVIDER_ACCEPTED"), "DELIVERY_PENDING")
\* Variants: an ambiguous answer taken for a rejection; or not recorded at all.
MarkDeliveryUnknown_AsRejected(e) == Transition(e, "FAILED_PRE_SUBMISSION")
MarkDeliveryUnknown_Ignored(e) == e
MarkDeliveryUnknown(e) == Transition(e, "DELIVERY_UNKNOWN")
MarkRequiresReconciliation(e) == Transition(e, "REQUIRES_RECONCILIATION")

\* markReconciledDelivered and markReconciledFailed bypass the table.
MarkReconciled(e, to) == [e EXCEPT !.st = to, !.ver = e.ver + 1]

\* recordResponse: DELIVERED, OPENED and, for a reply, REPLIED.
RecordResponse(e, kind) ==
  LET delivered == IF e.st \in {"PROVIDER_ACCEPTED", "DELIVERY_PENDING"}
                     THEN Transition(e, "DELIVERED") ELSE e
      opened    == IF delivered.st = "DELIVERED"
                     THEN Transition(delivered, "OPENED") ELSE delivered
  IN  IF kind = "REPLIED" THEN Transition(opened, "REPLIED") ELSE opened
=============================================================================
