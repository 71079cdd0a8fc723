----------------------- MODULE OutreachSendProperties -----------------------
(***************************************************************************)
(* What is checked of OutreachSend.                                        *)
(***************************************************************************)
EXTENDS OutreachSend, FiniteSetsExt

\* Every variable holds a value of its kind.
TypeOK ==
  /\ row \in [Steps -> Rows]
  /\ key \in [Steps -> KeyStates]
  /\ seq \in SeqCopies
  /\ camp \in CampCopies
  /\ allowed \in BOOLEAN
  /\ suppressed \in BOOLEAN
  /\ approval \in [Steps -> {"PENDING", "APPROVED", "REJECTED", "EXPIRED"}]
  /\ delivered \in [Steps -> Nat]
  /\ pc \in [Procs -> {"idle"} \cup SendPoints \cup OtherPoints \cup Results]
  /\ at \in [Procs -> Steps]
  /\ snap \in [Procs -> Copies]
  /\ sq \in [Procs -> SeqCopies]
  /\ cp \in [Procs -> CampCopies]
  /\ view \in [Procs -> KeyStates]

Positive(s) == row[s].st \in PositiveStatuses

\* However many calls race, retry, lose their process or fail half way, the
\* provider takes a step's message at most once (send-safety-gate.ts: "Only one
\* caller can ever win the claim for a given key").
AtMostOneDelivery == \A s \in Steps : delivered[s] <= 1

\* Calls whose copy of the execution is still to be saved; of these, the ones that
\* loaded it unsettled and mean to send, deny or settle it.
GatePoints ==
  {"allowlist", "suppression", "approval", "rateLimit", "claim", "selectProvider",
   "saveAttempt"}
SendingPoints ==
  GatePoints \cup {"providerSend", "saveAccepted", "saveDenied", "saveRetry",
                  "saveUnknown", "dupSave", "expireSave"}
CopyPoints ==
  SendingPoints \cup {"loadSequence", "loadCampaign", "reconcileSave", "respondSave"}

Settled(s) == row[s].st \in SettledStatuses
Fresh(p)   == row[at[p]].ver = snap[p].loaded

\* A copy is never ahead of its row, and one that was not changed agrees with the
\* row it was loaded from until the row's version moves.
CopyTrails(p) ==
  pc[p] \in CopyPoints =>
    /\ snap[p].loaded <= row[at[p]].ver
    /\ snap[p].loaded <= snap[p].ver
    /\ Fresh(p) /\ snap[p].ver = snap[p].loaded => snap[p].st = row[at[p]].st

\* What a copy says where it is used.
CopyAgrees(p) ==
  /\ pc[p] \in SendingPoints /\ Fresh(p) => ~Settled(at[p])
  /\ pc[p] \in {"loadSequence", "loadCampaign"} => snap[p].ver = snap[p].loaded
  /\ pc[p] \in {"reconcileSave", "respondSave"} /\ Fresh(p) /\ Settled(at[p])
       => snap[p].st \in SettledStatuses
  /\ pc[p] \in GatePoints \cup {"providerSend", "saveRetry"} => snap[p].st = "SENDING"
  /\ pc[p] = "saveDenied" => snap[p].st \in SettledStatuses
  /\ pc[p] = "saveDraft" => snap[p].ver > 0
  /\ pc[p] = "releaseDenied" => Settled(at[p])

\* A call that can still make the provider take the message, or that owns the claim
\* it is about to give back.
MaySend(p) ==
  \/ pc[p] \in {"providerSend", "saveRetry", "releaseRetry"}
  \/ pc[p] \in {"selectProvider", "saveAttempt"} /\ Fresh(p)

\* The claim at work: one call at a time may send, none after a delivery, and a
\* free key means nobody has sent unless the execution is settled.
OneSender ==
  /\ \A p, q \in Procs : MaySend(p) /\ MaySend(q) /\ at[p] = at[q] => p = q
  /\ \A p \in Procs : MaySend(p) => delivered[at[p]] = 0
  /\ \A s \in Steps : Claimable(key[s]) /\ ~Settled(s) =>
       delivered[s] = 0 /\ \A p \in Procs : at[p] = s => ~MaySend(p)

\* Why AtMostOneDelivery holds: its inductive form, for a gate without rate limits.
ClaimProtectsSend ==
  /\ \A p \in Procs : CopyTrails(p) /\ CopyAgrees(p)
  /\ OneSender
  /\ AtMostOneDelivery

\* COMPLETED is said only of a message the provider took, next to an execution that
\* records it: in the idempotency record, saved after the execution, and in the answer of
\* executeApprovedSend, also from its duplicate and conflict paths.
CompletedIsTrue ==
  /\ \A s \in Steps : key[s] = "COMPLETED" => Positive(s)
  /\ \A p \in Procs : pc[p] = "completed" => Positive(at[p]) /\ delivered[at[p]] > 0

\* An execution whose send is recorded as refused before its submission was not
\* delivered: no caller writes that over a message another caller is submitting.
FailureMeansNotSent ==
  \A s \in Steps : row[s].st = "FAILED_PRE_SUBMISSION" => delivered[s] = 0

\* The recipients of a campaign never get more messages than its maxSendCount: a
\* spend that is lost also keeps the sequence from reaching the next step.
BudgetNeverExceeded == MapThenSumSet(LAMBDA s : delivered[s], Steps) <= MaxSendCount

\* No write takes an execution back from an acceptance: a loser never overwrites
\* the winner's DELIVERY_PENDING, whatever copy it holds.
AcceptanceIsNeverLost ==
  [][\A s \in Steps : Positive(s) => row'[s].st \in PositiveStatuses]_vars

\* A final status is only left by the operator's reconciliation, and only from the
\* two statuses whose outcome is open (reconciliation.service.ts).
OnlyReconciliationReopens ==
  [][\A s \in Steps :
       row[s].st \in FailureStatuses /\ row'[s] # row[s] =>
         /\ row[s].st \in {"DELIVERY_UNKNOWN", "REQUIRES_RECONCILIATION"}
         /\ \E p \in Procs : pc[p] = "reconcileSave" /\ at[p] = s]_vars

\* Without crashes and answers that give the claim back, a claim of an execution that is
\* not settled is held by a call whose next save will take: nobody waits for an owner
\* that is gone, or whose copy another call has made stale.
OwnerPoints ==
  {"selectProvider", "saveAttempt", "providerSend", "saveAccepted", "saveUnknown", "saveDenied"}
Owns(p) == pc[p] \in OwnerPoints /\ Fresh(p)
ClaimHasOwner ==
  \A s \in Steps : key[s] = "PENDING" /\ ~Settled(s) => \E p \in Procs : at[p] = s /\ Owns(p)

\* What the gate refuses for good at the time a call begins: the recipient left
\* the allowlist or opted out, or the approval was rejected or lapsed.
Barred(s) == ~allowed \/ suppressed \/ approval[s] \in {"REJECTED", "EXPIRED"}

\* A call that begins after a recipient is barred never submits to the provider.
BarredCallsNeverSubmit ==
  \A p \in Procs, s \in Steps :
    [](pc[p] = "idle" /\ Barred(s) => [](at[p] = s => pc[p] # "providerSend"))

\* However an execution was settled, by an answer, a denial, an expiry or the operator's
\* reconciliation: a call that begins after it never submits to the provider.  Only
\* calls already under way can send what an operator recorded as failed
\* (executeApprovedSend's early returns on the loaded status).
SettledCallsNeverSubmit ==
  \A p \in Procs, s \in Steps :
    [](pc[p] = "idle" /\ Settled(s) => [](at[p] = s => pc[p] # "providerSend"))

\* Both at once: a call that begins after its recipient is barred or its execution settled
\* is refused by the gate or answered from the copy it loads (executeApprovedSend).
ClosedCallsNeverSubmit ==
  \A p \in Procs, s \in Steps :
    [](pc[p] = "idle" /\ (Barred(s) \/ Settled(s)) => [](at[p] = s => pc[p] # "providerSend"))

\* A send of s still holds the sequence in a version that a relink has replaced since: its
\* advance will be refused (link's save between the load and the save of a send).
Overtaken(s) ==
  \E p \in Procs :
    /\ pc[p] \in SendPoints \ {"loadSequence"} /\ at[p] = s
    /\ sq[p].idx = seq.idx /\ sq[p].ver # seq.ver

\* Without crashes, an accepted message is followed by its COMPLETED record; and it moves the
\* sequence on as long as no relink overtakes a send of the step.  One that does makes
\* advanceSequence conflict, the duplicate handler then completes the call, and nobody
\* advances the sequence any more (executeApprovedSend, advanceSequence, LinkSave).
AcceptedAdvances ==
  \A s \in Steps :
    /\ Positive(s) ~> key[s] = "COMPLETED"
    /\ []~Overtaken(s) => (Positive(s) ~> seq.idx >= s)

\* A claim does not stay unresolved: the execution settles or the key is free.
ClaimResolves ==
  \A s \in Steps :
    key[s] = "PENDING" ~> key[s] # "PENDING" \/ row[s].st \in SettledStatuses

\* The send path implements the ledger.
Ledger == INSTANCE SendLedger WITH
  sent <- delivered,
  accepted <- {s \in Steps : Positive(s)},
  position <- seq.idx
LedgerSpec == Ledger!Spec
=============================================================================
