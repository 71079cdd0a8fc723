------------------------ MODULE OutreachLedgerProof ------------------------
(***************************************************************************)
(* What the rows, records and copies of the send path say, for any number  *)
(* of calls and steps, every operation and every fault: acceptances are    *)
(* true and kept, only reconciliation reopens, the sequence and the        *)
(* campaign count what was accepted.  With the claim (OutreachSendProof):  *)
(* the send path implements SendLedger, the budget holds, and what is      *)
(* recorded as refused was not sent.                                       *)
(***************************************************************************)
EXTENDS OutreachSendProof, Sums

-----------------------------------------------------------------------------
(* A step of one call leaves the other calls' variables alone.               *)

Alone(p) == \A q \in Procs \ {p} :
  /\ pc'[q] = pc[q] /\ at'[q] = at[q] /\ snap'[q] = snap[q]
  /\ sq'[q] = sq[q] /\ cp'[q] = cp[q] /\ view'[q] = view[q]

Locals ==
  /\ DOMAIN pc = Procs /\ DOMAIN at = Procs /\ DOMAIN snap = Procs
  /\ DOMAIN sq = Procs /\ DOMAIN cp = Procs /\ DOMAIN view = Procs

LEMMA LocalsType == TypeOK => Locals
  BY DEF TypeOK, Locals

LEMMA FinishAlone ==
  ASSUME Locals, NEW p \in Procs, NEW result, Finish(p, result), UNCHANGED at
  PROVE  /\ Alone(p)
         /\ pc'[p] = result /\ snap'[p] = NoCopy /\ sq'[p] = NoSeq /\ cp'[p] = NoCamp
         /\ view'[p] = "ABSENT"
  BY DEF Locals, Alone, Finish, Goto

LEMMA CallAlone ==
  ASSUME Locals, NEW p \in Procs, Start(p) \/ SendStep(p) \/ OtherStep(p) \/ Crash(p)
  PROVE  Alone(p)
  <1>1. CASE Start(p)
    BY <1>1 DEF Locals, Alone, Start, LoadExecution, ReconcileLoad, RespondLoad, ExpireLoad,
       PrepareLoad, LinkLoad, Load, Goto
  <1>2. CASE OtherStep(p)
    BY <1>2, FinishAlone DEF Locals, Alone, OtherStep, PrepareFind, PrepareSave,
       ReconcileSave, ReconcileKey, RespondSave, ExpireSave, LinkSave, SaveOrThrow, Goto
  <1>3. CASE Crash(p)  BY <1>3, FinishAlone DEF Crash
  <1>4. CASE \/ LoadSequence(p) \/ LoadCampaign(p) \/ RecipientUnavailable(p)
             \/ GateAllowlist(p) \/ GateSuppression(p) \/ GateApproval(p)
             \/ GateRateLimit(p) \/ GateClaim(p)
    BY <1>4, FinishAlone DEF Locals, Alone, LoadSequence, LoadCampaign, RecipientUnavailable,
       GateAllowlist, GateSuppression, GateApproval, GateRateLimit, GateClaim, Gate, Deny, Goto
  <1>5. CASE \/ SelectProvider(p) \/ SaveAttempt(p) \/ ProviderSend(p)
             \/ SaveAccepted(p) \/ SaveCampaign(p) \/ MarkCompleted(p)
             \/ ReloadCampaign(p) \/ SaveSequence(p) \/ SaveCompletion(p)
    BY <1>5, FinishAlone DEF Locals, Alone, SelectProvider, SaveAttempt, ProviderSend,
       SaveAccepted, SaveCampaign, MarkCompleted, ReloadCampaign, SaveSequence, SaveCompletion,
       SaveThen, SaveCampaignThen, Deny, Goto
  <1>6. CASE \/ SaveDenied(p) \/ ReleaseDenied(p) \/ SaveRetry(p) \/ ReleaseRetry(p)
             \/ SaveUnknown(p) \/ DupGet(p) \/ DupLoad(p) \/ DupSave(p)
    BY <1>6, FinishAlone DEF Locals, Alone, SaveDenied, ReleaseDenied, SaveRetry, ReleaseRetry,
       SaveUnknown, DupGet, DupLoad, DupSave, SaveThen, MarkIdempotencyFailed, Goto
  <1> QED  BY <1>1, <1>2, <1>3, <1>4, <1>5, <1>6 DEF SendStep

-----------------------------------------------------------------------------
(* The statuses the operations of the aggregate leave.                       *)

LEMMA TransitionStatus ==
  ASSUME NEW e \in Copies, NEW to
  PROVE  Transition(e, to).st = IF <<e.st, to>> \in Transitions THEN to ELSE e.st
  BY DEF Transition, Copies

LEMMA SendingStatus ==
  ASSUME NEW e \in Copies, e.st = "SENDING"
  PROVE  /\ MarkNonRetryable(e).st = "FAILED_PRE_SUBMISSION"
         /\ MarkAccepted(e).st = "DELIVERY_PENDING"
         /\ MarkDeliveryUnknown(e).st = "DELIVERY_UNKNOWN"
  <1>1. MarkNonRetryable(e).st = "FAILED_PRE_SUBMISSION"
    BY TransitionStatus DEF MarkNonRetryable, PreSubmission, Transitions
  <1>2. MarkDeliveryUnknown(e).st = "DELIVERY_UNKNOWN"
    BY TransitionStatus DEF MarkDeliveryUnknown, Transitions
  <1>3. Transition(e, "PROVIDER_ACCEPTED").st = "PROVIDER_ACCEPTED"
    BY TransitionStatus DEF Transitions
  <1>4. <<"PROVIDER_ACCEPTED", "DELIVERY_PENDING">> \in Transitions  BY DEF Transitions
  <1>5. MarkAccepted(e).st = "DELIVERY_PENDING"
    BY <1>3, <1>4, TransitionType, TransitionStatus DEF MarkAccepted
  <1> QED  BY <1>1, <1>2, <1>5

\* What the duplicate handler writes for a record that is not COMPLETED.
LEMMA UnacceptedStatus ==
  ASSUME NEW e \in Copies, e.st \notin SettledStatuses
  PROVE  /\ MarkRequiresReconciliation(e).st \notin PositiveStatuses
         /\ MarkRequiresReconciliation(e).st \notin {"SENDING", "FAILED_PRE_SUBMISSION"}
  <1>1. MarkRequiresReconciliation(e).st =
          IF e.st \in {"SENDING", "DELIVERY_PENDING"} THEN "REQUIRES_RECONCILIATION" ELSE e.st
    BY TransitionStatus DEF MarkRequiresReconciliation, Transitions
  <1> QED  BY <1>1 DEF SettledStatuses, PositiveStatuses, FailureStatuses

LEMMA ResponseStatus ==
  ASSUME NEW e \in Copies, NEW kind
  PROVE  IF e.st \in PositiveStatuses THEN RecordResponse(e, kind).st \in PositiveStatuses
                                      ELSE RecordResponse(e, kind) = e
  <1> DEFINE d == IF e.st \in {"PROVIDER_ACCEPTED", "DELIVERY_PENDING"}
                    THEN Transition(e, "DELIVERED") ELSE e
             o == IF d.st = "DELIVERED" THEN Transition(d, "OPENED") ELSE d
             r == IF kind = "REPLIED" THEN Transition(o, "REPLIED") ELSE o
  <1>1. RecordResponse(e, kind) = r  BY DEF RecordResponse
  <1>2. \A f \in Copies : Transition(f, "REPLIED").st \in {f.st, "REPLIED"}
                          /\ Transition(f, "OPENED").st \in {f.st, "OPENED"}
                          /\ Transition(f, "DELIVERED").st \in {f.st, "DELIVERED"}
    BY TransitionStatus
  <1>3. {"DELIVERED", "OPENED", "REPLIED"} \subseteq PositiveStatuses
    BY DEF PositiveStatuses
  <1>4. CASE e.st \in PositiveStatuses
    <2>1. d \in Copies /\ d.st \in PositiveStatuses  BY <1>2, <1>3, <1>4, TransitionType
    <2> HIDE DEF d
    <2>2. o \in Copies /\ o.st \in PositiveStatuses  BY <1>2, <1>3, <2>1, TransitionType
    <2> HIDE DEF o
    <2>3. r.st \in PositiveStatuses  BY <1>2, <1>3, <2>2
    <2> QED  BY <1>1, <1>4, <2>3
  <1>5. CASE e.st \notin PositiveStatuses
    <2>1. e.st \notin {"PROVIDER_ACCEPTED", "DELIVERY_PENDING", "DELIVERED", "OPENED"}
      BY <1>5 DEF PositiveStatuses
    <2>2. d = e /\ o = e  BY <2>1
    <2>3. Transition(e, "REPLIED") = e
      BY <2>1 DEF Transition, Transitions
    <2> QED  BY <1>1, <1>5, <2>2, <2>3
  <1> QED  BY <1>4, <1>5

LEMMA DraftStatus ==
  /\ SetDraft(StartedDraft).st = "PENDING_APPROVAL"
  /\ Reject(StartedDraft).st = "DRAFTING"
  <1>1. StartedDraft \in Copies /\ StartedDraft.st = "DRAFTING"  BY DraftType DEF StartedDraft
  <1>2. <<"DRAFTING", "PENDING_APPROVAL">> \in Transitions  BY DEF Transitions
  <1> QED  BY <1>1, <1>2, TransitionStatus DEF SetDraft, Reject

LEMMA ReconciledCopy ==
  ASSUME NEW e \in Copies, NEW to
  PROVE  /\ MarkReconciled(e, to).st = to
         /\ MarkReconciled(e, to).ver = e.ver + 1
         /\ MarkReconciled(e, to).loaded = e.loaded
  BY DEF MarkReconciled, Copies

-----------------------------------------------------------------------------
(* RecordsSound: what copies, answers and records know of the rows.          *)

\* Calls whose copy does not record an acceptance, and calls that saw it recorded.
UnacceptedPoints == (SendingPoints \ {"saveAccepted"}) \cup {"saveDraft"}
AcceptedPoints == {"saveCampaign", "markCompleted", "reloadCampaign", "saveSequence",
                   "saveCompletion", "completed"}

\* What a copy says, wherever its row has gone since.
CopyKnows(p) ==
  /\ pc[p] \in {"loadSequence", "loadCampaign"} =>
       /\ snap[p].ver = snap[p].loaded
       /\ snap[p].st \in PositiveStatuses => Positive(at[p])
  /\ pc[p] \in GatePoints \cup {"providerSend", "saveRetry"} => snap[p].st = "SENDING"
  /\ pc[p] \in UnacceptedPoints => snap[p].st \notin PositiveStatuses
  /\ pc[p] = "saveDenied" => snap[p].st = "FAILED_PRE_SUBMISSION"
  /\ pc[p] \in {"saveUnknown", "dupSave", "expireSave", "saveDraft", "reconcileSave"} =>
       snap[p].st \notin {"FAILED_PRE_SUBMISSION", "SENDING"}
  /\ pc[p] = "saveDraft" => snap[p].ver > 0
  /\ pc[p] = "saveAccepted" => snap[p].st \in PositiveStatuses /\ delivered[at[p]] > 0
  /\ pc[p] = "respondSave" => delivered[at[p]] > 0
  /\ pc[p] = "reconcileSave" =>
       /\ snap[p].ver > snap[p].loaded /\ snap[p].st \in {"DELIVERED", "FAILED"}
       /\ snap[p].st = "DELIVERED" => delivered[at[p]] > 0

\* What the row is while a copy that will be saved is still fresh.
FreshKnows(p) ==
  pc[p] \in CopyPoints /\ Fresh(p) =>
    /\ pc[p] \in SendingPoints => ~Settled(at[p])
    /\ pc[p] = "reconcileSave" => row[at[p]].st \in Reconcilable
    /\ pc[p] = "respondSave" => IF Positive(at[p]) THEN snap[p].st \in PositiveStatuses
                                                   ELSE snap[p].ver = snap[p].loaded

\* Where a call goes on as if the message were accepted, it is recorded.
AcceptanceKnown(p) ==
  /\ pc[p] \in AcceptedPoints => Positive(at[p])
  /\ pc[p] = "dupLoad" /\ view[p] = "COMPLETED" => Positive(at[p])
  /\ pc[p] = "reconcileKey" /\ snap[p].st = "DELIVERED" => Positive(at[p])

CallKnows(p) == CopyTrails(p) /\ CopyKnows(p) /\ FreshKnows(p) /\ AcceptanceKnown(p)

StepSound(s) ==
  /\ Positive(s) => delivered[s] > 0
  /\ key[s] = "COMPLETED" => Positive(s)

RecordsSound ==
  /\ \A p \in Procs : CallKnows(p)
  /\ \A s \in Steps : StepSound(s)

\* What may happen to a row and to its message in any step.
KeptLaw(s) ==
  /\ RowLaw(s)
  /\ Positive(s) => Positive(s)'
  /\ delivered'[s] >= delivered[s]

LEMMA OthersKnow ==
  ASSUME TypeOK, TypeOK', NEW q \in Procs, CallKnows(q), KeptLaw(at[q]),
         pc'[q] = pc[q], at'[q] = at[q], snap'[q] = snap[q], view'[q] = view[q]
  PROVE  CallKnows(q)'
  <1>0. /\ row[at[q]].ver \in Nat /\ row'[at[q]].ver \in Nat
        /\ snap[q].ver \in Nat /\ snap[q].loaded \in Nat
        /\ delivered[at[q]] \in Nat /\ delivered'[at[q]] \in Nat
    BY DEF TypeOK, Rows, Copies
  <1>1. AcceptanceKnown(q)'  BY DEF CallKnows, AcceptanceKnown, KeptLaw, Positive
  <1>2. CopyKnows(q)'  BY <1>0 DEF CallKnows, CopyKnows, KeptLaw, Positive
  <1>3. CASE row'[at[q]] = row[at[q]]
    BY <1>1, <1>2, <1>3 DEF CallKnows, CopyTrails, FreshKnows, Fresh, Settled, Positive
  <1>4. CASE row'[at[q]].ver > row[at[q]].ver
    <2>1. pc[q] \in CopyPoints => ~Fresh(q)'
      BY <1>0, <1>4 DEF CallKnows, CopyTrails, Fresh
    <2>2. CopyTrails(q)'  BY <1>0, <1>4, <2>1 DEF CallKnows, CopyTrails
    <2>3. FreshKnows(q)'  BY <2>1 DEF FreshKnows
    <2> QED  BY <1>1, <1>2, <2>2, <2>3 DEF CallKnows
  <1> QED  BY <1>3, <1>4 DEF KeptLaw, RowLaw

\* The rule every step of a call is proved by.
LEMMA KnowStep ==
  ASSUME TypeOK, TypeOK', RecordsSound, NEW p \in Procs, Alone(p),
         \A s \in Steps : KeptLaw(s) /\ StepSound(s)', CallKnows(p)'
  PROVE  RecordsSound'
  <1>1. ASSUME NEW q \in Procs \ {p} PROVE CallKnows(q)'
    <2>1. at[q] \in Steps  BY DEF TypeOK
    <2>2. CallKnows(q) /\ KeptLaw(at[q])  BY <2>1 DEF RecordsSound
    <2> QED  BY <2>2, OthersKnow DEF Alone
  <1> QED  BY <1>1 DEF RecordsSound

\* A step that writes no row and completes no record of an unaccepted execution.
LEMMA KnowQuiet ==
  ASSUME TypeOK, TypeOK', RecordsSound, NEW p \in Procs, Alone(p), UNCHANGED row,
         \A s \in Steps : delivered'[s] >= delivered[s],
         \A s \in Steps : key'[s] = "COMPLETED" => key[s] = "COMPLETED" \/ Positive(s),
         CallKnows(p)'
  PROVE  RecordsSound'
  <1>1. ASSUME NEW s \in Steps PROVE KeptLaw(s) /\ StepSound(s)'
    <2>1. delivered[s] \in Nat /\ delivered'[s] \in Nat  BY DEF TypeOK
    <2>2. Positive(s)' <=> Positive(s)  BY DEF Positive
    <2> QED  BY <2>1, <2>2 DEF RecordsSound, StepSound, KeptLaw, RowLaw
  <1> QED  BY <1>1, KnowStep

LEMMA AwayKnows ==
  ASSUME NEW p \in Procs, pc'[p] \notin CopyPoints \cup {"saveDraft"}, AcceptanceKnown(p)'
  PROVE  CallKnows(p)'
  BY DEF CallKnows, CopyTrails, CopyKnows, FreshKnows, CopyPoints, UnacceptedPoints,
     SendingPoints, GatePoints

\* Every save keeps acceptances, and records only what was delivered.
LEMMA SaveKept ==
  ASSUME TypeOK, TypeOK', RecordsSound, NEW p \in Procs, pc[p] \in SavePoints, SaveExecution(p),
         UNCHANGED <<key, delivered>>
  PROVE  /\ \A s \in Steps : KeptLaw(s) /\ StepSound(s)'
         /\ Current(p) <=> Fresh(p)
         /\ Current(p) => row'[at[p]] = Stored(snap[p])
         /\ \A s \in Steps : s # at[p] => row'[s] = row[s]
         /\ ~Current(p) => row' = row
  <1>0. at[p] \in Steps /\ row[at[p]] \in Rows /\ snap[p] \in Copies /\ CallKnows(p)
    BY DEF TypeOK, RecordsSound
  <1>1. pc[p] \in CopyPoints  BY DEF SavePoints, CopyPoints
  <1>2. Current(p) <=> Fresh(p)  BY DEF Current, CanCommit, Fresh
  <1>3. \A s \in Steps : s # at[p] => row'[s] = row[s]
    BY DEF SaveExecution, TypeOK
  <1>4. ~Current(p) => row' = row  BY DEF SaveExecution
  <1>5. Current(p) => row'[at[p]] = Stored(snap[p]) /\ row'[at[p]].st = snap[p].st
    BY <1>0 DEF SaveExecution, TypeOK, Stored
  <1>6. {"DELIVERED", "FAILED"} \subseteq SettledStatuses /\ PositiveStatuses \subseteq SettledStatuses
        /\ "FAILED" \notin PositiveStatuses /\ Reconcilable \cap PositiveStatuses = {}
    BY SettledAfterMark DEF SettledStatuses, PositiveStatuses, Reconcilable
  <1>7. pc[p] \in SendingPoints => pc[p] # "reconcileSave" /\ pc[p] # "respondSave"
    BY DEF SendingPoints, GatePoints
  <1>8. Current(p) /\ Settled(at[p]) => snap[p].st \in SettledStatuses
    BY <1>0, <1>1, <1>2, <1>6 DEF CallKnows, FreshKnows, CopyKnows, CopyTrails, SavePoints, Settled, Positive
  <1>9. Current(p) /\ Positive(at[p]) => snap[p].st \in PositiveStatuses
    BY <1>0, <1>1, <1>2, <1>6 DEF CallKnows, FreshKnows, SavePoints, Settled, Positive
  <1>10. Current(p) /\ snap[p].st \in PositiveStatuses => delivered[at[p]] > 0
    BY <1>0, <1>1, <1>2, <1>6, <1>7 DEF CallKnows, CopyKnows, SavePoints, UnacceptedPoints
  <1>11. \A s \in Steps : RowLaw(s)
    BY <1>0, <1>1, <1>8, SaveLaw DEF CallKnows
  <1>12. ASSUME NEW s \in Steps PROVE KeptLaw(s) /\ StepSound(s)'
    <2>1. delivered[s] \in Nat  BY DEF TypeOK
    <2>2. StepSound(s)  BY DEF RecordsSound
    <2>3. CASE row'[s] = row[s]
      BY <1>11, <2>1, <2>2, <2>3 DEF KeptLaw, StepSound, Positive
    <2>4. CASE s = at[p] /\ Current(p)
      <3>1. Positive(s) => Positive(s)'  BY <1>5, <1>9, <2>4 DEF Positive
      <3>2. Positive(s)' => delivered[s] > 0  BY <1>5, <1>10, <2>4 DEF Positive
      <3> QED  BY <1>11, <2>1, <2>2, <3>1, <3>2 DEF KeptLaw, StepSound
    <2> QED  BY <1>3, <1>4, <2>3, <2>4
  <1> QED  BY <1>2, <1>3, <1>4, <1>5, <1>12

LEMMA KnowSave ==
  ASSUME TypeOK, TypeOK', RecordsSound, NEW p \in Procs, Alone(p), pc[p] \in SavePoints,
         SaveExecution(p), UNCHANGED <<key, delivered>>, CallKnows(p)'
  PROVE  RecordsSound'
  BY SaveKept, KnowStep

-----------------------------------------------------------------------------
(* RecordsSound is kept: the steps that start a call.                        *)

LEMMA KnowStart ==
  ASSUME TypeOK, TypeOK', RecordsSound, NEW p \in Procs, Start(p)
  PROVE  RecordsSound'
  <1>0. Locals /\ Alone(p)  BY LocalsType, CallAlone
  <1>a. UNCHANGED <<row, key, delivered>>
    BY DEF Start, LoadExecution, ReconcileLoad, RespondLoad, ExpireLoad, PrepareLoad, LinkLoad,
       Load, db
  <1>b. SUFFICES CallKnows(p)'
    <2>1. \A s \in Steps : delivered'[s] >= delivered[s]  BY <1>a DEF TypeOK
    <2> QED  BY <1>0, <1>a, <2>1, KnowQuiet
  <1>c. \A s \in Steps : row[s] \in Rows /\ Reconstitute(row[s]) \in Copies
                         /\ Reconstitute(row[s]).st = row[s].st
                         /\ Reconstitute(row[s]).ver = row[s].ver
                         /\ Reconstitute(row[s]).loaded = row[s].ver
    BY RowCopyType DEF TypeOK, Reconstitute
  <1>d. ASSUME NEW s \in Steps, NEW copy \in Copies, NEW l,
               at' = [at EXCEPT ![p] = s], snap' = [snap EXCEPT ![p] = copy], Goto(p, l),
               Moves(Reconstitute(row[s]), copy)
        PROVE  /\ at'[p] = s /\ snap'[p] = copy /\ pc'[p] = l /\ CopyTrails(p)'
               /\ row'[at'[p]] = row[s] /\ (Positive(at[p])' <=> Positive(s))
    <2>1. at'[p] = s /\ snap'[p] = copy /\ pc'[p] = l  BY <1>0, <1>d DEF Locals, Goto
    <2>2. CopyTrails(p)'  BY <1>a, <1>d, <2>1, CopyLoaded
    <2> QED  BY <1>a, <2>1, <2>2 DEF Positive
  <1>1. ASSUME NEW s \in Steps, LoadExecution(p, s) PROVE CallKnows(p)'
    <2>1. Moves(Reconstitute(row[s]), Reconstitute(row[s]))  BY <1>c DEF Moves, Copies
    <2>2. /\ at'[p] = s /\ snap'[p] = Reconstitute(row[s]) /\ pc'[p] = "loadSequence"
          /\ CopyTrails(p)' /\ (Positive(at[p])' <=> Positive(s))
      BY <1>1, <1>c, <1>d, <2>1 DEF LoadExecution
    <2>3. CopyKnows(p)' /\ FreshKnows(p)' /\ AcceptanceKnown(p)'
      BY <1>c, <2>2 DEF CopyKnows, FreshKnows, AcceptanceKnown, UnacceptedPoints, SendingPoints,
         GatePoints, AcceptedPoints, Positive
    <2> QED  BY <2>2, <2>3 DEF CallKnows
  <1>2. ASSUME NEW s \in Steps, ReconcileLoad(p, s) PROVE CallKnows(p)'
    <2> DEFINE to == IF delivered[s] > 0 THEN "DELIVERED" ELSE "FAILED"
               copy == MarkReconciled(Reconstitute(row[s]), to)
    <2>1. to \in Statuses  BY DEF Statuses
    <2>2. copy \in Copies /\ copy.st = to /\ copy.ver = row[s].ver + 1 /\ copy.loaded = row[s].ver
      BY <1>c, <2>1, ReconciledType, ReconciledCopy
    <2>3. Moves(Reconstitute(row[s]), copy)  BY <1>c, <2>2 DEF Moves, Rows
    <2>4. /\ at' = [at EXCEPT ![p] = s] /\ snap' = [snap EXCEPT ![p] = copy]
          /\ Goto(p, "reconcileSave") /\ row[s].st \in Reconcilable
      BY <1>2 DEF ReconcileLoad, Load
    <2>5. to = "DELIVERED" => delivered'[s] > 0  BY <1>a
    <2>6. to \in {"DELIVERED", "FAILED"}  OBVIOUS
    <2> HIDE DEF copy, to
    <2>7. /\ at'[p] = s /\ snap'[p] = copy /\ pc'[p] = "reconcileSave"
          /\ CopyTrails(p)' /\ row'[at'[p]] = row[s]
      BY <1>d, <2>2, <2>3, <2>4
    <2>8. CopyKnows(p)'
      <3>1. copy.ver > copy.loaded  BY <1>c, <2>2 DEF Rows
      <3> QED  BY <2>2, <2>5, <2>6, <2>7, <3>1
               DEF CopyKnows, UnacceptedPoints, SendingPoints, GatePoints
    <2>9. FreshKnows(p)' /\ AcceptanceKnown(p)'
      BY <2>4, <2>7 DEF FreshKnows, AcceptanceKnown, SendingPoints, GatePoints, AcceptedPoints
    <2> QED  BY <2>7, <2>8, <2>9 DEF CallKnows
  <1>3. ASSUME NEW s \in Steps, RespondLoad(p, s) PROVE CallKnows(p)'
    <2>1. PICK kind \in {"OPENED", "REPLIED"} :
            Load(p, "respond", s, RecordResponse(Reconstitute(row[s]), kind), "respondSave")
      BY <1>3 DEF RespondLoad
    <2> DEFINE copy == RecordResponse(Reconstitute(row[s]), kind)
    <2>2. copy \in Copies /\ Moves(Reconstitute(row[s]), copy)
      BY <1>c, ResponseType, ResponseMoves
    <2>3. IF Positive(s) THEN copy.st \in PositiveStatuses ELSE copy.ver = copy.loaded
      BY <1>c, ResponseStatus DEF Positive
    <2>4. /\ at' = [at EXCEPT ![p] = s] /\ snap' = [snap EXCEPT ![p] = copy]
          /\ Goto(p, "respondSave") /\ delivered'[s] > 0
      BY <1>3, <1>a, <2>1 DEF Load, RespondLoad
    <2> HIDE DEF copy
    <2>5. /\ at'[p] = s /\ snap'[p] = copy /\ pc'[p] = "respondSave"
          /\ CopyTrails(p)' /\ (Positive(at[p])' <=> Positive(s))
      BY <1>d, <2>2, <2>4
    <2>6. CopyKnows(p)' /\ FreshKnows(p)' /\ AcceptanceKnown(p)'
      BY <2>3, <2>4, <2>5 DEF CopyKnows, FreshKnows, AcceptanceKnown, UnacceptedPoints,
         SendingPoints, GatePoints, AcceptedPoints
    <2> QED  BY <2>5, <2>6 DEF CallKnows
  <1>4. ASSUME NEW s \in Steps, ExpireLoad(p, s) PROVE CallKnows(p)'
    <2> DEFINE copy == MarkNonRetryable(Reconstitute(row[s]))
    <2>1. copy \in Copies /\ Moves(Reconstitute(row[s]), copy)
      BY <1>c, TransitionType, TransitionMoves DEF MarkNonRetryable
    <2>2. row[s].st = "PENDING_APPROVAL"  BY <1>4 DEF ExpireLoad
    <2>3. copy.st = "FAILED"
      BY <1>c, <2>2, TransitionStatus DEF MarkNonRetryable, PreSubmission, Transitions, PositiveStatuses
    <2>4. /\ at' = [at EXCEPT ![p] = s] /\ snap' = [snap EXCEPT ![p] = copy]
          /\ Goto(p, "expireSave")
      BY <1>4 DEF ExpireLoad, Load
    <2> HIDE DEF copy
    <2>5. /\ at'[p] = s /\ snap'[p] = copy /\ pc'[p] = "expireSave"
          /\ CopyTrails(p)' /\ row'[at'[p]] = row[s]
      BY <1>d, <2>1, <2>4
    <2>6. ~Settled(at[p])'
      BY <2>2, <2>5 DEF Settled, SettledStatuses, PositiveStatuses, FailureStatuses
    <2>7. CopyKnows(p)' /\ FreshKnows(p)' /\ AcceptanceKnown(p)'
      BY <2>3, <2>5, <2>6 DEF CopyKnows, FreshKnows, AcceptanceKnown, UnacceptedPoints,
         SendingPoints, GatePoints, AcceptedPoints, PositiveStatuses
    <2> QED  BY <2>5, <2>7 DEF CallKnows
  <1>5. CASE PrepareLoad(p) \/ LinkLoad(p)
    <2>1. pc'[p] \in {"findDraft", "linkSave"}
      BY <1>0, <1>5 DEF PrepareLoad, LinkLoad, Goto, Locals
    <2> QED  BY <2>1, AwayKnows DEF AcceptanceKnown, AcceptedPoints, CopyPoints, SendingPoints, GatePoints
  <1> QED  BY <1>1, <1>2, <1>3, <1>4, <1>5 DEF Start

LEMMA KnowLoads ==
  ASSUME TypeOK, TypeOK', RecordsSound, NEW p \in Procs, LoadSequence(p) \/ LoadCampaign(p)
  PROVE  RecordsSound'
  <1>0. Locals /\ Alone(p) /\ CallKnows(p) /\ snap[p] \in Copies
    BY LocalsType, CallAlone DEF SendStep, RecordsSound, TypeOK
  <1>a. UNCHANGED <<row, key, delivered, at>>  BY DEF LoadSequence, LoadCampaign, db
  <1>b. SUFFICES CallKnows(p)'
    <2>1. \A s \in Steps : delivered'[s] >= delivered[s]  BY <1>a DEF TypeOK
    <2> QED  BY <1>0, <1>a, <2>1, KnowQuiet
  <1>1. CASE LoadSequence(p)
    <2>1. pc'[p] = "loadCampaign" /\ pc[p] = "loadSequence" /\ snap' = snap
      BY <1>0, <1>1 DEF LoadSequence, Goto, Locals
    <2> QED  BY <1>0, <1>a, <2>1 DEF CallKnows, CopyTrails, CopyKnows, FreshKnows, AcceptanceKnown,
             Fresh, Positive, CopyPoints, UnacceptedPoints, SendingPoints, GatePoints, AcceptedPoints
  <1>2. CASE LoadCampaign(p)
    <2>0. pc[p] = "loadCampaign"  BY <1>2 DEF LoadCampaign
    <2>1. CASE /\ BeginSending(snap[p]).st = "SENDING"
               /\ snap' = [snap EXCEPT ![p] = BeginSending(snap[p])]
               /\ Goto(p, "allowlist")
      <3>1. pc'[p] = "allowlist" /\ snap'[p] = BeginSending(snap[p])
        BY <1>0, <2>1 DEF Goto, Locals
      <3>2. Moves(snap[p], snap'[p]) /\ snap[p].st \notin SettledStatuses
        BY <1>0, <2>1, <3>1, BeginSendingMoves
      <3>3. pc[p] \in CopyPoints  BY <2>0 DEF CopyPoints
      <3>4. CopyTrails(p)'  BY <1>0, <1>a, <3>2, <3>3, CopyMoved DEF CallKnows
      <3>5. Fresh(p) => ~Settled(at[p])
        BY <1>0, <2>0, <3>2, <3>3 DEF CallKnows, CopyTrails, CopyKnows, Settled
      <3>6. Fresh(p)' => ~Settled(at[p])'
        BY <1>a, <3>2, <3>5 DEF Fresh, Moves, Settled
      <3>7. CopyKnows(p)' /\ FreshKnows(p)' /\ AcceptanceKnown(p)'
        BY <2>1, <3>1, <3>6 DEF CopyKnows, FreshKnows, AcceptanceKnown, UnacceptedPoints,
           SendingPoints, GatePoints, AcceptedPoints, PositiveStatuses
      <3> QED  BY <3>4, <3>7 DEF CallKnows
    <2>2. CASE \E result \in {"completed", "failed"} :
                 Finish(p, result) /\ (result = "completed" => snap[p].st \in PositiveStatuses)
      <3>1. PICK result \in {"completed", "failed"} :
                 Finish(p, result) /\ (result = "completed" => snap[p].st \in PositiveStatuses)
        BY <2>2
      <3>2. pc'[p] = result  BY <1>0, <1>a, <3>1, FinishAlone
      <3>3. result = "completed" => Positive(at[p])'
        BY <1>0, <1>a, <2>0, <3>1 DEF CallKnows, CopyKnows, Positive
      <3> QED  BY <3>2, <3>3, AwayKnows DEF AcceptanceKnown, AcceptedPoints, CopyPoints, SendingPoints, GatePoints
    <2> QED  BY <1>2, <2>1, <2>2 DEF LoadCampaign, ResultOf
  <1> QED  BY <1>1, <1>2

-----------------------------------------------------------------------------
(* The gate and the submission.                                              *)

\* What Deny leaves is a copy of a refused send.
LEMMA KnowDeny ==
  ASSUME TypeOK, TypeOK', NEW p \in Procs, CallKnows(p), Deny(p), UNCHANGED <<row, at>>,
         pc[p] \in GatePoints \cup {"providerSend"}
  PROVE  CallKnows(p)'
  <1>0. Locals /\ snap[p] \in Copies  BY LocalsType DEF TypeOK
  <1>1. pc'[p] = "saveDenied" /\ snap'[p] = MarkNonRetryable(snap[p])
    BY <1>0 DEF Deny, Goto, Locals
  <1>2. snap[p].st = "SENDING" /\ pc[p] \in CopyPoints /\ pc[p] \in SendingPoints
    BY DEF CallKnows, CopyKnows, CopyPoints, SendingPoints
  <1>3. Moves(snap[p], snap'[p]) /\ snap'[p].st = "FAILED_PRE_SUBMISSION"
    BY <1>0, <1>1, <1>2, SendingMoves, SendingStatus
  <1>4. CopyTrails(p)'  BY <1>2, <1>3, CopyMoved DEF CallKnows
  <1>5. Fresh(p)' => ~Settled(at[p])'
    BY <1>2, <1>3 DEF CallKnows, FreshKnows, Fresh, Moves, Settled
  <1>6. CopyKnows(p)' /\ FreshKnows(p)' /\ AcceptanceKnown(p)'
    BY <1>1, <1>3, <1>5 DEF CopyKnows, FreshKnows, AcceptanceKnown, UnacceptedPoints,
       SendingPoints, GatePoints, AcceptedPoints, PositiveStatuses
  <1> QED  BY <1>4, <1>6 DEF CallKnows

\* The copy is carried on as it is, to a point where it says the same.
LEMMA KnowPass ==
  ASSUME TypeOK, NEW p \in Procs, CallKnows(p), pc[p] \in GatePoints \cup {"providerSend"},
         pc'[p] \in GatePoints \cup {"saveRetry"}, UNCHANGED <<row, at>>, snap'[p] = snap[p]
  PROVE  CallKnows(p)'
  BY DEF CallKnows, CopyTrails, CopyKnows, FreshKnows, AcceptanceKnown, Fresh, Settled, Positive,
     CopyPoints, UnacceptedPoints, SendingPoints, GatePoints, AcceptedPoints

LEMMA KnowGates ==
  ASSUME TypeOK, TypeOK', RecordsSound, NEW p \in Procs,
         \/ GateAllowlist(p) \/ GateSuppression(p) \/ GateApproval(p)
         \/ GateRateLimit(p) \/ GateClaim(p) \/ SelectProvider(p)
  PROVE  RecordsSound'
  <1>0. Locals /\ Alone(p) /\ CallKnows(p) /\ snap[p] \in Copies
    BY LocalsType, CallAlone DEF SendStep, RecordsSound, TypeOK
  <1>a. UNCHANGED <<row, delivered, at>> /\ pc[p] \in GatePoints
    BY DEF GateAllowlist, GateSuppression, GateApproval, GateRateLimit, GateClaim, SelectProvider,
       Gate, db, GatePoints
  <1>b. \A s \in Steps : key'[s] = "COMPLETED" => key[s] = "COMPLETED"
    <2>1. key' = key \/ key' = [key EXCEPT ![at[p]] = Claim(key[at[p]])]
      BY DEF GateAllowlist, GateSuppression, GateApproval, GateRateLimit, GateClaim,
         SelectProvider, Gate, db
    <2>2. at[p] \in Steps /\ \A k : Claim(k) = "COMPLETED" => k = "COMPLETED"
      BY DEF TypeOK, Claim
    <2> QED  BY <2>1, <2>2 DEF TypeOK
  <1>c. SUFFICES CallKnows(p)'
    <2>1. \A s \in Steps : delivered'[s] >= delivered[s]  BY <1>a DEF TypeOK
    <2> QED  BY <1>0, <1>a, <1>b, <2>1, KnowQuiet
  <1>1. CASE Deny(p)  BY <1>0, <1>1, <1>a, KnowDeny
  <1>2. CASE \E l \in GatePoints \cup {"saveRetry"} : Goto(p, l) /\ snap'[p] = snap[p]
    <2>1. pc'[p] \in GatePoints \cup {"saveRetry"} /\ snap'[p] = snap[p]
      BY <1>0, <1>2 DEF Goto, Locals
    <2> QED  BY <1>0, <1>a, <2>1, KnowPass
  <1>3. CASE Goto(p, "dupGet")
    <2>1. pc'[p] = "dupGet"  BY <1>0, <1>3 DEF Goto, Locals
    <2> QED  BY <2>1, AwayKnows DEF AcceptanceKnown, AcceptedPoints, CopyPoints, SendingPoints, GatePoints
  <1>4. snap[p].st = "SENDING" /\ MarkRetryable(snap[p]) = snap[p]
    BY <1>0, <1>a, SendingMoves DEF CallKnows, CopyKnows
  <1>5. CASE GateAllowlist(p) \/ GateSuppression(p) \/ GateApproval(p)
    BY <1>1, <1>2, <1>5 DEF GateAllowlist, GateSuppression, GateApproval, Gate, GatePoints
  <1>6. CASE GateRateLimit(p)
    BY <1>0, <1>2, <1>4, <1>6 DEF GateRateLimit, GatePoints, Locals
  <1>7. CASE GateClaim(p)
    BY <1>1, <1>2, <1>3, <1>7 DEF GateClaim, GatePoints
  <1>8. CASE SelectProvider(p)
    BY <1>1, <1>2, <1>8 DEF SelectProvider, GatePoints
  <1> QED  BY <1>5, <1>6, <1>7, <1>8

LEMMA KnowSubmission ==
  ASSUME TypeOK, TypeOK', RecordsSound, NEW p \in Procs, ProviderSend(p)
  PROVE  RecordsSound'
  <1>0. Locals /\ Alone(p) /\ CallKnows(p) /\ snap[p] \in Copies
    BY LocalsType, CallAlone DEF SendStep, RecordsSound, TypeOK
  <1>a. UNCHANGED <<row, key, at>> /\ pc[p] = "providerSend" /\ at[p] \in Steps
    BY DEF ProviderSend, db, TypeOK
  <1>b. \A s \in Steps : delivered'[s] >= delivered[s]  BY <1>a DEF ProviderSend, TypeOK
  <1>c. SUFFICES CallKnows(p)'  BY <1>0, <1>a, <1>b, KnowQuiet
  <1>d. snap[p].st = "SENDING" /\ pc[p] \in CopyPoints /\ pc[p] \in SendingPoints
    BY <1>0, <1>a DEF CallKnows, CopyKnows, CopyPoints, SendingPoints
  <1>1. CASE Deny(p)  BY <1>0, <1>1, <1>a, KnowDeny
  <1>2. CASE snap' = [snap EXCEPT ![p] = MarkRetryable(snap[p])] /\ Goto(p, "saveRetry")
    <2>1. pc'[p] = "saveRetry" /\ snap'[p] = snap[p]
      BY <1>0, <1>2, <1>d, SendingMoves DEF Goto, Locals
    <2> QED  BY <1>0, <1>a, <2>1, KnowPass
  <1>3. CASE \/ /\ snap' = [snap EXCEPT ![p] = MarkAccepted(snap[p])] /\ Goto(p, "saveAccepted")
                /\ delivered'[at[p]] > 0
             \/ /\ snap' = [snap EXCEPT ![p] = MarkDeliveryUnknown(snap[p])] /\ Goto(p, "saveUnknown")
    <2>1. \/ pc'[p] = "saveAccepted" /\ snap'[p] = MarkAccepted(snap[p]) /\ delivered'[at[p]] > 0
          \/ pc'[p] = "saveUnknown" /\ snap'[p] = MarkDeliveryUnknown(snap[p])
      BY <1>0, <1>3 DEF Goto, Locals
    <2>2. Moves(snap[p], snap'[p])  BY <1>0, <1>d, <2>1, SendingMoves
    <2>3. CopyTrails(p)'  BY <1>0, <1>a, <1>d, <2>2, CopyMoved DEF CallKnows
    <2>4. Fresh(p)' => ~Settled(at[p])'
      BY <1>0, <1>a, <1>d, <2>2 DEF CallKnows, FreshKnows, Fresh, Moves, Settled
    <2>5. CopyKnows(p)' /\ FreshKnows(p)' /\ AcceptanceKnown(p)'
      <3>1. CASE pc'[p] = "saveAccepted" /\ snap'[p].st = "DELIVERY_PENDING" /\ delivered'[at[p]] > 0
        BY <1>a, <2>4, <3>1 DEF CopyKnows, FreshKnows, AcceptanceKnown, UnacceptedPoints,
           SendingPoints, GatePoints, AcceptedPoints, PositiveStatuses
      <3>2. CASE pc'[p] = "saveUnknown" /\ snap'[p].st = "DELIVERY_UNKNOWN"
        BY <2>4, <3>2 DEF CopyKnows, FreshKnows, AcceptanceKnown, UnacceptedPoints,
           SendingPoints, GatePoints, AcceptedPoints, PositiveStatuses
      <3> QED  BY <1>0, <1>d, <2>1, <3>1, <3>2, SendingStatus
    <2> QED  BY <2>3, <2>5 DEF CallKnows
  <1>4. delivered' = [delivered EXCEPT ![at[p]] = delivered[at[p]] + 1] => delivered'[at[p]] > 0
    BY <1>a DEF TypeOK
  <1> QED  BY <1>1, <1>2, <1>3, <1>4 DEF ProviderSend

-----------------------------------------------------------------------------
(* What follows the submission.                                              *)

LEMMA KnowProgress ==
  ASSUME TypeOK, TypeOK', RecordsSound, NEW p \in Procs,
         \/ RecipientUnavailable(p) \/ SaveCampaign(p) \/ MarkCompleted(p)
         \/ ReloadCampaign(p) \/ SaveSequence(p) \/ SaveCompletion(p)
         \/ ReleaseDenied(p) \/ ReleaseRetry(p)
         \/ DupGet(p) \/ ReconcileKey(p) \/ LinkSave(p) \/ Crash(p)
  PROVE  RecordsSound'
  <1>0. Locals /\ Alone(p) /\ CallKnows(p) /\ at[p] \in Steps
    BY LocalsType, CallAlone DEF SendStep, OtherStep, RecordsSound, TypeOK
  <1>a. UNCHANGED <<row, delivered, at>>
    BY DEF RecipientUnavailable, SaveCampaign, SaveCampaignThen, MarkCompleted, ReloadCampaign,
       SaveSequence, SaveCompletion, ReleaseDenied, ReleaseRetry, MarkIdempotencyFailed, DupGet,
       ReconcileKey, LinkSave, Crash, db
  <1>b. \A s \in Steps : key'[s] = "COMPLETED" => key[s] = "COMPLETED" \/ Positive(s)
    <2>1. \/ key' = key
          \/ \E k : key' = [key EXCEPT ![at[p]] = k] /\ (k = "COMPLETED" => Positive(at[p]))
      BY <1>0
      DEF RecipientUnavailable, SaveCampaign, SaveCampaignThen, MarkCompleted, ReloadCampaign,
       SaveSequence, SaveCompletion, ReleaseDenied, ReleaseRetry, MarkIdempotencyFailed, DupGet,
       ReconcileKey, LinkSave, Crash, db, CallKnows, AcceptanceKnown, AcceptedPoints
    <2> QED  BY <1>0, <2>1 DEF TypeOK
  <1>c. SUFFICES pc'[p] \notin CopyPoints \cup {"saveDraft"} /\ AcceptanceKnown(p)'
    <2>1. \A s \in Steps : delivered'[s] >= delivered[s]  BY <1>a DEF TypeOK
    <2> QED  BY <1>0, <1>a, <1>b, <1>c, <2>1, KnowQuiet, AwayKnows
  <1>d. Positive(at[p])' <=> Positive(at[p])  BY <1>a DEF Positive
  <1>1. CASE pc'[p] \in {"failed", "retryable", "ok", "threw", "crashed", "dupGet"}
    BY <1>1 DEF AcceptanceKnown, AcceptedPoints, CopyPoints, SendingPoints, GatePoints
  <1>2. CASE pc[p] \in AcceptedPoints /\ pc'[p] \in AcceptedPoints
    BY <1>0, <1>2, <1>d
    DEF CallKnows, AcceptanceKnown, AcceptedPoints, CopyPoints, SendingPoints, GatePoints
  <1>3. CASE DupGet(p)
    <2>1. pc'[p] = "dupLoad" /\ view'[p] = key[at[p]]  BY <1>0, <1>3 DEF DupGet, Goto, Locals
    <2>2. key[at[p]] = "COMPLETED" => Positive(at[p])  BY <1>0 DEF RecordsSound, StepSound
    <2> QED  BY <1>d, <2>1, <2>2
             DEF AcceptanceKnown, AcceptedPoints, CopyPoints, SendingPoints, GatePoints
  <1>4. CASE RecipientUnavailable(p)
    BY <1>0, <1>1, <1>4, <1>a, FinishAlone DEF RecipientUnavailable
  <1>5. CASE SaveCampaign(p) \/ MarkCompleted(p) \/ ReloadCampaign(p)
    BY <1>0, <1>1, <1>2, <1>5, <1>a, FinishAlone
    DEF SaveCampaign, SaveCampaignThen, MarkCompleted, ReloadCampaign, Goto, Locals, AcceptedPoints
  <1>6. CASE SaveSequence(p) \/ SaveCompletion(p)
    BY <1>0, <1>1, <1>2, <1>6, <1>a, FinishAlone
    DEF SaveSequence, SaveCompletion, Goto, Locals, AcceptedPoints
  <1>7. CASE ReleaseDenied(p) \/ ReleaseRetry(p)
    BY <1>0, <1>1, <1>7, <1>a, FinishAlone DEF ReleaseDenied, ReleaseRetry, MarkIdempotencyFailed
  <1>8. CASE ReconcileKey(p) \/ LinkSave(p) \/ Crash(p)
    BY <1>0, <1>1, <1>8, <1>a, FinishAlone DEF ReconcileKey, LinkSave, Crash
  <1> QED  BY <1>3, <1>4, <1>5, <1>6, <1>7, <1>8

LEMMA KnowSaves ==
  ASSUME TypeOK, TypeOK', RecordsSound, NEW p \in Procs,
         \/ SaveAttempt(p) \/ SaveAccepted(p) \/ SaveDenied(p) \/ SaveRetry(p)
         \/ SaveUnknown(p) \/ DupSave(p) \/ ReconcileSave(p) \/ RespondSave(p) \/ ExpireSave(p)
  PROVE  RecordsSound'
  <1>0. Locals /\ Alone(p) /\ CallKnows(p) /\ at[p] \in Steps /\ snap[p] \in Copies
    BY LocalsType, CallAlone DEF SendStep, OtherStep, RecordsSound, TypeOK
  <1>a. /\ pc[p] \in SavePoints /\ SaveExecution(p) /\ UNCHANGED <<key, delivered, at>>
    BY DEF SaveAttempt, SaveAccepted, SaveDenied, SaveRetry, SaveThen, SaveUnknown, DupSave,
       ReconcileSave, RespondSave, ExpireSave, SaveOrThrow, SavePoints, SendingPoints, GatePoints
  <1>b. SUFFICES CallKnows(p)'  BY <1>0, <1>a, KnowSave
  <1>c. /\ Current(p) <=> Fresh(p)
        /\ Current(p) => row'[at[p]] = Stored(snap[p])
    BY <1>a, SaveKept
  <1>1. CASE pc'[p] \in {"failed", "ok", "threw", "dupGet", "releaseDenied", "releaseRetry"}
    BY <1>1, AwayKnows DEF AcceptanceKnown, AcceptedPoints, CopyPoints, SendingPoints, GatePoints
  <1>2. CASE SaveAttempt(p)
    <2>1. CASE Current(p)
      <3>1. pc'[p] = "providerSend" /\ snap'[p] = [snap[p] EXCEPT !.loaded = snap[p].ver]
        BY <1>0, <1>2, <2>1 DEF SaveAttempt, SaveThen, Goto, Locals, TypeOK
      <3>2. /\ snap'[p].st = snap[p].st /\ snap'[p].ver = snap[p].ver
            /\ snap'[p].loaded = snap[p].ver /\ snap[p].ver \in Nat
        BY <1>0, <3>1 DEF Copies
      <3>3. row'[at'[p]].st = snap[p].st /\ row'[at'[p]].ver = snap[p].ver
        BY <1>a, <1>c, <2>1 DEF Stored
      <3>4. snap[p].st = "SENDING"
        BY <1>0, <1>2 DEF SaveAttempt, CallKnows, CopyKnows, GatePoints
      <3>5. CopyTrails(p)'  BY <3>2, <3>3 DEF CopyTrails
      <3>6. ~Settled(at[p])'
        BY <3>3, <3>4 DEF Settled, SettledStatuses, PositiveStatuses, FailureStatuses
      <3>7. CopyKnows(p)' /\ FreshKnows(p)' /\ AcceptanceKnown(p)'
        BY <3>1, <3>2, <3>4, <3>6 DEF CopyKnows, FreshKnows, AcceptanceKnown, UnacceptedPoints,
           SendingPoints, GatePoints, AcceptedPoints, PositiveStatuses
      <3> QED  BY <3>5, <3>7 DEF CallKnows
    <2>2. CASE ~Current(p)  BY <1>0, <1>1, <1>2, <2>2 DEF SaveAttempt, SaveThen, Goto, Locals
    <2> QED  BY <2>1, <2>2
  <1>3. CASE SaveAccepted(p)
    <2>1. CASE Current(p)
      <3>1. pc'[p] = "saveCampaign"
        BY <1>0, <1>3, <2>1 DEF SaveAccepted, SaveThen, Goto, Locals
      <3>2. snap[p].st \in PositiveStatuses
        BY <1>0, <1>3 DEF SaveAccepted, CallKnows, CopyKnows
      <3>3. Positive(at[p])'  BY <1>a, <1>c, <2>1, <3>2 DEF Positive, Stored
      <3> QED  BY <3>1, <3>3, AwayKnows
               DEF AcceptanceKnown, AcceptedPoints, CopyPoints, SendingPoints, GatePoints
    <2>2. CASE ~Current(p)  BY <1>0, <1>1, <1>3, <2>2 DEF SaveAccepted, SaveThen, Goto, Locals
    <2> QED  BY <2>1, <2>2
  <1>4. CASE SaveDenied(p) \/ SaveRetry(p)
    BY <1>0, <1>1, <1>4 DEF SaveDenied, SaveRetry, SaveThen, Goto, Locals
  <1>5. CASE SaveUnknown(p)
    BY <1>0, <1>1, <1>5, FinishAlone DEF SaveUnknown, Goto, Locals
  <1>6. CASE DupSave(p)
    <2>1. ResultOf(snap[p].st) = "failed"
      BY <1>0, <1>6 DEF DupSave, ResultOf, CallKnows, CopyKnows, UnacceptedPoints, SendingPoints
    <2> QED  BY <1>0, <1>1, <1>6, <2>1, FinishAlone DEF DupSave
  <1>7. CASE ReconcileSave(p)
    <2>1. CASE Current(p)
      <3>1. pc'[p] = "reconcileKey" /\ snap' = snap
        BY <1>0, <1>7, <2>1 DEF ReconcileSave, Goto, Locals
      <3>2. snap[p].st = "DELIVERED" => Positive(at[p])'
        BY <1>a, <1>c, <2>1 DEF Positive, Stored, PositiveStatuses
      <3> QED  BY <3>1, <3>2, AwayKnows
               DEF AcceptanceKnown, AcceptedPoints, CopyPoints, SendingPoints, GatePoints
    <2>2. CASE ~Current(p)  BY <1>0, <1>1, <1>7, <2>2, FinishAlone DEF ReconcileSave
    <2> QED  BY <2>1, <2>2
  <1>8. CASE RespondSave(p) \/ ExpireSave(p)
    BY <1>0, <1>1, <1>8, FinishAlone DEF RespondSave, ExpireSave, SaveOrThrow
  <1> QED  BY <1>2, <1>3, <1>4, <1>5, <1>6, <1>7, <1>8

LEMMA KnowDuplicate ==
  ASSUME TypeOK, TypeOK', RecordsSound, NEW p \in Procs, DupLoad(p)
  PROVE  RecordsSound'
  <1> DEFINE e == Reconstitute(row[at[p]])
             c == Resolved(e, view[p])
  <1>0. Locals /\ Alone(p) /\ CallKnows(p) /\ at[p] \in Steps /\ row[at[p]] \in Rows
    BY LocalsType, CallAlone DEF SendStep, RecordsSound, TypeOK
  <1>a. UNCHANGED <<row, key, delivered, at>> /\ pc[p] = "dupLoad"  BY DEF DupLoad, db
  <1>b. SUFFICES CallKnows(p)'
    <2>1. \A s \in Steps : delivered'[s] >= delivered[s]  BY <1>a DEF TypeOK
    <2> QED  BY <1>0, <1>a, <2>1, KnowQuiet
  <1>c. e \in Copies /\ e.st = row[at[p]].st  BY <1>0, RowCopyType DEF Reconstitute
  <1>1. CASE Finish(p, ResultOf(e.st))
    <2>1. pc'[p] = ResultOf(e.st)  BY <1>0, <1>1, <1>a, FinishAlone
    <2>2. pc'[p] = "completed" => Positive(at[p])'
      BY <1>a, <1>c, <2>1 DEF ResultOf, Positive
    <2>3. pc'[p] \in {"completed", "failed"}  BY <2>1 DEF ResultOf
    <2> QED  BY <2>2, <2>3, AwayKnows
             DEF AcceptanceKnown, AcceptedPoints, CopyPoints, SendingPoints, GatePoints
  <1>2. CASE e.st \notin SettledStatuses /\ snap' = [snap EXCEPT ![p] = c] /\ Goto(p, "dupSave")
    <2>1. pc'[p] = "dupSave" /\ snap'[p] = c  BY <1>0, <1>2 DEF Goto, Locals
    <2>2. view[p] # "COMPLETED"
      BY <1>0, <1>2, <1>a, <1>c DEF CallKnows, AcceptanceKnown, Positive, SettledStatuses
    <2>3. c = MarkRequiresReconciliation(e)  BY <2>2 DEF Resolved
    <2>4. CopyTrails(p)'
      <3>1. Moves(e, c)  BY <1>c, ResolvedMoves
      <3> QED  BY <1>0, <1>a, <2>1, <3>1, CopyLoaded
    <2>5. c.st \notin PositiveStatuses /\ c.st \notin {"SENDING", "FAILED_PRE_SUBMISSION"}
      BY <1>2, <1>c, <2>3, UnacceptedStatus
    <2>6. ~Settled(at[p])'  BY <1>2, <1>a, <1>c DEF Settled
    <2>7. CopyKnows(p)' /\ FreshKnows(p)' /\ AcceptanceKnown(p)'
      <3> HIDE DEF c
      <3> QED  BY <2>1, <2>5, <2>6 DEF CopyKnows, FreshKnows, AcceptanceKnown, UnacceptedPoints,
               SendingPoints, GatePoints, AcceptedPoints
    <2> QED  BY <2>4, <2>7 DEF CallKnows
  <1> QED  BY <1>1, <1>2 DEF DupLoad

\* A new draft takes no row over and records nothing.
LEMMA PrepareKept ==
  ASSUME TypeOK, TypeOK', RecordsSound, NEW p \in Procs, PrepareSave(p)
  PROVE  /\ \A s \in Steps : KeptLaw(s) /\ StepSound(s)'
         /\ \A s \in Steps : row'[s] # row[s] => s = at[p] /\ row[s] = NoRow /\ ~Positive(s)'
  <1>0. CallKnows(p) /\ at[p] \in Steps /\ snap[p] \in Copies /\ UNCHANGED <<key, delivered>>
    BY DEF RecordsSound, TypeOK, PrepareSave
  <1>1. snap[p].ver > 0 /\ snap[p].st \notin PositiveStatuses
    BY <1>0 DEF PrepareSave, CallKnows, CopyKnows, UnacceptedPoints
  <1>2. ASSUME NEW s \in Steps
        PROVE  KeptLaw(s) /\ StepSound(s)'
               /\ (row'[s] # row[s] => s = at[p] /\ row[s] = NoRow /\ ~Positive(s)')
    <2>0. StepSound(s) /\ delivered[s] \in Nat  BY DEF RecordsSound, TypeOK
    <2>1. row'[s] = row[s] \/ (s = at[p] /\ row[s] = NoRow /\ row'[s] = Stored(snap[p]))
      BY <1>0 DEF PrepareSave, TypeOK
    <2>2. CASE s = at[p] /\ row[s] = NoRow /\ row'[s] = Stored(snap[p])
      <3>1. row'[s].ver > row[s].ver /\ row'[s].st \notin PositiveStatuses
        BY <1>1, <2>2 DEF Stored, NoRow
      <3>2. ~Settled(s) /\ ~Positive(s)
        BY <2>2 DEF Settled, Positive, NoRow, SettledStatuses, PositiveStatuses, FailureStatuses
      <3> QED  BY <1>0, <2>0, <2>2, <3>1, <3>2 DEF KeptLaw, RowLaw, StepSound, Positive
    <2>3. CASE row'[s] = row[s]
      BY <1>0, <2>0, <2>3 DEF KeptLaw, RowLaw, StepSound, Positive
    <2> QED  BY <2>1, <2>2, <2>3
  <1> QED  BY <1>2

LEMMA KnowPrepare ==
  ASSUME TypeOK, TypeOK', RecordsSound, NEW p \in Procs, PrepareFind(p) \/ PrepareSave(p)
  PROVE  RecordsSound'
  <1>0. Locals /\ Alone(p) /\ CallKnows(p) /\ at[p] \in Steps /\ snap[p] \in Copies
    BY LocalsType, CallAlone DEF OtherStep, RecordsSound, TypeOK
  <1>a. UNCHANGED <<key, delivered, at>>  BY DEF PrepareFind, PrepareSave, db
  <1>b. \A s \in Steps : delivered'[s] >= delivered[s]  BY <1>a DEF TypeOK
  <1>c. ASSUME pc'[p] \in {"awaiting", "undrafted", "threw"} PROVE CallKnows(p)'
    BY <1>c, AwayKnows DEF AcceptanceKnown, AcceptedPoints, CopyPoints, SendingPoints, GatePoints
  <1>1. CASE PrepareFind(p)
    <2>0. UNCHANGED row  BY <1>1 DEF PrepareFind, db
    <2>1. CASE Finish(p, "awaiting")
      BY <1>0, <1>a, <1>b, <1>c, <2>0, <2>1, FinishAlone, KnowQuiet
    <2>2. CASE \E c \in {SetDraft(StartedDraft), Reject(StartedDraft)} :
                 snap' = [snap EXCEPT ![p] = c] /\ Goto(p, "saveDraft")
      <3>1. /\ snap'[p] \in {SetDraft(StartedDraft), Reject(StartedDraft)}
            /\ pc'[p] = "saveDraft"
        BY <1>0, <2>2 DEF Goto, Locals
      <3>2. snap'[p].ver > 0 /\ snap'[p].st \in {"DRAFTING", "PENDING_APPROVAL"}
        BY <3>1, DraftVersions, DraftStatus
      <3>3. CallKnows(p)'
        BY <3>1, <3>2
        DEF CallKnows, CopyTrails, CopyKnows, FreshKnows, AcceptanceKnown, UnacceptedPoints,
            CopyPoints, SendingPoints, GatePoints, AcceptedPoints, PositiveStatuses
      <3> QED  BY <1>0, <1>a, <1>b, <2>0, <3>3, KnowQuiet
    <2> QED  BY <1>1, <2>1, <2>2 DEF PrepareFind
  <1>2. CASE PrepareSave(p)
    <2>1. CallKnows(p)'
      BY <1>0, <1>2, <1>a, <1>c, FinishAlone DEF PrepareSave
    <2> QED  BY <1>0, <1>2, <2>1, PrepareKept, KnowStep
  <1> QED  BY <1>1, <1>2

-----------------------------------------------------------------------------
(* What records and answers say is true, and stays.                          *)

LEMMA KnowInit == Init => RecordsSound
  <1> SUFFICES ASSUME Init PROVE RecordsSound  OBVIOUS
  <1>1. \A p \in Procs : pc[p] = "idle"  BY DEF Init
  <1>2. \A p \in Procs : CallKnows(p)
    BY <1>1 DEF CallKnows, CopyTrails, CopyKnows, FreshKnows, AcceptanceKnown, UnacceptedPoints,
       CopyPoints, SendingPoints, GatePoints, AcceptedPoints
  <1>3. DraftedRow.st = "PENDING_APPROVAL"  BY DraftStatus DEF DraftedRow, Stored
  <1>4. \A s \in Steps : ~Positive(s) /\ key[s] = "ABSENT"
    BY <1>3 DEF Init, Positive, NoRow, PositiveStatuses
  <1> QED  BY <1>2, <1>4 DEF RecordsSound, StepSound

LEMMA KnowIdle ==
  ASSUME TypeOK, RecordsSound, UNCHANGED <<row, key, delivered, pc, at, snap, view>>
  PROVE  RecordsSound'
  BY DEF RecordsSound, CallKnows, StepSound, CopyTrails, CopyKnows, FreshKnows, AcceptanceKnown,
     Fresh, Settled, Positive

LEMMA KnowNext ==
  ASSUME TypeOK, TypeOK', RecordsSound, [Next]_vars
  PROVE  RecordsSound'
  <1>1. ASSUME NEW p \in Procs, Start(p) PROVE RecordsSound'  BY <1>1, KnowStart
  <1>2. ASSUME NEW p \in Procs, SendStep(p) PROVE RecordsSound'
    BY <1>2, KnowLoads, KnowGates, KnowSubmission, KnowProgress, KnowSaves, KnowDuplicate
    DEF SendStep
  <1>3. ASSUME NEW p \in Procs, OtherStep(p) PROVE RecordsSound'
    BY <1>3, KnowPrepare, KnowSaves, KnowProgress DEF OtherStep
  <1>4. ASSUME NEW p \in Procs, Crash(p) PROVE RecordsSound'  BY <1>4, KnowProgress
  <1>5. CASE Environment
    BY <1>5, KnowIdle DEF Environment, Approve, Disapprove, RemoveFromAllowlist, OptOut, db
  <1>6. CASE UNCHANGED vars  BY <1>6, KnowIdle DEF vars
  <1> QED  BY <1>1, <1>2, <1>3, <1>4, <1>5, <1>6 DEF Next

\* What copies, answers and records say of the rows, under every operation and
\* every fault, rate limits included.
THEOREM RecordsHold == Spec => []RecordsSound
  <1>1. TypeOK /\ TypeOK' /\ RecordsSound /\ [Next]_vars => RecordsSound'  BY KnowNext
  <1> QED  BY <1>1, KnowInit, TypeCorrect, PTL DEF Spec

\* COMPLETED is said, in the idempotency record and in the answer of
\* executeApprovedSend, only of a message the provider took and the execution records.
THEOREM CompletionsAreTrue == Spec => []CompletedIsTrue
  <1>1. RecordsSound /\ TypeOK => CompletedIsTrue
    BY DEF RecordsSound, TypeOK, CompletedIsTrue, StepSound, CallKnows, AcceptanceKnown,
       AcceptedPoints
  <1> QED  BY <1>1, RecordsHold, TypeCorrect, PTL

EarlyGates == {"allowlist", "suppression", "approval"}

\* Only a save of a copy, or of a new draft, changes a row.
LEMMA RowWriters ==
  ASSUME [Next]_vars, row' # row
  PROVE  \E p \in Procs :
           \/ pc[p] \in SavePoints \ EarlyGates /\ SaveExecution(p) /\ UNCHANGED <<key, seq, camp, delivered>>
           \/ PrepareSave(p)
  <1>1. ASSUME NEW p \in Procs, Start(p) PROVE FALSE
    BY <1>1 DEF Start, LoadExecution, ReconcileLoad, RespondLoad, ExpireLoad, PrepareLoad,
       LinkLoad, Load, db
  <1>2. ASSUME NEW p \in Procs, OtherStep(p)
        PROVE  \/ pc[p] \in SavePoints \ EarlyGates /\ SaveExecution(p) /\ UNCHANGED <<key, seq, camp, delivered>>
               \/ PrepareSave(p)
    BY <1>2 DEF EarlyGates, OtherStep, PrepareFind, ReconcileSave, ReconcileKey, RespondSave, ExpireSave,
       LinkSave, SaveOrThrow, SavePoints, SendingPoints, db
  <1>3. ASSUME NEW p \in Procs, SendStep(p)
        PROVE  pc[p] \in SavePoints \ EarlyGates /\ SaveExecution(p) /\ UNCHANGED <<key, seq, camp, delivered>>
    <2>1. CASE \/ LoadSequence(p) \/ LoadCampaign(p) \/ RecipientUnavailable(p)
               \/ GateAllowlist(p) \/ GateSuppression(p) \/ GateApproval(p)
               \/ GateRateLimit(p) \/ GateClaim(p)
               \/ SelectProvider(p) \/ ProviderSend(p)
      BY <2>1 DEF LoadSequence, LoadCampaign, RecipientUnavailable, GateAllowlist,
         GateSuppression, GateApproval, GateRateLimit, GateClaim, SelectProvider, ProviderSend,
         Gate, db
    <2>2. CASE \/ SaveCampaign(p) \/ MarkCompleted(p) \/ ReloadCampaign(p) \/ SaveSequence(p)
               \/ SaveCompletion(p) \/ ReleaseDenied(p) \/ ReleaseRetry(p)
               \/ DupGet(p) \/ DupLoad(p)
      BY <2>2 DEF SaveCampaign, SaveCampaignThen, MarkCompleted, ReloadCampaign, SaveSequence,
         SaveCompletion, ReleaseDenied, ReleaseRetry, MarkIdempotencyFailed, DupGet, DupLoad, db
    <2>3. CASE \/ SaveAttempt(p) \/ SaveAccepted(p) \/ SaveDenied(p) \/ SaveRetry(p)
               \/ SaveUnknown(p) \/ DupSave(p)
      BY <2>3 DEF SaveAttempt, SaveAccepted, SaveDenied, SaveRetry, SaveUnknown, DupSave, SaveThen, EarlyGates,
         SavePoints, SendingPoints, GatePoints
    <2> QED  BY <1>3, <2>1, <2>2, <2>3 DEF SendStep
  <1>4. ASSUME NEW p \in Procs, Crash(p) PROVE FALSE  BY <1>4 DEF Crash, db
  <1>5. CASE Environment
    BY <1>5 DEF Environment, Approve, Disapprove, RemoveFromAllowlist, OptOut, db
  <1>6. CASE UNCHANGED vars  BY <1>6 DEF vars
  <1> QED  BY <1>1, <1>2, <1>3, <1>4, <1>5, <1>6 DEF Next

\* No write takes an execution back from an acceptance: a loser never overwrites the
\* winner's DELIVERY_PENDING, whatever copy it holds and whatever fails.
THEOREM AcceptancesStay == Spec => AcceptanceIsNeverLost
  <1>1. TypeOK /\ TypeOK' /\ RecordsSound /\ [Next]_vars =>
          [\A s \in Steps : Positive(s) => row'[s].st \in PositiveStatuses]_vars
    <2> SUFFICES ASSUME TypeOK, TypeOK', RecordsSound, [Next]_vars, NEW s \in Steps, Positive(s)
                 PROVE  row'[s].st \in PositiveStatuses
      OBVIOUS
    <2>1. CASE row' = row  BY <2>1 DEF Positive
    <2>2. ASSUME NEW p \in Procs, pc[p] \in SavePoints, SaveExecution(p),
                 UNCHANGED <<key, seq, camp, delivered>>
          PROVE  row'[s].st \in PositiveStatuses
      <3>1. KeptLaw(s)  BY <2>2, SaveKept
      <3> QED  BY <3>1 DEF KeptLaw, Positive
    <2>3. ASSUME NEW p \in Procs, PrepareSave(p) PROVE row'[s].st \in PositiveStatuses
      BY <2>3 DEF PrepareSave, Positive, NoRow, PositiveStatuses, TypeOK
    <2> QED  BY <2>1, <2>2, <2>3, RowWriters
  <1> QED  BY <1>1, RecordsHold, TypeCorrect, PTL DEF Spec, AcceptanceIsNeverLost

\* A final status is left only by the operator's reconciliation, and only from the two
\* statuses whose outcome is open.
THEOREM OnlyOperatorsReopen == Spec => OnlyReconciliationReopens
  <1> DEFINE Law(s) ==
        row[s].st \in FailureStatuses /\ row'[s] # row[s] =>
          /\ row[s].st \in {"DELIVERY_UNKNOWN", "REQUIRES_RECONCILIATION"}
          /\ \E p \in Procs : pc[p] = "reconcileSave" /\ at[p] = s
  <1>1. TypeOK /\ TypeOK' /\ RecordsSound /\ [Next]_vars => [\A s \in Steps : Law(s)]_vars
    <2> SUFFICES ASSUME TypeOK, TypeOK', RecordsSound, [Next]_vars, NEW s \in Steps,
                        row[s].st \in FailureStatuses, row'[s] # row[s]
                 PROVE  /\ row[s].st \in {"DELIVERY_UNKNOWN", "REQUIRES_RECONCILIATION"}
                        /\ \E p \in Procs : pc[p] = "reconcileSave" /\ at[p] = s
      OBVIOUS
    <2>1. ASSUME NEW p \in Procs, pc[p] \in SavePoints, SaveExecution(p),
                 UNCHANGED <<key, seq, camp, delivered>>
          PROVE  /\ row[s].st \in {"DELIVERY_UNKNOWN", "REQUIRES_RECONCILIATION"}
                 /\ pc[p] = "reconcileSave" /\ at[p] = s
      <3>1. /\ at[p] = s /\ Fresh(p) /\ row'[s] = Stored(snap[p])
        BY <2>1, SaveKept
      <3>2. CallKnows(p) /\ pc[p] \in CopyPoints /\ row[s] \in Rows /\ snap[p] \in Copies
        BY <2>1 DEF RecordsSound, SavePoints, CopyPoints, TypeOK
      <3>3. Settled(at[p]) /\ ~Positive(at[p])
        BY <3>1 DEF Settled, Positive, SettledStatuses, PositiveStatuses, FailureStatuses
      <3>4. pc[p] \in {"reconcileSave", "respondSave"}
        BY <2>1, <3>1, <3>2, <3>3 DEF CallKnows, FreshKnows, SavePoints
      <3>5. pc[p] # "respondSave"
        <4> SUFFICES ASSUME pc[p] = "respondSave" PROVE FALSE  OBVIOUS
        <4>1. snap[p].ver = row[s].ver /\ snap[p].st = row[s].st
          BY <3>1, <3>2, <3>3 DEF CallKnows, FreshKnows, CopyTrails, Fresh
        <4> QED  BY <3>1, <3>2, <4>1 DEF Stored, Rows
      <3> QED  BY <3>1, <3>2, <3>4, <3>5 DEF CallKnows, FreshKnows, Reconcilable
    <2>2. ASSUME NEW p \in Procs, PrepareSave(p) PROVE FALSE
      BY <2>2 DEF PrepareSave, NoRow, FailureStatuses, TypeOK
    <2> QED  BY <2>1, <2>2, RowWriters
  <1> QED  BY <1>1, RecordsHold, TypeCorrect, PTL DEF Spec, OnlyReconciliationReopens

-----------------------------------------------------------------------------
(* ProgressSound: the sequence and the campaign count accepted steps.        *)

AcceptorPoints == {"saveCampaign", "markCompleted", "reloadCampaign", "saveSequence"}
ClaimedPoints == {"selectProvider", "saveAttempt", "providerSend", "saveAccepted"}
UnclaimedPoints == {"allowlist", "suppression", "approval", "rateLimit", "claim"}

\* The sequence is past recorded steps only, drafts one step ahead, and its copies trail it.
SeqSound ==
  /\ seq.idx <= NumSteps
  /\ seq.ver = 0 => seq = NoSeq
  /\ \A s \in Steps : s <= seq.idx => Positive(s)
  /\ \A s \in Steps : row[s] # NoRow => s <= seq.idx + 1
  /\ \A p \in Procs : sq[p].ver <= seq.ver /\ (sq[p].ver = seq.ver => sq[p] = seq)
  /\ \A p \in Procs : at[p] <= seq.idx + 1

\* One call at a time counts an acceptance, that of the sequence's next step.
OneAcceptor ==
  /\ \A p \in Procs : pc[p] \in AcceptorPoints => at[p] = seq.idx + 1
  /\ \A p, q \in Procs : pc[p] \in AcceptorPoints /\ pc[q] \in AcceptorPoints => p = q

\* The campaign's spend is at most one step ahead of the sequence, and was accepted.
CampSound ==
  /\ seq.idx <= camp.sent /\ camp.sent <= seq.idx + 1 /\ camp.sent <= NumSteps
  /\ \A s \in Steps : s <= camp.sent => Positive(s)

\* What a call knows of the spend: a fresh copy of the execution comes with a copy of
\* the campaign that has spent exactly the steps before it.
Spends(p) ==
  /\ pc[p] \in UnclaimedPoints =>
       at[p] <= cp[p].sent + 1 /\ (Fresh(p) => at[p] = cp[p].sent + 1)
  /\ pc[p] \in ClaimedPoints =>
       /\ at[p] <= cp[p].sent /\ cp[p].sent <= MaxSendCount
       /\ Fresh(p) => at[p] = cp[p].sent
  /\ pc[p] = "saveCampaign" => camp.sent = seq.idx /\ cp[p].sent = at[p]
  /\ pc[p] \in AcceptorPoints \ {"saveCampaign"} => camp.sent = at[p]
  /\ pc[p] \in {"saveSequence", "saveCompletion"} => cp[p].sent = camp.sent
  /\ pc[p] = "saveCompletion" => seq.idx = NumSteps

WithinBudget == \A s \in Steps : delivered[s] > 0 => s <= MaxSendCount

ProgressSound ==
  SeqSound /\ OneAcceptor /\ CampSound /\ (\A p \in Procs : Spends(p)) /\ WithinBudget

\* Between the two writes that count a step, the counts stand.
CountsStand ==
  /\ seq'.idx = seq.idx /\ camp'.sent = camp.sent
  /\ seq' = seq \/ seq'.ver > seq.ver

LEMMA OthersSpend ==
  ASSUME TypeOK, TypeOK', NEW q \in Procs, CallKnows(q), Spends(q), KeptLaw(at[q]), CountsStand,
         pc'[q] = pc[q], at'[q] = at[q], snap'[q] = snap[q], cp'[q] = cp[q]
  PROVE  Spends(q)'
  <1>1. ASSUME pc[q] \in UnclaimedPoints \cup ClaimedPoints, Fresh(q)' PROVE Fresh(q)
    <2>1. /\ row[at[q]].ver \in Nat /\ row'[at[q]].ver \in Nat /\ snap[q].loaded \in Nat
      BY DEF TypeOK, Rows, Copies
    <2>2. pc[q] \in CopyPoints
      BY <1>1 DEF UnclaimedPoints, ClaimedPoints, CopyPoints, SendingPoints, GatePoints
    <2> QED  BY <1>1, <2>1, <2>2 DEF CallKnows, CopyTrails, KeptLaw, RowLaw, Fresh
  <1> QED  BY <1>1 DEF Spends, CountsStand

\* The rule every step but the two counting ones is proved by.
LEMMA ProgressStep ==
  ASSUME TypeOK, TypeOK', RecordsSound, ProgressSound, NEW p \in Procs, Alone(p), CountsStand,
         \A s \in Steps : KeptLaw(s),
         \A s \in Steps : row'[s] # NoRow => row[s] # NoRow \/ s <= seq.idx + 1,
         \A s \in Steps : delivered'[s] > 0 => delivered[s] > 0 \/ s <= MaxSendCount,
         sq'[p] \in {sq[p], seq, NoSeq},
         at'[p] <= seq.idx + 1,
         pc'[p] \in AcceptorPoints =>
           at'[p] = seq.idx + 1 /\ \A q \in Procs \ {p} : pc[q] \notin AcceptorPoints,
         Spends(p)'
  PROVE  ProgressSound'
  <1>0. /\ seq.ver \in Nat /\ seq'.ver \in Nat /\ seq.idx \in Nat /\ camp.sent \in Nat
        /\ \A q \in Procs : sq[q].ver \in Nat /\ at[q] \in Steps
        /\ NoSeq.ver = 0
    BY DEF TypeOK, SeqCopies, CampCopies, NoSeq
  <1>1. \A s \in Steps : Positive(s) => Positive(s)'  BY DEF KeptLaw
  <1>2. SeqSound'
    <2>1. \A q \in Procs : sq'[q].ver <= seq'.ver /\ (sq'[q].ver = seq'.ver => sq'[q] = seq')
      <3>1. ASSUME NEW q \in Procs
            PROVE  sq'[q].ver <= seq.ver /\ (sq'[q].ver = seq.ver => sq'[q] = seq)
        BY <1>0 DEF Alone, ProgressSound, SeqSound
      <3> QED  BY <1>0, <3>1 DEF CountsStand, TypeOK, SeqCopies
    <2>2. \A q \in Procs : at'[q] <= seq'.idx + 1
      BY DEF Alone, ProgressSound, SeqSound, CountsStand
    <2>3. seq'.ver = 0 => seq' = NoSeq  BY <1>0 DEF ProgressSound, SeqSound, CountsStand
    <2> QED  BY <1>1, <2>1, <2>2, <2>3 DEF ProgressSound, SeqSound, CountsStand
  <1>3. OneAcceptor'  BY DEF Alone, ProgressSound, OneAcceptor, CountsStand
  <1>4. CampSound'  BY <1>1 DEF ProgressSound, CampSound, CountsStand
  <1>5. ASSUME NEW q \in Procs PROVE Spends(q)'
    <2>1. CASE q = p  BY <2>1
    <2>2. CASE q # p
      <3>1. CallKnows(q) /\ Spends(q) /\ KeptLaw(at[q])
        BY <1>0 DEF RecordsSound, ProgressSound
      <3> QED  BY <2>2, <3>1, OthersSpend DEF Alone
    <2> QED  BY <2>1, <2>2
  <1>6. WithinBudget'  BY DEF ProgressSound, WithinBudget
  <1> QED  BY <1>2, <1>3, <1>4, <1>5, <1>6 DEF ProgressSound

LEMMA ProgressQuiet ==
  ASSUME TypeOK, TypeOK', RecordsSound, ProgressSound, NEW p \in Procs, Alone(p), CountsStand,
         UNCHANGED <<row, delivered>>, sq'[p] \in {sq[p], seq, NoSeq},
         at'[p] <= seq.idx + 1,
         pc'[p] \in AcceptorPoints => pc[p] \in AcceptorPoints /\ at'[p] = at[p],
         Spends(p)'
  PROVE  ProgressSound'
  <1>1. ASSUME NEW s \in Steps PROVE KeptLaw(s)
    BY DEF KeptLaw, RowLaw, Positive, TypeOK
  <1> QED  BY <1>1, ProgressStep DEF ProgressSound, OneAcceptor

\* Points where Spends asks nothing.
LEMMA AwaySpends ==
  ASSUME NEW p \in Procs,
         pc'[p] \notin {"saveCompletion"} \cup UnclaimedPoints \cup ClaimedPoints \cup AcceptorPoints
  PROVE  Spends(p)'
  BY DEF Spends, AcceptorPoints

LEMMA SameCounts == UNCHANGED <<seq, camp>> => CountsStand
  BY DEF CountsStand
LEMMA ProgressStart ==
  ASSUME TypeOK, TypeOK', RecordsSound, ProgressSound, NEW p \in Procs, Start(p)
  PROVE  ProgressSound'
  <1>1. Locals /\ Alone(p)  BY LocalsType, CallAlone
  <1>2. UNCHANGED <<row, delivered, seq, camp>> /\ sq'[p] \in {sq[p], seq}
    BY <1>1 DEF Start, LoadExecution, ReconcileLoad, RespondLoad, ExpireLoad, PrepareLoad,
       LinkLoad, Load, db, Locals
  <1>3. at'[p] = at[p] \/ at'[p] = seq.idx + 1 \/ (at'[p] \in Steps /\ row[at'[p]] # NoRow)
    BY <1>1 DEF Start, LoadExecution, ReconcileLoad, RespondLoad, ExpireLoad, PrepareLoad,
       LinkLoad, Load, Locals, NoRow, Reconcilable
  <1>4. at'[p] <= seq.idx + 1
    BY <1>3 DEF ProgressSound, SeqSound, TypeOK, SeqCopies
  <1>5. pc'[p] \in {"loadSequence", "reconcileSave", "respondSave", "expireSave", "findDraft",
                    "linkSave"}
    BY <1>1 DEF Start, LoadExecution, ReconcileLoad, RespondLoad, ExpireLoad, PrepareLoad,
       LinkLoad, Load, Goto, Locals
  <1>6. Spends(p)'  BY <1>5, AwaySpends DEF UnclaimedPoints, ClaimedPoints, AcceptorPoints
  <1> QED  BY <1>1, <1>2, <1>4, <1>5, <1>6, SameCounts, ProgressQuiet DEF AcceptorPoints

LEMMA ProgressLoads ==
  ASSUME TypeOK, TypeOK', RecordsSound, RecordsSound', ProgressSound, NEW p \in Procs,
         \/ LoadSequence(p) \/ LoadCampaign(p) \/ RecipientUnavailable(p)
  PROVE  ProgressSound'
  <1>0. Locals /\ Alone(p) /\ at[p] <= seq.idx + 1
    BY LocalsType, CallAlone DEF SendStep, ProgressSound, SeqSound
  <1>1. UNCHANGED <<row, delivered, seq, camp, at>>
    BY DEF LoadSequence, LoadCampaign, RecipientUnavailable, db
  <1>2. /\ sq'[p] \in {sq[p], seq, NoSeq}
        /\ pc'[p] \in {"loadCampaign", "allowlist", "completed", "failed"}
        /\ pc'[p] = "allowlist" => cp'[p] = camp
    BY <1>0 DEF LoadSequence, LoadCampaign, RecipientUnavailable, Finish, Goto, Locals, ResultOf
  <1>3. CASE pc'[p] # "allowlist"
    <2>1. Spends(p)'
      BY <1>2, <1>3, AwaySpends DEF UnclaimedPoints, ClaimedPoints, AcceptorPoints
    <2> QED  BY <1>0, <1>1, <1>2, <1>3, <2>1, SameCounts, ProgressQuiet DEF AcceptorPoints
  <1>4. CASE pc'[p] = "allowlist"
    <2>1. Fresh(p)' => ~Positive(at[p])
      BY <1>1, <1>4 DEF RecordsSound, CallKnows, FreshKnows, CopyPoints, SendingPoints, GatePoints,
         Settled, Positive, SettledStatuses
    <2>2. Fresh(p)' => at[p] > camp.sent
      BY <2>1 DEF ProgressSound, CampSound, TypeOK, CampCopies, Steps
    <2>3. Spends(p)'
      BY <1>0, <1>1, <1>2, <1>4, <2>2
      DEF Spends, UnclaimedPoints, ClaimedPoints, AcceptorPoints, ProgressSound, CampSound, TypeOK,
          CampCopies, SeqCopies, Steps
    <2> QED  BY <1>0, <1>1, <1>2, <1>4, <2>3, SameCounts, ProgressQuiet DEF AcceptorPoints
  <1> QED  BY <1>3, <1>4

LEMMA ProgressGates ==
  ASSUME TypeOK, TypeOK', RecordsSound, ProgressSound, NEW p \in Procs,
         \/ GateAllowlist(p) \/ GateSuppression(p) \/ GateApproval(p)
         \/ GateRateLimit(p) \/ GateClaim(p) \/ SelectProvider(p)
  PROVE  ProgressSound'
  <1>0. Locals /\ Alone(p) /\ at[p] <= seq.idx + 1 /\ Spends(p)
    BY LocalsType, CallAlone DEF SendStep, ProgressSound, SeqSound
  <1>1. UNCHANGED <<row, delivered, seq, camp, at, sq>>
    BY DEF GateAllowlist, GateSuppression, GateApproval, GateRateLimit, GateClaim, SelectProvider,
       Gate, db
  <1>2. SUFFICES Spends(p)' /\ pc'[p] \notin AcceptorPoints
    BY <1>0, <1>1, <1>2, SameCounts, ProgressQuiet
  <1>3. CASE pc'[p] \in {"saveDenied", "saveRetry", "dupGet"}
    BY <1>3, AwaySpends DEF UnclaimedPoints, ClaimedPoints, AcceptorPoints
  <1>4. CASE /\ \/ pc[p] \in UnclaimedPoints /\ pc'[p] \in UnclaimedPoints
                \/ pc[p] \in ClaimedPoints /\ pc'[p] \in ClaimedPoints
             /\ snap'[p] = snap[p] /\ cp'[p] = cp[p]
    BY <1>0, <1>1, <1>4 DEF Spends, Fresh, UnclaimedPoints, ClaimedPoints, AcceptorPoints
  <1>5. CASE /\ pc[p] = "claim" /\ pc'[p] = "selectProvider" /\ snap'[p] = snap[p]
             /\ cp[p].sent + 1 <= MaxSendCount /\ cp'[p] = [cp[p] EXCEPT !.sent = cp[p].sent + 1]
    <2>1. cp[p] \in CampCopies  BY DEF TypeOK
    <2>2. cp'[p].sent = cp[p].sent + 1  BY <1>5, <2>1 DEF CampCopies
    <2> QED  BY <1>0, <1>1, <1>5, <2>1, <2>2
             DEF Spends, Fresh, UnclaimedPoints, ClaimedPoints, AcceptorPoints, CampCopies
  <1>6. CASE GateAllowlist(p) \/ GateSuppression(p) \/ GateApproval(p)
    BY <1>0, <1>3, <1>4, <1>6 DEF GateAllowlist, GateSuppression, GateApproval, Gate, Deny, Goto,
       Locals, UnclaimedPoints
  <1>7. CASE GateRateLimit(p)
    BY <1>0, <1>3, <1>4, <1>7 DEF GateRateLimit, Goto, Locals, UnclaimedPoints
  <1>8. CASE GateClaim(p)
    BY <1>0, <1>3, <1>5, <1>8 DEF GateClaim, Deny, Goto, Locals
  <1>9. CASE SelectProvider(p)
    BY <1>0, <1>3, <1>4, <1>9 DEF SelectProvider, Deny, Goto, Locals, ClaimedPoints
  <1> QED  BY <1>6, <1>7, <1>8, <1>9

LEMMA ProgressSubmission ==
  ASSUME TypeOK, TypeOK', RecordsSound, ProgressSound, NEW p \in Procs, ProviderSend(p)
  PROVE  ProgressSound'
  <1>0. /\ Locals /\ Alone(p) /\ at[p] <= seq.idx + 1 /\ Spends(p) /\ at[p] \in Steps
        /\ snap[p] \in Copies /\ CallKnows(p)
    BY LocalsType, CallAlone DEF SendStep, ProgressSound, SeqSound, TypeOK, RecordsSound
  <1>1. UNCHANGED <<row, seq, camp, at, sq, cp>> /\ pc[p] = "providerSend"
    BY DEF ProviderSend, db
  <1>2. \A s \in Steps : KeptLaw(s)
    BY <1>0, <1>1 DEF ProviderSend, KeptLaw, RowLaw, Positive, TypeOK
  <1>3. at[p] <= MaxSendCount
    BY <1>0, <1>1, MaxSendCountAssumption DEF Spends, ClaimedPoints, TypeOK, CampCopies, Steps
  <1>4. \A s \in Steps : delivered'[s] > 0 => delivered[s] > 0 \/ s <= MaxSendCount
    BY <1>0, <1>1, <1>3 DEF ProviderSend, TypeOK
  <1>5. pc'[p] \in {"saveAccepted", "saveUnknown", "saveRetry", "saveDenied"}
        /\ (pc'[p] = "saveAccepted" => snap'[p] = MarkAccepted(snap[p]))
    BY <1>0 DEF ProviderSend, Deny, Goto, Locals
  <1>6. Spends(p)'
    <2>1. CASE pc'[p] # "saveAccepted"
      BY <1>5, <2>1, AwaySpends DEF UnclaimedPoints, ClaimedPoints, AcceptorPoints
    <2>2. CASE pc'[p] = "saveAccepted"
      <3>1. snap'[p].loaded = snap[p].loaded
        BY <1>0, <1>1, <1>5, <2>2, SendingMoves
        DEF CallKnows, CopyKnows, Moves
      <3> QED  BY <1>0, <1>1, <2>2, <3>1
               DEF Spends, Fresh, UnclaimedPoints, ClaimedPoints, AcceptorPoints
    <2> QED  BY <2>1, <2>2
  <1> QED  BY <1>0, <1>1, <1>2, <1>4, <1>5, <1>6, SameCounts, ProgressStep DEF AcceptorPoints
\* The saves: a fresh copy whose acceptance is stored is that of the next step.
LEMMA ProgressSaves ==
  ASSUME TypeOK, TypeOK', RecordsSound, ProgressSound, NEW p \in Procs,
         \/ SaveAttempt(p) \/ SaveAccepted(p) \/ SaveDenied(p) \/ SaveRetry(p)
         \/ SaveUnknown(p) \/ DupSave(p) \/ ReconcileSave(p) \/ RespondSave(p) \/ ExpireSave(p)
  PROVE  ProgressSound'
  <1>0. Locals /\ Alone(p) /\ at[p] \in Steps /\ at[p] <= seq.idx + 1 /\ Spends(p) /\ CallKnows(p)
    BY LocalsType, CallAlone DEF SendStep, OtherStep, ProgressSound, SeqSound, TypeOK, RecordsSound
  <1>1. /\ pc[p] \in SavePoints /\ SaveExecution(p)
        /\ UNCHANGED <<key, delivered, at, seq, camp>> /\ sq'[p] \in {sq[p], NoSeq}
    BY <1>0, FinishAlone
    DEF SaveAttempt, SaveAccepted, SaveDenied, SaveRetry, SaveThen, SaveUnknown, DupSave,
       ReconcileSave, RespondSave, ExpireSave, SaveOrThrow, SavePoints, SendingPoints, GatePoints,
       Finish, Locals
  <1>2. /\ Current(p) <=> Fresh(p)
        /\ \A s \in Steps : KeptLaw(s)
        /\ \A s \in Steps : s # at[p] => row'[s] = row[s]
    BY <1>1, SaveKept
  <1>3. \A s \in Steps : row'[s] # NoRow => row[s] # NoRow \/ s <= seq.idx + 1
    BY <1>0, <1>2
  <1>4. SUFFICES /\ Spends(p)'
                 /\ pc'[p] \in AcceptorPoints =>
                      at[p] = seq.idx + 1 /\ \A q \in Procs \ {p} : pc[q] \notin AcceptorPoints
    BY <1>0, <1>1, <1>2, <1>3, <1>4, SameCounts, ProgressStep
  <1>5. CASE pc'[p] \in {"completed", "failed", "ok", "threw", "dupGet", "releaseDenied",
                         "releaseRetry", "reconcileKey"}
    BY <1>5, AwaySpends DEF UnclaimedPoints, ClaimedPoints, AcceptorPoints
  <1>6. CASE SaveAttempt(p) /\ pc'[p] = "providerSend"
    <2>1. Fresh(p) /\ cp'[p] = cp[p] /\ pc[p] = "saveAttempt"
      BY <1>0, <1>2, <1>6 DEF SaveAttempt, SaveThen, Goto, Locals
    <2> QED  BY <1>0, <1>1, <1>6, <2>1 DEF Spends, UnclaimedPoints, ClaimedPoints, AcceptorPoints
  <1>7. CASE SaveAccepted(p) /\ pc'[p] = "saveCampaign"
    <2>1. Fresh(p) /\ cp'[p] = cp[p] /\ pc[p] = "saveAccepted"
      BY <1>0, <1>2, <1>7 DEF SaveAccepted, SaveThen, Goto, Locals
    <2>2. ~Positive(at[p])
      BY <1>0, <2>1 DEF CallKnows, FreshKnows, CopyPoints, SendingPoints, Settled, Positive,
         SettledStatuses
    <2>3. at[p] = seq.idx + 1 /\ camp.sent = seq.idx
      <3>1. seq.idx \in Nat /\ camp.sent \in Nat /\ at[p] \in Nat
        BY <1>0 DEF TypeOK, SeqCopies, CampCopies, Steps
      <3>2. ~(at[p] <= seq.idx) /\ ~(at[p] <= camp.sent)
        BY <1>0, <2>2 DEF ProgressSound, SeqSound, CampSound
      <3>3. seq.idx <= camp.sent  BY DEF ProgressSound, CampSound
      <3> QED  BY <1>0, <3>1, <3>2, <3>3
    <2>4. ASSUME NEW q \in Procs, pc[q] \in AcceptorPoints PROVE FALSE
      <3>1. at[q] = seq.idx + 1  BY <2>4 DEF ProgressSound, OneAcceptor
      <3>2. Positive(at[q])
        BY <2>4 DEF RecordsSound, CallKnows, AcceptanceKnown, AcceptorPoints, AcceptedPoints
      <3> QED  BY <2>2, <2>3, <3>1, <3>2
    <2>5. cp[p].sent = at[p]  BY <1>0, <2>1 DEF Spends, ClaimedPoints
    <2> QED  BY <1>1, <1>7, <2>1, <2>3, <2>4, <2>5
             DEF Spends, UnclaimedPoints, ClaimedPoints, AcceptorPoints
  <1>8. CASE SaveAttempt(p) \/ SaveAccepted(p) \/ SaveDenied(p) \/ SaveRetry(p)
    BY <1>0, <1>5, <1>6, <1>7, <1>8
    DEF SaveAttempt, SaveAccepted, SaveDenied, SaveRetry, SaveThen, Goto, Locals
  <1>9. CASE SaveUnknown(p) \/ DupSave(p) \/ ReconcileSave(p) \/ RespondSave(p) \/ ExpireSave(p)
    BY <1>0, <1>1, <1>5, <1>9, FinishAlone
    DEF SaveUnknown, DupSave, ReconcileSave, RespondSave, ExpireSave, SaveOrThrow, ResultOf,
        Goto, Locals
  <1> QED  BY <1>8, <1>9

\* The other steps that leave the counts standing.
LEMMA ProgressRest ==
  ASSUME TypeOK, TypeOK', RecordsSound, ProgressSound, NEW p \in Procs,
         \/ MarkCompleted(p) \/ ReloadCampaign(p) \/ SaveCompletion(p) \/ ReleaseDenied(p)
         \/ ReleaseRetry(p) \/ DupGet(p) \/ DupLoad(p) \/ PrepareFind(p) \/ ReconcileKey(p)
         \/ LinkSave(p) \/ Crash(p)
  PROVE  ProgressSound'
  <1>0. Locals /\ Alone(p) /\ at[p] <= seq.idx + 1 /\ Spends(p)
    BY LocalsType, CallAlone DEF SendStep, OtherStep, ProgressSound, SeqSound
  <1>1. UNCHANGED <<row, delivered, at>> /\ sq'[p] \in {sq[p], NoSeq}
    BY <1>0
    DEF MarkCompleted, ReloadCampaign, SaveCompletion, ReleaseDenied, ReleaseRetry,
        MarkIdempotencyFailed, DupGet, DupLoad, PrepareFind, ReconcileKey, LinkSave, Crash, Finish,
        db, Locals
  <1>2. CountsStand
    <2>1. CASE LinkSave(p)
      <3>1. sq[p] \in SeqCopies /\ (sq[p].ver = seq.ver => sq[p] = seq)
        BY DEF TypeOK, ProgressSound, SeqSound
      <3>2. [sq[p] EXCEPT !.ver = sq[p].ver + 1].idx = sq[p].idx
            /\ [sq[p] EXCEPT !.ver = sq[p].ver + 1].ver = sq[p].ver + 1
        BY <3>1 DEF SeqCopies
      <3>3. camp' = camp /\ (seq' = seq \/ (seq' = [sq[p] EXCEPT !.ver = sq[p].ver + 1]
                                            /\ seq.ver = sq[p].ver))
        BY <2>1 DEF LinkSave
      <3> QED  BY <3>1, <3>2, <3>3 DEF CountsStand, SeqCopies
    <2>2. CASE SaveCompletion(p)
      <3>1. cp[p] \in CampCopies /\ cp[p].sent = camp.sent
        BY <1>0, <2>2 DEF TypeOK, Spends, SaveCompletion
      <3>2. CompleteCampaign(cp[p]).sent = cp[p].sent
        BY <3>1 DEF CompleteCampaign, CampCopies
      <3> QED  BY <2>2, <3>1, <3>2 DEF CountsStand, SaveCompletion
    <2> QED
      BY <2>1, <2>2, SameCounts
      DEF MarkCompleted, ReloadCampaign, ReleaseDenied, ReleaseRetry,
          MarkIdempotencyFailed, DupGet, DupLoad, PrepareFind, ReconcileKey, Crash, db
  <1>3. SUFFICES /\ Spends(p)'
                 /\ pc'[p] \in AcceptorPoints => pc[p] \in AcceptorPoints
    BY <1>0, <1>1, <1>2, <1>3, ProgressQuiet
  <1>4. CASE pc'[p] \in {"completed", "failed", "retryable", "ok", "threw", "awaiting", "crashed",
                         "dupGet", "dupLoad", "dupSave", "saveDraft"}
    BY <1>4, AwaySpends DEF UnclaimedPoints, ClaimedPoints, AcceptorPoints
  <1>5. CASE MarkCompleted(p)
    <2>1. pc[p] = "markCompleted" /\ pc'[p] = "reloadCampaign"
      BY <1>0, <1>5 DEF MarkCompleted, Goto, Locals
    <2> QED  BY <1>0, <1>1, <1>2, <2>1
             DEF Spends, CountsStand, UnclaimedPoints, ClaimedPoints, AcceptorPoints
  <1>6. CASE ReloadCampaign(p)
    <2>1. /\ pc[p] = "reloadCampaign"
          /\ pc'[p] = "failed" \/ (pc'[p] = "saveSequence" /\ cp'[p] = camp)
      BY <1>0, <1>6, FinishAlone, <1>1 DEF ReloadCampaign, Goto, Locals
    <2> QED  BY <1>0, <1>1, <1>2, <1>4, <2>1
             DEF Spends, CountsStand, UnclaimedPoints, ClaimedPoints, AcceptorPoints
  <1>7. CASE SaveCompletion(p) \/ ReleaseDenied(p) \/ ReleaseRetry(p) \/ DupGet(p) \/ DupLoad(p)
    BY <1>0, <1>1, <1>4, <1>7, FinishAlone
    DEF SaveCompletion, ReleaseDenied, ReleaseRetry, MarkIdempotencyFailed, DupGet, DupLoad,
        ResultOf, Goto, Locals
  <1>8. CASE PrepareFind(p) \/ ReconcileKey(p) \/ LinkSave(p) \/ Crash(p)
    BY <1>0, <1>1, <1>4, <1>8, FinishAlone
    DEF PrepareFind, ReconcileKey, LinkSave, Crash, Goto, Locals
  <1> QED  BY <1>5, <1>6, <1>7, <1>8

LEMMA ProgressDraft ==
  ASSUME TypeOK, TypeOK', RecordsSound, ProgressSound, NEW p \in Procs, PrepareSave(p)
  PROVE  ProgressSound'
  <1>0. Locals /\ Alone(p) /\ at[p] <= seq.idx + 1
    BY LocalsType, CallAlone DEF OtherStep, ProgressSound, SeqSound
  <1>1. UNCHANGED <<delivered, at, seq, camp>> /\ sq'[p] = NoSeq
        /\ pc'[p] \in {"threw", "undrafted", "awaiting"}
    BY <1>0, FinishAlone DEF PrepareSave
  <1>2. Spends(p)' /\ pc'[p] \notin AcceptorPoints
    BY <1>1, AwaySpends DEF UnclaimedPoints, ClaimedPoints, AcceptorPoints
  <1>3. \A s \in Steps : row'[s] # NoRow => row[s] # NoRow \/ s <= seq.idx + 1
    BY <1>0, PrepareKept
  <1> QED  BY <1>0, <1>1, <1>2, <1>3, PrepareKept, SameCounts, ProgressStep

\* The spend of an accepted step is written while the sequence is still before it.
LEMMA ProgressSpend ==
  ASSUME TypeOK, TypeOK', RecordsSound, ProgressSound, NEW p \in Procs, SaveCampaign(p)
  PROVE  ProgressSound'
  <1>0. /\ Locals /\ Alone(p) /\ Spends(p) /\ CallKnows(p) /\ pc[p] = "saveCampaign"
        /\ UNCHANGED <<row, delivered, seq, at, sq, snap, cp>>
    BY LocalsType, CallAlone DEF SendStep, ProgressSound, RecordsSound, SaveCampaign, SaveCampaignThen
  <1>1. CASE camp' = camp /\ pc'[p] = "dupGet"
    <2>1. Spends(p)'  BY <1>1, AwaySpends DEF UnclaimedPoints, ClaimedPoints, AcceptorPoints
    <2>2. at'[p] <= seq.idx + 1  BY <1>0 DEF ProgressSound, SeqSound
    <2> QED  BY <1>0, <1>1, <2>1, <2>2, SameCounts, ProgressQuiet DEF AcceptorPoints
  <1>2. CASE camp' = cp[p] /\ pc'[p] = "markCompleted"
    <2>1. /\ at[p] = seq.idx + 1 /\ camp'.sent = at[p] /\ at[p] \in Steps /\ Positive(at[p])
          /\ seq.idx \in Nat /\ seq.idx < NumSteps
      BY <1>0, <1>2, NumStepsAssumption DEF ProgressSound, OneAcceptor, AcceptorPoints, Spends,
         CallKnows, AcceptanceKnown, AcceptedPoints, TypeOK, SeqCopies, Steps
    <2>2. \A q \in Procs \ {p} : pc[q] \notin AcceptorPoints /\ pc[q] # "saveCompletion"
      BY <1>0, <2>1 DEF ProgressSound, OneAcceptor, Spends, AcceptorPoints
    <2>3. \A q \in Procs \ {p} : Spends(q)'
      BY <1>0, <2>2 DEF ProgressSound, Spends, Fresh, Alone, AcceptorPoints
    <2>4. Spends(p)'
      BY <1>0, <1>2, <2>1 DEF Spends, UnclaimedPoints, ClaimedPoints, AcceptorPoints
    <2>5. SeqSound' /\ WithinBudget'
      BY <1>0 DEF ProgressSound, SeqSound, WithinBudget, Positive
    <2>6. OneAcceptor'
      BY <1>0, <1>2, <2>1, <2>2 DEF Alone, OneAcceptor, AcceptorPoints
    <2>7. CampSound'
      BY <1>0, <2>1 DEF ProgressSound, SeqSound, CampSound, Positive, Steps
    <2> QED  BY <2>3, <2>4, <2>5, <2>6, <2>7 DEF ProgressSound
  <1> QED  BY <1>0, <1>1, <1>2 DEF SaveCampaign, SaveCampaignThen, Goto, Locals

\* The sequence moves past a step whose acceptance is recorded and whose spend is written.
LEMMA ProgressAdvance ==
  ASSUME TypeOK, TypeOK', RecordsSound, ProgressSound, NEW p \in Procs, SaveSequence(p)
  PROVE  /\ ProgressSound'
         /\ seq' = seq \/ (seq'.idx = seq.idx + 1 /\ at[p] = seq.idx + 1 /\ Positive(at[p]))
  <1>0. /\ Locals /\ Alone(p) /\ Spends(p) /\ CallKnows(p) /\ pc[p] = "saveSequence"
        /\ UNCHANGED <<row, delivered, camp, at>>
    BY LocalsType, CallAlone DEF SendStep, ProgressSound, RecordsSound, SaveSequence
  <1>1. CASE seq' = seq /\ pc'[p] = "dupGet" /\ sq'[p] = sq[p]
    <2>1. Spends(p)'  BY <1>1, AwaySpends DEF UnclaimedPoints, ClaimedPoints, AcceptorPoints
    <2>2. at'[p] <= seq.idx + 1  BY <1>0 DEF ProgressSound, SeqSound
    <2> QED  BY <1>0, <1>1, <2>1, <2>2, SameCounts, ProgressQuiet DEF AcceptorPoints
  <1>2. CASE /\ seq.ver = sq[p].ver /\ seq' = CompleteStep(sq[p])
             /\ IF HasMoreSteps(sq[p])
                  THEN pc'[p] = "completed" /\ sq'[p] = NoSeq
                  ELSE pc'[p] = "saveCompletion" /\ sq'[p] = sq[p] /\ cp'[p] = cp[p]
    <2>1. /\ at[p] = seq.idx + 1 /\ camp.sent = at[p] /\ cp[p].sent = at[p]
          /\ at[p] \in Steps /\ Positive(at[p])
          /\ seq.idx \in Nat /\ seq.ver \in Nat /\ sq[p] = seq
      BY <1>0, <1>2 DEF ProgressSound, OneAcceptor, AcceptorPoints, Spends, CallKnows,
         AcceptanceKnown, AcceptedPoints, TypeOK, SeqCopies, SeqSound
    <2>2. /\ seq'.idx = seq.idx + 1 /\ seq'.ver > seq.ver
          /\ ~HasMoreSteps(sq[p]) => seq'.idx = NumSteps
      BY <1>2, <2>1, NumStepsAssumption DEF CompleteStep, HasMoreSteps, Steps
    <2>3. \A q \in Procs \ {p} : pc[q] \notin AcceptorPoints /\ pc[q] # "saveCompletion"
      BY <1>0, <2>1, NumStepsAssumption DEF ProgressSound, OneAcceptor, Spends, AcceptorPoints, Steps
    <2>4. \A q \in Procs \ {p} : Spends(q)'
      BY <1>0, <2>3 DEF ProgressSound, Spends, Fresh, Alone, AcceptorPoints
    <2>5. Spends(p)'
      BY <1>0, <1>2, <2>1, <2>2 DEF Spends, UnclaimedPoints, ClaimedPoints, AcceptorPoints
    <2>6. OneAcceptor' /\ WithinBudget'
      BY <1>0, <1>2, <2>3 DEF Alone, ProgressSound, OneAcceptor, AcceptorPoints, WithinBudget
    <2>7. CampSound'
      BY <1>0, <2>1, <2>2 DEF ProgressSound, CampSound, Positive, Steps
    <2>8. SeqSound'
      <3>1. \A s \in Steps : s <= seq'.idx => Positive(s)'
        BY <1>0, <2>1, <2>2 DEF ProgressSound, SeqSound, Positive, Steps
      <3>2. \A q \in Procs : sq'[q].ver <= seq'.ver /\ (sq'[q].ver = seq'.ver => sq'[q] = seq')
        <4>1. ASSUME NEW q \in Procs PROVE sq'[q].ver < seq'.ver
          <5>1. sq[q].ver <= seq.ver /\ sq[q].ver \in Nat /\ seq'.ver \in Nat /\ NoSeq.ver = 0
            BY DEF ProgressSound, SeqSound, TypeOK, SeqCopies, NoSeq
          <5> QED  BY <1>0, <1>2, <2>1, <2>2, <5>1 DEF Alone
        <4> QED  BY <4>1 DEF TypeOK, SeqCopies
      <3>3. \A q \in Procs : at'[q] <= seq'.idx + 1
        BY <1>0, <2>1, <2>2 DEF ProgressSound, SeqSound, TypeOK, Steps
      <3>4. \A s \in Steps : row'[s] # NoRow => s <= seq'.idx + 1
        BY <1>0, <2>1, <2>2 DEF ProgressSound, SeqSound, Steps
      <3> QED  BY <2>1, <2>2, <3>1, <3>2, <3>3, <3>4 DEF SeqSound, Steps
    <2> QED  BY <2>1, <2>2, <2>4, <2>5, <2>6, <2>7, <2>8 DEF ProgressSound
  <1> QED  BY <1>0, <1>1, <1>2, FinishAlone DEF SaveSequence, Goto, Locals

LEMMA ProgressInit == Init => ProgressSound
  <1> SUFFICES ASSUME Init PROVE ProgressSound  OBVIOUS
  <1>1. \A p \in Procs : pc[p] = "idle" /\ at[p] = 1 /\ sq[p] = NoSeq  BY DEF Init
  <1>2. seq = NoSeq /\ camp.sent = 0 /\ seq.idx = 0 /\ seq.ver = 0  BY DEF Init, NoSeq
  <1>3. \A s \in Steps : row[s] # NoRow => s = 1  BY DEF Init
  <1>4. \A s \in Steps : delivered[s] = 0  BY DEF Init
  <1>5. \A p \in Procs : Spends(p)
    BY <1>1 DEF Spends, UnclaimedPoints, ClaimedPoints, AcceptorPoints
  <1>6. SeqSound  BY <1>1, <1>2, <1>3, NumStepsAssumption DEF SeqSound, Steps
  <1>7. OneAcceptor /\ CampSound /\ WithinBudget
    BY <1>1, <1>2, <1>4, NumStepsAssumption
    DEF OneAcceptor, CampSound, WithinBudget, AcceptorPoints, Steps
  <1> QED  BY <1>5, <1>6, <1>7 DEF ProgressSound

LEMMA ProgressIdle ==
  ASSUME TypeOK, ProgressSound, UNCHANGED <<row, seq, camp, delivered, pc, at, snap, sq, cp>>
  PROVE  ProgressSound'
  BY DEF ProgressSound, SeqSound, OneAcceptor, CampSound, Spends, WithinBudget, Fresh, Positive

LEMMA ProgressNext ==
  ASSUME TypeOK, TypeOK', RecordsSound, RecordsSound', ProgressSound, [Next]_vars
  PROVE  ProgressSound'
  <1>1. ASSUME NEW p \in Procs, Start(p) PROVE ProgressSound'  BY <1>1, ProgressStart
  <1>2. ASSUME NEW p \in Procs, SendStep(p) PROVE ProgressSound'
    BY <1>2, ProgressLoads, ProgressGates, ProgressSubmission, ProgressSaves, ProgressRest,
       ProgressSpend, ProgressAdvance
    DEF SendStep
  <1>3. ASSUME NEW p \in Procs, OtherStep(p) PROVE ProgressSound'
    BY <1>3, ProgressSaves, ProgressRest, ProgressDraft DEF OtherStep
  <1>4. ASSUME NEW p \in Procs, Crash(p) PROVE ProgressSound'  BY <1>4, ProgressRest
  <1>5. CASE Environment
    BY <1>5, ProgressIdle DEF Environment, Approve, Disapprove, RemoveFromAllowlist, OptOut, db
  <1>6. CASE UNCHANGED vars  BY <1>6, ProgressIdle DEF vars
  <1> QED  BY <1>1, <1>2, <1>3, <1>4, <1>5, <1>6 DEF Next

\* The sequence's position and the campaign's spend count recorded acceptances, one step
\* at a time, and no step beyond the budget is submitted, under every operation and fault.
THEOREM ProgressHolds == Spec => []ProgressSound
  <1>1. /\ TypeOK /\ TypeOK' /\ RecordsSound /\ RecordsSound' /\ ProgressSound /\ [Next]_vars
        => ProgressSound'
    BY ProgressNext
  <1> QED  BY <1>1, ProgressInit, RecordsHold, TypeCorrect, PTL DEF Spec
-----------------------------------------------------------------------------
(* With the claim: the send path implements SendLedger, within the budget.   *)

\* Deliveries and the sequence change in steps that write no row.
LEMMA CountWriters ==
  ASSUME [Next]_vars, <<seq, delivered>>' # <<seq, delivered>>
  PROVE  \E p \in Procs :
           \/ ProviderSend(p) /\ UNCHANGED <<row, seq>>
           \/ SaveSequence(p) /\ UNCHANGED <<row, delivered>>
           \/ LinkSave(p) /\ UNCHANGED <<row, delivered>>
  <1>1. ASSUME NEW p \in Procs, Start(p) PROVE FALSE
    BY <1>1 DEF Start, LoadExecution, ReconcileLoad, RespondLoad, ExpireLoad, PrepareLoad,
       LinkLoad, Load, db
  <1>2. ASSUME NEW p \in Procs, OtherStep(p) PROVE LinkSave(p) /\ UNCHANGED <<row, delivered>>
    BY <1>2 DEF OtherStep, PrepareFind, PrepareSave, ReconcileSave, ReconcileKey, RespondSave,
       ExpireSave, LinkSave, SaveOrThrow, db
  <1>3. ASSUME NEW p \in Procs, SendStep(p)
        PROVE  \/ ProviderSend(p) /\ UNCHANGED <<row, seq>>
               \/ SaveSequence(p) /\ UNCHANGED <<row, delivered>>
    <2>1. CASE \/ LoadSequence(p) \/ LoadCampaign(p) \/ RecipientUnavailable(p)
               \/ GateAllowlist(p) \/ GateSuppression(p) \/ GateApproval(p)
               \/ GateRateLimit(p) \/ GateClaim(p) \/ SelectProvider(p)
      BY <2>1 DEF LoadSequence, LoadCampaign, RecipientUnavailable, GateAllowlist,
         GateSuppression, GateApproval, GateRateLimit, GateClaim, SelectProvider, Gate, db
    <2>2. CASE \/ SaveCampaign(p) \/ MarkCompleted(p) \/ ReloadCampaign(p)
               \/ SaveCompletion(p) \/ ReleaseDenied(p) \/ ReleaseRetry(p)
               \/ DupGet(p) \/ DupLoad(p)
      BY <2>2 DEF SaveCampaign, SaveCampaignThen, MarkCompleted, ReloadCampaign,
         SaveCompletion, ReleaseDenied, ReleaseRetry, MarkIdempotencyFailed, DupGet, DupLoad, db
    <2>3. CASE \/ SaveAttempt(p) \/ SaveAccepted(p) \/ SaveDenied(p) \/ SaveRetry(p)
               \/ SaveUnknown(p) \/ DupSave(p)
      BY <2>3 DEF SaveAttempt, SaveAccepted, SaveDenied, SaveRetry, SaveUnknown, DupSave, SaveThen
    <2>4. CASE ProviderSend(p) \/ SaveSequence(p)  BY <2>4 DEF ProviderSend, SaveSequence, db
    <2> QED  BY <1>3, <2>1, <2>2, <2>3, <2>4 DEF SendStep
  <1>4. ASSUME NEW p \in Procs, Crash(p) PROVE FALSE  BY <1>4 DEF Crash, db
  <1>5. CASE Environment
    BY <1>5 DEF Environment, Approve, Disapprove, RemoveFromAllowlist, OptOut, db
  <1>6. CASE UNCHANGED vars  BY <1>6 DEF vars
  <1> QED  BY <1>1, <1>2, <1>3, <1>4, <1>5, <1>6 DEF Next

Accepted == {s \in Steps : Positive(s)}

\* A save either keeps the accepted steps or records one delivered, unrecorded step.
LEMMA LedgerRecords ==
  ASSUME TypeOK, TypeOK', RecordsSound, AtMostOneDelivery, NEW p \in Procs,
         \/ pc[p] \in SavePoints /\ SaveExecution(p) /\ UNCHANGED <<key, seq, camp, delivered>>
         \/ PrepareSave(p)
  PROVE  /\ UNCHANGED <<seq, delivered>>
         /\ Accepted' = Accepted \/ \E s \in Steps : Ledger!Record(s)
  <1>0. UNCHANGED <<seq, delivered>> /\ at[p] \in Steps  BY DEF PrepareSave, TypeOK
  <1>1. PICK s \in Steps : s = at[p]  BY <1>0
  <1>2. /\ \A r \in Steps : KeptLaw(r) /\ StepSound(r)'
        /\ \A r \in Steps : r # s => row'[r] = row[r]
    <2>1. CASE PrepareSave(p)  BY <1>1, <2>1, PrepareKept
    <2>2. CASE pc[p] \in SavePoints /\ SaveExecution(p) /\ UNCHANGED <<key, seq, camp, delivered>>
      BY <1>1, <2>2, SaveKept
    <2> QED  BY <2>1, <2>2
  <1>3. \A r \in Steps : r # s => (Positive(r)' <=> Positive(r))  BY <1>2 DEF Positive
  <1>4. Positive(s) => Positive(s)'  BY <1>2 DEF KeptLaw
  <1>5. CASE Positive(s)' <=> Positive(s)
    <2>1. Accepted' = Accepted  BY <1>3, <1>5 DEF Accepted, Steps
    <2> QED  BY <1>0, <2>1
  <1>6. CASE Positive(s)' /\ ~Positive(s)
    <2>1. delivered[s] = 1
      BY <1>0, <1>2, <1>6 DEF StepSound, AtMostOneDelivery, TypeOK
    <2>2. Accepted' = Accepted \cup {s} /\ s \notin Accepted
      BY <1>3, <1>6 DEF Accepted, Steps
    <2>3. Ledger!Record(s)  BY <1>0, <2>1, <2>2 DEF Ledger!Record, Accepted
    <2> QED  BY <1>0, <2>3
  <1> QED  BY <1>4, <1>5, <1>6

\* A submission is the ledger's, because the call that submits holds the claim.
LEMMA LedgerSubmits ==
  ASSUME TypeOK, TypeOK', ClaimProtectsSend, NEW p \in Procs, ProviderSend(p),
         UNCHANGED <<row, seq>>
  PROVE  \/ UNCHANGED delivered
         \/ \E s \in Steps : Ledger!Submit(s)
  <1>1. at[p] \in Steps /\ delivered[at[p]] = 0
    BY DEF TypeOK, ClaimProtectsSend, OneSender, MaySend, ProviderSend
  <1>2. delivered' = delivered \/ delivered' = [delivered EXCEPT ![at[p]] = 1]
    BY <1>1 DEF ProviderSend
  <1>3. UNCHANGED {s \in Steps : Positive(s)}  BY DEF Positive, Steps
  <1> QED  BY <1>1, <1>2, <1>3 DEF Ledger!Submit

LEMMA LedgerInit == Init => Ledger!Init
  <1> SUFFICES ASSUME Init PROVE Ledger!Init  OBVIOUS
  <1>1. DraftedRow.st = "PENDING_APPROVAL"  BY DraftStatus DEF DraftedRow, Stored
  <1>2. \A s \in Steps : ~Positive(s)
    BY <1>1 DEF Init, Positive, NoRow, PositiveStatuses
  <1> QED  BY <1>2 DEF Init, Ledger!Init, Steps

\* Every step of the send path is a step of the ledger, or none.
LEMMA LedgerNext ==
  ASSUME TypeOK, TypeOK', RecordsSound, ProgressSound, ClaimProtectsSend, [Next]_vars
  PROVE  [Ledger!Next]_<<delivered, {s \in Steps : Positive(s)}, seq.idx>>
  <1>0. AtMostOneDelivery  BY DEF ClaimProtectsSend
  <1>1. CASE row' # row
    <2>1. PICK p \in Procs :
            \/ pc[p] \in SavePoints /\ SaveExecution(p) /\ UNCHANGED <<key, seq, camp, delivered>>
            \/ PrepareSave(p)
      BY <1>1, RowWriters
    <2>2. /\ UNCHANGED <<seq, delivered>>
          /\ Accepted' = Accepted \/ \E s \in Steps : Ledger!Record(s)
      BY <1>0, <2>1, LedgerRecords
    <2> QED  BY <2>2 DEF Accepted, Ledger!Next, Steps
  <1>2. CASE row' = row
    <2>0. UNCHANGED {s \in Steps : Positive(s)}  BY <1>2 DEF Positive, Steps
    <2>1. CASE UNCHANGED <<seq, delivered>>  BY <2>0, <2>1
    <2>2. CASE <<seq, delivered>>' # <<seq, delivered>>
      <3>1. PICK p \in Procs :
              \/ ProviderSend(p) /\ UNCHANGED <<row, seq>>
              \/ SaveSequence(p) /\ UNCHANGED <<row, delivered>>
              \/ LinkSave(p) /\ UNCHANGED <<row, delivered>>
        BY <2>2, CountWriters
      <3>2. CASE ProviderSend(p) /\ UNCHANGED <<row, seq>>
        <4>1. UNCHANGED delivered \/ \E s \in Steps : Ledger!Submit(s)  BY <3>2, LedgerSubmits
        <4> QED  BY <2>0, <3>2, <4>1 DEF Ledger!Next, Steps
      <3>3. CASE SaveSequence(p) /\ UNCHANGED <<row, delivered>>
        <4>1. seq' = seq \/ (seq'.idx = seq.idx + 1 /\ at[p] = seq.idx + 1 /\ Positive(at[p]))
          BY <3>3, ProgressAdvance
        <4>2. at[p] \in Steps  BY DEF TypeOK
        <4>3. seq' = seq \/ Ledger!Advance  BY <2>0, <3>3, <4>1, <4>2 DEF Ledger!Advance
        <4> QED  BY <2>0, <3>3, <4>3 DEF Ledger!Next
      <3>4. CASE LinkSave(p) /\ UNCHANGED <<row, delivered>>
        <4>1. sq[p] \in SeqCopies /\ (sq[p].ver = seq.ver => sq[p] = seq)
          BY DEF TypeOK, ProgressSound, SeqSound
        <4>2. [sq[p] EXCEPT !.ver = sq[p].ver + 1].idx = sq[p].idx  BY <4>1 DEF SeqCopies
        <4>3. seq'.idx = seq.idx  BY <3>4, <4>1, <4>2 DEF LinkSave
        <4> QED  BY <2>0, <3>4, <4>3
      <3> QED  BY <3>1, <3>2, <3>3, <3>4
    <2> QED  BY <2>1, <2>2
  <1> QED  BY <1>1, <1>2

\* Without a rate limit, the send path implements SendLedger: whatever runs, races, fails
\* or dies, a step's message is handed over once, recorded afterwards and for good, and
\* the sequence moves past recorded steps in order.
THEOREM LedgerImplemented ==
  ASSUME "rateLimit" \notin Faults
  PROVE  Spec => LedgerSpec
  <1>1. /\ TypeOK /\ TypeOK' /\ RecordsSound /\ ProgressSound /\ ClaimProtectsSend /\ [Next]_vars
        => [Ledger!Next]_<<delivered, {s \in Steps : Positive(s)}, seq.idx>>
    BY LedgerNext
  <1>2. Spec => []ClaimProtectsSend  BY ClaimHolds
  <1> QED  BY <1>1, <1>2, LedgerInit, RecordsHold, ProgressHolds, TypeCorrect, PTL
           DEF Spec, LedgerSpec, Ledger!Spec

\* Without a rate limit, the recipients of a campaign never get more messages than its
\* maxSendCount: no step beyond the budget is submitted, and none twice.
THEOREM BudgetHolds ==
  ASSUME "rateLimit" \notin Faults
  PROVE  Spec => []BudgetNeverExceeded
  <1>1. TypeOK /\ ProgressSound /\ AtMostOneDelivery => BudgetNeverExceeded
    <2> SUFFICES ASSUME TypeOK, ProgressSound, AtMostOneDelivery PROVE BudgetNeverExceeded
      OBVIOUS
    <2>1. IsFiniteSet(Steps)  BY NumStepsAssumption, FS_Interval DEF Steps
    <2>2. IsFiniteSet(1..MaxSendCount) /\ Cardinality(1..MaxSendCount) = MaxSendCount
      BY MaxSendCountAssumption, FS_Interval
    <2>3. \A s \in Steps : delivered[s] \in Nat /\ delivered[s] <= 1
      BY DEF TypeOK, AtMostOneDelivery
    <2>4. \A s \in Steps : delivered[s] > 0 => s \in 1..MaxSendCount
      BY MaxSendCountAssumption DEF ProgressSound, WithinBudget, Steps
    <2>5. Total(delivered, Steps) <= Cardinality(1..MaxSendCount)
      BY <2>1, <2>2, <2>3, <2>4, TotalBound
    <2>6. BudgetNeverExceeded <=> Total(delivered, Steps) <= MaxSendCount
      BY DEF BudgetNeverExceeded, MapThenSumSet, MapThenFoldSet, Total
    <2> QED  BY <2>2, <2>5, <2>6
  <1>2. Spec => []AtMostOneDelivery  BY NoDuplicateDelivery
  <1> QED  BY <1>1, <1>2, ProgressHolds, TypeCorrect, PTL

-----------------------------------------------------------------------------
(* FailureSound: what is recorded as refused before its submission was not   *)
(* sent, when no approval, allowlist entry or consent is taken away and no   *)
(* rate limit applies.                                                       *)

PastApproval == {"rateLimit", "claim", "selectProvider", "saveAttempt", "providerSend", "saveRetry"}
SubmittedPoints == {"providerSend", "saveRetry", "releaseRetry"}

\* The row shows that a send has begun, or more.
Begun(s) == row[s].st = "SENDING" \/ Settled(s)

\* The step's claim is taken, and its owner will neither send nor give it back.
Spent(s) ==
  /\ delivered[s] = 0 /\ ~Claimable(key[s])
  /\ \A q \in Procs : at[q] = s => ~MaySend(q)

\* A denial that still holds its row refuses a send nobody began, nobody may begin, or
\* nobody goes on with.
DenialHarmless(p) ==
  pc[p] = "saveDenied" /\ Fresh(p) =>
    row[at[p]].st # "SENDING" \/ at[p] > MaxSendCount \/ Spent(at[p])

CallRefuses(p) ==
  /\ pc[p] \in PastApproval => approval[at[p]] = "APPROVED"
  /\ pc[p] \in SubmittedPoints => Begun(at[p])
  /\ pc[p] \in {"saveUnknown", "expireSave"} => snap[p].st \in SettledStatuses
  /\ pc[p] = "dupSave" /\ Fresh(p) /\ row[at[p]].st = "SENDING" => snap[p].st \in SettledStatuses
  /\ DenialHarmless(p)

RefusedUnsent(s) ==
  row[s].st = "FAILED_PRE_SUBMISSION" =>
    delivered[s] = 0 /\ \A p \in Procs : at[p] = s => pc[p] # "providerSend"

ApprovalsHeld ==
  /\ allowed /\ ~suppressed
  /\ \A s \in Steps : approval[s] \in {"PENDING", "APPROVED"}
  /\ \A s \in Steps : row[s].st = "SENDING" => approval[s] = "APPROVED"

FailureSound ==
  /\ ApprovalsHeld
  /\ \A p \in Procs : CallRefuses(p)
  /\ \A s \in Steps : RefusedUnsent(s) /\ (delivered[s] > 0 => Begun(s))

\* A step is one call's, which leaves the environment alone, or the environment's.
LEMMA OneMoves ==
  ASSUME TypeOK, [Next]_vars, "deny" \notin Faults
  PROVE  \/ \E p \in Procs :
              (Start(p) \/ SendStep(p) \/ OtherStep(p) \/ Crash(p)) /\ Alone(p) /\ UNCHANGED env
         \/ /\ UNCHANGED <<row, key, seq, camp, delivered, pc, at, snap, sq, cp, view>>
            /\ UNCHANGED <<allowed, suppressed>>
            /\ \A s \in Steps : approval'[s] \in {approval[s], "APPROVED"}
  <1>0. Locals  BY LocalsType
  <1>1. ASSUME NEW p \in Procs, Start(p) PROVE UNCHANGED env
    BY <1>1 DEF Start, LoadExecution, ReconcileLoad, RespondLoad, ExpireLoad, PrepareLoad,
       LinkLoad, Load
  <1>2. ASSUME NEW p \in Procs, OtherStep(p) PROVE UNCHANGED env
    BY <1>2 DEF OtherStep, PrepareFind, PrepareSave, ReconcileSave, ReconcileKey, RespondSave,
       ExpireSave, LinkSave, SaveOrThrow
  <1>3. ASSUME NEW p \in Procs, SendStep(p) PROVE UNCHANGED env
    <2>1. CASE \/ LoadSequence(p) \/ LoadCampaign(p) \/ RecipientUnavailable(p)
               \/ GateAllowlist(p) \/ GateSuppression(p) \/ GateApproval(p)
               \/ GateRateLimit(p) \/ GateClaim(p) \/ SelectProvider(p) \/ ProviderSend(p)
      BY <2>1 DEF LoadSequence, LoadCampaign, RecipientUnavailable, GateAllowlist,
         GateSuppression, GateApproval, GateRateLimit, GateClaim, SelectProvider, ProviderSend, Gate
    <2>2. CASE \/ SaveCampaign(p) \/ MarkCompleted(p) \/ ReloadCampaign(p) \/ SaveSequence(p)
               \/ SaveCompletion(p) \/ ReleaseDenied(p) \/ ReleaseRetry(p)
               \/ DupGet(p) \/ DupLoad(p)
      BY <2>2 DEF SaveCampaign, SaveCampaignThen, MarkCompleted, ReloadCampaign, SaveSequence,
         SaveCompletion, ReleaseDenied, ReleaseRetry, MarkIdempotencyFailed, DupGet, DupLoad
    <2>3. CASE \/ SaveAttempt(p) \/ SaveAccepted(p) \/ SaveDenied(p) \/ SaveRetry(p)
               \/ SaveUnknown(p) \/ DupSave(p)
      BY <2>3 DEF SaveAttempt, SaveAccepted, SaveDenied, SaveRetry, SaveUnknown, DupSave, SaveThen
    <2> QED  BY <1>3, <2>1, <2>2, <2>3 DEF SendStep
  <1>4. ASSUME NEW p \in Procs, Crash(p) PROVE UNCHANGED env  BY <1>4 DEF Crash
  <1>5. CASE Environment
    BY <1>5 DEF Environment, Approve, Disapprove, RemoveFromAllowlist, OptOut, db, TypeOK
  <1>6. CASE UNCHANGED vars  BY <1>6 DEF vars, env, db, TypeOK
  <1> QED  BY <1>0, <1>1, <1>2, <1>3, <1>4, <1>5, <1>6, CallAlone DEF Next

\* Who may send, and how a record becomes free again.
LEMMA SenderCame ==
  ASSUME TypeOK, TypeOK', RecordsSound, "rateLimit" \notin Faults, NEW p \in Procs,
         Start(p) \/ SendStep(p) \/ OtherStep(p) \/ Crash(p), MaySend(p)'
  PROVE  /\ at'[p] = at[p]
         /\ MaySend(p) \/ Claimable(key[at[p]])
  <1>0. Locals /\ Alone(p) /\ CallKnows(p) /\ snap[p] \in Copies
    BY LocalsType, CallAlone DEF RecordsSound, TypeOK
  <1>1. pc'[p] \in {"selectProvider", "saveAttempt"} \cup SubmittedPoints
    BY DEF MaySend, SubmittedPoints
  <1>2. CASE Start(p)
    BY <1>0, <1>1, <1>2 DEF Locals, Start, LoadExecution, ReconcileLoad, RespondLoad, ExpireLoad,
       PrepareLoad, LinkLoad, Load, Goto, SubmittedPoints
  <1>3. CASE OtherStep(p)
    BY <1>0, <1>1, <1>3, FinishAlone DEF Locals, OtherStep, PrepareFind, PrepareSave,
       ReconcileSave, ReconcileKey, RespondSave, ExpireSave, LinkSave, SaveOrThrow, Goto,
       SubmittedPoints
  <1>4. CASE Crash(p)  BY <1>0, <1>1, <1>4, FinishAlone DEF Crash, SubmittedPoints
  <1>5. CASE \/ LoadSequence(p) \/ LoadCampaign(p) \/ RecipientUnavailable(p)
             \/ GateAllowlist(p) \/ GateSuppression(p) \/ GateApproval(p) \/ GateRateLimit(p)
    BY <1>0, <1>1, <1>5, FinishAlone DEF Locals, LoadSequence, LoadCampaign,
       RecipientUnavailable, GateAllowlist, GateSuppression, GateApproval, GateRateLimit, Gate,
       Deny, Goto, ResultOf, SubmittedPoints
  <1>6. CASE \/ SaveAccepted(p) \/ SaveCampaign(p) \/ MarkCompleted(p)
             \/ ReloadCampaign(p) \/ SaveSequence(p) \/ SaveCompletion(p)
             \/ SaveDenied(p) \/ ReleaseDenied(p) \/ ReleaseRetry(p)
             \/ SaveUnknown(p) \/ DupGet(p) \/ DupLoad(p) \/ DupSave(p)
    BY <1>0, <1>1, <1>6, FinishAlone DEF Locals, SaveAccepted, SaveCampaign, MarkCompleted,
       ReloadCampaign, SaveSequence, SaveCompletion, SaveDenied, ReleaseDenied, ReleaseRetry,
       SaveUnknown, DupGet, DupLoad, DupSave, SaveThen, SaveCampaignThen, MarkIdempotencyFailed,
       Goto, ResultOf, SubmittedPoints
  <1>7. CASE GateClaim(p)
    BY <1>0, <1>1, <1>7 DEF Locals, GateClaim, Deny, Goto, SubmittedPoints
  <1>8. CASE SelectProvider(p) \/ ProviderSend(p) \/ SaveRetry(p)
    BY <1>0, <1>1, <1>8 DEF Locals, SelectProvider, ProviderSend, SaveRetry, SaveThen, Deny, Goto,
       MaySend, SubmittedPoints, Fresh, db
  <1>9. CASE SaveAttempt(p)
    <2>1. pc[p] = "saveAttempt" /\ at'[p] = at[p] /\ Current(p)
      BY <1>0, <1>1, <1>9 DEF Locals, SaveAttempt, SaveThen, Goto, SubmittedPoints
    <2> QED  BY <2>1 DEF MaySend, Current, CanCommit, Fresh
  <1> QED  BY <1>2, <1>3, <1>4, <1>5, <1>6, <1>7, <1>8, <1>9 DEF SendStep

LEMMA KeyFreed ==
  ASSUME TypeOK, TypeOK', [Next]_vars, NEW s \in Steps, ~Claimable(key[s]), Claimable(key'[s])
  PROVE  \E p \in Procs : at[p] = s /\ pc[p] \in {"releaseDenied", "releaseRetry"}
  <1>1. ASSUME NEW p \in Procs, Start(p) PROVE FALSE
    BY <1>1 DEF Start, LoadExecution, ReconcileLoad, RespondLoad, ExpireLoad, PrepareLoad,
       LinkLoad, Load, db
  <1>2. ASSUME NEW p \in Procs, OtherStep(p) PROVE FALSE
    BY <1>2 DEF OtherStep, PrepareFind, PrepareSave, ReconcileSave, ReconcileKey, RespondSave,
       ExpireSave, LinkSave, SaveOrThrow, db, Claimable, TypeOK
  <1>3. ASSUME NEW p \in Procs, SendStep(p)
        PROVE  at[p] = s /\ pc[p] \in {"releaseDenied", "releaseRetry"}
    <2>1. CASE \/ LoadSequence(p) \/ LoadCampaign(p) \/ RecipientUnavailable(p)
               \/ GateAllowlist(p) \/ GateSuppression(p) \/ GateApproval(p)
               \/ GateRateLimit(p) \/ SelectProvider(p) \/ ProviderSend(p)
      BY <2>1 DEF LoadSequence, LoadCampaign, RecipientUnavailable, GateAllowlist,
         GateSuppression, GateApproval, GateRateLimit, SelectProvider, ProviderSend, Gate, db
    <2>2. CASE \/ SaveCampaign(p) \/ ReloadCampaign(p) \/ SaveSequence(p)
               \/ SaveCompletion(p) \/ DupGet(p) \/ DupLoad(p)
      BY <2>2 DEF SaveCampaign, SaveCampaignThen, ReloadCampaign, SaveSequence, SaveCompletion,
         DupGet, DupLoad, db
    <2>3. CASE \/ SaveAttempt(p) \/ SaveAccepted(p) \/ SaveDenied(p) \/ SaveRetry(p)
               \/ SaveUnknown(p) \/ DupSave(p)
      BY <2>3 DEF SaveAttempt, SaveAccepted, SaveDenied, SaveRetry, SaveUnknown, DupSave, SaveThen
    <2>4. CASE GateClaim(p) \/ MarkCompleted(p) \/ ReleaseDenied(p) \/ ReleaseRetry(p)
      BY <2>4 DEF GateClaim, MarkCompleted, ReleaseDenied, ReleaseRetry, MarkIdempotencyFailed,
         Claim, Claimable, TypeOK
    <2> QED  BY <1>3, <2>1, <2>2, <2>3, <2>4 DEF SendStep
  <1>4. ASSUME NEW p \in Procs, Crash(p) PROVE FALSE  BY <1>4 DEF Crash, db
  <1>5. CASE Environment
    BY <1>5 DEF Environment, Approve, Disapprove, RemoveFromAllowlist, OptOut, db
  <1>6. CASE UNCHANGED vars  BY <1>6 DEF vars
  <1> QED  BY <1>1, <1>2, <1>3, <1>4, <1>5, <1>6 DEF Next

LEMMA SpentStays ==
  ASSUME TypeOK, TypeOK', RecordsSound, ClaimProtectsSend, [Next]_vars, "rateLimit" \notin Faults,
         NEW p \in Procs, Start(p) \/ SendStep(p) \/ OtherStep(p) \/ Crash(p), Alone(p),
         NEW s \in Steps, Spent(s), ~Settled(s), row'[s] = row[s]
  PROVE  Spent(s)'
  <1>1. delivered'[s] = 0
    <2>1. CASE delivered' = delivered  BY <2>1 DEF Spent
    <2>2. ASSUME NEW q \in Procs, ProviderSend(q) PROVE delivered'[s] = 0
      <3>1. MaySend(q)  BY <2>2 DEF ProviderSend, MaySend
      <3>2. at[q] # s  BY <3>1 DEF Spent
      <3> QED  BY <2>2, <3>2 DEF ProviderSend, Spent, TypeOK
    <2> QED  BY <2>1, <2>2, CountWriters
  <1>2. ~Claimable(key'[s])
    <2> SUFFICES ASSUME Claimable(key'[s]) PROVE FALSE  OBVIOUS
    <2>1. PICK q \in Procs : at[q] = s /\ pc[q] \in {"releaseDenied", "releaseRetry"}
      BY KeyFreed DEF Spent
    <2>2. pc[q] # "releaseRetry"  BY <2>1 DEF Spent, MaySend
    <2> QED  BY <2>1, <2>2 DEF ClaimProtectsSend, CopyAgrees
  <1>3. ASSUME NEW q \in Procs, at'[q] = s, MaySend(q)' PROVE FALSE
    <2>1. CASE q = p  BY <1>3, <2>1, SenderCame DEF Spent
    <2>2. CASE q # p
      BY <1>3, <2>2 DEF Alone, Spent, MaySend, Fresh
    <2> QED  BY <2>1, <2>2
  <1> QED  BY <1>1, <1>2, <1>3 DEF Spent

\* What a save or a new draft may do to a row that shows a send.
LEMMA BegunKept ==
  ASSUME TypeOK, TypeOK', RecordsSound, FailureSound, [Next]_vars, NEW s \in Steps
  PROVE  /\ Begun(s) => Begun(s)'
         /\ row'[s].st = "SENDING" =>
              \/ row[s].st = "SENDING"
              \/ \E p \in Procs : at[p] = s /\ pc[p] \in PastApproval
         /\ row'[s].st = "FAILED_PRE_SUBMISSION" =>
              \/ row[s].st = "FAILED_PRE_SUBMISSION"
              \/ \E p \in Procs : at[p] = s /\ pc[p] = "saveDenied" /\ Fresh(p)
  <1>1. CASE row'[s] = row[s]  BY <1>1 DEF Begun, Settled
  <1>2. ASSUME NEW p \in Procs, PrepareSave(p), row'[s] # row[s]
        PROVE  ~Begun(s) /\ row'[s].st \notin {"SENDING", "FAILED_PRE_SUBMISSION"}
    <2>1. row[s] = NoRow /\ s = at[p]  BY <1>2, PrepareKept
    <2>2. row'[s] = Stored(snap[p])  BY <1>2, <2>1 DEF PrepareSave, TypeOK
    <2>3. snap[p].st \notin {"SENDING", "FAILED_PRE_SUBMISSION"}
      BY <1>2 DEF PrepareSave, RecordsSound, CallKnows, CopyKnows
    <2> QED  BY <2>1, <2>2, <2>3
             DEF Stored, Begun, Settled, NoRow, SettledStatuses, PositiveStatuses, FailureStatuses
  <1>3. ASSUME NEW p \in Procs, pc[p] \in SavePoints \ EarlyGates, SaveExecution(p),
               UNCHANGED <<key, seq, camp, delivered>>, row'[s] # row[s]
        PROVE  /\ Begun(s) => row'[s].st \in SettledStatuses \cup {"SENDING"}
               /\ row'[s].st = "SENDING" => at[p] = s /\ pc[p] \in PastApproval
               /\ row'[s].st = "FAILED_PRE_SUBMISSION" =>
                    at[p] = s /\ pc[p] = "saveDenied" /\ Fresh(p)
    <2>1. s = at[p] /\ Fresh(p) /\ row'[s].st = snap[p].st
      <3>1. s = at[p] /\ Current(p) /\ (Current(p) <=> Fresh(p)) /\ row'[at[p]] = Stored(snap[p])
        BY <1>3, SaveKept
      <3> QED  BY <3>1 DEF Stored
    <2>2. CallKnows(p) /\ CallRefuses(p) /\ pc[p] \in CopyPoints /\ snap[p] \in Copies
          /\ row[s] \in Rows /\ row'[s] \in Rows
      BY <1>3 DEF RecordsSound, FailureSound, SavePoints, CopyPoints, TypeOK
    <2>3. snap[p].ver # snap[p].loaded
      <3> SUFFICES ASSUME snap[p].ver = snap[p].loaded PROVE FALSE  OBVIOUS
      <3>1. snap[p].st = row[s].st /\ snap[p].ver = row[s].ver
        BY <2>1, <2>2 DEF CallKnows, CopyTrails, Fresh
      <3>2. row'[s] = Stored(snap[p])  BY <1>3, <2>1, SaveKept
      <3> QED  BY <1>3, <2>2, <3>1, <3>2 DEF Stored, Rows
    <2>4. CASE pc[p] \in GatePoints \cup {"providerSend", "saveRetry"}
      <3>1. snap[p].st = "SENDING"  BY <2>2, <2>4 DEF CallKnows, CopyKnows
      <3>2. CASE pc[p] \in PastApproval  BY <2>1, <3>1, <3>2
      <3>3. CASE pc[p] \notin PastApproval
        BY <1>3, <2>4, <3>3 DEF PastApproval, EarlyGates, SavePoints, SendingPoints, GatePoints
      <3> QED  BY <3>2, <3>3
    <2>5. CASE pc[p] = "saveAccepted"
      BY <2>1, <2>2, <2>5 DEF CallKnows, CopyKnows, SettledStatuses, PositiveStatuses
    <2>6. CASE pc[p] = "saveDenied"
      BY <2>1, <2>2, <2>6 DEF CallKnows, CopyKnows, SettledStatuses, FailureStatuses
    <2>7. CASE pc[p] \in {"saveUnknown", "expireSave"}
      BY <2>1, <2>2, <2>7 DEF CallKnows, CopyKnows, CallRefuses
    <2>8. CASE pc[p] = "dupSave"
      <3>1. ~Settled(s)
        BY <2>1, <2>2, <2>8 DEF CallKnows, FreshKnows, SendingPoints
      <3> QED  BY <2>1, <2>2, <2>8, <3>1 DEF CallKnows, CopyKnows, CallRefuses, Begun
    <2>9. CASE pc[p] = "reconcileSave"
      BY <2>1, <2>2, <2>9
      DEF CallKnows, CopyKnows, SettledStatuses, PositiveStatuses, FailureStatuses
    <2>10. CASE pc[p] = "respondSave"
      BY <2>1, <2>2, <2>3, <2>10
      DEF CallKnows, FreshKnows, SettledStatuses, PositiveStatuses
    <2> QED  BY <1>3, <2>4, <2>5, <2>6, <2>7, <2>8, <2>9, <2>10 DEF SavePoints, SendingPoints
  <1> QED  BY <1>1, <1>2, <1>3, RowWriters DEF Begun, Settled

\* A copy that is fresh after another call's step was fresh, of the same row, before.
LEMMA StillFresh ==
  ASSUME TypeOK, TypeOK', NEW q \in Procs, CallKnows(q), pc[q] \in CopyPoints, KeptLaw(at[q]),
         at'[q] = at[q], snap'[q] = snap[q], Fresh(q)'
  PROVE  Fresh(q) /\ row'[at[q]] = row[at[q]]
  <1>1. /\ row[at[q]].ver \in Nat /\ row'[at[q]].ver \in Nat /\ snap[q].loaded \in Nat
    BY DEF TypeOK, Rows, Copies
  <1>2. snap[q].loaded <= row[at[q]].ver  BY DEF CallKnows, CopyTrails
  <1> QED  BY <1>1, <1>2 DEF KeptLaw, RowLaw, Fresh

LEMMA OthersRefuse ==
  ASSUME TypeOK, TypeOK', NEW q \in Procs, CallKnows(q), CallRefuses(q), KeptLaw(at[q]),
         pc'[q] = pc[q], at'[q] = at[q], snap'[q] = snap[q],
         Begun(at[q]) => Begun(at[q])', approval'[at[q]] \in {approval[at[q]], "APPROVED"},
         Spent(at[q]) /\ ~Settled(at[q]) /\ row'[at[q]] = row[at[q]] => Spent(at[q])'
  PROVE  CallRefuses(q)'
  <1>1. pc[q] \in {"dupSave", "saveDenied"} => pc[q] \in CopyPoints /\ pc[q] \in SendingPoints
    BY DEF CopyPoints, SendingPoints
  <1>2. DenialHarmless(q)'
    <2> SUFFICES ASSUME pc[q] = "saveDenied", Fresh(q)'
                 PROVE  \/ row'[at[q]].st # "SENDING" \/ at[q] > MaxSendCount \/ Spent(at[q])'
      BY DEF DenialHarmless
    <2>1. Fresh(q) /\ row'[at[q]] = row[at[q]]  BY <1>1, StillFresh
    <2>2. ~Settled(at[q])  BY <1>1, <2>1 DEF CallKnows, FreshKnows
    <2> QED  BY <2>1, <2>2 DEF CallRefuses, DenialHarmless
  <1>3. pc[q] = "dupSave" /\ Fresh(q)' => Fresh(q) /\ row'[at[q]] = row[at[q]]
    BY <1>1, StillFresh
  <1> QED  BY <1>2, <1>3 DEF CallRefuses

LEMMA AwayRefuses ==
  ASSUME NEW p \in Procs,
         pc'[p] \notin PastApproval \cup SubmittedPoints
                         \cup {"saveUnknown", "expireSave", "dupSave", "saveDenied"}
  PROVE  CallRefuses(p)'
  BY DEF CallRefuses, DenialHarmless

\* A call on its way to the provider, past the approval.
LEMMA PastRefuses ==
  ASSUME NEW p \in Procs, pc'[p] \in PastApproval, approval'[at'[p]] = "APPROVED",
         pc'[p] \in SubmittedPoints => Begun(at[p])'
  PROVE  CallRefuses(p)'
  BY DEF CallRefuses, DenialHarmless, PastApproval

\* A call that denies its own send, holding the claim or not.
LEMMA DenyRefuses ==
  ASSUME TypeOK, NEW p \in Procs, CallKnows(p), Deny(p), UNCHANGED <<row, at>>,
         pc[p] \in GatePoints \cup {"providerSend"},
         Fresh(p) => row[at[p]].st # "SENDING" \/ at[p] > MaxSendCount \/ Spent(at[p])'
  PROVE  CallRefuses(p)'
  <1>1. Locals /\ snap[p] \in Copies  BY LocalsType DEF TypeOK
  <1>2. pc'[p] = "saveDenied" /\ snap'[p] = MarkNonRetryable(snap[p])
    BY <1>1 DEF Deny, Goto, Locals
  <1>3. snap'[p].loaded = snap[p].loaded
    BY <1>1, <1>2, SendingMoves DEF CallKnows, CopyKnows, Moves
  <1>4. Fresh(p)' => Fresh(p)  BY <1>3 DEF Fresh
  <1> QED  BY <1>2, <1>4 DEF CallRefuses, DenialHarmless, PastApproval, SubmittedPoints

\* Giving up the right to send leaves the claim spent.
LEMMA OwnerLeaves ==
  ASSUME TypeOK, ClaimProtectsSend, NEW p \in Procs, Alone(p), MaySend(p), ~Settled(at[p]),
         UNCHANGED <<row, key, delivered, at>>, ~MaySend(p)'
  PROVE  Spent(at[p])'
  <1>1. at[p] \in Steps  BY DEF TypeOK
  <1>2. delivered[at[p]] = 0 /\ ~Claimable(key[at[p]])
    BY <1>1 DEF ClaimProtectsSend, OneSender
  <1>3. ASSUME NEW q \in Procs, at'[q] = at[p], MaySend(q)' PROVE FALSE
    <2>1. q # p  BY <1>3
    <2>2. MaySend(q) /\ at[q] = at[p]  BY <1>3, <2>1 DEF Alone, MaySend, Fresh
    <2> QED  BY <2>1, <2>2 DEF ClaimProtectsSend, OneSender
  <1> QED  BY <1>2, <1>3 DEF Spent

LEMMA RefuseStart ==
  ASSUME TypeOK, TypeOK', NEW p \in Procs, Start(p)
  PROVE  CallRefuses(p)'
  <1>0. Locals  BY LocalsType
  <1>1. CASE \E s \in Steps : ExpireLoad(p, s)
    <2>1. PICK s \in Steps : ExpireLoad(p, s)  BY <1>1
    <2>2. pc'[p] = "expireSave" /\ snap'[p] = MarkNonRetryable(Reconstitute(row[s]))
      BY <1>0, <2>1 DEF ExpireLoad, Load, Goto, Locals
    <2>3. Reconstitute(row[s]) \in Copies /\ Reconstitute(row[s]).st = "PENDING_APPROVAL"
      BY <2>1, RowCopyType DEF TypeOK, Reconstitute, ExpireLoad
    <2>4. snap'[p].st = "FAILED"
      BY <2>2, <2>3, TransitionStatus
      DEF MarkNonRetryable, PreSubmission, Transitions, PositiveStatuses
    <2> QED  BY <2>2, <2>4
             DEF CallRefuses, DenialHarmless, PastApproval, SubmittedPoints, SettledStatuses,
                 FailureStatuses
  <1>2. CASE ~ \E s \in Steps : ExpireLoad(p, s)
    <2>1. pc'[p] \in {"loadSequence", "reconcileSave", "respondSave", "findDraft", "linkSave"}
      BY <1>0, <1>2 DEF Start, LoadExecution, ReconcileLoad, RespondLoad, PrepareLoad,
         LinkLoad, Load, Goto, Locals
    <2> QED  BY <2>1, AwayRefuses DEF PastApproval, SubmittedPoints
  <1> QED  BY <1>1, <1>2

LEMMA RefuseGates ==
  ASSUME TypeOK, TypeOK', RecordsSound, ProgressSound, ClaimProtectsSend, FailureSound,
         "rateLimit" \notin Faults, NEW p \in Procs, Alone(p), UNCHANGED env,
         \/ GateAllowlist(p) \/ GateSuppression(p) \/ GateApproval(p)
         \/ GateRateLimit(p) \/ GateClaim(p) \/ SelectProvider(p)
  PROVE  CallRefuses(p)'
  <1>0. /\ Locals /\ CallKnows(p) /\ CallRefuses(p) /\ Spends(p) /\ at[p] \in Steps
        /\ UNCHANGED <<row, delivered, at>>
    BY LocalsType DEF RecordsSound, ProgressSound, FailureSound, TypeOK, GateAllowlist,
       GateSuppression, GateApproval, GateRateLimit, GateClaim, SelectProvider, Gate, db
  <1>1. approval' = approval  BY DEF env
  <1>2. CASE GateAllowlist(p) \/ GateSuppression(p)
    <2>1. pc'[p] \in {"suppression", "approval"}
      BY <1>0, <1>2 DEF GateAllowlist, GateSuppression, Gate, Goto, Locals, FailureSound,
         ApprovalsHeld
    <2> QED  BY <2>1, AwayRefuses DEF PastApproval, SubmittedPoints
  <1>3. CASE GateApproval(p)
    <2>1. CASE approval[at[p]] = "APPROVED"
      <3>1. pc'[p] = "rateLimit"  BY <1>0, <1>3, <2>1 DEF GateApproval, Gate, Goto, Locals
      <3> QED  BY <1>0, <1>1, <2>1, <3>1, PastRefuses DEF PastApproval, SubmittedPoints
    <2>2. CASE approval[at[p]] # "APPROVED"
      <3>1. Deny(p) /\ pc[p] \in GatePoints
        BY <1>3, <2>2 DEF GateApproval, Gate, GatePoints
      <3>2. row[at[p]].st # "SENDING"  BY <1>0, <2>2 DEF FailureSound, ApprovalsHeld
      <3> QED  BY <1>0, <3>1, <3>2, DenyRefuses
    <2> QED  BY <2>1, <2>2
  <1>4. CASE GateRateLimit(p)
    <2>1. pc[p] = "rateLimit" /\ pc'[p] = "claim"
      BY <1>0, <1>4 DEF GateRateLimit, Goto, Locals
    <2> QED  BY <1>0, <1>1, <2>1, PastRefuses DEF CallRefuses, PastApproval, SubmittedPoints
  <1>5. CASE GateClaim(p)
    <2>1. CASE cp[p].sent + 1 > MaxSendCount /\ Deny(p)
      <3>1. pc[p] = "claim"  BY <1>5 DEF GateClaim
      <3>2. Fresh(p) => at[p] > MaxSendCount
        BY <1>0, <2>1, <3>1 DEF Spends, UnclaimedPoints
      <3> QED  BY <1>0, <2>1, <3>1, <3>2, DenyRefuses DEF GatePoints
    <2>2. CASE pc[p] = "claim" /\ pc'[p] = "selectProvider"
      BY <1>0, <1>1, <2>2, PastRefuses DEF CallRefuses, PastApproval, SubmittedPoints
    <2>3. CASE pc'[p] = "dupGet"
      BY <2>3, AwayRefuses DEF PastApproval, SubmittedPoints
    <2> QED  BY <1>0, <1>5, <2>1, <2>2, <2>3 DEF GateClaim, Goto, Locals
  <1>6. CASE SelectProvider(p)
    <2>0. pc[p] = "selectProvider" /\ UNCHANGED key  BY <1>6 DEF SelectProvider, db
    <2>1. CASE Deny(p)
      <3>1. ASSUME Fresh(p) PROVE Spent(at[p])'
        <4>1. ~Settled(at[p])
          BY <1>0, <2>0, <3>1 DEF CallKnows, FreshKnows, CopyPoints, SendingPoints, GatePoints
        <4>2. ~MaySend(p)'  BY <1>0, <2>1 DEF Deny, Goto, Locals, MaySend
        <4> QED  BY <1>0, <2>0, <3>1, <4>1, <4>2, OwnerLeaves DEF MaySend
      <3> QED  BY <1>0, <2>0, <2>1, <3>1, DenyRefuses DEF GatePoints
    <2>2. CASE pc'[p] = "saveAttempt"
      BY <1>0, <1>1, <2>0, <2>2, PastRefuses DEF CallRefuses, PastApproval, SubmittedPoints
    <2> QED  BY <1>0, <1>6, <2>1, <2>2 DEF SelectProvider, Goto, Locals
  <1> QED  BY <1>2, <1>3, <1>4, <1>5, <1>6

LEMMA RefuseSubmission ==
  ASSUME TypeOK, TypeOK', RecordsSound, ClaimProtectsSend, FailureSound,
         NEW p \in Procs, Alone(p), UNCHANGED env, ProviderSend(p)
  PROVE  CallRefuses(p)'
  <1>0. /\ Locals /\ CallKnows(p) /\ CallRefuses(p) /\ at[p] \in Steps /\ snap[p] \in Copies
        /\ UNCHANGED <<row, key, at>> /\ pc[p] = "providerSend" /\ UNCHANGED approval
    BY LocalsType DEF RecordsSound, FailureSound, TypeOK, ProviderSend, db, env
  <1>1. CASE Deny(p) /\ UNCHANGED delivered
    <2>1. ASSUME Fresh(p) PROVE Spent(at[p])'
      <3>1. ~Settled(at[p])
        BY <1>0, <2>1 DEF CallKnows, FreshKnows, CopyPoints, SendingPoints
      <3>2. ~MaySend(p)'  BY <1>0, <1>1 DEF Deny, Goto, Locals, MaySend
      <3> QED  BY <1>0, <1>1, <3>1, <3>2, OwnerLeaves DEF MaySend
    <2> QED  BY <1>0, <1>1, <2>1, DenyRefuses
  <1>2. CASE pc'[p] = "saveRetry"
    <2>1. Begun(at[p])'  BY <1>0 DEF CallRefuses, SubmittedPoints, Begun, Settled
    <2> QED  BY <1>0, <1>2, <2>1, PastRefuses DEF CallRefuses, PastApproval
  <1>3. CASE pc'[p] = "saveAccepted"
    BY <1>3, AwayRefuses DEF PastApproval, SubmittedPoints
  <1>4. CASE pc'[p] = "saveUnknown" /\ snap'[p] = MarkDeliveryUnknown(snap[p])
    <2>1. snap'[p].st = "DELIVERY_UNKNOWN"
      BY <1>0, <1>4, SendingStatus DEF CallKnows, CopyKnows
    <2> QED  BY <1>4, <2>1 DEF CallRefuses, DenialHarmless, PastApproval, SubmittedPoints,
             SettledStatuses, FailureStatuses
  <1> QED  BY <1>0, <1>1, <1>2, <1>3, <1>4 DEF ProviderSend, Goto, Locals

LEMMA RefuseSaves ==
  ASSUME TypeOK, TypeOK', RecordsSound, FailureSound,
         NEW p \in Procs, Alone(p), UNCHANGED env,
         \/ SaveAttempt(p) \/ SaveAccepted(p) \/ SaveDenied(p) \/ SaveRetry(p)
         \/ SaveUnknown(p) \/ DupSave(p) \/ ReconcileSave(p) \/ RespondSave(p) \/ ExpireSave(p)
  PROVE  CallRefuses(p)'
  <1>0. /\ Locals /\ CallKnows(p) /\ CallRefuses(p) /\ at[p] \in Steps /\ snap[p] \in Copies
        /\ pc[p] \in SavePoints /\ SaveExecution(p) /\ UNCHANGED <<key, delivered, at, approval>>
    BY LocalsType
    DEF RecordsSound, FailureSound, TypeOK, env, SaveAttempt, SaveAccepted, SaveDenied, SaveRetry,
        SaveThen, SaveUnknown, DupSave, ReconcileSave, RespondSave, ExpireSave, SaveOrThrow,
        SavePoints, SendingPoints, GatePoints
  <1>1. CASE pc'[p] \in {"completed", "failed", "ok", "threw", "dupGet", "saveCampaign",
                         "releaseDenied", "reconcileKey"}
    BY <1>1, AwayRefuses DEF PastApproval, SubmittedPoints
  <1>2. CASE /\ pc[p] \in {"saveAttempt", "saveRetry"} /\ Current(p)
             /\ pc'[p] \in {"providerSend", "releaseRetry"}
    <2>1. snap[p].st = "SENDING"  BY <1>0, <1>2 DEF CallKnows, CopyKnows, GatePoints
    <2>2. row'[at[p]] = Stored(snap[p])  BY <1>0, <1>2, SaveKept
    <2>3. Begun(at[p])'  BY <1>0, <2>1, <2>2 DEF Stored, Begun
    <2>4. approval'[at'[p]] = "APPROVED"
      BY <1>0, <1>2 DEF CallRefuses, PastApproval
    <2> QED  BY <1>0, <1>2, <2>3, <2>4 DEF CallRefuses, DenialHarmless, PastApproval, SubmittedPoints
  <1>3. CASE SaveAttempt(p) \/ SaveAccepted(p) \/ SaveDenied(p) \/ SaveRetry(p)
    BY <1>0, <1>1, <1>2, <1>3
    DEF SaveAttempt, SaveAccepted, SaveDenied, SaveRetry, SaveThen, Goto, Locals
  <1>4. CASE SaveUnknown(p) \/ DupSave(p) \/ ReconcileSave(p) \/ RespondSave(p) \/ ExpireSave(p)
    BY <1>0, <1>1, <1>4, FinishAlone
    DEF SaveUnknown, DupSave, ReconcileSave, RespondSave, ExpireSave, SaveOrThrow, ResultOf,
        Goto, Locals
  <1> QED  BY <1>3, <1>4

LEMMA RefuseDuplicate ==
  ASSUME TypeOK, TypeOK', RecordsSound, NEW p \in Procs, DupLoad(p)
  PROVE  CallRefuses(p)'
  <1> DEFINE e == Reconstitute(row[at[p]])
  <1>0. Locals /\ CallKnows(p) /\ at[p] \in Steps /\ UNCHANGED <<row, at>> /\ pc[p] = "dupLoad"
    BY LocalsType DEF RecordsSound, TypeOK, DupLoad, db
  <1>1. e \in Copies /\ e.st = row[at[p]].st
    BY <1>0, RowCopyType DEF Reconstitute, TypeOK
  <1>2. CASE pc'[p] \in {"completed", "failed"}
    BY <1>2, AwayRefuses DEF PastApproval, SubmittedPoints
  <1>3. CASE e.st \notin SettledStatuses /\ pc'[p] = "dupSave" /\ snap'[p] = Resolved(e, view[p])
    <2>1. view[p] # "COMPLETED"
      BY <1>0, <1>1, <1>3 DEF CallKnows, AcceptanceKnown, Positive, SettledStatuses
    <2>2. snap'[p] = MarkRequiresReconciliation(e)  BY <1>3, <2>1 DEF Resolved
    <2>3. e.st = "SENDING" => snap'[p].st = "REQUIRES_RECONCILIATION"
      BY <1>1, <2>2, TransitionStatus DEF MarkRequiresReconciliation, Transitions
    <2>4. row'[at'[p]].st = "SENDING" => snap'[p].st \in SettledStatuses
      BY <1>0, <1>1, <2>3 DEF SettledStatuses, FailureStatuses
    <2> QED  BY <1>3, <2>4 DEF CallRefuses, DenialHarmless, PastApproval, SubmittedPoints
  <1> QED  BY <1>0, <1>2, <1>3, FinishAlone DEF DupLoad, ResultOf, Goto, Locals

LEMMA RefuseRest ==
  ASSUME TypeOK, TypeOK', NEW p \in Procs,
         \/ LoadSequence(p) \/ LoadCampaign(p) \/ RecipientUnavailable(p) \/ SaveCampaign(p)
         \/ MarkCompleted(p) \/ ReloadCampaign(p) \/ SaveSequence(p) \/ SaveCompletion(p)
         \/ ReleaseDenied(p) \/ ReleaseRetry(p) \/ DupGet(p) \/ PrepareFind(p) \/ PrepareSave(p)
         \/ ReconcileKey(p) \/ LinkSave(p) \/ Crash(p)
  PROVE  CallRefuses(p)'
  <1>0. Locals  BY LocalsType
  <1>1. pc'[p] \in Results \cup
          {"loadCampaign", "allowlist", "markCompleted", "reloadCampaign", "saveSequence",
           "saveCompletion", "dupGet", "dupLoad", "saveDraft"}
    BY <1>0
    DEF LoadSequence, LoadCampaign, RecipientUnavailable, SaveCampaign, SaveCampaignThen,
        MarkCompleted, ReloadCampaign, SaveSequence, SaveCompletion, ReleaseDenied, ReleaseRetry,
        MarkIdempotencyFailed, DupGet, PrepareFind, PrepareSave, ReconcileKey, LinkSave, Crash,
        Finish, ResultOf, Goto, Locals, Results
  <1> QED  BY <1>1, AwayRefuses DEF PastApproval, SubmittedPoints, Results

\* A row and a message keep what they have in every step.
LEMMA RowsKept ==
  ASSUME TypeOK, TypeOK', RecordsSound, [Next]_vars, NEW s \in Steps
  PROVE  KeptLaw(s)
  <1>1. CASE row' # row
    <2>1. PICK p \in Procs :
            \/ pc[p] \in SavePoints /\ SaveExecution(p) /\ UNCHANGED <<key, seq, camp, delivered>>
            \/ PrepareSave(p)
      BY <1>1, RowWriters
    <2> QED  BY <2>1, SaveKept, PrepareKept
  <1>2. CASE row' = row
    <2>1. delivered'[s] >= delivered[s]
      BY CountWriters DEF ProviderSend, TypeOK
    <2> QED  BY <1>2, <2>1 DEF KeptLaw, RowLaw, Positive
  <1> QED  BY <1>1, <1>2

\* The provider is reached only by the save of an attempt, or was reached before.
LEMMA ProviderReached ==
  ASSUME TypeOK, NEW p \in Procs, Start(p) \/ SendStep(p) \/ OtherStep(p) \/ Crash(p),
         pc'[p] = "providerSend"
  PROVE  SaveAttempt(p) /\ Current(p)
  <1>0. Locals  BY LocalsType
  <1>1. CASE Start(p)
    BY <1>0, <1>1 DEF Locals, Start, LoadExecution, ReconcileLoad, RespondLoad, ExpireLoad,
       PrepareLoad, LinkLoad, Load, Goto
  <1>2. CASE OtherStep(p)
    BY <1>0, <1>2 DEF Locals, OtherStep, PrepareFind, PrepareSave, Finish,
       ReconcileSave, ReconcileKey, RespondSave, ExpireSave, LinkSave, SaveOrThrow, Goto
  <1>3. CASE Crash(p)  BY <1>0, <1>3 DEF Locals, Crash, Finish, Goto
  <1>4. CASE \/ LoadSequence(p) \/ LoadCampaign(p) \/ RecipientUnavailable(p)
             \/ GateAllowlist(p) \/ GateSuppression(p) \/ GateApproval(p)
             \/ GateRateLimit(p) \/ GateClaim(p) \/ SelectProvider(p) \/ ProviderSend(p)
    BY <1>0, <1>4 DEF Locals, LoadSequence, LoadCampaign, RecipientUnavailable, Finish,
       GateAllowlist, GateSuppression, GateApproval, GateRateLimit, GateClaim, SelectProvider,
       ProviderSend, Gate, Deny, Goto, ResultOf
  <1>5. CASE \/ SaveAccepted(p) \/ SaveCampaign(p) \/ MarkCompleted(p)
             \/ ReloadCampaign(p) \/ SaveSequence(p) \/ SaveCompletion(p)
             \/ SaveDenied(p) \/ ReleaseDenied(p) \/ SaveRetry(p) \/ ReleaseRetry(p)
             \/ SaveUnknown(p) \/ DupGet(p) \/ DupLoad(p) \/ DupSave(p)
    BY <1>0, <1>5 DEF Locals, SaveAccepted, SaveCampaign, MarkCompleted, Finish,
       ReloadCampaign, SaveSequence, SaveCompletion, SaveDenied, ReleaseDenied, SaveRetry,
       ReleaseRetry, SaveUnknown, DupGet, DupLoad, DupSave, SaveThen, SaveCampaignThen,
       MarkIdempotencyFailed, Goto, ResultOf
  <1>6. CASE SaveAttempt(p)
    BY <1>0, <1>6 DEF Locals, SaveAttempt, SaveThen, Goto
  <1> QED  BY <1>1, <1>2, <1>3, <1>4, <1>5, <1>6 DEF SendStep

\* What is recorded as refused is kept unsent: nobody submits it, and a denial that is
\* saved refuses a send nobody began.
LEMMA RefusalsKept ==
  ASSUME TypeOK, TypeOK', RecordsSound, ProgressSound, ClaimProtectsSend, FailureSound,
         [Next]_vars, NEW p \in Procs, Start(p) \/ SendStep(p) \/ OtherStep(p) \/ Crash(p),
         Alone(p), CallRefuses(p)', NEW s \in Steps
  PROVE  RefusedUnsent(s)' /\ (delivered'[s] > 0 => Begun(s)')
  <1>1. ASSUME delivered'[s] # delivered[s] PROVE at[p] = s /\ pc[p] = "providerSend" /\ Begun(s)
    <2>1. PICK q \in Procs : ProviderSend(q)  BY <1>1, CountWriters
    <2>2. at[q] = s /\ pc[q] = "providerSend" /\ pc'[q] # pc[q]
      BY <1>1, <2>1 DEF ProviderSend, TypeOK, Deny, Goto
    <2>3. q = p  BY <2>2 DEF Alone
    <2> QED  BY <2>2, <2>3 DEF FailureSound, CallRefuses, SubmittedPoints
  <1>2. delivered'[s] > 0 => Begun(s)'
    BY <1>1, BegunKept DEF FailureSound
  <1>3. ASSUME row'[s].st = "FAILED_PRE_SUBMISSION"
        PROVE  delivered'[s] = 0 /\ \A q \in Procs : at'[q] = s => pc'[q] # "providerSend"
    <2>1. delivered[s] = 0 /\ \A q \in Procs : at[q] = s => pc[q] # "providerSend"
      <3>1. CASE row[s].st = "FAILED_PRE_SUBMISSION"
        BY <3>1 DEF FailureSound, RefusedUnsent
      <3>2. CASE \E q \in Procs : at[q] = s /\ pc[q] = "saveDenied" /\ Fresh(q)
        <4>1. PICK q \in Procs : at[q] = s /\ pc[q] = "saveDenied" /\ Fresh(q)  BY <3>2
        <4>2. CallKnows(q) /\ DenialHarmless(q)
          BY DEF RecordsSound, FailureSound, CallRefuses
        <4>3. ~Settled(s)
          BY <4>1, <4>2 DEF CallKnows, FreshKnows, CopyPoints, SendingPoints
        <4>4. CASE row[s].st # "SENDING"
          BY <4>3, <4>4 DEF FailureSound, CallRefuses, SubmittedPoints, Begun, TypeOK
        <4>5. CASE s > MaxSendCount
          <5>1. ~(delivered[s] > 0)
            BY <4>5, MaxSendCountAssumption DEF ProgressSound, WithinBudget, Steps
          <5>2. ASSUME NEW r \in Procs, at[r] = s, pc[r] = "providerSend" PROVE FALSE
            <6>1. cp[r].sent \in Nat  BY DEF TypeOK, CampCopies
            <6>2. s <= cp[r].sent /\ cp[r].sent <= MaxSendCount
              BY <5>2 DEF ProgressSound, Spends, ClaimedPoints
            <6> QED  BY <4>5, <6>1, <6>2, MaxSendCountAssumption DEF Steps
          <5> QED  BY <5>1, <5>2 DEF TypeOK
        <4>6. CASE Spent(s)  BY <4>6 DEF Spent, MaySend
        <4> QED  BY <4>1, <4>2, <4>4, <4>5, <4>6 DEF DenialHarmless
      <3> QED  BY <1>3, <3>1, <3>2, BegunKept
    <2>2. delivered'[s] = 0  BY <1>1, <2>1
    <2>3. ASSUME NEW q \in Procs, at'[q] = s, pc'[q] = "providerSend" PROVE FALSE
      <3>1. q = p  BY <2>1, <2>3 DEF Alone
      <3>2. row'[s].st = "SENDING" \/ (at[p] = s /\ pc[p] = "providerSend")
        <4>1. Locals /\ snap[p] \in Copies /\ at[p] \in Steps  BY LocalsType DEF TypeOK
        <4>2. SaveAttempt(p) /\ Current(p)
          BY <2>3, <3>1, ProviderReached
        <4>3. snap[p].st = "SENDING" /\ pc[p] \in SavePoints /\ at' = at /\ SaveExecution(p)
              /\ UNCHANGED <<key, delivered>>
          BY <4>2 DEF SaveAttempt, SaveThen, RecordsSound, CallKnows, CopyKnows, GatePoints,
             SavePoints, SendingPoints
        <4>4. row'[at[p]] = Stored(snap[p])  BY <4>2, <4>3, SaveKept
        <4> QED  BY <2>3, <3>1, <4>3, <4>4 DEF Stored
      <3> QED  BY <1>3, <2>1, <3>2
    <2> QED  BY <2>2, <2>3
  <1> QED  BY <1>2, <1>3 DEF RefusedUnsent

LEMMA RefuseOwn ==
  ASSUME TypeOK, TypeOK', RecordsSound, ProgressSound, ClaimProtectsSend, FailureSound,
         "rateLimit" \notin Faults, NEW p \in Procs,
         Start(p) \/ SendStep(p) \/ OtherStep(p) \/ Crash(p), Alone(p), UNCHANGED env
  PROVE  CallRefuses(p)'
  <1>1. CASE Start(p)  BY <1>1, RefuseStart
  <1>2. CASE SendStep(p)
    BY <1>2, RefuseGates, RefuseSubmission, RefuseSaves, RefuseDuplicate, RefuseRest DEF SendStep
  <1>3. CASE OtherStep(p)  BY <1>3, RefuseSaves, RefuseRest DEF OtherStep
  <1>4. CASE Crash(p)  BY <1>4, RefuseRest
  <1> QED  BY <1>1, <1>2, <1>3, <1>4

LEMMA FailureNext ==
  ASSUME TypeOK, TypeOK', RecordsSound, ProgressSound, ClaimProtectsSend, FailureSound,
         "rateLimit" \notin Faults, "deny" \notin Faults, [Next]_vars
  PROVE  FailureSound'
  <1>1. ASSUME NEW p \in Procs, Start(p) \/ SendStep(p) \/ OtherStep(p) \/ Crash(p),
               Alone(p), UNCHANGED env
        PROVE  FailureSound'
    <2>1. CallRefuses(p)'  BY <1>1, RefuseOwn
    <2>2. ASSUME NEW q \in Procs, q # p PROVE CallRefuses(q)'
      <3>1. at[q] \in Steps /\ CallKnows(q) /\ CallRefuses(q)
        BY DEF TypeOK, RecordsSound, FailureSound
      <3>2. KeptLaw(at[q])  BY <3>1, RowsKept
      <3>3. Begun(at[q]) => Begun(at[q])'
        BY <1>1, <2>2, <3>1, BegunKept DEF Alone, Begun, Settled
      <3>4. Spent(at[q]) /\ ~Settled(at[q]) /\ row'[at[q]] = row[at[q]] => Spent(at[q])'
        BY <1>1, <2>2, <3>1, SpentStays DEF Alone, Spent
      <3> QED  BY <1>1, <2>2, <3>1, <3>2, <3>3, <3>4, OthersRefuse DEF Alone, env
    <2>3. ApprovalsHeld'
      <3>1. ASSUME NEW s \in Steps, row'[s].st = "SENDING" PROVE approval[s] = "APPROVED"
        BY <3>1, BegunKept DEF FailureSound, ApprovalsHeld, CallRefuses
      <3> QED  BY <1>1, <3>1 DEF env, FailureSound, ApprovalsHeld
    <2> QED  BY <1>1, <2>1, <2>2, <2>3, RefusalsKept DEF FailureSound
  <1>2. CASE /\ UNCHANGED <<row, key, seq, camp, delivered, pc, at, snap, sq, cp, view>>
             /\ UNCHANGED <<allowed, suppressed>>
             /\ \A s \in Steps : approval'[s] \in {approval[s], "APPROVED"}
    BY <1>2 DEF TypeOK, FailureSound, ApprovalsHeld, CallRefuses, DenialHarmless, Spent, MaySend,
       Begun, Settled, Fresh, RefusedUnsent
  <1> QED  BY <1>1, <1>2, OneMoves

LEMMA FailureInit == Init => FailureSound
  <1> SUFFICES ASSUME Init PROVE FailureSound  OBVIOUS
  <1>1. \A p \in Procs : pc[p] = "idle"  BY DEF Init
  <1>2. \A p \in Procs : CallRefuses(p)
    BY <1>1 DEF CallRefuses, DenialHarmless, PastApproval, SubmittedPoints
  <1>3. DraftedRow.st = "PENDING_APPROVAL"  BY DraftStatus DEF DraftedRow, Stored
  <1>4. \A s \in Steps : row[s].st \in {"PENDING_APPROVAL", "ABSENT"}
    BY <1>3 DEF Init, NoRow
  <1> QED  BY <1>2, <1>4 DEF Init, FailureSound, ApprovalsHeld, RefusedUnsent

\* While nothing the gate asks for is taken away and no rate limit applies, an execution
\* recorded as refused before its submission was not delivered: no caller writes that
\* over a message another caller is submitting, or has submitted.
THEOREM RefusalsAreTrue ==
  ASSUME "rateLimit" \notin Faults, "deny" \notin Faults
  PROVE  Spec => []FailureMeansNotSent
  <1>1. /\ TypeOK /\ TypeOK' /\ RecordsSound /\ ProgressSound /\ ClaimProtectsSend
        /\ FailureSound /\ [Next]_vars
        => FailureSound'
    BY FailureNext
  <1>2. FailureSound => FailureMeansNotSent
    BY DEF FailureSound, RefusedUnsent, FailureMeansNotSent
  <1>3. Spec => []ClaimProtectsSend  BY ClaimHolds
  <1> QED  BY <1>1, <1>2, <1>3, FailureInit, RecordsHold, ProgressHolds, TypeCorrect, PTL DEF Spec

-----------------------------------------------------------------------------
(* A call that begins after the settlement of an execution returns from the   *)
(* loads: its copy is settled, and the points behind are entered from there.  *)

LoadPoints   == {"loadSequence", "loadCampaign"}
BehindReturn == {"allowlist"} \cup BehindAllowlist

\* Where a call may come from before its gate, and with which copy.
LoadedInOrder(p) ==
  /\ pc'[p] \in LoadPoints =>
       \/ pc[p] = "idle" /\ snap'[p].st = row[at'[p]].st
       \/ at'[p] = at[p] /\ pc[p] \in LoadPoints /\ snap'[p] = snap[p]
  /\ pc'[p] = "allowlist" =>
       /\ at'[p] = at[p]
       /\ pc[p] = "allowlist" \/ (pc[p] = "loadCampaign" /\ snap[p].st \notin SettledStatuses)

\* A settled copy is never taken into SENDING.
LEMMA SettledNeverBegins ==
  ASSUME NEW e \in Copies, e.st \in SettledStatuses
  PROVE  BeginSending(e).st # "SENDING"
  <1>1. e.st # "PENDING_APPROVAL" /\ e.st # "APPROVED" /\ e.st # "SENDING"
    BY DEF SettledStatuses, PositiveStatuses, FailureStatuses
  <1>2. <<e.st, "SENDING">> \notin Transitions  BY <1>1 DEF Transitions
  <1> QED  BY <1>1, <1>2 DEF BeginSending, Transition

LEMMA StartLoads ==
  ASSUME TypeOK, NEW p \in Procs, Start(p)
  PROVE  LoadedInOrder(p)
  <1>1. CASE \E s \in Steps : LoadExecution(p, s)
    BY <1>1 DEF LoadExecution, Reconstitute, Goto, TypeOK, LoadedInOrder, LoadPoints
  <1>2. CASE ~\E s \in Steps : LoadExecution(p, s)
    <2>1. \E l \in {"reconcileSave", "respondSave", "expireSave", "findDraft", "linkSave"} : Goto(p, l)
      BY <1>2 DEF Start, ReconcileLoad, RespondLoad, ExpireLoad, Load, PrepareLoad, LinkLoad
    <2>2. pc'[p] \notin LoadPoints \cup {"allowlist"}  BY <2>1 DEF Goto, TypeOK, LoadPoints
    <2> QED  BY <2>2 DEF LoadedInOrder
  <1> QED  BY <1>1, <1>2

\* The steps after the loads lead neither back to them nor to the gate's first check.
BeyondLoads(p) == \E l : Goto(p, l) /\ l \notin LoadPoints \cup {"allowlist"}

LEMMA BeyondLoadsOrdered ==
  ASSUME TypeOK, NEW p \in Procs, BeyondLoads(p)
  PROVE  LoadedInOrder(p)
  <1>1. pc'[p] \notin LoadPoints \cup {"allowlist"}  BY DEF BeyondLoads, Goto, TypeOK
  <1> QED  BY <1>1 DEF LoadedInOrder

LEMMA FinishBeyond ==
  ASSUME NEW p, NEW result \in Results, Finish(p, result)
  PROVE  BeyondLoads(p)
  BY DEF Finish, BeyondLoads, Results, LoadPoints

LEMMA SendLoads ==
  ASSUME TypeOK, NEW p \in Procs, SendStep(p)
  PROVE  LoadedInOrder(p)
  <1>1. CASE LoadSequence(p)
    BY <1>1 DEF LoadSequence, Goto, TypeOK, LoadedInOrder, LoadPoints
  <1>2. CASE LoadCampaign(p)
    <2>1. snap[p] \in Copies  BY DEF TypeOK
    <2>2. CASE \E result \in Results : Finish(p, result)
      BY <2>2, FinishBeyond, BeyondLoadsOrdered
    <2>3. CASE BeginSending(snap[p]).st = "SENDING" /\ Goto(p, "allowlist")
      <3>1. snap[p].st \notin SettledStatuses  BY <2>1, <2>3, SettledNeverBegins
      <3> QED  BY <1>2, <2>3, <3>1 DEF LoadCampaign, Goto, TypeOK, LoadedInOrder, LoadPoints
    <2> QED  BY <1>2, <2>2, <2>3, ResultOfTyped DEF LoadCampaign, Results
  <1> USE ResultOfTyped
  <1>a. (\E result \in Results : Finish(p, result)) => BeyondLoads(p)  BY FinishBeyond
  <1>b. {"failed", "completed", "retryable"} \subseteq Results  BY DEF Results
  <1>3. CASE RecipientUnavailable(p) \/ ReleaseDenied(p) \/ ReleaseRetry(p) \/ DupSave(p)
    BY <1>3, <1>a, <1>b, BeyondLoadsOrdered
       DEF RecipientUnavailable, ReleaseDenied, ReleaseRetry, MarkIdempotencyFailed, DupSave
  <1>4. CASE \/ GateAllowlist(p) \/ GateSuppression(p) \/ GateApproval(p) \/ GateRateLimit(p)
             \/ GateClaim(p) \/ SelectProvider(p)
    <2>1. BeyondLoads(p)
      BY <1>4 DEF GateAllowlist, GateSuppression, GateApproval, Gate, GateRateLimit, GateClaim,
                  SelectProvider, Deny, BeyondLoads, LoadPoints
    <2> QED  BY <2>1, BeyondLoadsOrdered
  <1>5. CASE \/ SaveAttempt(p) \/ SaveAccepted(p) \/ SaveDenied(p) \/ SaveRetry(p)
    <2>1. BeyondLoads(p)
      BY <1>5 DEF SaveAttempt, SaveAccepted, SaveDenied, SaveRetry, SaveThen, BeyondLoads, LoadPoints
    <2> QED  BY <2>1, BeyondLoadsOrdered
  <1>6. CASE ProviderSend(p)
    <2>1. BeyondLoads(p)  BY <1>6 DEF ProviderSend, Deny, BeyondLoads, LoadPoints
    <2> QED  BY <2>1, BeyondLoadsOrdered
  <1>7. CASE SaveCampaign(p) \/ MarkCompleted(p) \/ DupGet(p)
    <2>1. BeyondLoads(p)
      BY <1>7 DEF SaveCampaign, SaveCampaignThen, MarkCompleted, DupGet, BeyondLoads, LoadPoints
    <2> QED  BY <2>1, BeyondLoadsOrdered
  <1>8. CASE ReloadCampaign(p) \/ SaveSequence(p) \/ SaveCompletion(p) \/ SaveUnknown(p) \/ DupLoad(p)
    <2>1. \A l \in {"saveSequence", "dupGet", "saveCompletion", "dupSave"} : Goto(p, l) => BeyondLoads(p)
      BY DEF BeyondLoads, LoadPoints
    <2>2. BeyondLoads(p)
      BY <1>8, <1>a, <1>b, <2>1 DEF ReloadCampaign, SaveSequence, SaveCompletion, SaveUnknown, DupLoad
    <2> QED  BY <2>2, BeyondLoadsOrdered
  <1> QED  BY <1>1, <1>2, <1>3, <1>4, <1>5, <1>6, <1>7, <1>8 DEF SendStep

LEMMA OtherLoads ==
  ASSUME TypeOK, NEW p \in Procs, OtherStep(p) \/ Crash(p)
  PROVE  LoadedInOrder(p)
  <1>1. \A l : Goto(p, l) /\ l \in {"saveDraft", "reconcileKey"} => BeyondLoads(p)
    BY DEF BeyondLoads, LoadPoints
  <1>2. (\E result \in Results : Finish(p, result)) => BeyondLoads(p)  BY FinishBeyond
  <1>3. {"awaiting", "undrafted", "ok", "threw", "crashed"} \subseteq Results  BY DEF Results
  <1> USE <1>1, <1>2, <1>3
  <1>4. CASE PrepareFind(p) \/ PrepareSave(p)  BY <1>4, BeyondLoadsOrdered DEF PrepareFind, PrepareSave
  <1>5. CASE ReconcileSave(p) \/ ReconcileKey(p)
    BY <1>5, BeyondLoadsOrdered DEF ReconcileSave, ReconcileKey
  <1>6. CASE RespondSave(p) \/ ExpireSave(p)
    BY <1>6, BeyondLoadsOrdered DEF RespondSave, ExpireSave, SaveOrThrow
  <1>7. CASE LinkSave(p) \/ Crash(p)  BY <1>7, BeyondLoadsOrdered DEF LinkSave, Crash
  <1> QED  BY <1>4, <1>5, <1>6, <1>7 DEF OtherStep

\* A step changes the copy of its own call only.
CopyAlone(p) == \A q \in Procs \ {p} : snap'[q] = snap[q]

LEMMA StepCopies ==
  ASSUME TypeOK, NEW p \in Procs, Start(p) \/ SendStep(p) \/ OtherStep(p) \/ Crash(p)
  PROVE  CopyAlone(p)
  <1>1. (\E result : Finish(p, result)) => CopyAlone(p)  BY DEF Finish, TypeOK, CopyAlone
  <1>2. (UNCHANGED snap \/ \E c : snap' = [snap EXCEPT ![p] = c]) => CopyAlone(p)
    BY DEF TypeOK, CopyAlone
  <1>3. Deny(p) => CopyAlone(p)  BY <1>2 DEF Deny
  <1>4. ASSUME NEW next, SaveThen(p, next)  PROVE CopyAlone(p)
    <2>1. UNCHANGED snap \/ snap' = [snap EXCEPT ![p].loaded = snap[p].ver]  BY <1>4 DEF SaveThen
    <2> QED  BY <2>1 DEF TypeOK, CopyAlone
  <1> USE <1>1, <1>2, <1>3
  <1>5. CASE Start(p)
    BY <1>5 DEF Start, LoadExecution, ReconcileLoad, RespondLoad, ExpireLoad, Load, PrepareLoad, LinkLoad
  <1>6. CASE LoadSequence(p) \/ LoadCampaign(p) \/ RecipientUnavailable(p)
    BY <1>6 DEF LoadSequence, LoadCampaign, RecipientUnavailable
  <1>7. CASE \/ GateAllowlist(p) \/ GateSuppression(p) \/ GateApproval(p) \/ GateRateLimit(p)
             \/ GateClaim(p) \/ SelectProvider(p)
    BY <1>7 DEF GateAllowlist, GateSuppression, GateApproval, Gate, GateRateLimit, GateClaim, SelectProvider
  <1>8. CASE SaveAttempt(p) \/ SaveAccepted(p) \/ SaveDenied(p) \/ SaveRetry(p)
    BY <1>4, <1>8 DEF SaveAttempt, SaveAccepted, SaveDenied, SaveRetry
  <1>9. CASE ProviderSend(p)  BY <1>9 DEF ProviderSend
  <1>10. CASE \/ SaveCampaign(p) \/ MarkCompleted(p) \/ ReloadCampaign(p) \/ SaveSequence(p)
              \/ SaveCompletion(p)
    BY <1>10 DEF SaveCampaign, SaveCampaignThen, MarkCompleted, ReloadCampaign, SaveSequence, SaveCompletion
  <1>11. CASE \/ ReleaseDenied(p) \/ ReleaseRetry(p) \/ SaveUnknown(p) \/ DupGet(p) \/ DupLoad(p)
              \/ DupSave(p)
    BY <1>11 DEF ReleaseDenied, ReleaseRetry, MarkIdempotencyFailed, SaveUnknown, DupGet, DupLoad, DupSave
  <1>12. CASE OtherStep(p) \/ Crash(p)
    BY <1>12 DEF OtherStep, PrepareFind, PrepareSave, ReconcileSave, ReconcileKey, RespondSave,
       ExpireSave, SaveOrThrow, LinkSave, Crash
  <1> QED
    BY <1>5, <1>6, <1>7, <1>8, <1>9, <1>10, <1>11, <1>12 DEF SendStep

LEMMA CallsLoadInOrder ==
  ASSUME TypeOK, [Next]_vars, NEW p \in Procs
  PROVE  LoadedInOrder(p)
  <1>1. CASE pc'[p] = pc[p] /\ at'[p] = at[p] /\ snap'[p] = snap[p]
    BY <1>1 DEF LoadedInOrder
  <1>2. CASE UNCHANGED vars \/ Environment
    BY <1>1, <1>2 DEF vars, Environment, Approve, Disapprove, RemoveFromAllowlist, OptOut
  <1>3. ASSUME NEW q \in Procs, Start(q) \/ SendStep(q) \/ OtherStep(q) \/ Crash(q)
        PROVE  LoadedInOrder(p)
    <2>1. CASE q # p
      BY <1>1, <1>3, <2>1, StartAlone, StepAlone, StepCopies DEF MovesAlone, CopyAlone
    <2>2. CASE q = p  BY <1>3, <2>2, StartLoads, SendLoads, OtherLoads
    <2> QED  BY <2>1, <2>2
  <1> QED  BY <1>2, <1>3 DEF Next

\* The execution is settled, and the call is before its early return, with a settled copy.
Returns(p, s) ==
  /\ Settled(s)
  /\ at[p] = s =>
       /\ pc[p] \notin BehindReturn
       /\ pc[p] \in LoadPoints => snap[p].st \in SettledStatuses

LEMMA ReturnsStays ==
  ASSUME TypeOK, TypeOK', RecordsSound, [Next]_vars, NEW p \in Procs, NEW s \in Steps, Returns(p, s)
  PROVE  Returns(p, s)'
  <1>1. Settled(s)'
    <2>1. RowLaw(s)  BY RowsKept DEF KeptLaw
    <2> QED  BY <2>1 DEF RowLaw, Settled, Returns
  <1>2. EnteredInOrder(p) /\ LoadedInOrder(p)  BY CallsEnterInOrder, CallsLoadInOrder
  <1> SUFFICES ASSUME at'[p] = s
               PROVE  /\ pc'[p] \notin BehindReturn
                      /\ pc'[p] \in LoadPoints => snap'[p].st \in SettledStatuses
    BY <1>1 DEF Returns
  <1>3. pc'[p] \notin BehindAllowlist
    <2>1. pc'[p] \in BehindAllowlist => at'[p] = at[p] /\ pc[p] \in BehindReturn
      BY <1>2 DEF EnteredInOrder, BehindReturn, BehindAllowlist, BehindSuppression
    <2> QED  BY <2>1 DEF Returns
  <1>4. pc'[p] # "allowlist"
    BY <1>2 DEF LoadedInOrder, Returns, BehindReturn, LoadPoints
  <1>5. pc'[p] \in LoadPoints => snap'[p].st \in SettledStatuses
    BY <1>2 DEF LoadedInOrder, Returns, Settled
  <1> QED  BY <1>3, <1>4, <1>5 DEF BehindReturn

\* Whatever settled an execution, a call that begins after it is answered from its copy:
\* executeApprovedSend takes no settled status back into SENDING, no write unsettles a
\* row, and a call has no way to the provider around its loads.
THEOREM SettledStayUnsent == Spec => SettledCallsNeverSubmit
  <1>1. ASSUME NEW p \in Procs, NEW s \in Steps
        PROVE  Spec => [](pc[p] = "idle" /\ Settled(s) => [](at[p] = s => pc[p] # "providerSend"))
    <2>1. pc[p] = "idle" /\ Settled(s) => Returns(p, s)
      BY DEF Returns, LoadPoints, BehindReturn, BehindAllowlist, BehindSuppression, BehindApproval
    <2>2. TypeOK /\ TypeOK' /\ RecordsSound /\ [Next]_vars /\ Returns(p, s) => Returns(p, s)'
      BY ReturnsStays
    <2>3. Returns(p, s) => (at[p] = s => pc[p] # "providerSend")
      BY DEF Returns, BehindReturn, BehindAllowlist, BehindSuppression, BehindApproval
    <2> QED  BY <2>1, <2>2, <2>3, TypeCorrect, RecordsHold, PTL DEF Spec
  <1> QED  BY <1>1 DEF SettledCallsNeverSubmit

\* A call that begins after its recipient is barred or its execution settled does not
\* submit: the gate stops the one, the early returns of executeApprovedSend the other.
THEOREM ClosedStayUnsent == Spec => ClosedCallsNeverSubmit
  <1>1. ASSUME NEW p \in Procs, NEW s \in Steps
        PROVE  Spec => [](pc[p] = "idle" /\ (Barred(s) \/ Settled(s))
                            => [](at[p] = s => pc[p] # "providerSend"))
    <2>1. Spec => [](pc[p] = "idle" /\ Barred(s) => [](at[p] = s => pc[p] # "providerSend"))
      BY BarsHold DEF BarredCallsNeverSubmit
    <2>2. Spec => [](pc[p] = "idle" /\ Settled(s) => [](at[p] = s => pc[p] # "providerSend"))
      BY SettledStayUnsent DEF SettledCallsNeverSubmit
    <2> QED  BY <2>1, <2>2, PTL
  <1> QED  BY <1>1 DEF ClosedCallsNeverSubmit

-----------------------------------------------------------------------------
(* A claim of an unsettled execution has an owner whose next save will take,  *)
(* when no process dies and no answer gives the claim back.                   *)

\* The way to the claim, with a copy not yet saved.
ClaimPoints == LoadPoints \cup {"allowlist", "suppression", "approval", "rateLimit", "claim"}

\* A call on that way has a fresh copy unless the execution is settled or another call
\* saved its attempt, and what ends a call settles or changes nothing.
CallFollows(p) ==
  /\ pc[p] \notin {"saveRetry", "releaseRetry", "crashed"}
  /\ pc[p] \in SendPoints => row[at[p]] # NoRow
  /\ pc[p] \in {"saveUnknown", "expireSave"} => snap[p].st \in SettledStatuses
  /\ pc[p] = "dupSave" => snap[p].st \in SettledStatuses \/ snap[p].ver = snap[p].loaded
  /\ pc[p] \in ClaimPoints /\ ~Settled(at[p]) /\ row[at[p]].st # "SENDING" => Fresh(p)

ClaimSound ==
  /\ \A p \in Procs : CallFollows(p)
  /\ \A s \in Steps : row[s].st = "SENDING" => ~Claimable(key[s])
  /\ ClaimHasOwner

Step(p) == Start(p) \/ SendStep(p) \/ OtherStep(p) \/ Crash(p)

\* The steps of a call that write its row.
LEMMA CallWrites ==
  ASSUME NEW p \in Procs, Step(p), row' # row
  PROVE  \/ SaveAttempt(p) \/ SaveAccepted(p) \/ SaveDenied(p) \/ SaveRetry(p) \/ SaveUnknown(p)
         \/ DupSave(p) \/ ReconcileSave(p) \/ RespondSave(p) \/ ExpireSave(p) \/ PrepareSave(p)
  <1>1. CASE Start(p)
    BY <1>1 DEF Start, LoadExecution, ReconcileLoad, RespondLoad, ExpireLoad, PrepareLoad,
       LinkLoad, Load, db
  <1>2. CASE \/ LoadSequence(p) \/ LoadCampaign(p) \/ RecipientUnavailable(p)
             \/ GateAllowlist(p) \/ GateSuppression(p) \/ GateApproval(p)
             \/ GateRateLimit(p) \/ GateClaim(p) \/ SelectProvider(p) \/ ProviderSend(p)
    BY <1>2 DEF LoadSequence, LoadCampaign, RecipientUnavailable, GateAllowlist,
       GateSuppression, GateApproval, GateRateLimit, GateClaim, SelectProvider, ProviderSend,
       Gate, db
  <1>3. CASE \/ SaveCampaign(p) \/ MarkCompleted(p) \/ ReloadCampaign(p) \/ SaveSequence(p)
             \/ SaveCompletion(p) \/ ReleaseDenied(p) \/ ReleaseRetry(p)
             \/ DupGet(p) \/ DupLoad(p)
    BY <1>3 DEF SaveCampaign, SaveCampaignThen, MarkCompleted, ReloadCampaign, SaveSequence,
       SaveCompletion, ReleaseDenied, ReleaseRetry, MarkIdempotencyFailed, DupGet, DupLoad, db
  <1>4. CASE PrepareFind(p) \/ ReconcileKey(p) \/ LinkSave(p) \/ Crash(p)
    BY <1>4 DEF PrepareFind, ReconcileKey, LinkSave, Crash, db
  <1> QED  BY <1>1, <1>2, <1>3, <1>4 DEF Step, SendStep, OtherStep

\* What a write makes of a row: a new draft, a settled execution, or the attempt of a call
\* that goes on to submit it.
LEMMA RowMoves ==
  ASSUME TypeOK, TypeOK', RecordsSound, NEW p \in Procs, CallFollows(p), Step(p),
         NEW s \in Steps, row'[s] # row[s]
  PROVE  \/ row[s] = NoRow /\ row'[s].st # "SENDING"
         \/ Settled(s)'
         \/ SaveAttempt(p) /\ at[p] = s /\ Fresh(p)
  <1>0. CallKnows(p) /\ at[p] \in Steps /\ row[at[p]] \in Rows /\ snap[p] \in Copies
    BY DEF RecordsSound, TypeOK
  <1>1. CASE PrepareSave(p)
    <2>1. row[s] = NoRow /\ row'[s] = Stored(snap[p])  BY <1>1 DEF PrepareSave, TypeOK
    <2>2. snap[p].st # "SENDING"  BY <1>0, <1>1 DEF PrepareSave, CallKnows, CopyKnows
    <2> QED  BY <2>1, <2>2 DEF Stored
  <1>2. ASSUME pc[p] \in SavePoints, SaveExecution(p), UNCHANGED <<key, delivered>>
        PROVE  /\ s = at[p] /\ Fresh(p) /\ row'[s].st = snap[p].st
               /\ snap[p].ver # snap[p].loaded
    <2>1. s = at[p] /\ Fresh(p) /\ row'[s] = Stored(snap[p])  BY <1>2, SaveKept
    <2>2. snap[p].ver # snap[p].loaded
      <3> SUFFICES ASSUME snap[p].ver = snap[p].loaded PROVE FALSE  OBVIOUS
      <3>1. pc[p] \in CopyPoints  BY <1>2 DEF SavePoints, CopyPoints
      <3>2. snap[p].st = row[s].st /\ snap[p].ver = row[s].ver
        BY <1>0, <2>1, <3>1 DEF CallKnows, CopyTrails, Fresh
      <3> QED  BY <1>0, <2>1, <3>2 DEF Stored, Rows
    <2> QED  BY <2>1, <2>2 DEF Stored
  <1>3. PositiveStatuses \subseteq SettledStatuses
        /\ {"DELIVERED", "FAILED", "FAILED_PRE_SUBMISSION"} \subseteq SettledStatuses
    BY DEF SettledStatuses, PositiveStatuses, FailureStatuses
  <1>4. CASE SaveAttempt(p)
    BY <1>2, <1>4 DEF SaveAttempt, SaveThen, SavePoints, SendingPoints, GatePoints
  <1>5. CASE SaveAccepted(p) \/ SaveDenied(p) \/ SaveRetry(p)
    <2>1. pc[p] \in {"saveAccepted", "saveDenied"}
      BY <1>5 DEF SaveAccepted, SaveDenied, SaveRetry, CallFollows
    <2>2. row'[s].st = snap[p].st
      BY <1>2, <1>5, <2>1 DEF SaveAccepted, SaveDenied, SaveRetry, SaveThen, SavePoints, SendingPoints
    <2>3. snap[p].st \in SettledStatuses  BY <1>0, <1>3, <2>1 DEF CallKnows, CopyKnows
    <2> QED  BY <2>2, <2>3 DEF Settled
  <1>6. CASE SaveUnknown(p) \/ DupSave(p) \/ ReconcileSave(p) \/ RespondSave(p) \/ ExpireSave(p)
    <2>1. /\ pc[p] \in {"saveUnknown", "dupSave", "reconcileSave", "respondSave", "expireSave"}
          /\ SaveExecution(p) /\ UNCHANGED <<key, delivered>>
      BY <1>6 DEF SaveUnknown, DupSave, ReconcileSave, RespondSave, ExpireSave, SaveOrThrow
    <2>2. pc[p] \in SavePoints  BY <2>1 DEF SavePoints, SendingPoints
    <2>3. s = at[p] /\ Fresh(p) /\ row'[s].st = snap[p].st /\ snap[p].ver # snap[p].loaded
      BY <1>2, <2>1, <2>2
    <2>4. CASE pc[p] \in {"saveUnknown", "expireSave", "dupSave"}
      BY <2>3, <2>4 DEF CallFollows, Settled
    <2>5. CASE pc[p] = "reconcileSave"
      BY <1>0, <1>3, <2>3, <2>5 DEF CallKnows, CopyKnows, Settled
    <2>6. CASE pc[p] = "respondSave"
      <3>1. pc[p] \in CopyPoints  BY <2>6 DEF CopyPoints
      <3> QED  BY <1>0, <1>3, <2>3, <2>6, <3>1 DEF CallKnows, FreshKnows, Settled
    <2> QED  BY <2>1, <2>4, <2>5, <2>6
  <1> QED  BY <1>1, <1>4, <1>5, <1>6, CallWrites

\* What another call's step leaves true of a call.
LEMMA OthersFollow ==
  ASSUME TypeOK, TypeOK', RecordsSound, NEW p \in Procs, CallFollows(p), Step(p), Alone(p),
         NEW q \in Procs \ {p}, CallFollows(q)
  PROVE  CallFollows(q)'
  <1>1. pc'[q] = pc[q] /\ at'[q] = at[q] /\ snap'[q] = snap[q]  BY DEF Alone
  <1>2. CASE row'[at[q]] = row[at[q]]
    BY <1>1, <1>2 DEF CallFollows, Settled, Fresh
  <1>3. CASE row'[at[q]] # row[at[q]]
    <2>1. at[q] \in Steps  BY DEF TypeOK
    <2>2. \/ row[at[q]] = NoRow /\ row'[at[q]].st # "SENDING"
          \/ Settled(at[q])'
          \/ row'[at[q]].st = "SENDING"
      <3>1. SaveAttempt(p) /\ at[p] = at[q] /\ Fresh(p) => row'[at[q]].st = "SENDING"
        <4> SUFFICES ASSUME SaveAttempt(p), at[p] = at[q], Fresh(p)
                     PROVE  row'[at[q]].st = "SENDING"
          OBVIOUS
        <4>1. row'[at[q]] = Stored(snap[p])
          BY SaveKept DEF SaveAttempt, SaveThen, SavePoints, SendingPoints, GatePoints
        <4>2. snap[p].st = "SENDING"
          BY DEF SaveAttempt, RecordsSound, CallKnows, CopyKnows, GatePoints
        <4> QED  BY <4>1, <4>2 DEF Stored
      <3>2. \/ row[at[q]] = NoRow /\ row'[at[q]].st # "SENDING"
            \/ Settled(at[q])'
            \/ SaveAttempt(p) /\ at[p] = at[q] /\ Fresh(p)
        <4>1. ASSUME NEW s \in Steps, row'[s] # row[s]
              PROVE  \/ row[s] = NoRow /\ row'[s].st # "SENDING"
                     \/ row'[s].st \in SettledStatuses
                     \/ SaveAttempt(p) /\ at[p] = s /\ Fresh(p)
          BY <4>1, RowMoves DEF Settled
        <4> QED  BY <1>1, <1>3, <2>1, <4>1 DEF Settled
      <3> QED  BY <3>1, <3>2
    <2>3. row'[at[q]] # NoRow
      <3>1. KeptLaw(at[q])
        <4>1. [Next]_vars  BY DEF Step, Next
        <4> QED  BY <2>1, <4>1, RowsKept
      <3>2. row'[at[q]].ver > row[at[q]].ver /\ row[at[q]].ver \in Nat
        BY <1>3, <2>1, <3>1 DEF KeptLaw, RowLaw, TypeOK, Rows
      <3> QED  BY <3>2 DEF NoRow
    <2>4. pc[q] \in ClaimPoints => pc[q] \in SendPoints
      BY DEF ClaimPoints, LoadPoints, SendPoints
    <2> QED  BY <1>1, <2>2, <2>3, <2>4 DEF CallFollows, Settled
  <1> QED  BY <1>2, <1>3

\* Where a step of a call can lead on the way to the claim, or behind it.
FollowsOn(p) ==
  /\ at'[p] = at[p]
  /\ pc'[p] \notin {"saveRetry", "releaseRetry", "crashed", "saveUnknown", "expireSave",
                    "dupSave"}
  /\ pc'[p] \in SendPoints => pc[p] \in SendPoints
  /\ pc'[p] \in ClaimPoints =>
       pc[p] \in ClaimPoints /\ row' = row /\ snap'[p].loaded = snap[p].loaded

LEMMA FollowsOwn ==
  ASSUME TypeOK, TypeOK', RecordsSound, [Next]_vars, NEW p \in Procs, CallFollows(p), FollowsOn(p)
  PROVE  CallFollows(p)'
  <1>1. at[p] \in Steps /\ row[at[p]] \in Rows  BY DEF TypeOK
  <1>2. row[at[p]] # NoRow => row'[at[p]] # NoRow
    <2>1. KeptLaw(at[p])  BY <1>1, RowsKept
    <2>2. row'[at[p]] = row[at[p]] \/ row'[at[p]].ver > 0
      BY <1>1, <2>1 DEF KeptLaw, RowLaw, Rows, TypeOK
    <2> QED  BY <2>2 DEF NoRow
  <1> QED  BY <1>2 DEF FollowsOn, CallFollows, Settled, Fresh

\* A step that leaves the way to the claim, and does not end in a save that may fail.
LeadsOff(p) ==
  \E l : /\ Goto(p, l)
         /\ l \notin {"saveRetry", "releaseRetry", "crashed", "saveUnknown", "expireSave",
                      "dupSave"} \cup ClaimPoints
         /\ l \in SendPoints => pc[p] \in SendPoints

LEMMA LeadsOffFollows ==
  ASSUME TypeOK, NEW p \in Procs, LeadsOff(p), UNCHANGED at
  PROVE  FollowsOn(p)
  <1>1. PICK l : /\ Goto(p, l)
                 /\ l \notin {"saveRetry", "releaseRetry", "crashed", "saveUnknown", "expireSave",
                              "dupSave"} \cup ClaimPoints
                 /\ l \in SendPoints => pc[p] \in SendPoints
    BY DEF LeadsOff
  <1>2. pc'[p] = l  BY <1>1 DEF Goto, TypeOK
  <1> QED  BY <1>1, <1>2 DEF FollowsOn

LEMMA FinishLeadsOff ==
  ASSUME NEW p, NEW result \in Results \ {"crashed"}, Finish(p, result)
  PROVE  LeadsOff(p)
  BY DEF Finish, LeadsOff, Results, ClaimPoints, LoadPoints, SendPoints

\* Every step but three follows on; a load starts with a fresh copy.
LEMMA SendFollows ==
  ASSUME TypeOK, TypeOK', "rateLimit" \notin Faults, "retryable" \notin Faults,
         NEW p \in Procs, CallFollows(p), SendStep(p)
  PROVE  FollowsOn(p) \/ ProviderSend(p) \/ DupLoad(p)
  <1> USE ResultOfTyped
  <1>0. snap[p] \in Copies /\ ResultOf(snap[p].st) \in {"completed", "failed"}
    BY DEF TypeOK, ResultOf
  <1>a. \A result \in Results \ {"crashed"} : Finish(p, result) => LeadsOff(p)  BY FinishLeadsOff
  <1>b. {"failed", "completed"} \subseteq Results \ {"crashed"}  BY DEF Results
  <1>c. pc[p] \in SendPoints  BY DEF SendStep, SendPoints, LoadSequence, LoadCampaign,
    RecipientUnavailable, GateAllowlist, GateSuppression, GateApproval, Gate, GateRateLimit,
    GateClaim, SelectProvider, SaveAttempt, ProviderSend, SaveAccepted, SaveCampaign,
    SaveCampaignThen, MarkCompleted, ReloadCampaign, SaveSequence, SaveCompletion, SaveDenied,
    ReleaseDenied, SaveRetry, ReleaseRetry, MarkIdempotencyFailed, SaveUnknown, DupGet, DupLoad,
    DupSave
  <1>d. \A l \in {"saveDenied", "selectProvider", "saveAttempt", "providerSend", "saveCampaign",
                  "markCompleted", "reloadCampaign", "saveSequence", "saveCompletion", "dupGet",
                  "dupLoad", "releaseDenied"} :
          Goto(p, l) => LeadsOff(p)
    BY <1>c DEF LeadsOff, ClaimPoints, LoadPoints
  <1>1. CASE LoadSequence(p)
    BY <1>1, <1>c DEF LoadSequence, Goto, TypeOK, FollowsOn, ClaimPoints, LoadPoints, db
  <1>2. CASE LoadCampaign(p)
    <2>1. CASE LeadsOff(p)  BY <1>2, <2>1, LeadsOffFollows DEF LoadCampaign
    <2>2. CASE /\ snap' = [snap EXCEPT ![p] = BeginSending(snap[p])]
               /\ Goto(p, "allowlist")
      <3>1. snap'[p].loaded = snap[p].loaded
        BY <1>0, <2>2, BeginSendingMoves DEF Moves, TypeOK
      <3> QED
        BY <1>2, <1>c, <2>2, <3>1 DEF LoadCampaign, Goto, TypeOK, FollowsOn, ClaimPoints, LoadPoints, db
    <2> QED  BY <1>2, <1>0, <1>a, <1>b, <2>1, <2>2 DEF LoadCampaign
  <1>3. CASE \/ GateAllowlist(p) \/ GateSuppression(p) \/ GateApproval(p) \/ GateRateLimit(p)
    <2>1. CASE Deny(p)
      BY <1>3, <1>d, <2>1, LeadsOffFollows
      DEF Deny, GateAllowlist, GateSuppression, GateApproval, Gate, GateRateLimit
    <2>2. CASE ~Deny(p)
      <3>1. /\ \E l \in {"suppression", "approval", "rateLimit", "claim"} : Goto(p, l)
            /\ pc[p] \in ClaimPoints /\ UNCHANGED <<snap, row, at>>
        BY <1>3, <2>2 DEF GateAllowlist, GateSuppression, GateApproval, Gate, GateRateLimit,
           ClaimPoints, db
      <3> QED  BY <1>c, <3>1 DEF Goto, TypeOK, FollowsOn, ClaimPoints, LoadPoints
    <2> QED  BY <2>1, <2>2
  <1>4. CASE GateClaim(p) \/ SelectProvider(p)
    <2>1. LeadsOff(p) /\ UNCHANGED at  BY <1>4, <1>d DEF GateClaim, SelectProvider, Deny
    <2> QED  BY <2>1, LeadsOffFollows
  <1>5. CASE SaveAccepted(p) \/ SaveDenied(p) \/ SaveAttempt(p)
    <2>1. LeadsOff(p) /\ UNCHANGED at
      BY <1>5, <1>d DEF SaveAccepted, SaveDenied, SaveAttempt, SaveThen
    <2> QED  BY <2>1, LeadsOffFollows
  <1>6. CASE SaveRetry(p) \/ ReleaseRetry(p)
    BY <1>6 DEF SaveRetry, ReleaseRetry, MarkIdempotencyFailed, CallFollows
  <1>7. CASE \/ SaveCampaign(p) \/ MarkCompleted(p) \/ ReloadCampaign(p) \/ SaveSequence(p)
             \/ SaveCompletion(p) \/ DupGet(p) \/ RecipientUnavailable(p)
    <2>1. LeadsOff(p) /\ UNCHANGED at
      BY <1>7, <1>a, <1>b, <1>d DEF SaveCampaign, SaveCampaignThen, MarkCompleted, ReloadCampaign,
         SaveSequence, SaveCompletion, DupGet, RecipientUnavailable
    <2> QED  BY <2>1, LeadsOffFollows
  <1>8. CASE ReleaseDenied(p) \/ SaveUnknown(p) \/ DupSave(p)
    <2>1. LeadsOff(p) /\ UNCHANGED at
      BY <1>8, <1>0, <1>a, <1>b, <1>d DEF ReleaseDenied, MarkIdempotencyFailed, SaveUnknown, DupSave
    <2> QED  BY <2>1, LeadsOffFollows
  <1> QED  BY <1>1, <1>2, <1>3, <1>4, <1>5, <1>6, <1>7, <1>8 DEF SendStep

LEMMA OtherFollows ==
  ASSUME TypeOK, TypeOK', NEW p \in Procs, CallFollows(p), OtherStep(p)
  PROVE  FollowsOn(p)
  <1>a. \A result \in Results \ {"crashed"} : Finish(p, result) => LeadsOff(p)  BY FinishLeadsOff
  <1>b. {"awaiting", "undrafted", "ok", "threw"} \subseteq Results \ {"crashed"}  BY DEF Results
  <1>c. \A l \in {"saveDraft", "reconcileKey"} : Goto(p, l) => LeadsOff(p)
    BY DEF LeadsOff, ClaimPoints, LoadPoints, SendPoints
  <1>1. LeadsOff(p) /\ UNCHANGED at
    BY <1>a, <1>b, <1>c DEF OtherStep, PrepareFind, PrepareSave, ReconcileSave, ReconcileKey,
       RespondSave, ExpireSave, SaveOrThrow, LinkSave
  <1> QED  BY <1>1, LeadsOffFollows

\* A call starts with the row as it is; an expiry holds the failure it will save.
LEMMA StartFollows ==
  ASSUME TypeOK, TypeOK', NEW p \in Procs, Start(p)
  PROVE  CallFollows(p)'
  <1>1. CASE \E s \in Steps : LoadExecution(p, s)
    <2>1. PICK s \in Steps : LoadExecution(p, s)  BY <1>1
    <2>2. /\ at'[p] = s /\ row'[s] = row[s] /\ row[s] # NoRow
          /\ snap'[p] = Reconstitute(row[s]) /\ pc'[p] = "loadSequence"
      BY <2>1 DEF LoadExecution, Goto, TypeOK, db
    <2> QED  BY <2>2 DEF CallFollows, Fresh, Reconstitute
  <1>2. CASE \E s \in Steps : ExpireLoad(p, s)
    <2>1. PICK s \in Steps : ExpireLoad(p, s)  BY <1>2
    <2>2. /\ pc'[p] = "expireSave" /\ row[s].st = "PENDING_APPROVAL"
          /\ snap'[p] = MarkNonRetryable(Reconstitute(row[s]))
      BY <2>1 DEF ExpireLoad, Load, Goto, TypeOK
    <2> DEFINE e == Reconstitute(row[s])
    <2>3. e \in Copies /\ e.st = "PENDING_APPROVAL"
      BY <2>2, RowCopyType DEF Reconstitute, TypeOK
    <2> HIDE DEF e
    <2>4. MarkNonRetryable(e) = Transition(e, "FAILED")
      BY <2>3 DEF MarkNonRetryable, PreSubmission, PositiveStatuses
    <2>5. MarkNonRetryable(e).st = "FAILED"  BY <2>3, <2>4, TransitionStatus DEF Transitions
    <2>6. snap'[p].st \in SettledStatuses
      BY <2>2, <2>5 DEF e, SettledStatuses, FailureStatuses
    <2> QED  BY <2>2, <2>6 DEF CallFollows, SendPoints, ClaimPoints, LoadPoints
  <1>3. CASE ~\E s \in Steps : LoadExecution(p, s) \/ ExpireLoad(p, s)
    <2>1. pc'[p] \in {"reconcileSave", "respondSave", "findDraft", "linkSave"}
      BY <1>3 DEF Start, ReconcileLoad, RespondLoad, Load, PrepareLoad, LinkLoad, Goto, TypeOK
    <2> QED  BY <2>1 DEF CallFollows, SendPoints, ClaimPoints, LoadPoints
  <1> QED  BY <1>1, <1>2, <1>3

\* The answer of the provider, and what the duplicate handler makes of the row.
LEMMA AnswerFollows ==
  ASSUME TypeOK, TypeOK', RecordsSound, "retryable" \notin Faults,
         NEW p \in Procs, CallFollows(p), ProviderSend(p)
  PROVE  CallFollows(p)'
  <1>1. snap[p] \in Copies /\ snap[p].st = "SENDING"
    BY DEF TypeOK, ProviderSend, RecordsSound, CallKnows, CopyKnows
  <1>2. row[at[p]] # NoRow /\ UNCHANGED <<row, at>>
    BY DEF ProviderSend, CallFollows, SendPoints, db
  <1>3. pc'[p] \in {"saveAccepted", "saveUnknown", "saveDenied"}
    BY DEF ProviderSend, Deny, Goto, TypeOK
  <1>4. pc'[p] = "saveUnknown" => snap'[p].st = "DELIVERY_UNKNOWN"
    <2>1. pc'[p] = "saveUnknown" => snap'[p] = MarkDeliveryUnknown(snap[p])
      BY DEF ProviderSend, Deny, Goto, TypeOK
    <2> QED  BY <1>1, <2>1, SendingStatus
  <1> QED
    BY <1>2, <1>3, <1>4 DEF CallFollows, ClaimPoints, LoadPoints, SettledStatuses, FailureStatuses

LEMMA HandlerFollows ==
  ASSUME TypeOK, TypeOK', RecordsSound, NEW p \in Procs, CallFollows(p), DupLoad(p)
  PROVE  CallFollows(p)'
  <1> DEFINE e == Reconstitute(row[at[p]])
  <1>1. e \in Copies /\ e.st = row[at[p]].st /\ e.ver = e.loaded
    BY RowCopyType DEF Reconstitute, TypeOK
  <1>2. row[at[p]] # NoRow /\ UNCHANGED <<row, at>>
    BY DEF DupLoad, CallFollows, SendPoints, db
  <1> HIDE DEF e
  <1>3. CASE Finish(p, ResultOf(e.st))
    <2>1. pc'[p] \in {"completed", "failed"}
      BY <1>3 DEF Finish, Goto, ResultOf, TypeOK
    <2> QED  BY <2>1 DEF CallFollows, SendPoints, ClaimPoints, LoadPoints
  <1>4. CASE /\ view[p] # "PENDING" /\ e.st \notin SettledStatuses
             /\ snap' = [snap EXCEPT ![p] = Resolved(e, view[p])]
             /\ Goto(p, "dupSave")
    <2>1. view[p] # "COMPLETED"
      <3>1. Positive(at[p]) => e.st \in SettledStatuses  BY <1>1 DEF Positive, SettledStatuses
      <3> QED  BY <1>4, <3>1 DEF DupLoad, RecordsSound, CallKnows, AcceptanceKnown
    <2>2. snap'[p] = MarkRequiresReconciliation(e) /\ pc'[p] = "dupSave"
      BY <1>4, <2>1 DEF Resolved, Goto, TypeOK
    <2>3. \/ MarkRequiresReconciliation(e) = e
          \/ MarkRequiresReconciliation(e).st = "REQUIRES_RECONCILIATION"
      BY <1>1, TransitionStatus DEF MarkRequiresReconciliation, Transition
    <2>4. snap'[p].st \in SettledStatuses \/ snap'[p].ver = snap'[p].loaded
      BY <1>1, <2>2, <2>3 DEF SettledStatuses, FailureStatuses
    <2> QED  BY <1>2, <2>2, <2>4 DEF CallFollows, SendPoints, ClaimPoints, LoadPoints
  <1> QED  BY <1>3, <1>4 DEF DupLoad, e

LEMMA StepFollows ==
  ASSUME TypeOK, TypeOK', RecordsSound, "crash" \notin Faults, "rateLimit" \notin Faults,
         "retryable" \notin Faults, NEW p \in Procs, CallFollows(p), Step(p)
  PROVE  CallFollows(p)'
  <1>0. [Next]_vars  BY DEF Step, Next
  <1>1. FollowsOn(p) => CallFollows(p)'  BY <1>0, FollowsOwn
  <1>2. ~Crash(p)  BY DEF Crash
  <1> QED
    BY <1>1, <1>2, StartFollows, SendFollows, OtherFollows, AnswerFollows, HandlerFollows DEF Step

\* A record becomes PENDING only by the claim of a call, which goes on to submit.
LEMMA RecordClaimed ==
  ASSUME TypeOK, TypeOK', NEW p \in Procs, Step(p), NEW s \in Steps,
         key[s] # "PENDING", key'[s] = "PENDING"
  PROVE  /\ pc[p] = "claim" /\ at[p] = s /\ Claimable(key[s])
         /\ pc'[p] = "selectProvider" /\ UNCHANGED <<row, at, snap>>
  <1>1. CASE Start(p)
    BY <1>1 DEF Start, LoadExecution, ReconcileLoad, RespondLoad, ExpireLoad, PrepareLoad,
       LinkLoad, Load, db
  <1>2. CASE \/ LoadSequence(p) \/ LoadCampaign(p) \/ RecipientUnavailable(p)
             \/ GateAllowlist(p) \/ GateSuppression(p) \/ GateApproval(p)
             \/ GateRateLimit(p) \/ SelectProvider(p) \/ ProviderSend(p)
    BY <1>2 DEF LoadSequence, LoadCampaign, RecipientUnavailable, GateAllowlist,
       GateSuppression, GateApproval, GateRateLimit, SelectProvider, ProviderSend, Gate, db
  <1>3. CASE \/ SaveCampaign(p) \/ ReloadCampaign(p) \/ SaveSequence(p) \/ SaveCompletion(p)
             \/ SaveUnknown(p) \/ DupGet(p) \/ DupLoad(p) \/ DupSave(p)
    BY <1>3 DEF SaveCampaign, SaveCampaignThen, ReloadCampaign, SaveSequence, SaveCompletion,
       SaveUnknown, DupGet, DupLoad, DupSave, db
  <1>4. CASE SaveAttempt(p) \/ SaveAccepted(p) \/ SaveDenied(p) \/ SaveRetry(p)
    BY <1>4 DEF SaveAttempt, SaveAccepted, SaveDenied, SaveRetry, SaveThen
  <1>5. CASE MarkCompleted(p) \/ ReleaseDenied(p) \/ ReleaseRetry(p)
    BY <1>5 DEF MarkCompleted, ReleaseDenied, ReleaseRetry, MarkIdempotencyFailed, TypeOK
  <1>6. CASE GateClaim(p)
    <2>1. key'[s] # key[s]  OBVIOUS
    <2>2. at[p] = s /\ Claimable(key[s])  BY <1>6, <2>1 DEF GateClaim, Claim, TypeOK
    <2> QED  BY <1>6, <2>1, <2>2 DEF GateClaim, Goto, TypeOK
  <1>7. CASE OtherStep(p) \/ Crash(p)
    BY <1>7 DEF OtherStep, PrepareFind, PrepareSave, ReconcileSave, ReconcileKey, RespondSave,
       ExpireSave, LinkSave, SaveOrThrow, Crash, db, TypeOK
  <1> QED  BY <1>1, <1>2, <1>3, <1>4, <1>5, <1>6, <1>7 DEF Step, SendStep

\* The steps of an owner: it stays one until it settles the execution.
LEMMA OwnerSteps ==
  ASSUME "crash" \notin Faults, NEW p \in Procs, Step(p), pc[p] \in OwnerPoints
  PROVE  \/ SelectProvider(p) \/ SaveAttempt(p) \/ ProviderSend(p)
         \/ SaveAccepted(p) \/ SaveUnknown(p) \/ SaveDenied(p)
  <1>1. ~Start(p) /\ ~OtherStep(p) /\ ~Crash(p)
    BY DEF OwnerPoints, Start, LoadExecution, ReconcileLoad, RespondLoad, ExpireLoad, PrepareLoad,
       LinkLoad, Load, OtherStep, PrepareFind, PrepareSave, ReconcileSave, ReconcileKey,
       RespondSave, ExpireSave, LinkSave, SaveOrThrow, Crash
  <1>2. ~(\/ LoadSequence(p) \/ LoadCampaign(p) \/ RecipientUnavailable(p)
          \/ GateAllowlist(p) \/ GateSuppression(p) \/ GateApproval(p)
          \/ GateRateLimit(p) \/ GateClaim(p))
    BY DEF OwnerPoints, LoadSequence, LoadCampaign, RecipientUnavailable, GateAllowlist,
       GateSuppression, GateApproval, GateRateLimit, GateClaim, Gate
  <1>3. ~(\/ SaveCampaign(p) \/ MarkCompleted(p) \/ ReloadCampaign(p) \/ SaveSequence(p)
          \/ SaveCompletion(p) \/ ReleaseDenied(p) \/ SaveRetry(p) \/ ReleaseRetry(p)
          \/ DupGet(p) \/ DupLoad(p) \/ DupSave(p))
    BY DEF OwnerPoints, SaveCampaign, SaveCampaignThen, MarkCompleted, ReloadCampaign, SaveSequence,
       SaveCompletion, ReleaseDenied, SaveRetry, ReleaseRetry, MarkIdempotencyFailed, DupGet,
       DupLoad, DupSave
  <1> QED  BY <1>1, <1>2, <1>3 DEF Step, SendStep

LEMMA OwnerStays ==
  ASSUME TypeOK, TypeOK', RecordsSound, "crash" \notin Faults, "retryable" \notin Faults,
         NEW p \in Procs, CallFollows(p), Step(p), Owns(p),
         row'[at[p]].st \notin SettledStatuses
  PROVE  at'[p] = at[p] /\ Owns(p)'
  <1>0. /\ snap[p] \in Copies /\ at[p] \in Steps /\ CallKnows(p)
        /\ pc[p] \in OwnerPoints /\ Fresh(p)
    BY DEF TypeOK, RecordsSound, Owns
  <1>1. CASE SelectProvider(p) \/ ProviderSend(p)
    <2>1. snap[p].st = "SENDING"
      BY <1>0, <1>1 DEF SelectProvider, ProviderSend, CallKnows, CopyKnows, GatePoints
    <2>2. snap'[p].loaded = snap[p].loaded
      <3>1. snap' = snap \/ \E c \in {MarkNonRetryable(snap[p]), MarkAccepted(snap[p]),
                                      MarkDeliveryUnknown(snap[p])} : snap'[p] = c
        BY <1>1 DEF SelectProvider, ProviderSend, Deny, TypeOK
      <3> QED  BY <1>0, <2>1, <3>1, SendingMoves DEF Moves
    <2>3. pc'[p] \in OwnerPoints /\ UNCHANGED <<row, at>>
      BY <1>1 DEF SelectProvider, ProviderSend, Deny, Goto, TypeOK, OwnerPoints, db
    <2> QED  BY <1>0, <2>2, <2>3 DEF Owns, Fresh
  <1>2. Current(p)  BY <1>0 DEF Current, CanCommit, Fresh
  <1>3. CASE SaveAttempt(p)
    <2>1. /\ pc'[p] = "providerSend" /\ UNCHANGED at
          /\ snap'[p].loaded = snap[p].ver
          /\ row'[at[p]] = Stored(snap[p])
      BY <1>0, <1>2, <1>3 DEF SaveAttempt, SaveThen, SaveExecution, Goto, TypeOK, Copies
    <2> QED  BY <2>1 DEF Owns, OwnerPoints, Fresh, Stored
  <1>4. CASE SaveAccepted(p) \/ SaveUnknown(p) \/ SaveDenied(p)
    <2>1. /\ pc[p] \in {"saveAccepted", "saveUnknown", "saveDenied"}
          /\ SaveExecution(p) /\ UNCHANGED at
      BY <1>4 DEF SaveAccepted, SaveUnknown, SaveDenied, SaveThen
    <2>2. row'[at[p]] = Stored(snap[p])  BY <1>0, <1>2, <2>1 DEF SaveExecution, TypeOK
    <2>3. snap[p].st \in SettledStatuses
      BY <1>0, <2>1 DEF CallKnows, CopyKnows, CallFollows, SettledStatuses, FailureStatuses
    <2> QED  BY <2>2, <2>3 DEF Stored
  <1> QED  BY <1>0, <1>1, <1>3, <1>4, OwnerSteps

\* A record whose attempt is saved stays claimed.
LEMMA AttemptsClaimed ==
  ASSUME TypeOK, TypeOK', RecordsSound, ClaimProtectsSend, ClaimSound,
         NEW p \in Procs, Step(p), NEW s \in Steps, row'[s].st = "SENDING"
  PROVE  ~Claimable(key'[s])
  <1>0. [Next]_vars  BY DEF Step, Next
  <1>1. CASE row'[s] = row[s]
    <2> SUFFICES ASSUME Claimable(key'[s]) PROVE FALSE  OBVIOUS
    <2>1. ~Claimable(key[s])  BY <1>1 DEF ClaimSound
    <2>2. PICK q \in Procs : at[q] = s /\ pc[q] \in {"releaseDenied", "releaseRetry"}
      BY <1>0, <2>1, KeyFreed
    <2>3. Settled(s)
      BY <2>2 DEF ClaimSound, CallFollows, ClaimProtectsSend, CopyAgrees
    <2> QED
      BY <1>1, <2>3 DEF Settled, SettledStatuses, PositiveStatuses, FailureStatuses
  <1>2. CASE row'[s] # row[s]
    <2>1. ~Settled(s)'
      BY DEF Settled, SettledStatuses, PositiveStatuses, FailureStatuses
    <2>2. SaveAttempt(p) /\ at[p] = s /\ Fresh(p)  BY <1>2, <2>1, RowMoves DEF ClaimSound
    <2>3. MaySend(p) /\ ~Settled(s)
      BY <2>2 DEF SaveAttempt, MaySend, RecordsSound, CallKnows, FreshKnows, CopyPoints,
         SendingPoints, GatePoints
    <2>4. ~Claimable(key[s])  BY <2>2, <2>3 DEF ClaimProtectsSend, OneSender
    <2> QED  BY <2>2, <2>4 DEF SaveAttempt, SaveThen
  <1> QED  BY <1>1, <1>2

LEMMA OwnerThere ==
  ASSUME TypeOK, TypeOK', RecordsSound, ClaimSound, "crash" \notin Faults, "retryable" \notin Faults,
         NEW p \in Procs, Step(p), Alone(p),
         NEW s \in Steps, key'[s] = "PENDING", ~Settled(s)'
  PROVE  \E q \in Procs : at'[q] = s /\ Owns(q)'
  <1>0. [Next]_vars  BY DEF Step, Next
  <1>1. ~Settled(s)  BY <1>0, RowsKept DEF KeptLaw, RowLaw, Settled
  <1>2. CASE key[s] # "PENDING"
    <2>1. /\ pc[p] = "claim" /\ at[p] = s /\ Claimable(key[s])
          /\ pc'[p] = "selectProvider" /\ UNCHANGED <<row, at, snap>>
      BY <1>2, RecordClaimed
    <2>2. row[s].st # "SENDING"  BY <2>1 DEF ClaimSound
    <2>3. Fresh(p)  BY <1>1, <2>1, <2>2 DEF ClaimSound, CallFollows, ClaimPoints
    <2> QED  BY <2>1, <2>3 DEF Owns, OwnerPoints, Fresh
  <1>3. CASE key[s] = "PENDING"
    <2>1. PICK q \in Procs : at[q] = s /\ Owns(q)  BY <1>1, <1>3 DEF ClaimSound, ClaimHasOwner
    <2>2. CASE q = p  BY <2>1, <2>2, OwnerStays DEF ClaimSound, Settled
    <2>3. CASE q # p /\ row'[s] = row[s]  BY <2>1, <2>3 DEF Alone, Owns, Fresh
    <2>4. CASE q # p /\ row'[s] # row[s]
      <3>1. row[s] # NoRow
        BY <2>1 DEF ClaimSound, CallFollows, Owns, OwnerPoints, SendPoints
      <3>2. SaveAttempt(p) /\ at[p] = s /\ Fresh(p)
        BY <2>4, <3>1, RowMoves DEF ClaimSound
      <3>3. Owns(p)  BY <3>2 DEF Owns, OwnerPoints, SaveAttempt
      <3> QED  BY <3>2, <3>3, OwnerStays DEF ClaimSound, Settled
    <2> QED  BY <2>2, <2>3, <2>4
  <1> QED  BY <1>2, <1>3

LEMMA ClaimSoundNext ==
  ASSUME TypeOK, TypeOK', RecordsSound, ClaimProtectsSend, ClaimSound,
         "crash" \notin Faults, "rateLimit" \notin Faults, "retryable" \notin Faults, [Next]_vars
  PROVE  ClaimSound'
  <1>1. ASSUME NEW p \in Procs, Step(p) PROVE ClaimSound'
    <2>1. Alone(p)  BY <1>1, LocalsType, CallAlone DEF Step
    <2>2. ASSUME NEW q \in Procs PROVE CallFollows(q)'
      <3>1. CallFollows(p) /\ CallFollows(q)  BY DEF ClaimSound
      <3> QED  BY <1>1, <2>1, <3>1, OthersFollow, StepFollows
    <2>3. \A s \in Steps : row'[s].st = "SENDING" => ~Claimable(key'[s])
      BY <1>1, AttemptsClaimed
    <2>4. ClaimHasOwner'  BY <1>1, <2>1, OwnerThere DEF ClaimHasOwner
    <2> QED  BY <2>2, <2>3, <2>4 DEF ClaimSound
  <1>2. CASE Environment \/ UNCHANGED vars
    <2>1. UNCHANGED <<row, key, pc, at, snap>>
      BY <1>2 DEF Environment, Approve, Disapprove, RemoveFromAllowlist, OptOut, db, vars
    <2>2. ASSUME NEW q \in Procs PROVE CallFollows(q)'
      BY <2>1 DEF ClaimSound, CallFollows, Fresh, Settled
    <2>3. \A s \in Steps : row'[s].st = "SENDING" => ~Claimable(key'[s])
      BY <2>1 DEF ClaimSound
    <2>4. \A q \in Procs : Owns(q) => Owns(q)'  BY <2>1 DEF Owns, Fresh
    <2>5. ASSUME NEW s \in Steps, key'[s] = "PENDING", ~Settled(s)'
          PROVE  \E q \in Procs : at'[q] = s /\ Owns(q)'
      <3>1. key[s] = "PENDING" /\ ~Settled(s)  BY <2>1, <2>5 DEF Settled
      <3>2. PICK q \in Procs : at[q] = s /\ Owns(q)  BY <3>1 DEF ClaimSound, ClaimHasOwner
      <3> QED  BY <2>1, <2>4, <3>2
    <2>6. ClaimHasOwner'  BY <2>5 DEF ClaimHasOwner
    <2> QED  BY <2>2, <2>3, <2>6 DEF ClaimSound
  <1> QED  BY <1>1, <1>2 DEF Next, Step

LEMMA ClaimSoundInit == Init => ClaimSound
  <1> SUFFICES ASSUME Init PROVE ClaimSound  OBVIOUS
  <1>1. \A p \in Procs : CallFollows(p)
    BY DEF Init, CallFollows, SendPoints, ClaimPoints, LoadPoints
  <1>2. DraftedRow.st = "PENDING_APPROVAL"  BY DraftStatus DEF DraftedRow, Stored
  <1>3. \A s \in Steps : key[s] = "ABSENT" /\ row[s].st # "SENDING"  BY <1>2 DEF Init, NoRow
  <1> QED  BY <1>1, <1>3 DEF ClaimSound, ClaimHasOwner

\* While no process dies and no answer gives a claim back, a caller that loses the claim
\* never waits in vain: the execution is settled, or a call holds the claim whose next save
\* will take.  Nobody can make the owner's copy stale once its attempt is under way.
THEOREM ClaimsAreOwned ==
  ASSUME "crash" \notin Faults, "rateLimit" \notin Faults, "retryable" \notin Faults
  PROVE  Spec => []ClaimHasOwner
  <1>1. /\ TypeOK /\ TypeOK' /\ RecordsSound /\ ClaimProtectsSend /\ ClaimSound /\ [Next]_vars
        => ClaimSound'
    BY ClaimSoundNext
  <1>2. ClaimSound => ClaimHasOwner  BY DEF ClaimSound
  <1>3. Spec => []ClaimProtectsSend  BY ClaimHolds
  <1> QED  BY <1>1, <1>2, <1>3, ClaimSoundInit, RecordsHold, TypeCorrect, PTL DEF Spec
=============================================================================
