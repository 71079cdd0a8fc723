------------------------- MODULE OutreachSendProof -------------------------
(***************************************************************************)
(* Proofs about OutreachSend, for every set of calls, every length of the  *)
(* sequence, every budget, and every choice of operations and faults.      *)
(***************************************************************************)
EXTENDS OutreachSendProperties, TLAPS

-----------------------------------------------------------------------------
(* The operations of the aggregate take copies to copies.                    *)

LEMMA UpdateType ==
  ASSUME NEW e \in Copies, NEW to \in Statuses, NEW n \in Nat
  PROVE  [e EXCEPT !.st = to, !.ver = n] \in Copies
  BY DEF Copies

LEMMA VersionType ==
  ASSUME NEW e \in Copies
  PROVE  e.ver + 1 \in Nat
  BY DEF Copies

LEMMA TransitionType ==
  ASSUME NEW e \in Copies, NEW to
  PROVE  Transition(e, to) \in Copies
  <1>1. <<e.st, to>> \in Transitions => to \in Statuses
    BY Zenon DEF Transitions, Statuses
  <1> QED  BY <1>1, UpdateType, VersionType DEF Transition

LEMMA BeginSendingType ==
  ASSUME NEW e \in Copies
  PROVE  BeginSending(e) \in Copies
  BY TransitionType DEF BeginSending

LEMMA MarkType ==
  ASSUME NEW e \in Copies
  PROVE  /\ MarkRetryable(e) \in Copies
         /\ MarkNonRetryable(e) \in Copies
         /\ MarkAccepted(e) \in Copies
         /\ MarkDeliveryUnknown(e) \in Copies
         /\ MarkRequiresReconciliation(e) \in Copies
  BY TransitionType DEF MarkRetryable, MarkNonRetryable, MarkAccepted,
     MarkDeliveryUnknown, MarkRequiresReconciliation

LEMMA ReconciledType ==
  ASSUME NEW e \in Copies, NEW to \in Statuses
  PROVE  MarkReconciled(e, to) \in Copies
  BY UpdateType, VersionType DEF MarkReconciled

LEMMA ResponseType ==
  ASSUME NEW e \in Copies, NEW kind
  PROVE  RecordResponse(e, kind) \in Copies
  <1> DEFINE delivered1 == IF e.st \in {"PROVIDER_ACCEPTED", "DELIVERY_PENDING"}
                             THEN Transition(e, "DELIVERED") ELSE e
             opened1 == IF delivered1.st = "DELIVERED"
                          THEN Transition(delivered1, "OPENED") ELSE delivered1
  <1>1. delivered1 \in Copies  BY TransitionType
  <1>2. opened1 \in Copies
    <2> HIDE DEF delivered1
    <2> QED  BY <1>1, TransitionType DEF opened1
  <1>3. RecordResponse(e, kind) = IF kind = "REPLIED" THEN Transition(opened1, "REPLIED") ELSE opened1
    BY DEF RecordResponse
  <1> HIDE DEF opened1
  <1> QED  BY <1>2, <1>3, TransitionType

LEMMA ResolvedType ==
  ASSUME NEW e \in Copies, NEW k
  PROVE  Resolved(e, k) \in Copies
  BY TransitionType, MarkType DEF Resolved

LEMMA DraftType ==
  /\ StartedDraft \in Copies
  /\ SetDraft(StartedDraft) \in Copies
  /\ Reject(StartedDraft) \in Copies
  <1>1. StartedDraft \in Copies  BY DEF StartedDraft, Copies, Statuses
  <1> QED  BY <1>1, TransitionType DEF SetDraft, Reject

LEMMA RowCopyType ==
  /\ \A r \in Rows : Reconstitute(r) \in Copies
  /\ \A e \in Copies : Stored(e) \in Rows
  /\ NoCopy \in Copies /\ NoRow \in Rows
  BY DEF Reconstitute, Stored, Rows, Copies, NoCopy, NoRow

LEMMA StepsType == 1 \in Steps
  BY NumStepsAssumption DEF Steps

-----------------------------------------------------------------------------
(* TypeOK, in the parts a step touches.                                      *)

PcOK == pc \in [Procs -> {"idle"} \cup SendPoints \cup OtherPoints \cup Results]
LocalsOK == PcOK /\ snap \in [Procs -> Copies] /\ sq \in [Procs -> SeqCopies]
            /\ cp \in [Procs -> CampCopies] /\ view \in [Procs -> KeyStates]
DbOK == row \in [Steps -> Rows] /\ key \in [Steps -> KeyStates]
        /\ seq \in SeqCopies /\ camp \in CampCopies
EnvOK == allowed \in BOOLEAN /\ suppressed \in BOOLEAN
         /\ approval \in [Steps -> {"PENDING", "APPROVED", "REJECTED", "EXPIRED"}]
AtOK == at \in [Procs -> Steps]
DeliveredOK == delivered \in [Steps -> Nat]

LEMMA TypeParts == TypeOK <=> LocalsOK /\ DbOK /\ EnvOK /\ AtOK /\ DeliveredOK
  BY DEF TypeOK, LocalsOK, PcOK, DbOK, EnvOK, AtOK, DeliveredOK

LEMMA TypePartsNext == LocalsOK' /\ DbOK' /\ EnvOK' /\ AtOK' /\ DeliveredOK' => TypeOK'
  BY DEF TypeOK, LocalsOK, PcOK, DbOK, EnvOK, AtOK, DeliveredOK

LEMMA GotoType ==
  ASSUME PcOK, NEW p, NEW l \in SendPoints \cup OtherPoints \cup Results, Goto(p, l)
  PROVE  PcOK'
  BY DEF PcOK, Goto

LEMMA FinishType ==
  ASSUME LocalsOK, NEW p, NEW result \in Results, Finish(p, result)
  PROVE  LocalsOK'
  <1>1. PcOK'  BY GotoType DEF Finish, LocalsOK
  <1>2. NoSeq \in SeqCopies /\ NoCamp \in CampCopies /\ "ABSENT" \in KeyStates
    BY DEF NoSeq, NoCamp, SeqCopies, CampCopies, KeyStates
  <1> QED  BY <1>1, <1>2, RowCopyType DEF Finish, LocalsOK

LEMMA SaveType ==
  ASSUME LocalsOK, DbOK, AtOK, NEW p \in Procs, SaveExecution(p)
  PROVE  row' \in [Steps -> Rows]
  <1>1. snap[p] \in Copies  BY DEF LocalsOK
  <1>2. Stored(snap[p]) \in Rows  BY <1>1, RowCopyType
  <1> QED  BY <1>2 DEF SaveExecution, DbOK

LEMMA LoadedType ==
  ASSUME NEW e \in Copies
  PROVE  [e EXCEPT !.loaded = e.ver] \in Copies
  BY DEF Copies

LEMMA SaveThenType ==
  ASSUME LocalsOK, DbOK, AtOK, NEW p \in Procs, NEW next \in SendPoints, SaveThen(p, next)
  PROVE  LocalsOK' /\ DbOK'
  <1>1. row' \in [Steps -> Rows]  BY SaveType DEF SaveThen
  <1>2. DbOK'  BY <1>1 DEF SaveThen, DbOK
  <1>3. PcOK'
    <2>1. "dupGet" \in SendPoints  BY DEF SendPoints
    <2> QED  BY <2>1, GotoType DEF SaveThen, LocalsOK
  <1>4. snap' \in [Procs -> Copies]
    <2>1. [snap[p] EXCEPT !.loaded = snap[p].ver] \in Copies  BY LoadedType DEF LocalsOK
    <2> QED  BY <2>1 DEF SaveThen, LocalsOK
  <1> QED  BY <1>2, <1>3, <1>4 DEF SaveThen, LocalsOK

LEMMA DenyType ==
  ASSUME LocalsOK, NEW p \in Procs, Deny(p)
  PROVE  PcOK' /\ snap' \in [Procs -> Copies]
  <1>1. PcOK'
    <2>1. "saveDenied" \in SendPoints  BY DEF SendPoints
    <2> QED  BY <2>1, GotoType DEF Deny, LocalsOK
  <1>2. MarkNonRetryable(snap[p]) \in Copies  BY MarkType DEF LocalsOK
  <1> QED  BY <1>1, <1>2 DEF Deny, LocalsOK

-----------------------------------------------------------------------------
(* Each step of a call keeps every variable in its type.                     *)

LEMMA StartType ==
  ASSUME TypeOK, NEW p \in Procs, Start(p)
  PROVE  TypeOK'
  <1> USE TypeParts, TypePartsNext
  <1>0. LocalsOK /\ DbOK /\ EnvOK /\ AtOK /\ DeliveredOK  OBVIOUS
  <1>a. ASSUME NEW op, NEW s \in Steps, NEW copy \in Copies, NEW l \in OtherPoints,
               Load(p, op, s, copy, l)
        PROVE  TypeOK'
    <2>1. PcOK'  BY <1>0, <1>a, GotoType DEF Load, LocalsOK
    <2>2. LocalsOK'  BY <1>0, <1>a, <2>1 DEF Load, LocalsOK
    <2> QED  BY <1>0, <1>a, <2>2 DEF Load, DbOK, EnvOK, AtOK, DeliveredOK, db, env
  <1>1. ASSUME NEW s \in Steps, LoadExecution(p, s) PROVE TypeOK'
    <2>1. PcOK'
      <3>1. "loadSequence" \in SendPoints  BY DEF SendPoints
      <3> QED  BY <1>0, <1>1, <3>1, GotoType DEF LoadExecution, LocalsOK
    <2>2. Reconstitute(row[s]) \in Copies  BY <1>0, RowCopyType DEF DbOK
    <2>3. LocalsOK'  BY <1>0, <1>1, <2>1, <2>2 DEF LoadExecution, LocalsOK
    <2> QED  BY <1>0, <1>1, <2>3 DEF LoadExecution, DbOK, EnvOK, AtOK, DeliveredOK, db, env
  <1>2. ASSUME NEW s \in Steps, ReconcileLoad(p, s) PROVE TypeOK'
    <2>1. Reconstitute(row[s]) \in Copies  BY <1>0, RowCopyType DEF DbOK
    <2>2. MarkReconciled(Reconstitute(row[s]), IF delivered[s] > 0 THEN "DELIVERED" ELSE "FAILED")
            \in Copies
      BY <2>1, ReconciledType DEF Statuses
    <2>3. "reconcileSave" \in OtherPoints  BY DEF OtherPoints
    <2> QED  BY <1>2, <1>a, <2>2, <2>3 DEF ReconcileLoad
  <1>3. ASSUME NEW s \in Steps, RespondLoad(p, s) PROVE TypeOK'
    <2>1. Reconstitute(row[s]) \in Copies  BY <1>0, RowCopyType DEF DbOK
    <2>2. PICK kind \in {"OPENED", "REPLIED"} :
            Load(p, "respond", s, RecordResponse(Reconstitute(row[s]), kind), "respondSave")
      BY <1>3 DEF RespondLoad
    <2>3. RecordResponse(Reconstitute(row[s]), kind) \in Copies  BY <2>1, ResponseType
    <2>4. "respondSave" \in OtherPoints  BY DEF OtherPoints
    <2> QED  BY <1>a, <2>2, <2>3, <2>4
  <1>4. ASSUME NEW s \in Steps, ExpireLoad(p, s) PROVE TypeOK'
    <2>1. Reconstitute(row[s]) \in Copies  BY <1>0, RowCopyType DEF DbOK
    <2>2. MarkNonRetryable(Reconstitute(row[s])) \in Copies  BY <2>1, MarkType
    <2>3. "expireSave" \in OtherPoints  BY DEF OtherPoints
    <2> QED  BY <1>4, <1>a, <2>2, <2>3 DEF ExpireLoad
  <1>5. CASE PrepareLoad(p)
    <2>1. PcOK'
      <3>1. "findDraft" \in OtherPoints  BY DEF OtherPoints
      <3> QED  BY <1>0, <1>5, <3>1, GotoType DEF PrepareLoad, LocalsOK
    <2>2. LocalsOK'  BY <1>0, <1>5, <2>1 DEF PrepareLoad, LocalsOK
    <2>3. seq.idx + 1 \in Steps
      <3>1. seq.idx \in Nat  BY <1>0 DEF DbOK, SeqCopies
      <3>2. seq.idx < NumSteps  BY <1>5 DEF PrepareLoad
      <3> QED  BY <3>1, <3>2, NumStepsAssumption DEF Steps
    <2>4. AtOK'  BY <1>0, <1>5, <2>3 DEF PrepareLoad, AtOK
    <2> QED  BY <1>0, <1>5, <2>2, <2>4 DEF PrepareLoad, DbOK, EnvOK, DeliveredOK, db, env
  <1>6. CASE LinkLoad(p)
    <2>1. PcOK'
      <3>1. "linkSave" \in OtherPoints  BY DEF OtherPoints
      <3> QED  BY <1>0, <1>6, <3>1, GotoType DEF LinkLoad, LocalsOK
    <2>2. LocalsOK'  BY <1>0, <1>6, <2>1 DEF LinkLoad, LocalsOK, DbOK
    <2> QED  BY <1>0, <1>6, <2>2 DEF LinkLoad, DbOK, EnvOK, AtOK, DeliveredOK, db, env
  <1> QED  BY <1>1, <1>2, <1>3, <1>4, <1>5, <1>6 DEF Start

LEMMA EnvironmentType ==
  ASSUME TypeOK, Environment
  PROVE  TypeOK'
  <1> USE TypeParts, TypePartsNext
  <1>1. EnvOK'
    BY DEF Environment, Approve, Disapprove, RemoveFromAllowlist, OptOut, EnvOK
  <1>2. UNCHANGED <<db, delivered, pc, at, snap, sq, cp, view>>
    BY DEF Environment, Approve, Disapprove, RemoveFromAllowlist, OptOut
  <1> QED  BY <1>1, <1>2 DEF DbOK, LocalsOK, PcOK, AtOK, DeliveredOK, db

\* A step that writes no row, and one that writes only rows.
LEMMA LocalStepType ==
  ASSUME TypeOK, LocalsOK', UNCHANGED <<db, env, delivered, at>>
  PROVE  TypeOK'
  BY TypeParts, TypePartsNext DEF DbOK, EnvOK, AtOK, DeliveredOK, db, env

LEMMA WriteStepType ==
  ASSUME TypeOK, LocalsOK', DbOK', UNCHANGED <<env, delivered, at>>
  PROVE  TypeOK'
  BY TypeParts, TypePartsNext DEF EnvOK, AtOK, DeliveredOK, env

LEMMA LoadStepType ==
  ASSUME TypeOK, NEW p \in Procs, LoadSequence(p) \/ LoadCampaign(p) \/ RecipientUnavailable(p)
  PROVE  TypeOK'
  <1>0. LocalsOK /\ DbOK  BY TypeParts
  <1>1. CASE LoadSequence(p)
    <2>1. PcOK'
      <3>1. "loadCampaign" \in SendPoints  BY DEF SendPoints
      <3> QED  BY <1>0, <1>1, <3>1, GotoType DEF LoadSequence, LocalsOK
    <2>2. LocalsOK'  BY <1>0, <1>1, <2>1 DEF LoadSequence, LocalsOK, DbOK
    <2> QED  BY <1>1, <2>2, LocalStepType DEF LoadSequence
  <1>2. CASE LoadCampaign(p)
    <2>1. ResultOf(snap[p].st) \in Results /\ "failed" \in Results  BY DEF ResultOf, Results
    <2>2. CASE Finish(p, ResultOf(snap[p].st)) \/ Finish(p, "failed")
      <3>1. LocalsOK'  BY <1>0, <2>1, <2>2, FinishType
      <3> QED  BY <1>2, <3>1, LocalStepType DEF LoadCampaign
    <2>3. CASE /\ cp' = [cp EXCEPT ![p] = camp]
               /\ snap' = [snap EXCEPT ![p] = BeginSending(snap[p])]
               /\ Goto(p, "allowlist")
               /\ UNCHANGED <<sq, view>>
      <3>1. "allowlist" \in SendPoints  BY DEF SendPoints
      <3>2. PcOK'  BY <1>0, <2>3, <3>1, GotoType DEF LocalsOK
      <3>3. BeginSending(snap[p]) \in Copies  BY <1>0, BeginSendingType DEF LocalsOK
      <3>4. LocalsOK'  BY <1>0, <2>3, <3>2, <3>3 DEF LocalsOK, DbOK
      <3> QED  BY <1>2, <3>4, LocalStepType DEF LoadCampaign
    <2> QED  BY <1>2, <2>2, <2>3 DEF LoadCampaign
  <1>3. CASE RecipientUnavailable(p)
    <2>1. "failed" \in Results  BY DEF Results
    <2>2. LocalsOK'  BY <1>0, <1>3, <2>1, FinishType DEF RecipientUnavailable
    <2> QED  BY <1>3, <2>2, LocalStepType DEF RecipientUnavailable
  <1> QED  BY <1>1, <1>2, <1>3

LEMMA GateType ==
  ASSUME TypeOK, NEW p \in Procs,
         NEW check, NEW ok, NEW next \in SendPoints, Gate(p, check, ok, next)
  PROVE  TypeOK'
  <1>0. LocalsOK  BY TypeParts
  <1>1. CASE Goto(p, next) /\ UNCHANGED snap
    <2>1. PcOK'  BY <1>0, <1>1, GotoType DEF LocalsOK
    <2>2. LocalsOK'  BY <1>0, <1>1, <2>1 DEF Gate, LocalsOK
    <2> QED  BY <2>2, LocalStepType DEF Gate
  <1>2. CASE Deny(p)
    <2>1. PcOK' /\ snap' \in [Procs -> Copies]  BY <1>0, <1>2, DenyType
    <2>2. LocalsOK'  BY <1>0, <2>1 DEF Gate, LocalsOK
    <2> QED  BY <2>2, LocalStepType DEF Gate
  <1> QED  BY <1>1, <1>2 DEF Gate

LEMMA GatesType ==
  ASSUME TypeOK, NEW p \in Procs,
         \/ GateAllowlist(p) \/ GateSuppression(p) \/ GateApproval(p)
         \/ GateRateLimit(p) \/ GateClaim(p)
  PROVE  TypeOK'
  <1>0. LocalsOK /\ DbOK /\ AtOK  BY TypeParts
  <1>1. CASE GateAllowlist(p)
    <2>1. "suppression" \in SendPoints  BY DEF SendPoints
    <2> QED  BY <1>1, <2>1, GateType DEF GateAllowlist
  <1>2. CASE GateSuppression(p)
    <2>1. "approval" \in SendPoints  BY DEF SendPoints
    <2> QED  BY <1>2, <2>1, GateType DEF GateSuppression
  <1>3. CASE GateApproval(p)
    <2>1. "rateLimit" \in SendPoints  BY DEF SendPoints
    <2> QED  BY <1>3, <2>1, GateType DEF GateApproval
  <1>4. CASE GateRateLimit(p)
    <2>1. "claim" \in SendPoints /\ "saveRetry" \in SendPoints  BY DEF SendPoints
    <2>2. PcOK'  BY <1>0, <1>4, <2>1, GotoType DEF GateRateLimit, LocalsOK
    <2>3. MarkRetryable(snap[p]) \in Copies  BY <1>0, MarkType DEF LocalsOK
    <2>4. LocalsOK'  BY <1>0, <1>4, <2>2, <2>3 DEF GateRateLimit, LocalsOK
    <2> QED  BY <1>4, <2>4, LocalStepType DEF GateRateLimit
  <1>5. CASE GateClaim(p)
    <2>1. CASE Deny(p) /\ UNCHANGED <<key, cp>>
      <3>1. PcOK' /\ snap' \in [Procs -> Copies]  BY <1>0, <2>1, DenyType
      <3>2. LocalsOK'  BY <1>0, <1>5, <2>1, <3>1 DEF GateClaim, LocalsOK
      <3>3. DbOK'  BY <1>0, <1>5, <2>1 DEF GateClaim, DbOK
      <3> QED  BY <1>5, <3>2, <3>3, WriteStepType DEF GateClaim
    <2>2. CASE /\ cp' = [cp EXCEPT ![p].sent = cp[p].sent + 1]
               /\ key' = [key EXCEPT ![at[p]] = Claim(key[at[p]])]
               /\ Goto(p, IF Claimable(key[at[p]]) THEN "selectProvider" ELSE "dupGet")
               /\ UNCHANGED snap
      <3>1. "selectProvider" \in SendPoints /\ "dupGet" \in SendPoints  BY DEF SendPoints
      <3>2. PcOK'  BY <1>0, <2>2, <3>1, GotoType DEF LocalsOK
      <3>3. [cp[p] EXCEPT !.sent = cp[p].sent + 1] \in CampCopies
        <4>1. cp[p] \in CampCopies  BY <1>0 DEF LocalsOK
        <4>2. cp[p].sent + 1 \in Nat  BY <4>1 DEF CampCopies
        <4> QED  BY <4>1, <4>2 DEF CampCopies
      <3>4. LocalsOK'  BY <1>0, <1>5, <2>2, <3>2, <3>3 DEF GateClaim, LocalsOK
      <3>5. Claim(key[at[p]]) \in KeyStates  BY <1>0 DEF Claim, KeyStates, DbOK, AtOK
      <3>6. DbOK'  BY <1>0, <1>5, <2>2, <3>5 DEF GateClaim, DbOK
      <3> QED  BY <1>5, <3>4, <3>6, WriteStepType DEF GateClaim
    <2> QED  BY <1>5, <2>1, <2>2 DEF GateClaim
  <1> QED  BY <1>1, <1>2, <1>3, <1>4, <1>5

LEMMA SubmitType ==
  ASSUME TypeOK, NEW p \in Procs,
         \/ SelectProvider(p) \/ SaveAttempt(p) \/ ProviderSend(p)
         \/ SaveAccepted(p) \/ SaveDenied(p) \/ SaveRetry(p)
  PROVE  TypeOK'
  <1>0. LocalsOK /\ DbOK /\ EnvOK /\ AtOK /\ DeliveredOK  BY TypeParts
  <1>a. ASSUME NEW next \in SendPoints, SaveThen(p, next) PROVE TypeOK'
    <2>1. LocalsOK' /\ DbOK'  BY <1>0, <1>a, SaveThenType
    <2> QED  BY <1>a, <2>1, WriteStepType DEF SaveThen
  <1>1. CASE SelectProvider(p)
    <2>1. "saveAttempt" \in SendPoints  BY DEF SendPoints
    <2>2. CASE Goto(p, "saveAttempt") /\ UNCHANGED snap
      <3>1. PcOK'  BY <1>0, <2>1, <2>2, GotoType DEF LocalsOK
      <3>2. LocalsOK'  BY <1>0, <1>1, <2>2, <3>1 DEF SelectProvider, LocalsOK
      <3> QED  BY <1>1, <3>2, LocalStepType DEF SelectProvider
    <2>3. CASE Deny(p)
      <3>1. PcOK' /\ snap' \in [Procs -> Copies]  BY <1>0, <2>3, DenyType
      <3>2. LocalsOK'  BY <1>0, <1>1, <3>1 DEF SelectProvider, LocalsOK
      <3> QED  BY <1>1, <3>2, LocalStepType DEF SelectProvider
    <2> QED  BY <1>1, <2>2, <2>3 DEF SelectProvider
  <1>2. CASE SaveAttempt(p)
    <2>1. "providerSend" \in SendPoints  BY DEF SendPoints
    <2> QED  BY <1>2, <1>a, <2>1 DEF SaveAttempt
  <1>3. CASE ProviderSend(p)
    <2>1. DeliveredOK'
      <3>1. at[p] \in Steps /\ delivered[at[p]] + 1 \in Nat  BY <1>0 DEF AtOK, DeliveredOK
      <3>2. \/ delivered' = [delivered EXCEPT ![at[p]] = delivered[at[p]] + 1]
            \/ UNCHANGED delivered
        BY <1>3 DEF ProviderSend
      <3> QED  BY <1>0, <3>1, <3>2 DEF DeliveredOK
    <2>2. LocalsOK'
      <3>1. {"saveAccepted", "saveUnknown", "saveRetry"} \subseteq SendPoints  BY DEF SendPoints
      <3>2. /\ MarkAccepted(snap[p]) \in Copies
            /\ MarkDeliveryUnknown(snap[p]) \in Copies
            /\ MarkRetryable(snap[p]) \in Copies
        BY <1>0, MarkType DEF LocalsOK
      <3>3. CASE Deny(p)
        <4>1. PcOK' /\ snap' \in [Procs -> Copies]  BY <1>0, <3>3, DenyType
        <4> QED  BY <1>0, <1>3, <4>1 DEF ProviderSend, LocalsOK
      <3>4. CASE \E l \in {"saveAccepted", "saveUnknown", "saveRetry"}, e \in Copies :
                   Goto(p, l) /\ snap' = [snap EXCEPT ![p] = e]
        <4>1. PICK l \in {"saveAccepted", "saveUnknown", "saveRetry"}, e \in Copies :
                   Goto(p, l) /\ snap' = [snap EXCEPT ![p] = e]
          BY <3>4
        <4>2. PcOK'
          <5>1. l \in SendPoints  BY <3>1
          <5> QED  BY <1>0, <4>1, <5>1, GotoType DEF LocalsOK
        <4> QED  BY <1>0, <1>3, <4>1, <4>2 DEF ProviderSend, LocalsOK
      <3> QED  BY <1>3, <3>2, <3>3, <3>4 DEF ProviderSend
    <2>3. UNCHANGED <<db, env, at>>  BY <1>3 DEF ProviderSend
    <2> QED  BY <1>0, <2>1, <2>2, <2>3, TypePartsNext DEF DbOK, EnvOK, AtOK, db, env
  <1>4. CASE SaveAccepted(p)
    <2>1. "saveCampaign" \in SendPoints  BY DEF SendPoints
    <2> QED  BY <1>4, <1>a, <2>1 DEF SaveAccepted
  <1>5. CASE SaveDenied(p)
    <2>1. "releaseDenied" \in SendPoints  BY DEF SendPoints
    <2> QED  BY <1>5, <1>a, <2>1 DEF SaveDenied
  <1>6. CASE SaveRetry(p)
    <2>1. "releaseRetry" \in SendPoints  BY DEF SendPoints
    <2> QED  BY <1>6, <1>a, <2>1 DEF SaveRetry
  <1> QED  BY <1>1, <1>2, <1>3, <1>4, <1>5, <1>6

LEMMA RecordType ==
  ASSUME TypeOK, NEW p \in Procs,
         \/ SaveCampaign(p) \/ MarkCompleted(p) \/ ReloadCampaign(p)
         \/ SaveSequence(p) \/ SaveCompletion(p)
  PROVE  TypeOK'
  <1>0. LocalsOK /\ DbOK /\ AtOK  BY TypeParts
  <1>a. {"markCompleted", "dupGet", "reloadCampaign", "saveSequence", "saveCompletion"}
          \subseteq SendPoints
    BY DEF SendPoints
  <1>b. {"failed", "completed"} \subseteq Results  BY DEF Results
  <1>c. sq[p] \in SeqCopies /\ cp[p] \in CampCopies  BY <1>0 DEF LocalsOK
  <1>1. CASE SaveCampaign(p)
    <2>1. PcOK'
      BY <1>0, <1>1, <1>a, GotoType DEF SaveCampaign, SaveCampaignThen, LocalsOK
    <2>2. LocalsOK'  BY <1>0, <1>1, <2>1 DEF SaveCampaign, SaveCampaignThen, LocalsOK
    <2>3. DbOK'  BY <1>0, <1>1, <1>c DEF SaveCampaign, SaveCampaignThen, DbOK
    <2> QED  BY <1>1, <2>2, <2>3, WriteStepType DEF SaveCampaign, SaveCampaignThen
  <1>2. CASE MarkCompleted(p)
    <2>1. PcOK'  BY <1>0, <1>2, <1>a, GotoType DEF MarkCompleted, LocalsOK
    <2>2. LocalsOK'  BY <1>0, <1>2, <2>1 DEF MarkCompleted, LocalsOK
    <2>3. "COMPLETED" \in KeyStates  BY DEF KeyStates
    <2>4. DbOK'  BY <1>0, <1>2, <2>3 DEF MarkCompleted, DbOK
    <2> QED  BY <1>2, <2>2, <2>4, WriteStepType DEF MarkCompleted
  <1>3. CASE ReloadCampaign(p)
    <2>1. CASE Finish(p, "failed")
      <3>1. LocalsOK'  BY <1>0, <1>b, <2>1, FinishType
      <3> QED  BY <1>3, <3>1, LocalStepType DEF ReloadCampaign
    <2>2. CASE cp' = [cp EXCEPT ![p] = camp] /\ Goto(p, "saveSequence")
               /\ UNCHANGED <<snap, sq, view>>
      <3>1. PcOK'  BY <1>0, <1>a, <2>2, GotoType DEF LocalsOK
      <3>2. LocalsOK'  BY <1>0, <2>2, <3>1 DEF LocalsOK, DbOK
      <3> QED  BY <1>3, <3>2, LocalStepType DEF ReloadCampaign
    <2> QED  BY <1>3, <2>1, <2>2 DEF ReloadCampaign
  <1>4. CASE SaveSequence(p)
    <2>1. CompleteStep(sq[p]) \in SeqCopies  BY <1>c DEF CompleteStep, SeqCopies
    <2>2. DbOK'  BY <1>0, <1>4, <2>1 DEF SaveSequence, DbOK
    <2>3. LocalsOK'
      <3>1. CASE Finish(p, "completed")  BY <1>0, <1>b, <3>1, FinishType
      <3>2. CASE /\ Goto(p, "saveCompletion") \/ Goto(p, "dupGet")
                 /\ UNCHANGED <<snap, sq, cp, view>>
        <4>1. PcOK'  BY <1>0, <1>a, <3>2, GotoType DEF LocalsOK
        <4> QED  BY <1>0, <3>2, <4>1 DEF LocalsOK
      <3> QED  BY <1>4, <3>1, <3>2 DEF SaveSequence
    <2> QED  BY <1>4, <2>2, <2>3, WriteStepType DEF SaveSequence
  <1>5. CASE SaveCompletion(p)
    <2>1. CompleteCampaign(cp[p]) \in CampCopies
      <3>1. cp[p].ver + 1 \in Nat  BY <1>c DEF CampCopies
      <3> QED  BY <1>c, <3>1 DEF CompleteCampaign, CampCopies
    <2>2. DbOK'  BY <1>0, <1>5, <2>1 DEF SaveCompletion, DbOK
    <2>3. LocalsOK'
      <3>1. CASE Finish(p, "completed")  BY <1>0, <1>b, <3>1, FinishType
      <3>2. CASE Goto(p, "dupGet") /\ UNCHANGED <<snap, sq, cp, view>>
        <4>1. PcOK'  BY <1>0, <1>a, <3>2, GotoType DEF LocalsOK
        <4> QED  BY <1>0, <3>2, <4>1 DEF LocalsOK
      <3> QED  BY <1>5, <3>1, <3>2 DEF SaveCompletion
    <2> QED  BY <1>5, <2>2, <2>3, WriteStepType DEF SaveCompletion
  <1> QED  BY <1>1, <1>2, <1>3, <1>4, <1>5

LEMMA ReleaseType ==
  ASSUME TypeOK, NEW p \in Procs, ReleaseDenied(p) \/ ReleaseRetry(p) \/ SaveUnknown(p)
  PROVE  TypeOK'
  <1>0. LocalsOK /\ DbOK /\ AtOK  BY TypeParts
  <1>a. ASSUME NEW here, NEW result \in Results, MarkIdempotencyFailed(p, here, result)
        PROVE  TypeOK'
    <2>1. LocalsOK'  BY <1>0, <1>a, FinishType DEF MarkIdempotencyFailed
    <2>2. "FAILED_UNSENT" \in KeyStates  BY DEF KeyStates
    <2>3. DbOK'  BY <1>0, <1>a, <2>2 DEF MarkIdempotencyFailed, DbOK
    <2> QED  BY <1>a, <2>1, <2>3, WriteStepType DEF MarkIdempotencyFailed
  <1>b. {"failed", "retryable"} \subseteq Results  BY DEF Results
  <1>1. CASE ReleaseDenied(p)  BY <1>1, <1>a, <1>b DEF ReleaseDenied
  <1>2. CASE ReleaseRetry(p)  BY <1>2, <1>a, <1>b DEF ReleaseRetry
  <1>3. CASE SaveUnknown(p)
    <2>1. row' \in [Steps -> Rows]  BY <1>0, <1>3, SaveType DEF SaveUnknown
    <2>2. DbOK'  BY <1>0, <1>3, <2>1 DEF SaveUnknown, DbOK
    <2>3. LocalsOK'
      <3>1. CASE Finish(p, "failed")  BY <1>0, <1>b, <3>1, FinishType
      <3>2. CASE Goto(p, "dupGet") /\ UNCHANGED <<snap, sq, cp, view>>
        <4>1. "dupGet" \in SendPoints  BY DEF SendPoints
        <4>2. PcOK'  BY <1>0, <3>2, <4>1, GotoType DEF LocalsOK
        <4> QED  BY <1>0, <3>2, <4>2 DEF LocalsOK
      <3> QED  BY <1>3, <3>1, <3>2 DEF SaveUnknown
    <2> QED  BY <1>3, <2>2, <2>3, WriteStepType DEF SaveUnknown
  <1> QED  BY <1>1, <1>2, <1>3

LEMMA DuplicateType ==
  ASSUME TypeOK, NEW p \in Procs, DupGet(p) \/ DupLoad(p) \/ DupSave(p)
  PROVE  TypeOK'
  <1>0. LocalsOK /\ DbOK /\ AtOK  BY TypeParts
  <1>a. ASSUME NEW st PROVE ResultOf(st) \in Results  BY DEF ResultOf, Results
  <1>1. CASE DupGet(p)
    <2>1. "dupLoad" \in SendPoints  BY DEF SendPoints
    <2>2. PcOK'  BY <1>0, <1>1, <2>1, GotoType DEF DupGet, LocalsOK
    <2>3. LocalsOK'  BY <1>0, <1>1, <2>2 DEF DupGet, LocalsOK, DbOK, AtOK
    <2> QED  BY <1>1, <2>3, LocalStepType DEF DupGet
  <1>2. CASE DupLoad(p)
    <2> DEFINE e == Reconstitute(row[at[p]])
    <2>1. e \in Copies  BY <1>0, RowCopyType DEF DbOK, AtOK
    <2>2. Resolved(e, view[p]) \in Copies  BY <2>1, ResolvedType
    <2>3. CASE Finish(p, ResultOf(e.st))
      <3>1. LocalsOK'  BY <1>0, <1>a, <2>3, FinishType
      <3> QED  BY <1>2, <3>1, LocalStepType DEF DupLoad
    <2>4. CASE /\ snap' = [snap EXCEPT ![p] = Resolved(e, view[p])]
               /\ Goto(p, "dupSave")
               /\ UNCHANGED <<sq, cp, view>>
      <3>1. "dupSave" \in SendPoints  BY DEF SendPoints
      <3>2. PcOK'  BY <1>0, <2>4, <3>1, GotoType DEF LocalsOK
      <3>3. LocalsOK'  BY <1>0, <2>2, <2>4, <3>2 DEF LocalsOK
      <3> QED  BY <1>2, <3>3, LocalStepType DEF DupLoad
    <2> QED  BY <1>2, <2>3, <2>4 DEF DupLoad
  <1>3. CASE DupSave(p)
    <2>1. LocalsOK'  BY <1>0, <1>3, <1>a, FinishType DEF DupSave
    <2>2. row' \in [Steps -> Rows]  BY <1>0, <1>3, SaveType DEF DupSave
    <2>3. DbOK'  BY <1>0, <1>3, <2>2 DEF DupSave, DbOK
    <2> QED  BY <1>3, <2>1, <2>3, WriteStepType DEF DupSave
  <1> QED  BY <1>1, <1>2, <1>3

LEMMA OtherType ==
  ASSUME TypeOK, NEW p \in Procs, OtherStep(p)
  PROVE  TypeOK'
  <1>0. LocalsOK /\ DbOK /\ AtOK  BY TypeParts
  <1>a. {"awaiting", "undrafted", "ok", "threw"} \subseteq Results  BY DEF Results
  <1>b. ASSUME NEW here, SaveOrThrow(p, here) PROVE TypeOK'
    <2>1. LocalsOK'  BY <1>0, <1>a, <1>b, FinishType DEF SaveOrThrow
    <2>2. row' \in [Steps -> Rows]  BY <1>0, <1>b, SaveType DEF SaveOrThrow
    <2>3. DbOK'  BY <1>0, <1>b, <2>2 DEF SaveOrThrow, DbOK
    <2> QED  BY <1>b, <2>1, <2>3, WriteStepType DEF SaveOrThrow
  <1>1. CASE PrepareFind(p)
    <2>1. CASE Finish(p, "awaiting")
      <3>1. LocalsOK'  BY <1>0, <1>a, <2>1, FinishType
      <3> QED  BY <1>1, <3>1, LocalStepType DEF PrepareFind
    <2>2. CASE /\ \/ snap' = [snap EXCEPT ![p] = SetDraft(StartedDraft)]
                  \/ snap' = [snap EXCEPT ![p] = Reject(StartedDraft)]
               /\ Goto(p, "saveDraft")
               /\ UNCHANGED <<sq, cp, view>>
      <3>1. "saveDraft" \in OtherPoints  BY DEF OtherPoints
      <3>2. PcOK'  BY <1>0, <2>2, <3>1, GotoType DEF LocalsOK
      <3>3. LocalsOK'  BY <1>0, <2>2, <3>2, DraftType DEF LocalsOK
      <3> QED  BY <1>1, <3>3, LocalStepType DEF PrepareFind
    <2> QED  BY <1>1, <2>1, <2>2 DEF PrepareFind
  <1>2. CASE PrepareSave(p)
    <2>1. LocalsOK'  BY <1>0, <1>2, <1>a, FinishType DEF PrepareSave
    <2>2. Stored(snap[p]) \in Rows  BY <1>0, RowCopyType DEF LocalsOK
    <2>3. DbOK'  BY <1>0, <1>2, <2>2 DEF PrepareSave, DbOK
    <2> QED  BY <1>2, <2>1, <2>3, WriteStepType DEF PrepareSave
  <1>3. CASE ReconcileSave(p)
    <2>1. LocalsOK'
      <3>1. CASE Finish(p, "threw")  BY <1>0, <1>a, <3>1, FinishType
      <3>2. CASE Goto(p, "reconcileKey") /\ UNCHANGED <<snap, sq, cp, view>>
        <4>1. "reconcileKey" \in OtherPoints  BY DEF OtherPoints
        <4>2. PcOK'  BY <1>0, <3>2, <4>1, GotoType DEF LocalsOK
        <4> QED  BY <1>0, <3>2, <4>2 DEF LocalsOK
      <3> QED  BY <1>3, <3>1, <3>2 DEF ReconcileSave
    <2>2. row' \in [Steps -> Rows]  BY <1>0, <1>3, SaveType DEF ReconcileSave
    <2>3. DbOK'  BY <1>0, <1>3, <2>2 DEF ReconcileSave, DbOK
    <2> QED  BY <1>3, <2>1, <2>3, WriteStepType DEF ReconcileSave
  <1>4. CASE ReconcileKey(p)
    <2>1. LocalsOK'  BY <1>0, <1>4, <1>a, FinishType DEF ReconcileKey
    <2>2. {"COMPLETED", "FAILED_SUBMITTED"} \subseteq KeyStates  BY DEF KeyStates
    <2>3. DbOK'  BY <1>0, <1>4, <2>2 DEF ReconcileKey, DbOK
    <2> QED  BY <1>4, <2>1, <2>3, WriteStepType DEF ReconcileKey
  <1>5. CASE RespondSave(p)  BY <1>5, <1>b DEF RespondSave
  <1>6. CASE ExpireSave(p)  BY <1>6, <1>b DEF ExpireSave
  <1>7. CASE LinkSave(p)
    <2>1. LocalsOK'  BY <1>0, <1>7, <1>a, FinishType DEF LinkSave
    <2>2. [sq[p] EXCEPT !.ver = sq[p].ver + 1] \in SeqCopies
      <3>1. sq[p] \in SeqCopies  BY <1>0 DEF LocalsOK
      <3>2. sq[p].ver + 1 \in Nat  BY <3>1 DEF SeqCopies
      <3> QED  BY <3>1, <3>2 DEF SeqCopies
    <2>3. DbOK'  BY <1>0, <1>7, <2>2 DEF LinkSave, DbOK
    <2> QED  BY <1>7, <2>1, <2>3, WriteStepType DEF LinkSave
  <1> QED  BY <1>1, <1>2, <1>3, <1>4, <1>5, <1>6, <1>7 DEF OtherStep

LEMMA SendType ==
  ASSUME TypeOK, NEW p \in Procs, SendStep(p)
  PROVE  TypeOK'
  BY LoadStepType, GatesType, SubmitType, RecordType, ReleaseType, DuplicateType DEF SendStep

LEMMA InitType == Init => TypeOK
  <1> SUFFICES ASSUME Init PROVE TypeOK  OBVIOUS
  <1>1. DraftedRow \in Rows  BY DraftType, RowCopyType DEF DraftedRow
  <1>2. NoSeq \in SeqCopies /\ NoCamp \in CampCopies /\ "ABSENT" \in KeyStates
    BY DEF NoSeq, NoCamp, SeqCopies, CampCopies, KeyStates
  <1>3. seq \in SeqCopies /\ camp \in CampCopies  BY DEF Init, SeqCopies, CampCopies
  <1>4. DbOK  BY <1>1, <1>2, <1>3, RowCopyType DEF Init, DbOK
  <1>5. LocalsOK  BY <1>2, RowCopyType DEF Init, LocalsOK, PcOK
  <1>6. EnvOK /\ AtOK /\ DeliveredOK  BY StepsType DEF Init, EnvOK, AtOK, DeliveredOK
  <1> QED  BY <1>4, <1>5, <1>6, TypeParts

LEMMA NextType == TypeOK /\ [Next]_vars => TypeOK'
  <1> SUFFICES ASSUME TypeOK, [Next]_vars PROVE TypeOK'  OBVIOUS
  <1>1. ASSUME NEW p \in Procs, Crash(p) PROVE TypeOK'
    <2>1. LocalsOK  BY TypeParts
    <2>2. "crashed" \in Results  BY DEF Results
    <2>3. LocalsOK'  BY <1>1, <2>1, <2>2, FinishType DEF Crash
    <2> QED  BY <1>1, <2>3, LocalStepType DEF Crash
  <1>2. CASE UNCHANGED vars
    BY <1>2, TypeParts, TypePartsNext
    DEF vars, db, env, LocalsOK, PcOK, DbOK, EnvOK, AtOK, DeliveredOK
  <1> QED  BY <1>1, <1>2, StartType, SendType, OtherType, EnvironmentType DEF Next

\* Type correctness: whatever calls run and fail, every row, record and copy stays
\* one the aggregate and the stores can hold.
THEOREM TypeCorrect == Spec => []TypeOK
  BY InitType, NextType, PTL DEF Spec

-----------------------------------------------------------------------------
(***************************************************************************)
(* That no message is delivered twice, for any number of calls, steps and  *)
(* any mix of operations and faults, when no rate limit is configured.     *)
(*                                                                         *)
(* The argument: only the owner of the key's claim submits, a free key     *)
(* means nobody sent (OneSender), and a call whose copy is stale cannot    *)
(* turn a claim it won into a submission, because the attempt is saved     *)
(* first and the save compares versions (CopyTrails, CopyAgrees).          *)
(***************************************************************************)

-----------------------------------------------------------------------------
(* Operations of the aggregate: each leaves a copy alone or raises its       *)
(* version, and never touches the version it was loaded at.                  *)

Moves(e, f) ==
  f.loaded = e.loaded /\ f.ver >= e.ver /\ (f.ver = e.ver => f.st = e.st)

LEMMA TransitionMoves ==
  ASSUME NEW e \in Copies, NEW to
  PROVE  Moves(e, Transition(e, to))
  <1>1. CASE Transition(e, to) = e  BY <1>1 DEF Moves, Copies
  <1>2. CASE Transition(e, to) = [e EXCEPT !.st = to, !.ver = e.ver + 1]
    <2>1. PICK n \in Nat : n = e.ver + 1  BY VersionType
    <2>2. [e EXCEPT !.st = to, !.ver = n].loaded = e.loaded /\ [e EXCEPT !.st = to, !.ver = n].ver = n
      BY DEF Copies
    <2>3. n > e.ver /\ e.ver \in Nat  BY <2>1 DEF Copies
    <2> QED  BY <1>2, <2>1, <2>2, <2>3 DEF Moves
  <1> QED  BY <1>1, <1>2 DEF Transition

LEMMA MovesTwice ==
  ASSUME NEW e \in Copies, NEW f \in Copies, NEW g \in Copies, Moves(e, f), Moves(f, g)
  PROVE  Moves(e, g)
  BY DEF Moves, Copies

LEMMA BeginSendingMoves ==
  ASSUME NEW e \in Copies
  PROVE  /\ Moves(e, BeginSending(e))
         /\ BeginSending(e).st = "SENDING" => e.st \notin SettledStatuses
  <1> DEFINE f == IF e.st = "PENDING_APPROVAL" THEN Transition(e, "APPROVED") ELSE e
  <1>1. f \in Copies /\ Moves(e, f)
    <2>1. Moves(e, e)  BY DEF Moves, Copies
    <2> QED  BY <2>1, TransitionType, TransitionMoves
  <1>2. BeginSending(e) = Transition(f, "SENDING")  BY DEF BeginSending
  <1>3. Moves(e, BeginSending(e))
    <2> HIDE DEF f
    <2> QED  BY <1>1, <1>2, TransitionType, TransitionMoves, MovesTwice
  <1>4. ASSUME e.st \in SettledStatuses PROVE BeginSending(e).st # "SENDING"
    <2>1. e.st # "PENDING_APPROVAL" /\ e.st # "APPROVED" /\ e.st # "SENDING"
      BY <1>4 DEF SettledStatuses, PositiveStatuses, FailureStatuses
    <2>2. f = e  BY <2>1
    <2>3. <<e.st, "SENDING">> \notin Transitions  BY <2>1 DEF Transitions
    <2> QED  BY <1>2, <2>1, <2>2, <2>3 DEF Transition
  <1> QED  BY <1>3, <1>4

LEMMA SendingMoves ==
  ASSUME NEW e \in Copies, e.st = "SENDING"
  PROVE  /\ MarkRetryable(e) = e
         /\ Moves(e, MarkNonRetryable(e)) /\ MarkNonRetryable(e).st \in SettledStatuses
         /\ Moves(e, MarkAccepted(e)) /\ Moves(e, MarkDeliveryUnknown(e))
  <1>1. MarkRetryable(e) = e  BY DEF MarkRetryable, PreSubmission
  <1>2. MarkNonRetryable(e) = Transition(e, "FAILED_PRE_SUBMISSION")
    BY DEF MarkNonRetryable, PreSubmission
  <1>3. MarkNonRetryable(e).st \in SettledStatuses
    <2>1. <<e.st, "FAILED_PRE_SUBMISSION">> \in Transitions  BY DEF Transitions
    <2>2. Transition(e, "FAILED_PRE_SUBMISSION").st = "FAILED_PRE_SUBMISSION"
      BY <2>1 DEF Transition, Copies
    <2> QED  BY <1>2, <2>2 DEF SettledStatuses, FailureStatuses
  <1>4. Moves(e, MarkAccepted(e))
    BY TransitionType, TransitionMoves, MovesTwice DEF MarkAccepted
  <1> QED  BY <1>1, <1>2, <1>3, <1>4, TransitionMoves DEF MarkDeliveryUnknown

LEMMA ResolvedMoves ==
  ASSUME NEW e \in Copies, NEW k
  PROVE  Moves(e, Resolved(e, k))
  <1>1. Moves(e, Transition(e, "SENDING")) /\ Transition(e, "SENDING") \in Copies
    BY TransitionType, TransitionMoves
  <1>2. ASSUME NEW f \in Copies PROVE Moves(f, MarkAccepted(f)) /\ MarkAccepted(f) \in Copies
    BY TransitionType, TransitionMoves, MovesTwice DEF MarkAccepted
  <1>3. Moves(e, MarkAccepted(Transition(e, "SENDING")))  BY <1>1, <1>2, MovesTwice
  <1> QED  BY <1>3, TransitionMoves DEF Resolved, MarkRequiresReconciliation

LEMMA ResponseMoves ==
  ASSUME NEW e \in Copies, NEW kind
  PROVE  /\ Moves(e, RecordResponse(e, kind))
         /\ e.st \in SettledStatuses => RecordResponse(e, kind).st \in SettledStatuses
  <1> DEFINE Keeps(f, g) == /\ g \in Copies
                            /\ Moves(f, g)
                            /\ f.st \in SettledStatuses => g.st \in SettledStatuses
  <1>1. ASSUME NEW f \in Copies, NEW to \in SettledStatuses PROVE Keeps(f, Transition(f, to))
    <2>1. Transition(f, to).st \in {f.st, to}  BY DEF Transition, Copies
    <2> QED  BY <2>1, TransitionType, TransitionMoves
  <1>2. ASSUME NEW f \in Copies PROVE Keeps(f, f)  BY DEF Moves, Copies
  <1>3. ASSUME NEW f \in Copies, NEW g, NEW h, Keeps(f, g), Keeps(g, h) PROVE Keeps(f, h)
    BY <1>3, MovesTwice
  <1>4. {"DELIVERED", "OPENED", "REPLIED"} \subseteq SettledStatuses
    BY DEF SettledStatuses, PositiveStatuses
  <1> HIDE DEF Keeps
  <1> DEFINE d == IF e.st \in {"PROVIDER_ACCEPTED", "DELIVERY_PENDING"}
                    THEN Transition(e, "DELIVERED") ELSE e
             o == IF d.st = "DELIVERED" THEN Transition(d, "OPENED") ELSE d
             r == IF kind = "REPLIED" THEN Transition(o, "REPLIED") ELSE o
  <1>5. Keeps(e, d) /\ d \in Copies  BY <1>1, <1>2, <1>4 DEF Keeps
  <1>6. RecordResponse(e, kind) = r  BY DEF RecordResponse
  <1> HIDE DEF d
  <1>7. Keeps(d, o) /\ o \in Copies  BY <1>1, <1>2, <1>4, <1>5 DEF Keeps
  <1> HIDE DEF o
  <1>8. Keeps(o, r)  BY <1>1, <1>2, <1>4, <1>7
  <1> HIDE DEF r
  <1>9. Keeps(e, r)  BY <1>3, <1>5, <1>7, <1>8
  <1> QED  BY <1>6, <1>9 DEF Keeps

-----------------------------------------------------------------------------
(* What a step of p may do to the other calls and to the rows.               *)

Still(p) == \A q \in Procs \ {p} :
              pc'[q] = pc[q] /\ at'[q] = at[q] /\ snap'[q] = snap[q]

\* A row is left alone, or its version rises; a settled one stays settled.
RowLaw(s) ==
  \/ row'[s] = row[s]
  \/ row'[s].ver > row[s].ver /\ (Settled(s) => row'[s].st \in SettledStatuses)

Away(p) == pc'[p] \notin CopyPoints \cup {"saveDraft", "releaseDenied", "releaseRetry"}

LEMMA OthersKeep ==
  ASSUME TypeOK, TypeOK', NEW q \in Procs, CopyTrails(q), CopyAgrees(q),
         pc'[q] = pc[q], at'[q] = at[q], snap'[q] = snap[q], RowLaw(at[q])
  PROVE  CopyTrails(q)' /\ CopyAgrees(q)' /\ (MaySend(q)' => MaySend(q))
  <1>1. /\ row[at[q]].ver \in Nat /\ row'[at[q]].ver \in Nat
        /\ snap[q].ver \in Nat /\ snap[q].loaded \in Nat
    BY DEF TypeOK, Rows, Copies
  <1>2. CASE row'[at[q]] = row[at[q]]
    BY <1>2 DEF CopyTrails, CopyAgrees, MaySend, Fresh, Settled
  <1>3. CASE /\ row'[at[q]].ver > row[at[q]].ver
             /\ Settled(at[q]) => row'[at[q]].st \in SettledStatuses
    <2>1. CASE pc[q] \in CopyPoints
      <3>1. snap[q].loaded <= row[at[q]].ver  BY <2>1 DEF CopyTrails
      <3>2. ~Fresh(q)'  BY <1>1, <1>3, <3>1 DEF Fresh
      <3>3. CopyTrails(q)'  BY <1>1, <1>3, <2>1, <3>1, <3>2 DEF CopyTrails
      <3>4. CopyAgrees(q)'  BY <1>3, <2>1, <3>2 DEF CopyAgrees, Settled
      <3> QED  BY <3>2, <3>3, <3>4 DEF MaySend
    <2>2. CASE pc[q] \notin CopyPoints
      <3>1. CopyTrails(q)'  BY <2>2 DEF CopyTrails
      <3>2. pc[q] \notin SendingPoints \cup GatePoints
              \cup {"loadSequence", "loadCampaign", "reconcileSave", "respondSave",
                    "providerSend", "saveRetry", "saveDenied", "selectProvider", "saveAttempt"}
        BY <2>2 DEF CopyPoints, SendingPoints, GatePoints
      <3>3. CopyAgrees(q)'  BY <1>3, <3>2 DEF CopyAgrees, Settled
      <3> QED  BY <3>1, <3>2, <3>3 DEF MaySend
    <2> QED  BY <2>1, <2>2
  <1> QED  BY <1>2, <1>3 DEF RowLaw

LEMMA AwayKeeps ==
  ASSUME NEW p \in Procs, Away(p)
  PROVE  CopyTrails(p)' /\ CopyAgrees(p)' /\ ~MaySend(p)'
  BY DEF Away, CopyTrails, CopyAgrees, MaySend, CopyPoints, SendingPoints, GatePoints

\* A step that makes nobody a sender, delivers nothing and frees no key but one
\* whose execution is settled.
LEMMA QuietStep ==
  ASSUME TypeOK, TypeOK', ClaimProtectsSend, NEW p \in Procs, Still(p),
         \A s \in Steps : RowLaw(s),
         CopyTrails(p)', CopyAgrees(p)', MaySend(p)' => MaySend(p) /\ at'[p] = at[p],
         UNCHANGED delivered,
         \A s \in Steps : Claimable(key'[s]) => Claimable(key[s]) \/ Settled(s)
  PROVE  ClaimProtectsSend'
  <1>1. \A q \in Procs : at[q] \in Steps /\ at'[q] \in Steps  BY DEF TypeOK
  <1>2. ASSUME NEW q \in Procs
        PROVE  CopyTrails(q)' /\ CopyAgrees(q)' /\ (MaySend(q)' => MaySend(q) /\ at'[q] = at[q])
    <2>1. CASE q = p  BY <2>1
    <2>2. CASE q # p
      <3>1. pc'[q] = pc[q] /\ at'[q] = at[q] /\ snap'[q] = snap[q]  BY <2>2 DEF Still
      <3>2. CopyTrails(q) /\ CopyAgrees(q) /\ RowLaw(at[q])  BY <1>1 DEF ClaimProtectsSend
      <3> QED  BY <3>1, <3>2, OthersKeep
    <2> QED  BY <2>1, <2>2
  <1>3. \A s \in Steps : Settled(s) => Settled(s)'  BY DEF RowLaw, Settled
  <1>4. OneSender'
    <2>1. \A q, r \in Procs : MaySend(q)' /\ MaySend(r)' /\ at'[q] = at'[r] => q = r
      BY <1>2 DEF ClaimProtectsSend, OneSender
    <2>2. \A q \in Procs : MaySend(q)' => delivered'[at'[q]] = 0
      BY <1>2 DEF ClaimProtectsSend, OneSender
    <2>3. ASSUME NEW s \in Steps, Claimable(key'[s]), ~Settled(s)'
          PROVE  delivered'[s] = 0 /\ \A q \in Procs : at'[q] = s => ~MaySend(q)'
      <3>1. Claimable(key[s]) /\ ~Settled(s)  BY <1>3, <2>3
      <3> QED  BY <1>2, <3>1 DEF ClaimProtectsSend, OneSender
    <2> QED  BY <2>1, <2>2, <2>3 DEF OneSender, Claimable
  <1>5. AtMostOneDelivery'  BY DEF ClaimProtectsSend, AtMostOneDelivery
  <1> QED  BY <1>2, <1>4, <1>5 DEF ClaimProtectsSend

-----------------------------------------------------------------------------
(* A call's step writes only its own program counter, step and copy.         *)

Own(p) ==
  /\ \E l : pc' = [pc EXCEPT ![p] = l]
  /\ snap' = snap \/ \E c : snap' = [snap EXCEPT ![p] = c]
  /\ at' = at \/ \E s : at' = [at EXCEPT ![p] = s]

LEMMA OwnStill ==
  ASSUME TypeOK, NEW p \in Procs, Own(p)
  PROVE  Still(p)
  <1>1. DOMAIN pc = Procs /\ DOMAIN snap = Procs /\ DOMAIN at = Procs  BY DEF TypeOK
  <1>2. ASSUME NEW q \in Procs \ {p} PROVE pc'[q] = pc[q]  BY <1>1 DEF Own
  <1>3. ASSUME NEW q \in Procs \ {p} PROVE snap'[q] = snap[q]  BY <1>1 DEF Own
  <1>4. ASSUME NEW q \in Procs \ {p} PROVE at'[q] = at[q]  BY <1>1 DEF Own
  <1> QED  BY <1>2, <1>3, <1>4 DEF Still

LEMMA FinishOwn ==
  ASSUME TypeOK, NEW p \in Procs, NEW result \in Results, Finish(p, result), UNCHANGED at
  PROVE  Still(p) /\ Away(p)
  <1>1. Own(p)  BY DEF Own, Finish, Goto
  <1>2. pc'[p] = result  BY DEF Finish, Goto, TypeOK
  <1>3. Away(p)  BY <1>2 DEF Away, Results, CopyPoints, SendingPoints, GatePoints
  <1> QED  BY <1>1, <1>3, OwnStill

LEMMA GotoOwn ==
  ASSUME TypeOK, NEW p \in Procs, NEW l, Goto(p, l),
         UNCHANGED snap \/ \E c : snap' = [snap EXCEPT ![p] = c], UNCHANGED at
  PROVE  Still(p) /\ pc'[p] = l
  <1>1. Own(p)  BY DEF Own, Goto
  <1>2. pc'[p] = l  BY DEF Goto, TypeOK
  <1> QED  BY <1>1, <1>2, OwnStill

LEMMA SnapNext ==
  ASSUME TypeOK, NEW p \in Procs, NEW c, snap' = [snap EXCEPT ![p] = c]
  PROVE  snap'[p] = c
  BY DEF TypeOK

\* A step that writes no row and leaves the call where no copy matters.
LEMMA AwayStep ==
  ASSUME TypeOK, TypeOK', ClaimProtectsSend, NEW p \in Procs, Still(p), Away(p),
         \A s \in Steps : RowLaw(s), UNCHANGED delivered,
         \A s \in Steps : Claimable(key'[s]) => Claimable(key[s]) \/ Settled(s)
  PROVE  ClaimProtectsSend'
  BY AwayKeeps, QuietStep

-----------------------------------------------------------------------------
(* save obeys RowLaw: the copies in flight say what their rows say.          *)

LEMMA SaveLaw ==
  ASSUME TypeOK, NEW p \in Procs, pc[p] \in CopyPoints, CopyTrails(p), SaveExecution(p),
         Current(p) /\ Settled(at[p]) => snap[p].st \in SettledStatuses
  PROVE  /\ \A s \in Steps : RowLaw(s)
         /\ Current(p) <=> Fresh(p)
         /\ Current(p) => row'[at[p]] = Stored(snap[p])
  <1>0. at[p] \in Steps /\ row[at[p]] \in Rows /\ snap[p] \in Copies  BY DEF TypeOK
  <1>1. Current(p) <=> Fresh(p)  BY DEF Current, CanCommit, Fresh
  <1>2. CASE ~Current(p)  BY <1>1, <1>2 DEF SaveExecution, RowLaw
  <1>3. CASE Current(p)
    <2>1. row' = [row EXCEPT ![at[p]] = Stored(snap[p])]  BY <1>3 DEF SaveExecution
    <2>2. row'[at[p]] = Stored(snap[p])  BY <1>0, <2>1 DEF TypeOK
    <2>3. ASSUME NEW s \in Steps, s # at[p] PROVE RowLaw(s)
      BY <1>0, <2>1, <2>3 DEF TypeOK, RowLaw
    <2>4. /\ snap[p].loaded <= snap[p].ver /\ row[at[p]].ver = snap[p].loaded
          /\ snap[p].ver = snap[p].loaded => snap[p].st = row[at[p]].st
      BY <1>1, <1>3 DEF CopyTrails, Fresh
    <2>5. ASSUME snap[p].ver = snap[p].loaded PROVE RowLaw(at[p])
      <3>1. row[at[p]] = [st |-> row[at[p]].st, ver |-> row[at[p]].ver]  BY <1>0 DEF Rows
      <3>2. Stored(snap[p]) = row[at[p]]  BY <2>4, <2>5, <3>1 DEF Stored
      <3> QED  BY <2>2, <3>2 DEF RowLaw
    <2>6. ASSUME snap[p].ver # snap[p].loaded PROVE RowLaw(at[p])
      <3>1. row'[at[p]].ver > row[at[p]].ver
        BY <1>0, <2>2, <2>4, <2>6 DEF Stored, Copies
      <3>2. Settled(at[p]) => row'[at[p]].st \in SettledStatuses  BY <1>3, <2>2 DEF Stored
      <3> QED  BY <3>1, <3>2 DEF RowLaw
    <2>7. RowLaw(at[p])  BY <2>5, <2>6
    <2> QED  BY <1>1, <2>2, <2>3, <2>7
  <1> QED  BY <1>1, <1>2, <1>3

LEMMA SameRows ==
  ASSUME UNCHANGED row
  PROVE  \A s \in Steps : RowLaw(s)
  BY DEF RowLaw

\* A copy that was changed, or just loaded, still trails its row.
LEMMA CopyMoved ==
  ASSUME TypeOK, TypeOK', NEW p \in Procs, pc[p] \in CopyPoints, CopyTrails(p),
         UNCHANGED <<row, at>>, Moves(snap[p], snap'[p])
  PROVE  CopyTrails(p)'
  <1>1. /\ row[at[p]].ver \in Nat /\ snap[p].ver \in Nat /\ snap[p].loaded \in Nat
        /\ snap'[p].ver \in Nat /\ snap'[p].loaded \in Nat
    BY DEF TypeOK, Rows, Copies
  <1> QED  BY <1>1 DEF CopyTrails, Fresh, Moves

LEMMA CopyLoaded ==
  ASSUME TypeOK, TypeOK', NEW p \in Procs, NEW s \in Steps, at'[p] = s,
         UNCHANGED row, Moves(Reconstitute(row[s]), snap'[p])
  PROVE  CopyTrails(p)' /\ snap'[p].loaded = row[s].ver /\ snap'[p].ver >= row[s].ver
  <1>1. /\ row[s].ver \in Nat
        /\ snap'[p].ver \in Nat /\ snap'[p].loaded \in Nat
    BY DEF TypeOK, Rows, Copies
  <1>2. snap'[p].loaded = row[s].ver /\ snap'[p].ver >= row[s].ver
        /\ (snap'[p].ver = row[s].ver => snap'[p].st = row[s].st)
    BY DEF Moves, Reconstitute
  <1> QED  BY <1>1, <1>2 DEF CopyTrails, Fresh

-----------------------------------------------------------------------------
(* Steps that leave the execution's copy behind.                             *)

LEMMA LeavingSteps ==
  ASSUME TypeOK, TypeOK', ClaimProtectsSend, NEW p \in Procs,
         \/ RecipientUnavailable(p) \/ SaveCampaign(p) \/ MarkCompleted(p)
         \/ ReloadCampaign(p) \/ SaveSequence(p) \/ SaveCompletion(p)
         \/ DupGet(p) \/ ReconcileKey(p) \/ LinkSave(p) \/ Crash(p)
         \/ PrepareLoad(p) \/ LinkLoad(p)
  PROVE  ClaimProtectsSend'
  <1>a. {"completed", "failed", "ok", "threw", "crashed"} \subseteq Results  BY DEF Results
  <1>b. ASSUME NEW l \in {"markCompleted", "reloadCampaign", "saveSequence", "saveCompletion",
                          "dupGet", "dupLoad", "findDraft", "linkSave"}, pc'[p] = l
        PROVE  Away(p)
    BY <1>b DEF Away, CopyPoints, SendingPoints, GatePoints
  <1>c. UNCHANGED <<row, delivered>>
    BY DEF RecipientUnavailable, SaveCampaign, SaveCampaignThen, MarkCompleted,
       ReloadCampaign, SaveSequence, SaveCompletion, DupGet, ReconcileKey, LinkSave,
       Crash, PrepareLoad, LinkLoad, db
  <1>d. ASSUME NEW s \in Steps, Claimable(key'[s]) PROVE Claimable(key[s])
    <2>1. key' = key \/ \E k \in {"COMPLETED", "FAILED_SUBMITTED"} : key' = [key EXCEPT ![at[p]] = k]
      BY DEF RecipientUnavailable, SaveCampaign, SaveCampaignThen, MarkCompleted,
         ReloadCampaign, SaveSequence, SaveCompletion, DupGet, ReconcileKey, LinkSave,
         Crash, PrepareLoad, LinkLoad, db
    <2>2. CASE key' = key  BY <1>d, <2>2
    <2>3. ASSUME NEW k \in {"COMPLETED", "FAILED_SUBMITTED"}, key' = [key EXCEPT ![at[p]] = k]
          PROVE  Claimable(key[s])
      <3>1. key'[s] = IF s = at[p] THEN k ELSE key[s]  BY <2>3 DEF TypeOK
      <3> QED  BY <1>d, <3>1 DEF Claimable
    <2> QED  BY <2>1, <2>2, <2>3
  <1>e. SUFFICES Still(p) /\ Away(p)  BY <1>c, <1>d, AwayStep, SameRows
  <1>1. CASE \E result \in Results : Finish(p, result) /\ UNCHANGED at
    BY <1>1, FinishOwn
  <1>2. CASE /\ \E l \in {"markCompleted", "reloadCampaign", "saveSequence", "saveCompletion",
                          "dupGet", "dupLoad", "linkSave"} : Goto(p, l)
             /\ UNCHANGED <<snap, at>>
    BY <1>2, <1>b, GotoOwn
  <1>3. CASE PrepareLoad(p)
    <2>1. Own(p)  BY <1>3 DEF PrepareLoad, Own, Goto
    <2>2. pc'[p] = "findDraft"  BY <1>3 DEF PrepareLoad, Goto, TypeOK
    <2> QED  BY <1>b, <2>1, <2>2, OwnStill
  <1>4. CASE RecipientUnavailable(p)  BY <1>1, <1>4, <1>a DEF RecipientUnavailable
  <1>5. CASE SaveCampaign(p)  BY <1>2, <1>5 DEF SaveCampaign, SaveCampaignThen
  <1>6. CASE MarkCompleted(p)  BY <1>2, <1>6 DEF MarkCompleted
  <1>7. CASE ReloadCampaign(p)  BY <1>1, <1>2, <1>7, <1>a DEF ReloadCampaign
  <1>8. CASE SaveSequence(p)  BY <1>1, <1>2, <1>8, <1>a DEF SaveSequence
  <1>9. CASE SaveCompletion(p)  BY <1>1, <1>2, <1>9, <1>a DEF SaveCompletion
  <1>10. CASE DupGet(p)  BY <1>2, <1>10 DEF DupGet
  <1>11. CASE ReconcileKey(p)  BY <1>1, <1>11, <1>a DEF ReconcileKey
  <1>12. CASE LinkSave(p)  BY <1>1, <1>12, <1>a DEF LinkSave
  <1>13. CASE Crash(p)  BY <1>1, <1>13, <1>a DEF Crash
  <1>14. CASE LinkLoad(p)  BY <1>2, <1>14 DEF LinkLoad
  <1> QED  BY <1>3, <1>4, <1>5, <1>6, <1>7, <1>8, <1>9, <1>10, <1>11, <1>12, <1>13, <1>14

-----------------------------------------------------------------------------
(* Loads: a fresh copy says what the row says.                               *)

LEMMA SettledAfterMark ==
  {"DELIVERED", "FAILED"} \subseteq SettledStatuses
  BY DEF SettledStatuses, PositiveStatuses, FailureStatuses

LEMMA StartSteps ==
  ASSUME TypeOK, TypeOK', ClaimProtectsSend, NEW p \in Procs, Start(p)
  PROVE  ClaimProtectsSend'
  <1>a. ASSUME NEW s \in Steps, NEW copy \in Copies, NEW l, UNCHANGED <<row, key, delivered>>,
               at' = [at EXCEPT ![p] = s], snap' = [snap EXCEPT ![p] = copy], Goto(p, l),
               l \in {"loadSequence", "reconcileSave", "respondSave", "expireSave"},
               Moves(Reconstitute(row[s]), copy),
               l = "loadSequence" => copy = Reconstitute(row[s]),
               l = "expireSave" => ~Settled(s),
               l \in {"reconcileSave", "respondSave"} /\ Settled(s) => copy.st \in SettledStatuses
        PROVE  ClaimProtectsSend'
    <2>1. Still(p)
      <3>1. Own(p)  BY <1>a DEF Own, Goto
      <3> QED  BY <3>1, OwnStill
    <2>2. at'[p] = s /\ snap'[p] = copy /\ pc'[p] = l  BY <1>a DEF Goto, TypeOK
    <2>3. CopyTrails(p)' /\ snap'[p].loaded = row[s].ver
      BY <1>a, <2>2, CopyLoaded
    <2>4. CopyAgrees(p)'
      <3>1. l = "loadSequence" => snap'[p].ver = snap'[p].loaded
        BY <1>a, <2>2 DEF Reconstitute
      <3>2. Settled(s) <=> row'[at'[p]].st \in SettledStatuses  BY <1>a, <2>2 DEF Settled
      <3> QED  BY <1>a, <2>2, <3>1, <3>2
               DEF CopyAgrees, SendingPoints, GatePoints, Settled
    <2>5. ~MaySend(p)'  BY <1>a, <2>2 DEF MaySend
    <2> QED  BY <1>a, <2>1, <2>3, <2>4, <2>5, QuietStep, SameRows
  <1>b. \A s \in Steps : row[s] \in Rows /\ Reconstitute(row[s]) \in Copies
    BY RowCopyType DEF TypeOK
  <1>1. ASSUME NEW s \in Steps, LoadExecution(p, s) PROVE ClaimProtectsSend'
    <2>1. Moves(Reconstitute(row[s]), Reconstitute(row[s]))  BY <1>b DEF Moves, Copies
    <2> QED  BY <1>1, <1>a, <1>b, <2>1 DEF LoadExecution, db
  <1>2. ASSUME NEW s \in Steps, ReconcileLoad(p, s) PROVE ClaimProtectsSend'
    <2> DEFINE to == IF delivered[s] > 0 THEN "DELIVERED" ELSE "FAILED"
               copy == MarkReconciled(Reconstitute(row[s]), to)
    <2>1. to \in Statuses /\ to \in SettledStatuses  BY SettledAfterMark DEF Statuses
    <2>2. copy \in Copies  BY <1>b, <2>1, ReconciledType
    <2> HIDE DEF to
    <2>3. copy.loaded = row[s].ver /\ copy.ver = row[s].ver + 1 /\ copy.st = to
      BY <1>b DEF MarkReconciled, Reconstitute
    <2>4. Moves(Reconstitute(row[s]), copy)
      BY <1>b, <2>3 DEF Moves, Reconstitute, Rows
    <2>5. copy.st \in SettledStatuses  BY <2>1, <2>3
    <2>6. /\ UNCHANGED <<row, key, delivered>> /\ at' = [at EXCEPT ![p] = s]
          /\ snap' = [snap EXCEPT ![p] = copy] /\ Goto(p, "reconcileSave")
      BY <1>2 DEF ReconcileLoad, Load, db, to
    <2> HIDE DEF copy
    <2> QED  BY <1>a, <2>2, <2>4, <2>5, <2>6
  <1>3. ASSUME NEW s \in Steps, RespondLoad(p, s) PROVE ClaimProtectsSend'
    <2>1. PICK kind \in {"OPENED", "REPLIED"} :
            Load(p, "respond", s, RecordResponse(Reconstitute(row[s]), kind), "respondSave")
      BY <1>3 DEF RespondLoad
    <2> DEFINE copy == RecordResponse(Reconstitute(row[s]), kind)
    <2>2. copy \in Copies  BY <1>b, ResponseType
    <2>3. Moves(Reconstitute(row[s]), copy)
          /\ (Settled(s) => copy.st \in SettledStatuses)
      BY <1>b, ResponseMoves DEF Settled, Reconstitute
    <2>4. /\ UNCHANGED <<row, key, delivered>> /\ at' = [at EXCEPT ![p] = s]
          /\ snap' = [snap EXCEPT ![p] = copy] /\ Goto(p, "respondSave")
      BY <2>1 DEF Load, db
    <2> HIDE DEF copy
    <2> QED  BY <1>a, <2>2, <2>3, <2>4
  <1>4. ASSUME NEW s \in Steps, ExpireLoad(p, s) PROVE ClaimProtectsSend'
    <2> DEFINE copy == MarkNonRetryable(Reconstitute(row[s]))
    <2>1. copy \in Copies /\ Moves(Reconstitute(row[s]), copy)
      BY <1>b, TransitionType, TransitionMoves DEF MarkNonRetryable
    <2>2. ~Settled(s)
      BY <1>4 DEF ExpireLoad, Settled, SettledStatuses, PositiveStatuses, FailureStatuses
    <2>3. /\ UNCHANGED <<row, key, delivered>> /\ at' = [at EXCEPT ![p] = s]
          /\ snap' = [snap EXCEPT ![p] = copy] /\ Goto(p, "expireSave")
      BY <1>4 DEF ExpireLoad, Load, db
    <2> HIDE DEF copy
    <2> QED  BY <1>a, <2>1, <2>2, <2>3
  <1>5. CASE PrepareLoad(p) \/ LinkLoad(p)  BY <1>5, LeavingSteps
  <1> QED  BY <1>1, <1>2, <1>3, <1>4, <1>5 DEF Start

LEMMA LoadingSteps ==
  ASSUME TypeOK, TypeOK', ClaimProtectsSend, NEW p \in Procs, LoadSequence(p) \/ LoadCampaign(p)
  PROVE  ClaimProtectsSend'
  <1>0. snap[p] \in Copies /\ CopyTrails(p) /\ CopyAgrees(p)
    BY DEF TypeOK, ClaimProtectsSend
  <1>1. CASE LoadSequence(p)
    <2>1. Still(p) /\ pc'[p] = "loadCampaign"  BY <1>1, GotoOwn DEF LoadSequence
    <2>2. UNCHANGED <<row, key, at, snap, delivered>> /\ pc[p] = "loadSequence"
      BY <1>1 DEF LoadSequence, db
    <2>3. CopyTrails(p)' /\ CopyAgrees(p)' /\ ~MaySend(p)'
      BY <1>0, <2>1, <2>2
      DEF CopyTrails, CopyAgrees, MaySend, Fresh, CopyPoints, SendingPoints, GatePoints
    <2> QED  BY <2>1, <2>2, <2>3, QuietStep, SameRows
  <1>2. CASE LoadCampaign(p)
    <2>0. UNCHANGED <<row, key, at, delivered>> /\ pc[p] = "loadCampaign"
      BY <1>2 DEF LoadCampaign, db
    <2>1. CASE \E result \in Results : Finish(p, result)
      <3>1. Still(p) /\ Away(p)  BY <2>0, <2>1, FinishOwn
      <3> QED  BY <2>0, <3>1, AwayStep, SameRows
    <2>2. CASE /\ BeginSending(snap[p]).st = "SENDING"
               /\ snap' = [snap EXCEPT ![p] = BeginSending(snap[p])]
               /\ Goto(p, "allowlist")
      <3>1. Still(p) /\ pc'[p] = "allowlist" /\ snap'[p] = BeginSending(snap[p])
        BY <2>0, <2>2, GotoOwn, SnapNext
      <3>2. Moves(snap[p], snap'[p]) /\ snap[p].st \notin SettledStatuses
        BY <1>0, <2>2, <3>1, BeginSendingMoves
      <3>3. pc[p] \in CopyPoints  BY <2>0 DEF CopyPoints
      <3>4. CopyTrails(p)'  BY <1>0, <2>0, <3>2, <3>3, CopyMoved
      <3>5. Fresh(p) => ~Settled(at[p])
        BY <1>0, <2>0, <3>2, <3>3 DEF CopyTrails, CopyAgrees, Settled
      <3>6. Fresh(p)' => Fresh(p)  BY <2>0, <3>2 DEF Fresh, Moves
      <3>7. CopyAgrees(p)'
        BY <2>0, <2>2, <3>1, <3>5, <3>6 DEF CopyAgrees, Settled, SendingPoints, GatePoints
      <3>8. ~MaySend(p)'  BY <3>1 DEF MaySend
      <3> QED  BY <2>0, <3>1, <3>4, <3>7, <3>8, QuietStep, SameRows
    <2>3. ResultOf(snap[p].st) \in Results /\ "failed" \in Results  BY DEF ResultOf, Results
    <2> QED  BY <1>2, <2>1, <2>2, <2>3 DEF LoadCampaign
  <1> QED  BY <1>1, <1>2

-----------------------------------------------------------------------------
(* The gate and the submission.                                              *)

\* A copy still to be saved, marked failed: what Deny leaves.
LEMMA DenyStep ==
  ASSUME TypeOK, TypeOK', ClaimProtectsSend, NEW p \in Procs,
         pc[p] \in GatePoints \cup {"providerSend"}, Deny(p), UNCHANGED <<row, key, at, delivered>>
  PROVE  ClaimProtectsSend'
  <1>1. snap[p] \in Copies /\ CopyTrails(p) /\ CopyAgrees(p) /\ snap[p].st = "SENDING"
    BY DEF TypeOK, ClaimProtectsSend, CopyAgrees
  <1>2. Still(p) /\ pc'[p] = "saveDenied" /\ snap'[p] = MarkNonRetryable(snap[p])
    BY GotoOwn, SnapNext DEF Deny
  <1>3. Moves(snap[p], snap'[p]) /\ snap'[p].st \in SettledStatuses
    BY <1>1, <1>2, SendingMoves
  <1>4. pc[p] \in CopyPoints /\ pc[p] \in SendingPoints  BY DEF CopyPoints, SendingPoints
  <1>5. CopyTrails(p)'  BY <1>1, <1>3, <1>4, CopyMoved
  <1>6. Fresh(p)' => ~Settled(at[p])  BY <1>1, <1>3, <1>4 DEF Fresh, Moves, CopyAgrees
  <1>7. CopyAgrees(p)'  BY <1>2, <1>3, <1>6 DEF CopyAgrees, Settled, SendingPoints, GatePoints
  <1>8. ~MaySend(p)'  BY <1>2 DEF MaySend
  <1> QED  BY <1>2, <1>5, <1>7, <1>8, QuietStep, SameRows

\* The copy passes on unchanged from one point before its save to another.
LEMMA PassStep ==
  ASSUME TypeOK, TypeOK', ClaimProtectsSend, NEW p \in Procs,
         NEW l \in {"suppression", "approval", "rateLimit", "claim", "saveAttempt"},
         pc[p] \in GatePoints, Goto(p, l), UNCHANGED <<row, key, at, snap, delivered>>,
         l = "saveAttempt" => pc[p] = "selectProvider"
  PROVE  ClaimProtectsSend'
  <1>1. CopyTrails(p) /\ CopyAgrees(p)  BY DEF ClaimProtectsSend
  <1>2. Still(p) /\ pc'[p] = l  BY GotoOwn
  <1>3. /\ pc[p] \in CopyPoints /\ pc[p] \in SendingPoints
        /\ l \in CopyPoints /\ l \in GatePoints /\ l \in SendingPoints
        /\ l \notin {"loadSequence", "loadCampaign", "reconcileSave", "respondSave",
                     "providerSend", "saveRetry", "saveDenied", "saveDraft", "releaseDenied"}
    BY DEF CopyPoints, SendingPoints, GatePoints
  <1>4. Fresh(p)' <=> Fresh(p)  BY DEF Fresh
  <1>5. CopyTrails(p)'  BY <1>1, <1>2, <1>3, <1>4 DEF CopyTrails
  <1>6. snap[p].st = "SENDING" /\ (Fresh(p) => ~Settled(at[p]))  BY <1>1, <1>3 DEF CopyAgrees
  <1>7. CopyAgrees(p)'  BY <1>2, <1>3, <1>4, <1>6 DEF CopyAgrees, Settled
  <1>8. MaySend(p)' => MaySend(p)  BY <1>2, <1>4 DEF MaySend
  <1> QED  BY <1>2, <1>5, <1>7, <1>8, QuietStep, SameRows

LEMMA GateSteps ==
  ASSUME TypeOK, TypeOK', ClaimProtectsSend, "rateLimit" \notin Faults, NEW p \in Procs,
         \/ GateAllowlist(p) \/ GateSuppression(p) \/ GateApproval(p)
         \/ GateRateLimit(p) \/ SelectProvider(p)
  PROVE  ClaimProtectsSend'
  <1>1. {"allowlist", "suppression", "approval", "rateLimit", "selectProvider"} \subseteq GatePoints
    BY DEF GatePoints
  <1>2. ASSUME NEW check \in {"allowlist", "suppression", "approval"}, NEW ok,
               NEW next \in {"suppression", "approval", "rateLimit"}, Gate(p, check, ok, next)
        PROVE  ClaimProtectsSend'
    <2>1. pc[p] \in GatePoints /\ UNCHANGED <<row, key, at, delivered>>
      BY <1>1, <1>2 DEF Gate, db
    <2>2. CASE Goto(p, next) /\ UNCHANGED snap  BY <2>1, <2>2, PassStep
    <2>3. CASE Deny(p)  BY <2>1, <2>3, DenyStep
    <2> QED  BY <1>2, <2>2, <2>3 DEF Gate
  <1>3. CASE GateAllowlist(p)  BY <1>2, <1>3 DEF GateAllowlist
  <1>4. CASE GateSuppression(p)  BY <1>2, <1>4 DEF GateSuppression
  <1>5. CASE GateApproval(p)  BY <1>2, <1>5 DEF GateApproval
  <1>6. CASE GateRateLimit(p)
    <2>1. /\ pc[p] \in GatePoints /\ UNCHANGED <<row, key, at, delivered, snap>>
          /\ Goto(p, "claim")
      BY <1>1, <1>6 DEF GateRateLimit, db
    <2> QED  BY <2>1, PassStep
  <1>7. CASE SelectProvider(p)
    <2>1. pc[p] = "selectProvider" /\ UNCHANGED <<row, key, at, delivered>>
      BY <1>7 DEF SelectProvider, db
    <2>2. CASE Goto(p, "saveAttempt") /\ UNCHANGED snap  BY <1>1, <2>1, <2>2, PassStep
    <2>3. CASE Deny(p)  BY <1>1, <2>1, <2>3, DenyStep
    <2> QED  BY <1>7, <2>2, <2>3 DEF SelectProvider
  <1> QED  BY <1>3, <1>4, <1>5, <1>6, <1>7

\* Winning the claim makes p a sender only if its copy is fresh; then the execution
\* is unsettled, its key was free, and nobody had sent.
LEMMA ClaimStep ==
  ASSUME TypeOK, TypeOK', ClaimProtectsSend, NEW p \in Procs, GateClaim(p)
  PROVE  ClaimProtectsSend'
  <1>0. pc[p] = "claim" /\ UNCHANGED <<row, at, delivered>>  BY DEF GateClaim
  <1>1. CASE Deny(p) /\ UNCHANGED key
    <2>1. "claim" \in GatePoints  BY DEF GatePoints
    <2> QED  BY <1>0, <1>1, <2>1, DenyStep
  <1>2. CASE /\ key' = [key EXCEPT ![at[p]] = Claim(key[at[p]])]
             /\ Goto(p, IF Claimable(key[at[p]]) THEN "selectProvider" ELSE "dupGet")
             /\ UNCHANGED snap
    <2>0. at[p] \in Steps  BY DEF TypeOK
    <2>1. \A s \in Steps : key'[s] = IF s = at[p] THEN Claim(key[s]) ELSE key[s]
      BY <1>2 DEF TypeOK
    <2>2. \A s \in Steps : Claimable(key'[s]) => Claimable(key[s]) /\ s # at[p]
      BY <2>1 DEF Claim, Claimable
    <2>3. CASE ~Claimable(key[at[p]])
      <3>1. Still(p) /\ pc'[p] = "dupGet"  BY <1>0, <1>2, <2>3, GotoOwn
      <3>2. Away(p)  BY <3>1 DEF Away, CopyPoints, SendingPoints, GatePoints
      <3> QED  BY <1>0, <2>2, <3>1, <3>2, AwayStep, SameRows
    <2>4. CASE Claimable(key[at[p]])
      <3>1. Still(p) /\ pc'[p] = "selectProvider"  BY <1>0, <1>2, <2>4, GotoOwn
      <3>2. CopyTrails(p) /\ CopyAgrees(p)  BY DEF ClaimProtectsSend
      <3>3. CopyTrails(p)' /\ CopyAgrees(p)'
        BY <1>0, <1>2, <3>1, <3>2
        DEF CopyTrails, CopyAgrees, Fresh, Settled, CopyPoints, SendingPoints, GatePoints
      <3>4. ASSUME NEW q \in Procs \ {p}
            PROVE  CopyTrails(q)' /\ CopyAgrees(q)' /\ (MaySend(q)' => MaySend(q)) /\ at'[q] = at[q]
        <4>1. pc'[q] = pc[q] /\ at'[q] = at[q] /\ snap'[q] = snap[q]  BY <3>1 DEF Still
        <4>2. CopyTrails(q) /\ CopyAgrees(q)  BY DEF ClaimProtectsSend
        <4>3. RowLaw(at[q])  BY <1>0 DEF RowLaw
        <4> QED  BY <4>1, <4>2, <4>3, OthersKeep
      <3>5. ASSUME MaySend(p)'
            PROVE  delivered[at[p]] = 0 /\ \A q \in Procs : at[q] = at[p] => ~MaySend(q)
        <4>1. Fresh(p)  BY <1>0, <1>2, <3>1, <3>5 DEF MaySend, Fresh
        <4>2. ~Settled(at[p])
          BY <1>0, <3>2, <4>1 DEF CopyAgrees, SendingPoints, GatePoints
        <4> QED  BY <2>0, <2>4, <4>2 DEF ClaimProtectsSend, OneSender
      <3>6. OneSender'
        <4>1. ASSUME NEW q \in Procs, NEW r \in Procs, MaySend(q)', MaySend(r)', at'[q] = at'[r]
              PROVE  q = r
          BY <1>0, <3>4, <3>5, <4>1 DEF ClaimProtectsSend, OneSender
        <4>2. ASSUME NEW q \in Procs, MaySend(q)' PROVE delivered'[at'[q]] = 0
          BY <1>0, <3>4, <3>5, <4>2 DEF ClaimProtectsSend, OneSender
        <4>3. ASSUME NEW s \in Steps, Claimable(key'[s]), ~Settled(s)'
              PROVE  delivered'[s] = 0 /\ \A q \in Procs : at'[q] = s => ~MaySend(q)'
          <5>1. Claimable(key[s]) /\ s # at[p] /\ ~Settled(s)
            BY <1>0, <2>2, <4>3 DEF Settled
          <5> QED  BY <1>0, <3>4, <5>1 DEF ClaimProtectsSend, OneSender
        <4> QED  BY <4>1, <4>2, <4>3 DEF OneSender, Claimable
      <3>7. AtMostOneDelivery'  BY <1>0 DEF ClaimProtectsSend, AtMostOneDelivery
      <3> QED  BY <3>3, <3>4, <3>6, <3>7 DEF ClaimProtectsSend
    <2> QED  BY <2>3, <2>4
  <1> QED  BY <1>1, <1>2 DEF GateClaim

-----------------------------------------------------------------------------
(* Saves, the submission and what follows it.                                *)

SavePoints == SendingPoints \cup {"reconcileSave", "respondSave"}

LEMMA Saving ==
  ASSUME TypeOK, ClaimProtectsSend, NEW p \in Procs, pc[p] \in SavePoints, SaveExecution(p)
  PROVE  /\ \A s \in Steps : RowLaw(s)
         /\ Current(p) <=> Fresh(p)
         /\ Current(p) => row'[at[p]] = Stored(snap[p])
  <1>1. pc[p] \in CopyPoints  BY DEF SavePoints, CopyPoints
  <1>2. Current(p) <=> Fresh(p)  BY DEF Current, CanCommit, Fresh
  <1>3. Current(p) /\ Settled(at[p]) => snap[p].st \in SettledStatuses
    BY <1>2 DEF ClaimProtectsSend, CopyAgrees, SavePoints
  <1>4. CopyTrails(p)  BY DEF ClaimProtectsSend
  <1> QED  BY <1>1, <1>3, <1>4, SaveLaw

LEMMA SavedAway ==
  ASSUME TypeOK, TypeOK', ClaimProtectsSend, NEW p \in Procs, pc[p] \in SavePoints,
         SaveExecution(p), UNCHANGED <<key, delivered>>, Still(p), Away(p)
  PROVE  ClaimProtectsSend'
  BY Saving, AwayStep

LEMMA EndingSaves ==
  ASSUME TypeOK, TypeOK', ClaimProtectsSend, NEW p \in Procs,
         \/ SaveAccepted(p) \/ SaveUnknown(p) \/ DupSave(p)
         \/ ReconcileSave(p) \/ RespondSave(p) \/ ExpireSave(p)
  PROVE  ClaimProtectsSend'
  <1>a. {"failed", "completed", "ok", "threw"} \subseteq Results
        /\ \A st : ResultOf(st) \in Results
    BY DEF Results, ResultOf
  <1>b. ASSUME NEW l \in {"saveCampaign", "dupGet", "reconcileKey"}, pc'[p] = l PROVE Away(p)
    BY <1>b DEF Away, CopyPoints, SendingPoints, GatePoints
  <1>1. CASE SaveAccepted(p)
    <2>1. PICK l \in {"saveCampaign", "dupGet"} : Goto(p, l)
      BY <1>1 DEF SaveAccepted, SaveThen
    <2>2. /\ UNCHANGED snap \/ \E c : snap' = [snap EXCEPT ![p] = c]
          /\ UNCHANGED <<key, at, delivered>>
      BY <1>1 DEF SaveAccepted, SaveThen
    <2>3. Still(p) /\ Away(p)  BY <1>b, <2>1, <2>2, GotoOwn
    <2>4. pc[p] \in SavePoints /\ SaveExecution(p)
      BY <1>1 DEF SaveAccepted, SaveThen, SavePoints, SendingPoints
    <2> QED  BY <2>2, <2>3, <2>4, SavedAway
  <1>2. CASE ~SaveAccepted(p)
    <2>1. /\ pc[p] \in SavePoints /\ SaveExecution(p) /\ UNCHANGED <<key, at, delivered>>
      BY <1>2 DEF SaveUnknown, DupSave, ReconcileSave, RespondSave, ExpireSave, SaveOrThrow,
         SavePoints, SendingPoints
    <2>2. \/ \E result \in Results : Finish(p, result)
          \/ \E l \in {"dupGet", "reconcileKey"} : Goto(p, l) /\ UNCHANGED snap
      BY <1>a, <1>2 DEF SaveUnknown, DupSave, ReconcileSave, RespondSave, ExpireSave, SaveOrThrow
    <2>3. Still(p) /\ Away(p)  BY <1>b, <2>1, <2>2, FinishOwn, GotoOwn
    <2> QED  BY <2>1, <2>3, SavedAway
  <1> QED  BY <1>1, <1>2

\* The saves that go on: the attempt before the submission, and the two
\* that give the key back.
LEMMA GoingSaves ==
  ASSUME TypeOK, TypeOK', ClaimProtectsSend, NEW p \in Procs,
         SaveAttempt(p) \/ SaveRetry(p) \/ SaveDenied(p)
  PROVE  ClaimProtectsSend'
  <1>1. PICK next \in {"providerSend", "releaseRetry", "releaseDenied"} :
          /\ SaveThen(p, next)
          /\ <<pc[p], next>> \in {<<"saveAttempt", "providerSend">>, <<"saveRetry", "releaseRetry">>,
                                  <<"saveDenied", "releaseDenied">>}
    BY DEF SaveAttempt, SaveRetry, SaveDenied
  <1>2. pc[p] \in SavePoints /\ SaveExecution(p) /\ UNCHANGED <<key, at, delivered>>
    BY <1>1 DEF SaveThen, SavePoints, SendingPoints, GatePoints
  <1>3. /\ \A s \in Steps : RowLaw(s)
        /\ Current(p) <=> Fresh(p)
        /\ Current(p) => row'[at[p]] = Stored(snap[p])
    BY <1>2, Saving
  <1>4. CASE ~Current(p)
    <2>1. Goto(p, "dupGet") /\ UNCHANGED snap  BY <1>1, <1>4 DEF SaveThen
    <2>2. Still(p) /\ pc'[p] = "dupGet"  BY <1>2, <2>1, GotoOwn
    <2>3. Away(p)  BY <2>2 DEF Away, CopyPoints, SendingPoints, GatePoints
    <2> QED  BY <1>2, <2>2, <2>3, SavedAway
  <1>5. CASE Current(p)
    <2>1. Goto(p, next) /\ snap' = [snap EXCEPT ![p] = [snap[p] EXCEPT !.loaded = snap[p].ver]]
      BY <1>1, <1>5 DEF SaveThen, TypeOK
    <2>2. /\ Still(p) /\ pc'[p] = next
          /\ snap'[p] = [snap[p] EXCEPT !.loaded = snap[p].ver]
      BY <1>2, <2>1, GotoOwn, SnapNext
    <2>3. snap[p] \in Copies /\ CopyAgrees(p)  BY DEF TypeOK, ClaimProtectsSend
    <2>4. snap'[p].st = snap[p].st /\ snap'[p].ver = snap[p].ver /\ snap'[p].loaded = snap[p].ver
          /\ snap[p].ver \in Nat
      BY <2>2, <2>3 DEF Copies
    <2>5. row'[at'[p]].st = snap[p].st /\ row'[at'[p]].ver = snap[p].ver
      BY <1>2, <1>3, <1>5 DEF Stored
    <2>6. CopyTrails(p)'  BY <2>4, <2>5 DEF CopyTrails
    <2>7. CopyAgrees(p)'
      <3>1. next = "providerSend" => snap[p].st = "SENDING"
        BY <1>1, <2>3 DEF CopyAgrees, GatePoints
      <3>2. next = "releaseDenied" => snap[p].st \in SettledStatuses
        BY <1>1, <2>3 DEF CopyAgrees
      <3>3. "SENDING" \notin SettledStatuses
        BY DEF SettledStatuses, PositiveStatuses, FailureStatuses
      <3> QED  BY <2>2, <2>4, <2>5, <3>1, <3>2, <3>3
               DEF CopyAgrees, Settled, SendingPoints, GatePoints
    <2>8. MaySend(p)' => MaySend(p)  BY <1>1, <1>3, <1>5, <2>2 DEF MaySend
    <2> QED  BY <1>2, <1>3, <2>2, <2>6, <2>7, <2>8, QuietStep
  <1> QED  BY <1>4, <1>5

\* Giving the key back.  After a denial the execution is settled; after a retryable
\* answer the caller owns the claim, so nobody else sends and nobody has.
LEMMA ReleaseSteps ==
  ASSUME TypeOK, TypeOK', ClaimProtectsSend, NEW p \in Procs, ReleaseDenied(p) \/ ReleaseRetry(p)
  PROVE  ClaimProtectsSend'
  <1>0. /\ UNCHANGED <<row, at, delivered>> /\ key' = [key EXCEPT ![at[p]] = "FAILED_UNSENT"]
        /\ \E result \in Results : Finish(p, result)
    BY DEF ReleaseDenied, ReleaseRetry, MarkIdempotencyFailed, Results
  <1>1. Still(p) /\ Away(p)  BY <1>0, FinishOwn
  <1>2. \A s \in Steps : s # at[p] => key'[s] = key[s]  BY <1>0 DEF TypeOK
  <1>3. CASE ReleaseDenied(p)
    <2>1. Settled(at[p])
      BY <1>3 DEF ReleaseDenied, MarkIdempotencyFailed, ClaimProtectsSend, CopyAgrees
    <2> QED  BY <1>0, <1>1, <1>2, <2>1, AwayStep, SameRows
  <1>4. CASE ReleaseRetry(p)
    <2>1. MaySend(p)  BY <1>4 DEF ReleaseRetry, MarkIdempotencyFailed, MaySend
    <2>2. ASSUME NEW q \in Procs
          PROVE  /\ CopyTrails(q)' /\ CopyAgrees(q)'
                 /\ MaySend(q)' => MaySend(q) /\ q # p
                 /\ at'[q] = at[q]
      <3>1. CASE q = p  BY <1>0, <1>1, <3>1, AwayKeeps
      <3>2. CASE q # p
        <4>1. pc'[q] = pc[q] /\ at'[q] = at[q] /\ snap'[q] = snap[q]  BY <1>1, <3>2 DEF Still
        <4>2. CopyTrails(q) /\ CopyAgrees(q)  BY DEF ClaimProtectsSend
        <4>3. RowLaw(at[q])  BY <1>0 DEF RowLaw
        <4> QED  BY <3>2, <4>1, <4>2, <4>3, OthersKeep
      <3> QED  BY <3>1, <3>2
    <2>3. OneSender'
      <3>1. ASSUME NEW q \in Procs, NEW r \in Procs, MaySend(q)', MaySend(r)', at'[q] = at'[r]
            PROVE  q = r
        BY <2>2, <3>1 DEF ClaimProtectsSend, OneSender
      <3>2. ASSUME NEW q \in Procs, MaySend(q)' PROVE delivered'[at'[q]] = 0
        BY <1>0, <2>2, <3>2 DEF ClaimProtectsSend, OneSender
      <3>3. ASSUME NEW s \in Steps, Claimable(key'[s]), ~Settled(s)'
            PROVE  delivered'[s] = 0 /\ \A q \in Procs : at'[q] = s => ~MaySend(q)'
        <4>1. ~Settled(s)  BY <1>0, <3>3 DEF Settled
        <4>2. CASE s = at[p]
          BY <1>0, <2>1, <2>2, <4>2 DEF ClaimProtectsSend, OneSender
        <4>3. CASE s # at[p]
          BY <1>0, <1>2, <2>2, <3>3, <4>1, <4>3 DEF ClaimProtectsSend, OneSender
        <4> QED  BY <4>2, <4>3
      <3> QED  BY <3>1, <3>2, <3>3 DEF OneSender, Claimable
    <2>4. AtMostOneDelivery'  BY <1>0 DEF ClaimProtectsSend, AtMostOneDelivery
    <2> QED  BY <2>2, <2>3, <2>4 DEF ClaimProtectsSend
  <1> QED  BY <1>3, <1>4

\* The submission: only a sender submits, nothing was delivered before, and the
\* caller stops being one.
LEMMA SubmissionStep ==
  ASSUME TypeOK, TypeOK', ClaimProtectsSend, NEW p \in Procs, ProviderSend(p)
  PROVE  ClaimProtectsSend'
  <1>0. pc[p] = "providerSend" /\ UNCHANGED <<row, key, at>> /\ at[p] \in Steps
    BY DEF ProviderSend, db, TypeOK
  <1>1. CopyTrails(p) /\ CopyAgrees(p) /\ snap[p] \in Copies /\ snap[p].st = "SENDING"
    BY <1>0 DEF ClaimProtectsSend, CopyAgrees, TypeOK
  <1>2. MaySend(p) /\ pc[p] \in CopyPoints /\ pc[p] \in SendingPoints
    BY <1>0 DEF MaySend, CopyPoints, SendingPoints
  <1>3. CASE Deny(p) /\ UNCHANGED delivered  BY <1>0, <1>3, DenyStep
  <1>4. CASE /\ snap' = [snap EXCEPT ![p] = MarkRetryable(snap[p])]
             /\ Goto(p, "saveRetry")
             /\ UNCHANGED delivered
    <2>1. Still(p) /\ pc'[p] = "saveRetry" /\ snap'[p] = snap[p]
      BY <1>0, <1>1, <1>4, GotoOwn, SnapNext, SendingMoves
    <2>2. CopyTrails(p)' /\ CopyAgrees(p)'
      BY <1>0, <1>1, <2>1
      DEF CopyTrails, CopyAgrees, Fresh, Settled, CopyPoints, SendingPoints, GatePoints
    <2> QED  BY <1>0, <1>2, <1>4, <2>1, <2>2, QuietStep, SameRows
  <1>5. CASE /\ delivered' = [delivered EXCEPT ![at[p]] = delivered[at[p]] + 1] \/ UNCHANGED delivered
             /\ \E c, l : /\ <<c, l>> \in {<<MarkAccepted(snap[p]), "saveAccepted">>,
                                         <<MarkDeliveryUnknown(snap[p]), "saveUnknown">>}
                          /\ snap' = [snap EXCEPT ![p] = c]
                          /\ Goto(p, l)
    <2>1. PICK c, l : /\ <<c, l>> \in {<<MarkAccepted(snap[p]), "saveAccepted">>,
                                     <<MarkDeliveryUnknown(snap[p]), "saveUnknown">>}
                      /\ snap' = [snap EXCEPT ![p] = c]
                      /\ Goto(p, l)
      BY <1>5
    <2>2. Still(p) /\ pc'[p] = l /\ snap'[p] = c  BY <1>0, <2>1, GotoOwn, SnapNext
    <2>3. Moves(snap[p], snap'[p]) /\ l \in {"saveAccepted", "saveUnknown"}
      BY <1>1, <2>1, <2>2, SendingMoves
    <2>4. CopyTrails(p)'  BY <1>0, <1>1, <1>2, <2>3, CopyMoved
    <2>5. Fresh(p)' => ~Settled(at[p])
      BY <1>0, <1>1, <1>2, <2>3 DEF Fresh, Moves, CopyAgrees
    <2>6. CopyAgrees(p)' /\ ~MaySend(p)'
      BY <1>0, <2>2, <2>3, <2>5 DEF CopyAgrees, MaySend, Settled, SendingPoints, GatePoints
    <2>7. ASSUME NEW q \in Procs
          PROVE  /\ CopyTrails(q)' /\ CopyAgrees(q)'
                 /\ MaySend(q)' => MaySend(q) /\ q # p
                 /\ at'[q] = at[q]
      <3>1. CASE q = p  BY <1>0, <2>4, <2>6, <3>1
      <3>2. CASE q # p
        <4>1. pc'[q] = pc[q] /\ at'[q] = at[q] /\ snap'[q] = snap[q]  BY <2>2, <3>2 DEF Still
        <4>2. CopyTrails(q) /\ CopyAgrees(q)  BY DEF ClaimProtectsSend
        <4>3. RowLaw(at[q])  BY <1>0 DEF RowLaw
        <4> QED  BY <3>2, <4>1, <4>2, <4>3, OthersKeep
      <3> QED  BY <3>1, <3>2
    <2>8. /\ delivered[at[p]] = 0 /\ delivered'[at[p]] <= 1
          /\ \A s \in Steps : s # at[p] => delivered'[s] = delivered[s]
      BY <1>0, <1>2, <1>5 DEF ClaimProtectsSend, OneSender, TypeOK
    <2>9. OneSender'
      <3>1. ASSUME NEW q \in Procs, NEW r \in Procs, MaySend(q)', MaySend(r)', at'[q] = at'[r]
            PROVE  q = r
        BY <2>7, <3>1 DEF ClaimProtectsSend, OneSender
      <3>2. ASSUME NEW q \in Procs, MaySend(q)' PROVE delivered'[at'[q]] = 0
        <4>1. MaySend(q) /\ at'[q] = at[q] /\ at[q] # at[p] /\ at[q] \in Steps
          BY <1>2, <2>7, <3>2 DEF ClaimProtectsSend, OneSender, TypeOK
        <4> QED  BY <2>8, <4>1 DEF ClaimProtectsSend, OneSender
      <3>3. ASSUME NEW s \in Steps, Claimable(key'[s]), ~Settled(s)'
            PROVE  delivered'[s] = 0 /\ \A q \in Procs : at'[q] = s => ~MaySend(q)'
        <4>1. ~Settled(s) /\ Claimable(key[s])  BY <1>0, <3>3 DEF Settled
        <4>2. s # at[p]  BY <1>2, <4>1 DEF ClaimProtectsSend, OneSender
        <4> QED  BY <2>7, <2>8, <4>1, <4>2 DEF ClaimProtectsSend, OneSender
      <3> QED  BY <3>1, <3>2, <3>3 DEF OneSender, Claimable
    <2>10. AtMostOneDelivery'
      BY <2>8 DEF ClaimProtectsSend, AtMostOneDelivery
    <2> QED  BY <2>7, <2>9, <2>10 DEF ClaimProtectsSend
  <1>6. \/ Deny(p) /\ UNCHANGED delivered
        \/ /\ snap' = [snap EXCEPT ![p] = MarkRetryable(snap[p])]
           /\ Goto(p, "saveRetry") /\ UNCHANGED delivered
        \/ /\ delivered' = [delivered EXCEPT ![at[p]] = delivered[at[p]] + 1] \/ UNCHANGED delivered
           /\ \/ /\ snap' = [snap EXCEPT ![p] = MarkAccepted(snap[p])]
                 /\ Goto(p, "saveAccepted")
              \/ /\ snap' = [snap EXCEPT ![p] = MarkDeliveryUnknown(snap[p])]
                 /\ Goto(p, "saveUnknown")
    BY DEF ProviderSend
  <1> QED  BY <1>3, <1>4, <1>5, <1>6

-----------------------------------------------------------------------------
(* The duplicate handler and draft preparation.                              *)

LEMMA DupLoadStep ==
  ASSUME TypeOK, TypeOK', ClaimProtectsSend, NEW p \in Procs, DupLoad(p)
  PROVE  ClaimProtectsSend'
  <1> DEFINE e == Reconstitute(row[at[p]])
             c == Resolved(e, view[p])
  <1>0. UNCHANGED <<row, key, at, delivered>> /\ at[p] \in Steps  BY DEF DupLoad, db, TypeOK
  <1>1. CASE \E result \in Results : Finish(p, result)
    <2>1. Still(p) /\ Away(p)  BY <1>0, <1>1, FinishOwn
    <2> QED  BY <1>0, <2>1, AwayStep, SameRows
  <1>2. CASE /\ e.st \notin SettledStatuses
             /\ snap' = [snap EXCEPT ![p] = c]
             /\ Goto(p, "dupSave")
    <2>1. Still(p) /\ pc'[p] = "dupSave" /\ snap'[p] = c
      BY <1>0, <1>2, GotoOwn, SnapNext
    <2>2. e \in Copies  BY <1>0, RowCopyType DEF TypeOK
    <2>3. Moves(e, snap'[p])  BY <2>1, <2>2, ResolvedMoves
    <2>4. CopyTrails(p)'  BY <1>0, <2>3, CopyLoaded
    <2>5. ~Settled(at[p])  BY <1>2 DEF Settled, Reconstitute
    <2>6. CopyAgrees(p)' /\ ~MaySend(p)'
      BY <1>0, <2>1, <2>5 DEF CopyAgrees, MaySend, Settled, SendingPoints, GatePoints
    <2> QED  BY <1>0, <2>1, <2>4, <2>6, QuietStep, SameRows
  <1>3. \A st : ResultOf(st) \in Results  BY DEF ResultOf, Results
  <1> QED  BY <1>1, <1>2, <1>3 DEF DupLoad

LEMMA DraftVersions ==
  SetDraft(StartedDraft).ver > 0 /\ Reject(StartedDraft).ver > 0
  <1>1. StartedDraft.ver = 2 /\ StartedDraft.st = "DRAFTING" /\ StartedDraft \in Copies
    BY DraftType DEF StartedDraft
  <1>2. Reject(StartedDraft).ver > 0  BY <1>1 DEF Reject
  <1>3. SetDraft(StartedDraft).ver >= 2
    BY <1>1, TransitionMoves DEF SetDraft, Moves
  <1>4. SetDraft(StartedDraft).ver \in Nat  BY DraftType DEF Copies
  <1> QED  BY <1>2, <1>3, <1>4

LEMMA PrepareSteps ==
  ASSUME TypeOK, TypeOK', ClaimProtectsSend, NEW p \in Procs, PrepareFind(p) \/ PrepareSave(p)
  PROVE  ClaimProtectsSend'
  <1>0. UNCHANGED <<key, at, delivered>> /\ at[p] \in Steps
    BY DEF PrepareFind, PrepareSave, db, TypeOK
  <1>a. {"awaiting", "threw", "undrafted"} \subseteq Results  BY DEF Results
  <1>1. CASE PrepareFind(p)
    <2>0. UNCHANGED row  BY <1>1 DEF PrepareFind, db
    <2>1. CASE \E result \in Results : Finish(p, result)
      <3>1. Still(p) /\ Away(p)  BY <1>0, <2>1, FinishOwn
      <3> QED  BY <1>0, <2>0, <3>1, AwayStep, SameRows
    <2>2. CASE \E c \in {SetDraft(StartedDraft), Reject(StartedDraft)} :
                 snap' = [snap EXCEPT ![p] = c] /\ Goto(p, "saveDraft")
      <3>1. PICK c \in {SetDraft(StartedDraft), Reject(StartedDraft)} :
              snap' = [snap EXCEPT ![p] = c] /\ Goto(p, "saveDraft")
        BY <2>2
      <3>2. Still(p) /\ pc'[p] = "saveDraft" /\ snap'[p] = c  BY <1>0, <3>1, GotoOwn, SnapNext
      <3>3. snap'[p].ver > 0  BY <3>1, <3>2, DraftVersions
      <3>4. CopyTrails(p)' /\ CopyAgrees(p)' /\ ~MaySend(p)'
        BY <3>2, <3>3
        DEF CopyTrails, CopyAgrees, MaySend, CopyPoints, SendingPoints, GatePoints
      <3> QED  BY <1>0, <2>0, <3>2, <3>4, QuietStep, SameRows
    <2> QED  BY <1>1, <1>a, <2>1, <2>2 DEF PrepareFind
  <1>2. CASE PrepareSave(p)
    <2>1. \E result \in Results : Finish(p, result)  BY <1>2, <1>a DEF PrepareSave
    <2>2. Still(p) /\ Away(p)  BY <1>0, <2>1, FinishOwn
    <2>3. snap[p].ver > 0 /\ snap[p] \in Copies
      BY <1>2 DEF PrepareSave, ClaimProtectsSend, CopyAgrees, TypeOK
    <2>4. ASSUME NEW s \in Steps PROVE RowLaw(s)
      <3>1. row'[s] = row[s] \/ (row[s] = NoRow /\ row'[s] = Stored(snap[p]))
        BY <1>0, <1>2 DEF PrepareSave, TypeOK
      <3>2. CASE row[s] = NoRow /\ row'[s] = Stored(snap[p])
        <4>1. row'[s].ver > row[s].ver  BY <2>3, <3>2 DEF Stored, NoRow
        <4>2. ~Settled(s)
          BY <3>2 DEF Settled, NoRow, SettledStatuses, PositiveStatuses, FailureStatuses
        <4> QED  BY <4>1, <4>2 DEF RowLaw
      <3> QED  BY <3>1, <3>2 DEF RowLaw
    <2> QED  BY <1>0, <2>2, <2>4, AwayStep
  <1> QED  BY <1>1, <1>2

-----------------------------------------------------------------------------
(* The theorem.                                                              *)

LEMMA ClaimInit == Init => ClaimProtectsSend
  <1> SUFFICES ASSUME Init PROVE ClaimProtectsSend  OBVIOUS
  <1>1. \A p \in Procs : pc[p] = "idle" /\ at[p] \in Steps  BY StepsType DEF Init
  <1>2. \A s \in Steps : delivered[s] = 0  BY DEF Init
  <1>3. \A p \in Procs : CopyTrails(p) /\ CopyAgrees(p) /\ ~MaySend(p)
    BY <1>1 DEF CopyTrails, CopyAgrees, MaySend, CopyPoints, SendingPoints, GatePoints
  <1> QED  BY <1>1, <1>2, <1>3 DEF ClaimProtectsSend, OneSender, AtMostOneDelivery

LEMMA IdleStep ==
  ASSUME TypeOK, ClaimProtectsSend, UNCHANGED <<row, key, delivered, pc, at, snap>>
  PROVE  ClaimProtectsSend'
  BY DEF ClaimProtectsSend, OneSender, AtMostOneDelivery, CopyTrails, CopyAgrees, MaySend,
     Fresh, Settled

LEMMA ClaimNext ==
  ASSUME "rateLimit" \notin Faults, TypeOK, TypeOK', ClaimProtectsSend, [Next]_vars
  PROVE  ClaimProtectsSend'
  <1>1. ASSUME NEW p \in Procs, Start(p) PROVE ClaimProtectsSend'  BY <1>1, StartSteps
  <1>2. ASSUME NEW p \in Procs, SendStep(p) PROVE ClaimProtectsSend'
    BY <1>2, LeavingSteps, LoadingSteps, GateSteps, ClaimStep, SubmissionStep, EndingSaves,
       GoingSaves, ReleaseSteps, DupLoadStep DEF SendStep
  <1>3. ASSUME NEW p \in Procs, OtherStep(p) PROVE ClaimProtectsSend'
    BY <1>3, LeavingSteps, EndingSaves, PrepareSteps DEF OtherStep
  <1>4. ASSUME NEW p \in Procs, Crash(p) PROVE ClaimProtectsSend'  BY <1>4, LeavingSteps
  <1>5. CASE Environment
    <2>1. UNCHANGED <<row, key, delivered, pc, at, snap>>
      BY <1>5 DEF Environment, Approve, Disapprove, RemoveFromAllowlist, OptOut, db
    <2> QED  BY <2>1, IdleStep
  <1>6. CASE UNCHANGED vars  BY <1>6, IdleStep DEF vars
  <1> QED  BY <1>1, <1>2, <1>3, <1>4, <1>5, <1>6 DEF Next

\* The claim at work: without a rate limit, at most one call at a time can submit a
\* step's message, and none once it was delivered, whatever calls race or die.
THEOREM ClaimHolds ==
  ASSUME "rateLimit" \notin Faults
  PROVE  Spec => []ClaimProtectsSend
  <1>1. TypeOK /\ TypeOK' /\ ClaimProtectsSend /\ [Next]_vars => ClaimProtectsSend'
    BY ClaimNext
  <1> QED  BY <1>1, ClaimInit, TypeCorrect, PTL DEF Spec

\* Without a rate limit, no step's message is delivered twice.
THEOREM NoDuplicateDelivery ==
  ASSUME "rateLimit" \notin Faults
  PROVE  Spec => []AtMostOneDelivery
  <1>1. ClaimProtectsSend => AtMostOneDelivery  BY DEF ClaimProtectsSend
  <1> QED  BY <1>1, ClaimHolds, PTL

-----------------------------------------------------------------------------
(* A call on a barred step stops at the check of SendSafetyGate that bars it: *)
(* each point behind a check is entered through the check alone, and nothing  *)
(* lifts a bar.                                                               *)

BehindApproval    == {"rateLimit", "claim", "selectProvider", "saveAttempt", "providerSend"}
BehindSuppression == {"approval"} \cup BehindApproval
BehindAllowlist   == {"suppression"} \cup BehindSuppression

\* Where a call may come from, and under what the check let it pass.
EnteredInOrder(p) ==
  /\ pc'[p] \in BehindApproval =>
       /\ at'[p] = at[p] /\ pc[p] \in BehindSuppression
       /\ pc[p] = "approval" => approval[at[p]] = "APPROVED"
  /\ pc'[p] = "approval" =>
       at'[p] = at[p] /\ pc[p] \in {"approval", "suppression"} /\ (pc[p] = "suppression" => ~suppressed)
  /\ pc'[p] = "suppression" =>
       at'[p] = at[p] /\ pc[p] \in {"suppression", "allowlist"} /\ (pc[p] = "allowlist" => allowed)

LEMMA StartEnters ==
  ASSUME TypeOK, NEW p \in Procs, Start(p)
  PROVE  EnteredInOrder(p)
  <1>1. \A l \in {"loadSequence", "reconcileSave", "respondSave", "expireSave", "findDraft", "linkSave"} :
          Goto(p, l) => pc'[p] \notin BehindAllowlist
    BY DEF Goto, TypeOK, BehindAllowlist, BehindSuppression, BehindApproval
  <1>2. \E l \in {"loadSequence", "reconcileSave", "respondSave", "expireSave", "findDraft", "linkSave"} : Goto(p, l)
    BY DEF Start, LoadExecution, ReconcileLoad, RespondLoad, ExpireLoad, Load, PrepareLoad, LinkLoad
  <1> QED  BY <1>1, <1>2 DEF EnteredInOrder, BehindAllowlist, BehindSuppression

LEMMA GatesEnter ==
  ASSUME TypeOK, NEW p \in Procs,
         \/ GateAllowlist(p) \/ GateSuppression(p) \/ GateApproval(p) \/ GateRateLimit(p)
         \/ GateClaim(p) \/ SelectProvider(p)
  PROVE  EnteredInOrder(p)
  BY DEF TypeOK, GateAllowlist, GateSuppression, GateApproval, Gate, GateRateLimit, GateClaim, SelectProvider,
         Deny, Goto, EnteredInOrder, BehindSuppression, BehindApproval

LEMMA SaveAttemptEnters ==
  ASSUME TypeOK, NEW p \in Procs, SaveAttempt(p)
  PROVE  EnteredInOrder(p)
  BY DEF TypeOK, SaveAttempt, SaveThen, Goto, EnteredInOrder, BehindSuppression, BehindApproval

\* Every other step of a call leads elsewhere.
Elsewhere(p) == \E l \in (SendPoints \cup OtherPoints \cup Results) \ BehindAllowlist : Goto(p, l)

LEMMA ElsewhereEnters ==
  ASSUME TypeOK, NEW p \in Procs, Elsewhere(p)
  PROVE  EnteredInOrder(p)
  <1>1. pc'[p] \notin BehindAllowlist  BY DEF Elsewhere, Goto, TypeOK
  <1> QED  BY <1>1 DEF EnteredInOrder, BehindAllowlist, BehindSuppression

LEMMA FinishElsewhere ==
  ASSUME NEW p, NEW result \in Results, Finish(p, result)
  PROVE  Elsewhere(p)
  BY DEF Finish, Elsewhere, Results, BehindAllowlist, BehindSuppression, BehindApproval

LEMMA ResultOfTyped == \A st : ResultOf(st) \in Results
  BY DEF ResultOf, Results

LEMMA SendElsewhere ==
  ASSUME NEW p \in Procs,
         \/ LoadSequence(p) \/ LoadCampaign(p) \/ RecipientUnavailable(p) \/ ProviderSend(p)
         \/ SaveAccepted(p) \/ SaveCampaign(p) \/ MarkCompleted(p)
         \/ ReloadCampaign(p) \/ SaveSequence(p) \/ SaveCompletion(p)
         \/ SaveDenied(p) \/ ReleaseDenied(p) \/ SaveRetry(p) \/ ReleaseRetry(p)
         \/ SaveUnknown(p) \/ DupGet(p) \/ DupLoad(p) \/ DupSave(p)
  PROVE  Elsewhere(p)
  <1> DEFINE away == {"loadCampaign", "allowlist", "saveAccepted", "saveUnknown", "saveRetry", "saveDenied",
                      "saveCampaign", "markCompleted", "reloadCampaign", "saveSequence", "saveCompletion",
                      "releaseDenied", "releaseRetry", "dupGet", "dupLoad", "dupSave"}
  <1>1. away \subseteq (SendPoints \cup OtherPoints \cup Results) \ BehindAllowlist
    BY DEF SendPoints, BehindAllowlist, BehindSuppression, BehindApproval
  <1>2. (\E l \in away : Goto(p, l)) => Elsewhere(p)  BY <1>1 DEF Elsewhere
  <1>3. (\E result \in Results : Finish(p, result)) => Elsewhere(p)  BY FinishElsewhere
  <1>4. {"failed", "completed", "retryable"} \subseteq Results  BY DEF Results
  <1> USE <1>2, <1>3, <1>4, ResultOfTyped
  <1> HIDE DEF away
  <1>5. \A l : l \in {"loadCampaign", "allowlist", "saveAccepted", "saveUnknown", "saveRetry", "saveDenied",
                      "saveCampaign", "markCompleted", "reloadCampaign", "saveSequence", "saveCompletion",
                      "releaseDenied", "releaseRetry", "dupGet", "dupLoad", "dupSave"} => l \in away
    BY DEF away
  <1> USE <1>5
  <1>6. CASE LoadSequence(p) \/ RecipientUnavailable(p)  BY <1>6 DEF LoadSequence, RecipientUnavailable
  <1>7. CASE LoadCampaign(p)  BY <1>7 DEF LoadCampaign
  <1>8. CASE ProviderSend(p)  BY <1>8 DEF ProviderSend, Deny
  <1>9. CASE SaveAccepted(p) \/ SaveDenied(p) \/ SaveRetry(p)
    BY <1>9 DEF SaveAccepted, SaveDenied, SaveRetry, SaveThen
  <1>10. CASE SaveCampaign(p) \/ MarkCompleted(p)  BY <1>10 DEF SaveCampaign, SaveCampaignThen, MarkCompleted
  <1>11. CASE ReloadCampaign(p)  BY <1>11 DEF ReloadCampaign
  <1>12. CASE SaveSequence(p) \/ SaveCompletion(p)  BY <1>12 DEF SaveSequence, SaveCompletion
  <1>13. CASE ReleaseDenied(p) \/ ReleaseRetry(p)
    BY <1>13 DEF ReleaseDenied, ReleaseRetry, MarkIdempotencyFailed
  <1>14. CASE SaveUnknown(p) \/ DupGet(p)  BY <1>14 DEF SaveUnknown, DupGet
  <1>15. CASE DupLoad(p) \/ DupSave(p)  BY <1>15 DEF DupLoad, DupSave
  <1> QED  BY <1>6, <1>7, <1>8, <1>9, <1>10, <1>11, <1>12, <1>13, <1>14, <1>15

LEMMA OtherElsewhere ==
  ASSUME NEW p \in Procs, OtherStep(p) \/ Crash(p)
  PROVE  Elsewhere(p)
  <1>1. (\E result \in Results : Finish(p, result)) => Elsewhere(p)  BY FinishElsewhere
  <1>2. {"awaiting", "undrafted", "ok", "threw", "crashed"} \subseteq Results  BY DEF Results
  <1>3. Goto(p, "saveDraft") \/ Goto(p, "reconcileKey") => Elsewhere(p)
    BY DEF Elsewhere, OtherPoints, BehindAllowlist, BehindSuppression, BehindApproval
  <1> USE <1>1, <1>2, <1>3
  <1>4. CASE PrepareFind(p)  BY <1>4 DEF PrepareFind
  <1>5. CASE PrepareSave(p)  BY <1>5 DEF PrepareSave
  <1>6. CASE ReconcileSave(p) \/ ReconcileKey(p)  BY <1>6 DEF ReconcileSave, ReconcileKey
  <1>7. CASE RespondSave(p) \/ ExpireSave(p)  BY <1>7 DEF RespondSave, ExpireSave, SaveOrThrow
  <1>8. CASE LinkSave(p) \/ Crash(p)  BY <1>8 DEF LinkSave, Crash
  <1> QED  BY <1>4, <1>5, <1>6, <1>7, <1>8 DEF OtherStep

\* A step of a call moves its own program counter only, and once begun keeps its step.
MovesAlone(p) ==
  \A q \in Procs \ {p} : pc'[q] = pc[q] /\ at'[q] = at[q]

LEMMA GotoAlone ==
  ASSUME TypeOK, NEW p \in Procs, NEW l, Goto(p, l), UNCHANGED at
  PROVE  MovesAlone(p)
  BY DEF TypeOK, Goto, MovesAlone

LEMMA StartAlone ==
  ASSUME TypeOK, NEW p \in Procs, Start(p)
  PROVE  MovesAlone(p)
  <1>1. /\ \E l : pc' = [pc EXCEPT ![p] = l]
        /\ UNCHANGED at \/ \E s : at' = [at EXCEPT ![p] = s]
    BY DEF Start, LoadExecution, ReconcileLoad, RespondLoad, ExpireLoad, Load, PrepareLoad, LinkLoad, Goto
  <1> QED  BY <1>1 DEF TypeOK, MovesAlone

LEMMA StepKeeps ==
  ASSUME NEW p \in Procs, SendStep(p) \/ OtherStep(p) \/ Crash(p)
  PROVE  UNCHANGED at /\ UNCHANGED env
  <1>1. CASE \/ LoadSequence(p) \/ LoadCampaign(p) \/ RecipientUnavailable(p)
             \/ GateAllowlist(p) \/ GateSuppression(p) \/ GateApproval(p)
             \/ GateRateLimit(p) \/ GateClaim(p) \/ SelectProvider(p)
    BY <1>1 DEF LoadSequence, LoadCampaign, RecipientUnavailable, GateAllowlist, GateSuppression, GateApproval,
                Gate, GateRateLimit, GateClaim, SelectProvider
  <1>2. CASE \/ SaveAttempt(p) \/ ProviderSend(p) \/ SaveAccepted(p) \/ SaveCampaign(p) \/ MarkCompleted(p)
             \/ ReloadCampaign(p) \/ SaveSequence(p) \/ SaveCompletion(p)
    BY <1>2 DEF SaveAttempt, SaveThen, ProviderSend, SaveAccepted, SaveCampaign, SaveCampaignThen, MarkCompleted,
                ReloadCampaign, SaveSequence, SaveCompletion
  <1>3. CASE \/ SaveDenied(p) \/ ReleaseDenied(p) \/ SaveRetry(p) \/ ReleaseRetry(p) \/ SaveUnknown(p)
             \/ DupGet(p) \/ DupLoad(p) \/ DupSave(p)
    BY <1>3 DEF SaveDenied, SaveRetry, SaveThen, ReleaseDenied, ReleaseRetry, MarkIdempotencyFailed, SaveUnknown,
                DupGet, DupLoad, DupSave
  <1>4. CASE OtherStep(p) \/ Crash(p)
    BY <1>4 DEF OtherStep, PrepareFind, PrepareSave, ReconcileSave, ReconcileKey, RespondSave, ExpireSave,
                SaveOrThrow, LinkSave, Crash
  <1> QED  BY <1>1, <1>2, <1>3, <1>4 DEF SendStep

LEMMA StepAlone ==
  ASSUME TypeOK, NEW p \in Procs, SendStep(p) \/ OtherStep(p) \/ Crash(p)
  PROVE  MovesAlone(p)
  <1>1. CASE Elsewhere(p)  BY <1>1, StepKeeps, GotoAlone DEF Elsewhere
  <1>2. CASE GateAllowlist(p) \/ GateSuppression(p) \/ GateApproval(p) \/ GateRateLimit(p)
             \/ GateClaim(p) \/ SelectProvider(p) \/ SaveAttempt(p)
    <2>1. \E l : Goto(p, l)
      BY <1>2 DEF GateAllowlist, GateSuppression, GateApproval, Gate, GateRateLimit, GateClaim, SelectProvider,
                  SaveAttempt, SaveThen, Deny
    <2> QED  BY <2>1, StepKeeps, GotoAlone
  <1> QED  BY <1>1, <1>2, SendElsewhere, OtherElsewhere DEF SendStep

LEMMA CallsEnterInOrder ==
  ASSUME TypeOK, [Next]_vars, NEW p \in Procs
  PROVE  EnteredInOrder(p)
  <1>1. CASE pc'[p] = pc[p] /\ at'[p] = at[p]
    BY <1>1 DEF EnteredInOrder, BehindSuppression, BehindApproval
  <1>2. CASE UNCHANGED vars \/ Environment
    BY <1>1, <1>2 DEF vars, Environment, Approve, Disapprove, RemoveFromAllowlist, OptOut
  <1>3. ASSUME NEW q \in Procs, Start(q) \/ SendStep(q) \/ OtherStep(q) \/ Crash(q)
        PROVE  EnteredInOrder(p)
    <2>1. CASE q # p  BY <1>1, <1>3, <2>1, StartAlone, StepAlone DEF MovesAlone
    <2>2. CASE q = p /\ (Start(p) \/ OtherStep(p) \/ Crash(p))
      BY <2>2, StartEnters, OtherElsewhere, ElsewhereEnters
    <2>3. CASE q = p /\ SendStep(p)
      BY <2>3, GatesEnter, SaveAttemptEnters, SendElsewhere, ElsewhereEnters DEF SendStep
    <2> QED  BY <1>3, <2>1, <2>2, <2>3
  <1> QED  BY <1>2, <1>3 DEF Next

LEMMA BarsStay ==
  ASSUME TypeOK, [Next]_vars, NEW s \in Steps
  PROVE  /\ ~allowed => ~allowed'
         /\ suppressed => suppressed'
         /\ approval[s] \in {"REJECTED", "EXPIRED"} => approval'[s] \in {"REJECTED", "EXPIRED"}
  <1>1. CASE UNCHANGED env  BY <1>1 DEF env
  <1>2. CASE Environment
    BY <1>2 DEF Environment, Approve, Disapprove, RemoveFromAllowlist, OptOut, TypeOK
  <1>3. ASSUME NEW q \in Procs, Start(q) \/ SendStep(q) \/ OtherStep(q) \/ Crash(q)
        PROVE  UNCHANGED env
    <2>1. CASE Start(q)
      BY <2>1 DEF Start, LoadExecution, ReconcileLoad, RespondLoad, ExpireLoad, Load, PrepareLoad, LinkLoad
    <2> QED  BY <1>3, <2>1, StepKeeps
  <1> QED  BY <1>1, <1>2, <1>3 DEF Next, vars, env

\* The check that bars a call is before it, or it is about another step.
Stopped(p, s) ==
  \/ ~allowed /\ (at[p] = s => pc[p] \notin BehindAllowlist)
  \/ suppressed /\ (at[p] = s => pc[p] \notin BehindSuppression)
  \/ approval[s] \in {"REJECTED", "EXPIRED"} /\ (at[p] = s => pc[p] \notin BehindApproval)

LEMMA StoppedStays ==
  ASSUME TypeOK, [Next]_vars, NEW p \in Procs, NEW s \in Steps, Stopped(p, s)
  PROVE  Stopped(p, s)'
  <1>1. EnteredInOrder(p)  BY CallsEnterInOrder
  <1> USE BarsStay DEF EnteredInOrder
  <1>2. CASE ~allowed /\ (at[p] = s => pc[p] \notin BehindAllowlist)
    <2>1. at'[p] = s => pc'[p] \notin BehindAllowlist
      BY <1>1, <1>2 DEF BehindAllowlist, BehindSuppression, BehindApproval
    <2> QED  BY <1>2, <2>1 DEF Stopped
  <1>3. CASE suppressed /\ (at[p] = s => pc[p] \notin BehindSuppression)
    <2>1. at'[p] = s => pc'[p] \notin BehindSuppression
      BY <1>1, <1>3 DEF BehindSuppression, BehindApproval
    <2> QED  BY <1>3, <2>1 DEF Stopped
  <1>4. CASE approval[s] \in {"REJECTED", "EXPIRED"} /\ (at[p] = s => pc[p] \notin BehindApproval)
    <2>1. at'[p] = s => pc'[p] \notin BehindApproval
      BY <1>1, <1>4 DEF BehindSuppression, BehindApproval
    <2> QED  BY <1>4, <2>1 DEF Stopped
  <1> QED  BY <1>2, <1>3, <1>4 DEF Stopped

\* However late the opt-out, the allowlist's change or the rejection comes, as long as it
\* is before the call begins: the gate's checks run in every send, each before the
\* submission, and executeApprovedSend has no way around them.
THEOREM BarsHold == Spec => BarredCallsNeverSubmit
  <1>1. ASSUME NEW p \in Procs, NEW s \in Steps
        PROVE  Spec => [](pc[p] = "idle" /\ Barred(s) => [](at[p] = s => pc[p] # "providerSend"))
    <2>1. pc[p] = "idle" /\ Barred(s) => Stopped(p, s)
      BY DEF Barred, Stopped, BehindAllowlist, BehindSuppression, BehindApproval
    <2>2. TypeOK /\ [Next]_vars /\ Stopped(p, s) => Stopped(p, s)'  BY StoppedStays
    <2>3. Stopped(p, s) => (at[p] = s => pc[p] # "providerSend")
      BY DEF Stopped, BehindAllowlist, BehindSuppression, BehindApproval
    <2> QED  BY <2>1, <2>2, <2>3, TypeCorrect, PTL DEF Spec
  <1> QED  BY <1>1 DEF BarredCallsNeverSubmit
=============================================================================
