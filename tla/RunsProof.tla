----------------------------- MODULE RunsProof ------------------------------
(* Proofs about the two runs that drive the sending of a campaign, whatever  *)
(* the requests, approvers and steps and whatever crashes: the sequence      *)
(* workflow sends only what was approved, and one verdict stands for a       *)
(* request; the operator's script reports prepared only what is saved whole. *)
EXTENDS SequenceRun, OperatorRun, TLAPS

RequestStates == {"NONE", "PENDING", "ESCALATED", "APPROVED", "REJECTED", "EXPIRED"}
CallStages    == {"idle", "save", "thrown", "signal", "told"}
RunStages     == {"unstarted", "loop", "draft", "wait", "send", "expire", "reply", "returned"}
RunResults    == {"none", "FAILED", "COMPLETED", "TIMEOUT"}
MaybeRequest  == {"none"} \cup Requests

RequestType ==
  [status : RequestStates, target : Positions, fits : BOOLEAN, late : BOOLEAN, version : Nat]
CallType ==
  [pc : CallStages, status : RequestStates, target : Positions, verdict : RequestStates,
   base : Nat, request : MaybeRequest]
RunType ==
  [pc : RunStages, slot : MaybeRequest, used : MaybeRequest, reply : BOOLEAN, round : Nat,
   result : RunResults]

SequenceTypeOK ==
  /\ position \in 0..SequenceSteps
  /\ execution \in [Positions -> ExecutionStates]
  /\ request \in [Requests -> RequestType]
  /\ approver \in [Approvers -> CallType]
  /\ bounded \in BOOLEAN
  /\ run \in RunType
  /\ sent \subseteq Positions \X Requests

Asked(q) == q \in Requests /\ request[q].status # "NONE"

\* A request is for an execution there is.
RequestsHaveTargets ==
  \A q \in Requests : Asked(q) => execution[request[q].target] # "NONE"

\* A call that saves its copy next was allowed its verdict, unless the row has moved since;
\* the verdict of a call that saved stands, whoever else loaded the request.
CallIsSound(a) ==
  LET q == approver[a].request
  IN  /\ approver[a].pc \in {"save", "signal", "told"} => Asked(q)
      /\ approver[a].pc = "save" =>
           /\ approver[a].status = approver[a].verdict
           /\ approver[a].verdict \in Verdicts
           /\ approver[a].base <= request[q].version
           /\ approver[a].base = request[q].version =>
                approver[a].verdict \in ApprovalTransitions[request[q].status]
      /\ approver[a].pc \in {"signal", "told"} =>
           approver[a].verdict \in Verdicts /\ request[q].status = approver[a].verdict
CallsAreSound == \A a \in Approvers : CallIsSound(a)

\* The workflow sends on a request that was made, and works on a step that there is.
RunIsSound ==
  /\ run.slot # "none" => Asked(run.slot)
  /\ run.pc = "send" => Asked(run.used)
  /\ run.pc \in {"draft", "wait", "send", "expire"} => position < SequenceSteps
  /\ run.pc # "returned" => run.result = "none"

\* The steps behind the position went out, and none is begun beyond the next.
StepsInOrder ==
  \A s \in Positions :
    /\ s <= position => execution[s] = "ACCEPTED"
    /\ execution[s] # "NONE" => s <= position + 1

SequenceInvariant ==
  /\ SequenceTypeOK /\ RequestsHaveTargets /\ CallsAreSound /\ RunIsSound /\ StepsInOrder
  /\ SendsAreApproved /\ TimeoutLeavesNoWait

-----------------------------------------------------------------------------

LEMMA Sorts ==
  /\ {"NONE", "PENDING"} \cup Verdicts \subseteq RequestStates
  /\ {"idle", "save", "thrown", "signal", "told"} \subseteq CallStages
  /\ {"unstarted", "loop", "draft", "wait", "send", "expire", "reply", "returned"} \subseteq RunStages
  /\ {"none", "FAILED", "COMPLETED", "TIMEOUT"} \subseteq RunResults
  /\ {"NONE", "DRAFTING", "PENDING_APPROVAL", "SENDING", "ACCEPTED", "FAILED"} \subseteq ExecutionStates
  /\ "none" \in MaybeRequest /\ Requests \subseteq MaybeRequest
  BY DEF RequestStates, Verdicts, CallStages, RunStages, RunResults, ExecutionStates, MaybeRequest

LEMMA SequenceInitHolds == SequenceInit => SequenceInvariant
  <1> SUFFICES ASSUME SequenceInit  PROVE SequenceInvariant
    OBVIOUS
  <1>1. SequenceTypeOK
    BY SequenceStepsAssumption, Sorts
    DEF SequenceInit, SequenceTypeOK, NoRequest, NoCall, RequestType, CallType, RunType, Positions
  <1>2. RequestsHaveTargets  BY DEF SequenceInit, RequestsHaveTargets, Asked, NoRequest
  <1>3. CallsAreSound  BY DEF SequenceInit, CallsAreSound, CallIsSound, NoCall
  <1>4. RunIsSound  BY DEF SequenceInit, RunIsSound
  <1>5. StepsInOrder  BY DEF SequenceInit, StepsInOrder, Positions
  <1>6. SendsAreApproved /\ TimeoutLeavesNoWait
    BY DEF SequenceInit, SendsAreApproved, TimeoutLeavesNoWait
  <1> QED  BY <1>1, <1>2, <1>3, <1>4, <1>5, <1>6 DEF SequenceInvariant

\* What a send leaves and answers: a message goes out only for a step not accepted yet, on a
\* request that is approved or for an execution that is not there.
LEMMA SendOutcomesTyped ==
  ASSUME SequenceTypeOK, NEW q \in Requests, NEW o \in SendOutcomes(q)
  PROVE  /\ o[1] \in ExecutionStates /\ o[2] \in {"COMPLETED", "RETRYABLE", "FAILED"}
         /\ o[1] # "NONE"
         /\ execution[request[q].target] = "ACCEPTED" => o[1] = "ACCEPTED"
         /\ (o[1] = "ACCEPTED" /\ execution[request[q].target] \notin {"ACCEPTED", "NONE"})
              => Verified(q)
  <1> DEFINE status == execution[request[q].target]
             verified == Verified(q)
  <1>1. status \in ExecutionStates  BY DEF SequenceTypeOK, RequestType
  <1>2. \/ status = "ACCEPTED" /\ o = <<"ACCEPTED", "COMPLETED">>
        \/ status \in {"FAILED", "DRAFTING"} /\ o = <<status, "FAILED">>
        \/ status \in {"PENDING_APPROVAL", "SENDING"} /\ ~verified /\ o = <<"FAILED", "FAILED">>
        \/ /\ status = "NONE" \/ (status \in {"PENDING_APPROVAL", "SENDING"} /\ verified)
           /\ o \in {<<"FAILED", "FAILED">>, <<"SENDING", "RETRYABLE">>, <<"ACCEPTED", "COMPLETED">>}
    <2>1. o \in IF status = "ACCEPTED" THEN {<<"ACCEPTED", "COMPLETED">>}
                ELSE IF status \in {"FAILED", "DRAFTING"} THEN {<<status, "FAILED">>}
                ELSE IF status \in {"PENDING_APPROVAL", "SENDING"} /\ ~verified
                       THEN {<<"FAILED", "FAILED">>}
                ELSE {<<"FAILED", "FAILED">>, <<"SENDING", "RETRYABLE">>, <<"ACCEPTED", "COMPLETED">>}
      BY DEF SendOutcomes
    <2> HIDE DEF status, verified
    <2> QED  BY <1>1, <2>1 DEF ExecutionStates
  <1> HIDE DEF status, verified
  <1>3. /\ o[1] \in ExecutionStates /\ o[2] \in {"COMPLETED", "RETRYABLE", "FAILED"}
        /\ o[1] # "NONE"
        /\ status = "ACCEPTED" => o[1] = "ACCEPTED"
        /\ o[1] = "ACCEPTED" /\ status \notin {"ACCEPTED", "NONE"} => verified
    BY <1>2 DEF ExecutionStates
  <1> QED  BY <1>3 DEF status, verified

\* A send works on the next step or on one that was accepted, and moves the sequence only by
\* a message that an approval in force let go out.
LEMMA SendStep ==
  ASSUME SequenceInvariant, ExecuteSend
  PROVE  /\ run.used \in Requests /\ Asked(run.used)
         /\ request[run.used].target \in Positions
         /\ UNCHANGED <<request, approver, bounded>>
         /\ \E status \in ExecutionStates \ {"NONE"}, stage \in {"reply", "loop", "returned"},
               result \in {"none", "FAILED"} :
              /\ execution' = [execution EXCEPT ![request[run.used].target] = status]
              /\ run' = [run EXCEPT !.pc = stage, !.slot = "none", !.result = result]
              /\ stage # "returned" => result = "none"
              /\ \/ /\ execution[request[run.used].target] = "ACCEPTED" <=> status = "ACCEPTED"
                    /\ UNCHANGED <<position, sent>>
                 \/ /\ status = "ACCEPTED" /\ Verified(run.used)
                    /\ request[run.used].target = position + 1
                    /\ position' \in {position, position + 1}
                    /\ sent' = sent \cup {<<request[run.used].target, run.used>>}
  <1> USE DEF SequenceInvariant
  <1>1. run.used \in Requests /\ Asked(run.used) /\ run.result = "none" /\ run \in RunType
    BY DEF ExecuteSend, RunIsSound, Asked, SequenceTypeOK
  <1> DEFINE target == request[run.used].target
  <1>2. /\ target \in Positions /\ target <= position + 1 /\ execution[target] # "NONE"
        /\ execution[target] # "ACCEPTED" => target = position + 1
        /\ position \in Nat /\ target \in Nat
    <2>1. target \in Positions /\ execution[target] # "NONE"
      BY <1>1 DEF SequenceTypeOK, RequestType, RequestsHaveTargets
    <2>2. /\ target <= position + 1
          /\ target <= position => execution[target] = "ACCEPTED"
      BY <2>1 DEF StepsInOrder
    <2>3. position \in Nat /\ target \in Nat
      BY <2>1, SequenceStepsAssumption DEF SequenceTypeOK, Positions
    <2> HIDE DEF target
    <2> QED  BY <2>1, <2>2, <2>3
  <1>3. PICK o \in SendOutcomes(run.used), throws \in May("activity"), lost \in May("conflict") :
          LET accepts == o[1] = "ACCEPTED" /\ execution[target] # "ACCEPTED"
              answer  == IF throws THEN "FAILED" ELSE o[2]
          IN  /\ execution' = [execution EXCEPT ![target] = o[1]]
              /\ position' = IF accepts /\ ~lost THEN position + 1 ELSE position
              /\ sent' = IF accepts THEN sent \cup {<<target, run.used>>} ELSE sent
              /\ run' = [run EXCEPT !.pc = AfterSend[answer], !.slot = "none",
                                    !.result = IF answer = "FAILED" THEN "FAILED" ELSE @]
    BY DEF ExecuteSend
  <1>4. /\ o[1] \in ExecutionStates /\ o[2] \in {"COMPLETED", "RETRYABLE", "FAILED"}
        /\ o[1] # "NONE"
        /\ execution[target] = "ACCEPTED" => o[1] = "ACCEPTED"
        /\ o[1] = "ACCEPTED" /\ execution[target] # "ACCEPTED" => Verified(run.used)
    BY <1>1, <1>2, SendOutcomesTyped
  <1> DEFINE answer == IF throws THEN "FAILED" ELSE o[2]
             stage  == AfterSend[answer]
             result == IF answer = "FAILED" THEN "FAILED" ELSE "none"
  <1>5. /\ stage \in {"reply", "loop", "returned"} /\ result \in {"none", "FAILED"}
        /\ stage # "returned" => result = "none"
    <2>1. answer \in {"COMPLETED", "RETRYABLE", "FAILED"}  BY <1>4
    <2> HIDE DEF answer
    <2> QED  BY <2>1 DEF AfterSend
  <1>6. run' = [run EXCEPT !.pc = stage, !.slot = "none", !.result = result]
    BY <1>1, <1>3
  <1>7. \/ /\ execution[target] = "ACCEPTED" <=> o[1] = "ACCEPTED"
           /\ UNCHANGED <<position, sent>>
        \/ /\ o[1] = "ACCEPTED" /\ Verified(run.used) /\ target = position + 1
           /\ position' \in {position, position + 1}
           /\ sent' = sent \cup {<<target, run.used>>}
    BY <1>2, <1>3, <1>4
  <1>8. execution' = [execution EXCEPT ![target] = o[1]] /\ UNCHANGED <<request, approver, bounded>>
    BY <1>3 DEF ExecuteSend
  <1> HIDE DEF stage, result
  <1>9. \E st \in ExecutionStates \ {"NONE"}, sg \in {"reply", "loop", "returned"},
           rs \in {"none", "FAILED"} :
          /\ execution' = [execution EXCEPT ![target] = st]
          /\ run' = [run EXCEPT !.pc = sg, !.slot = "none", !.result = rs]
          /\ sg # "returned" => rs = "none"
          /\ \/ /\ execution[target] = "ACCEPTED" <=> st = "ACCEPTED"
                /\ UNCHANGED <<position, sent>>
             \/ /\ st = "ACCEPTED" /\ Verified(run.used) /\ target = position + 1
                /\ position' \in {position, position + 1}
                /\ sent' = sent \cup {<<target, run.used>>}
    <2>1. o[1] \in ExecutionStates \ {"NONE"}  BY <1>4
    <2> QED  BY <1>5, <1>6, <1>7, <1>8, <2>1
  <1> QED  BY <1>1, <1>2, <1>8, <1>9

\* The types are kept.
LEMMA SequenceTypeStep ==
  ASSUME SequenceInvariant, SequenceNext
  PROVE  SequenceTypeOK'
  <1> SequenceTypeOK /\ RunIsSound /\ CallsAreSound  BY DEF SequenceInvariant
  <1> USE Sorts DEF SequenceTypeOK
  <1>1. CASE \E q \in Requests, s \in Positions : RequestApproval(q, s)
    BY <1>1 DEF RequestApproval, RequestType
  <1>2. CASE \E q \in Requests : TimePasses(q)
    <2>1. PICK q \in Requests : TimePasses(q)  BY <1>2
    <2>2. request' = [request EXCEPT ![q] = [request[q] EXCEPT !.late = TRUE]]  BY <2>1 DEF TimePasses
    <2>3. [request[q] EXCEPT !.late = TRUE] \in RequestType  BY DEF RequestType
    <2>4. request' \in [Requests -> RequestType]  BY <2>2, <2>3
    <2> QED  BY <2>1, <2>4 DEF TimePasses
  <1>3. CASE \E a \in Approvers, q \in Requests, v \in Verdicts : LoadRequest(a, q, v)
    <2>1. PICK a \in Approvers, q \in Requests, v \in Verdicts : LoadRequest(a, q, v)  BY <1>3
    <2> DEFINE stage == IF v \in ApprovalTransitions[request[q].status] THEN "save" ELSE "thrown"
    <2>2. stage \in CallStages  OBVIOUS
    <2> HIDE DEF stage
    <2>3. approver' = [approver EXCEPT ![a] = [pc |-> stage, status |-> v,
            target |-> request[q].target, verdict |-> v, base |-> request[q].version, request |-> q]]
      BY <2>1 DEF LoadRequest, stage
    <2>4. v \in RequestStates /\ request[q].target \in Positions /\ request[q].version \in Nat
      BY DEF RequestType
    <2>5. approver' \in [Approvers -> CallType]  BY <2>2, <2>3, <2>4 DEF CallType
    <2> QED  BY <2>1, <2>5 DEF LoadRequest
  <1>4. CASE \E a \in Approvers : SaveRequest(a)
    <2>1. PICK a \in Approvers : SaveRequest(a)  BY <1>4
    <2> DEFINE q == approver[a].request
    <2>2. CASE Current(request[q], approver[a].base)
      <3>1. approver[a].status \in RequestStates /\ approver[a].base + 1 \in Nat
        BY DEF CallType
      <3>2. request' = [request EXCEPT ![q].status = approver[a].status,
                                       ![q].version = approver[a].base + 1]
        BY <2>1, <2>2 DEF SaveRequest
      <3>3. q \in Requests  BY <2>1 DEF SaveRequest, CallsAreSound, CallIsSound, Asked
      <3> HIDE DEF q
      <3>4. request' \in [Requests -> RequestType]  BY <3>1, <3>2, <3>3 DEF RequestType
      <3>5. approver' = [approver EXCEPT ![a].pc = "signal"]
        BY <2>1, <2>2 DEF SaveRequest, q
      <3>6. approver' \in [Approvers -> CallType]  BY <3>5 DEF CallType
      <3> QED  BY <2>1, <3>4, <3>6 DEF SaveRequest
    <2>3. CASE ~Current(request[q], approver[a].base)
      <3>1. /\ approver' = [approver EXCEPT ![a].pc = "thrown"]
            /\ UNCHANGED <<position, execution, request, bounded, run, sent>>
        BY <2>1, <2>3 DEF SaveRequest
      <3>2. approver' \in [Approvers -> CallType]  BY <3>1 DEF CallType
      <3> QED  BY <3>1, <3>2
    <2> QED  BY <2>2, <2>3
  <1>5. CASE \E a \in Approvers : SignalRun(a)
    <2>1. PICK a \in Approvers : SignalRun(a)  BY <1>5
    <2>2. approver' \in [Approvers -> CallType]
      BY <2>1 DEF SignalRun, CallType
    <2>3. approver[a].request \in MaybeRequest  BY DEF CallType
    <2>4. run' \in RunType  BY <2>1, <2>3 DEF SignalRun, RunType
    <2> QED  BY <2>1, <2>2, <2>4 DEF SignalRun
  <1>6. CASE StartRun \/ LoopHead \/ TakeSignal \/ ExpireWait \/ ReplySignal \/ AwaitReply \/ ActivityFails
    <2>1. run' \in RunType
      <3>1. CASE StartRun  BY <3>1 DEF StartRun, RunType
      <3>2. CASE LoopHead
        <4>1. \/ run' = [run EXCEPT !.pc = "returned", !.result = "FAILED"]
              \/ run' = [run EXCEPT !.pc = "returned", !.result = "COMPLETED"]
              \/ run' = [run EXCEPT !.pc = "draft", !.round = @ + 1]
          BY <3>2 DEF LoopHead, Return
        <4>2. run.round + 1 \in Nat  BY DEF RunType
        <4> QED  BY <4>1, <4>2 DEF RunType
      <3>3. CASE TakeSignal  BY <3>3 DEF TakeSignal, RunType
      <3>4. CASE ExpireWait  BY <3>4 DEF ExpireWait, RunType
      <3>5. CASE ReplySignal  BY <3>5 DEF ReplySignal, RunType
      <3>6. CASE AwaitReply  BY <3>6 DEF AwaitReply, RunType
      <3>7. CASE ActivityFails  BY <3>7 DEF ActivityFails, Return, RunType
      <3> QED  BY <1>6, <3>1, <3>2, <3>3, <3>4, <3>5, <3>6, <3>7
    <2>2. UNCHANGED <<position, execution, request, approver, bounded, sent>>
      BY <1>6 DEF StartRun, LoopHead, TakeSignal, ExpireWait, ReplySignal, AwaitReply, ActivityFails
    <2> QED  BY <2>1, <2>2
  <1>7. CASE PrepareDraft
    <2>1. execution' \in [Positions -> ExecutionStates]  BY <1>7 DEF PrepareDraft
    <2>2. run' \in RunType  BY <1>7 DEF PrepareDraft, Return, RunType
    <2> QED  BY <1>7, <2>1, <2>2 DEF PrepareDraft
  <1>8. CASE ExpireApprovalWait
    <2>1. position + 1 \in Positions
      BY <1>8, SequenceStepsAssumption DEF ExpireApprovalWait, RunIsSound, Positions
    <2>2. Expired(execution[position + 1]) \in ExecutionStates  BY <2>1 DEF Expired
    <2>3. execution' \in [Positions -> ExecutionStates]
      BY <1>8, <2>2 DEF ExpireApprovalWait
    <2>4. run' \in RunType  BY <1>8 DEF ExpireApprovalWait, Return, RunType
    <2> QED  BY <1>8, <2>3, <2>4 DEF ExpireApprovalWait
  <1>9. CASE ExecuteSend
    <2>1. PICK status \in ExecutionStates \ {"NONE"}, stage \in {"reply", "loop", "returned"},
               result \in {"none", "FAILED"} :
            /\ execution' = [execution EXCEPT ![request[run.used].target] = status]
            /\ run' = [run EXCEPT !.pc = stage, !.slot = "none", !.result = result]
            /\ \/ UNCHANGED <<position, sent>>
               \/ /\ request[run.used].target = position + 1 /\ position' \in {position, position + 1}
                  /\ sent' = sent \cup {<<request[run.used].target, run.used>>}
      BY <1>9, SendStep
    <2>2. run.used \in Requests /\ request[run.used].target \in Positions
      BY <1>9, SendStep
    <2>3. execution' \in [Positions -> ExecutionStates]  BY <2>1, <2>2
    <2>4. stage \in RunStages /\ result \in RunResults  OBVIOUS
    <2>5. run' \in RunType  BY <2>1, <2>4 DEF RunType
    <2>6. position' \in 0..SequenceSteps
      BY <2>1, <2>2, SequenceStepsAssumption DEF Positions
    <2>7. sent' \subseteq Positions \X Requests  BY <2>1, <2>2
    <2> QED  BY <1>9, <2>3, <2>5, <2>6, <2>7, SendStep
  <1> QED  BY <1>1, <1>2, <1>3, <1>4, <1>5, <1>6, <1>7, <1>8, <1>9 DEF SequenceNext

\* The parts of the invariant that do not speak of what a step leaves alone are kept.
LEMMA RequestUntouched ==
  ASSUME SequenceInvariant, UNCHANGED <<request, execution, position, sent>>
  PROVE  RequestsHaveTargets' /\ StepsInOrder' /\ SendsAreApproved'
  BY DEF SequenceInvariant, RequestsHaveTargets, Asked, StepsInOrder, SendsAreApproved

LEMMA ApproverSteps ==
  ASSUME SequenceInvariant, SequenceTypeOK',
         \/ \E q \in Requests, s \in Positions : RequestApproval(q, s)
         \/ \E q \in Requests : TimePasses(q)
         \/ \E a \in Approvers, q \in Requests, v \in Verdicts : LoadRequest(a, q, v)
         \/ \E a \in Approvers : SaveRequest(a) \/ SignalRun(a)
  PROVE  SequenceInvariant'
  <1> SequenceTypeOK  BY DEF SequenceInvariant
  <1>1. CASE \E q \in Requests, s \in Positions : RequestApproval(q, s)
    <2>1. PICK q \in Requests, s \in Positions : RequestApproval(q, s)  BY <1>1
    <2>2. /\ \A r \in Requests \ {q} : request'[r] = request[r]
          /\ request'[q].status = "PENDING" /\ request'[q].target = s /\ execution[s] # "NONE"
          /\ ~Asked(q)
          /\ UNCHANGED <<position, execution, approver, bounded, run, sent>>
      BY <2>1 DEF RequestApproval, SequenceTypeOK, Asked
    <2>3. \A r \in Requests : Asked(r) => request'[r] = request[r] /\ Asked(r)'
      BY <2>2 DEF Asked
    <2>4. RequestsHaveTargets'
      BY <2>2, <2>3 DEF SequenceInvariant, RequestsHaveTargets, Asked
    <2>5. CallsAreSound'  BY <2>2, <2>3 DEF SequenceInvariant, CallsAreSound, CallIsSound, Asked
    <2>6. RunIsSound'  BY <2>2, <2>3 DEF SequenceInvariant, RunIsSound, Asked
    <2>7. StepsInOrder' /\ TimeoutLeavesNoWait'
      BY <2>2 DEF SequenceInvariant, StepsInOrder, TimeoutLeavesNoWait
    <2>8. SendsAreApproved'
      <3> SUFFICES ASSUME NEW p \in sent
                   PROVE  /\ request'[p[2]].status = "APPROVED"
                          /\ request'[p[2]].target = p[1] /\ request'[p[2]].fits
        BY <2>2 DEF SendsAreApproved
      <3>1. p[2] \in Requests  BY DEF SequenceTypeOK
      <3>2. /\ request[p[2]].status = "APPROVED"
            /\ request[p[2]].target = p[1] /\ request[p[2]].fits
        BY DEF SequenceInvariant, SendsAreApproved
      <3> QED  BY <2>3, <3>1, <3>2 DEF Asked
    <2> QED  BY <2>4, <2>5, <2>6, <2>7, <2>8 DEF SequenceInvariant
  <1>2. CASE \E q \in Requests : TimePasses(q)
    <2>1. PICK q \in Requests : TimePasses(q)  BY <1>2
    <2>2. /\ \A r \in Requests : /\ request'[r].status = request[r].status
                                 /\ request'[r].target = request[r].target
                                 /\ request'[r].fits = request[r].fits
                                 /\ request'[r].version = request[r].version
          /\ UNCHANGED <<position, execution, approver, bounded, run, sent>>
      BY <2>1 DEF TimePasses, SequenceTypeOK, RequestType
    <2>3. \A r : Asked(r)' <=> Asked(r)  BY <2>2 DEF Asked
    <2>4. RequestsHaveTargets'
      BY <2>2, <2>3 DEF SequenceInvariant, RequestsHaveTargets, Asked
    <2>5. CallsAreSound'
      BY <2>2, <2>3 DEF SequenceInvariant, CallsAreSound, CallIsSound, Asked
    <2>6. RunIsSound'  BY <2>2, <2>3 DEF SequenceInvariant, RunIsSound
    <2>7. StepsInOrder' /\ TimeoutLeavesNoWait'
      BY <2>2 DEF SequenceInvariant, StepsInOrder, TimeoutLeavesNoWait
    <2>8. SendsAreApproved'
      BY <2>2 DEF SequenceInvariant, SendsAreApproved, SequenceTypeOK
    <2> QED  BY <2>4, <2>5, <2>6, <2>7, <2>8 DEF SequenceInvariant
  <1>3. CASE \E a \in Approvers, q \in Requests, v \in Verdicts : LoadRequest(a, q, v)
    <2>1. PICK a \in Approvers, q \in Requests, v \in Verdicts : LoadRequest(a, q, v)  BY <1>3
    <2> DEFINE allowed == v \in ApprovalTransitions[request[q].status]
    <2>2. /\ \A b \in Approvers \ {a} : approver'[b] = approver[b]
          /\ approver'[a].pc = IF allowed THEN "save" ELSE "thrown"
          /\ approver'[a].status = v /\ approver'[a].verdict = v
          /\ approver'[a].base = request[q].version /\ approver'[a].request = q
          /\ Asked(q)
          /\ UNCHANGED <<position, execution, request, bounded, run, sent>>
      BY <2>1 DEF LoadRequest, SequenceTypeOK, Asked
    <2>3. request[q].version \in Nat  BY DEF SequenceTypeOK, RequestType
    <2>4. CallsAreSound'
      <3> SUFFICES ASSUME NEW b \in Approvers  PROVE CallIsSound(b)'
        BY DEF CallsAreSound
      <3>1. CASE b = a
        <4> HIDE DEF allowed
        <4>1. /\ approver'[a].pc \notin {"signal", "told"} /\ (approver'[a].pc = "save" => allowed)
          BY <2>2
        <4> QED  BY <2>2, <2>3, <3>1, <4>1 DEF Asked, allowed, CallIsSound
      <3>2. CASE b # a
        BY <2>2, <3>2 DEF SequenceInvariant, CallsAreSound, CallIsSound, Asked
      <3> QED  BY <3>1, <3>2
    <2>5. RunIsSound' /\ TimeoutLeavesNoWait'
      BY <2>2 DEF SequenceInvariant, RunIsSound, Asked, TimeoutLeavesNoWait
    <2> QED  BY <2>2, <2>4, <2>5, RequestUntouched DEF SequenceInvariant
  <1>4. CASE \E a \in Approvers : SaveRequest(a)
    <2>1. PICK a \in Approvers : SaveRequest(a)  BY <1>4
    <2> DEFINE q == approver[a].request
               verdict == approver[a].verdict
    <2>2. CASE request[q].version = approver[a].base
      <3>1. /\ q \in Requests /\ Asked(q) /\ verdict \in Verdicts
            /\ approver[a].status = verdict
            /\ verdict \in ApprovalTransitions[request[q].status]
            /\ request[q].version \in Nat
        BY <2>1, <2>2 DEF SaveRequest, SequenceInvariant, CallsAreSound, CallIsSound, Asked, SequenceTypeOK, RequestType
      <3> HIDE DEF q, verdict
      <3>2. /\ request' = [request EXCEPT ![q].status = verdict, ![q].version = @ + 1]
            /\ approver' = [approver EXCEPT ![a].pc = "signal"]
            /\ UNCHANGED <<position, execution, bounded, run, sent>>
        BY <2>1, <2>2, <3>1 DEF SaveRequest, Current, q
      <3>3. /\ \A r \in Requests \ {q} : request'[r] = request[r]
            /\ request'[q].status = verdict /\ request'[q].target = request[q].target
            /\ request'[q].fits = request[q].fits /\ request'[q].version = request[q].version + 1
        BY <3>1, <3>2 DEF SequenceTypeOK, RequestType
      <3>4. request[q].status \in {"PENDING", "ESCALATED"}
        <4>1. request[q].status \in RequestStates /\ request[q].status # "NONE"
          BY <3>1 DEF SequenceTypeOK, RequestType, Asked
        <4> QED  BY <3>1, <4>1 DEF RequestStates, ApprovalTransitions
      <3>5. \A r : Asked(r)' <=> Asked(r)  BY <3>1, <3>3, <3>4 DEF Asked, Verdicts
      <3>6. RequestsHaveTargets'
        <4>1. \A r \in Requests : request'[r].target = request[r].target  BY <3>3
        <4>2. execution' = execution  BY <3>2
        <4>3. RequestsHaveTargets  BY DEF SequenceInvariant
        <4> QED  BY <3>5, <4>1, <4>2, <4>3 DEF RequestsHaveTargets
      <3>7. CallsAreSound'
        <4>1. /\ \A b \in Approvers \ {a} : approver'[b] = approver[b]
              /\ approver'[a].pc = "signal" /\ approver'[a].request = q /\ approver'[a].verdict = verdict
          BY <3>2 DEF SequenceTypeOK, CallType, q, verdict
        <4> SUFFICES ASSUME NEW b \in Approvers  PROVE CallIsSound(b)'
        BY DEF CallsAreSound
        <4>2. CASE b = a  BY <3>1, <3>3, <3>5, <4>1, <4>2 DEF CallIsSound
        <4>3. CASE b # a /\ approver[b].request # q
          BY <3>3, <3>5, <4>1, <4>3 DEF SequenceInvariant, CallsAreSound, CallIsSound, Asked
        <4>4. CASE b # a /\ approver[b].request = q
          <5>1. approver[b].pc \notin {"signal", "told"}
            BY <3>4, <4>4 DEF SequenceInvariant, CallsAreSound, CallIsSound, Verdicts
          <5>2. approver[b].base \in Nat  BY DEF SequenceTypeOK, CallType
          <5>3. approver[b].pc = "save" =>
                  /\ approver[b].status = approver[b].verdict /\ approver[b].verdict \in Verdicts
                  /\ approver[b].base <= request[q].version
            BY <4>4 DEF SequenceInvariant, CallsAreSound, CallIsSound
          <5> QED  BY <3>1, <3>3, <3>5, <4>1, <4>4, <5>1, <5>2, <5>3 DEF CallIsSound
        <4> QED  BY <4>2, <4>3, <4>4
      <3>8. RunIsSound' /\ TimeoutLeavesNoWait' /\ StepsInOrder'
        BY <3>2, <3>5 DEF SequenceInvariant, RunIsSound, TimeoutLeavesNoWait, StepsInOrder
      <3>9. SendsAreApproved'
        <4> SUFFICES ASSUME NEW p \in sent
                     PROVE  /\ request'[p[2]].status = "APPROVED"
                            /\ request'[p[2]].target = p[1] /\ request'[p[2]].fits
          BY <3>2 DEF SendsAreApproved
        <4>1. p[2] \in Requests  BY DEF SequenceTypeOK
        <4>2. /\ request[p[2]].status = "APPROVED"
              /\ request[p[2]].target = p[1] /\ request[p[2]].fits
          BY DEF SequenceInvariant, SendsAreApproved
        <4> QED  BY <3>3, <3>4, <4>1, <4>2
      <3> QED  BY <3>6, <3>7, <3>8, <3>9 DEF SequenceInvariant
    <2>3. CASE request[q].version # approver[a].base
      <3>1. /\ approver' = [approver EXCEPT ![a].pc = "thrown"]
            /\ UNCHANGED <<position, execution, request, bounded, run, sent>>
        BY <2>1, <2>3 DEF SaveRequest, Current
      <3>2. CallsAreSound'
        BY <3>1 DEF SequenceInvariant, CallsAreSound, CallIsSound, SequenceTypeOK, CallType, Asked
      <3>3. RunIsSound' /\ TimeoutLeavesNoWait'
        BY <3>1 DEF SequenceInvariant, RunIsSound, Asked, TimeoutLeavesNoWait
      <3> QED  BY <3>1, <3>2, <3>3, RequestUntouched DEF SequenceInvariant
    <2> QED  BY <2>2, <2>3
  <1>5. CASE \E a \in Approvers : SignalRun(a)
    <2>1. PICK a \in Approvers : SignalRun(a)  BY <1>5
    <2>2. UNCHANGED <<position, execution, request, bounded, sent>>  BY <2>1 DEF SignalRun
    <2>3. \A r : Asked(r)' <=> Asked(r)  BY <2>2 DEF Asked
    <2>4. /\ approver[a].pc = "signal"
          /\ \/ approver' = [approver EXCEPT ![a].pc = "told"]
             \/ approver' = [approver EXCEPT ![a].pc = "thrown"]
      BY <2>1 DEF SignalRun
    <2>5. CallsAreSound'
      BY <2>2, <2>3, <2>4 DEF SequenceInvariant, CallsAreSound, CallIsSound, SequenceTypeOK, CallType
    <2>6. \/ run' = run
          \/ /\ run' = [run EXCEPT !.slot = approver[a].request] /\ Asked(approver[a].request)
      BY <2>1, <2>4 DEF SignalRun, SequenceInvariant, CallsAreSound, CallIsSound
    <2>7. /\ run'.pc = run.pc /\ run'.used = run.used /\ run'.result = run.result
          /\ run'.slot = run.slot \/ Asked(run'.slot)
      BY <2>6 DEF SequenceTypeOK, RunType
    <2>8. RunIsSound'  BY <2>2, <2>3, <2>7 DEF SequenceInvariant, RunIsSound
    <2>9. TimeoutLeavesNoWait'  BY <2>2, <2>7 DEF SequenceInvariant, TimeoutLeavesNoWait
    <2> QED  BY <2>2, <2>5, <2>8, <2>9, RequestUntouched DEF SequenceInvariant
  <1> QED  BY <1>1, <1>2, <1>3, <1>4, <1>5

\* What a call of the approval service saw stays so while the requests and calls do.
LEMMA CallsUntouched ==
  ASSUME SequenceInvariant, UNCHANGED <<request, approver>>
  PROVE  CallsAreSound' /\ \A r : Asked(r)' <=> Asked(r)
  BY DEF SequenceInvariant, CallsAreSound, CallIsSound, Asked

LEMMA WorkflowSteps ==
  ASSUME SequenceInvariant, SequenceTypeOK',
         \/ StartRun \/ LoopHead \/ PrepareDraft \/ TakeSignal \/ ExpireWait \/ ExpireApprovalWait
         \/ ExecuteSend \/ ReplySignal \/ AwaitReply \/ ActivityFails
  PROVE  SequenceInvariant'
  <1> SequenceTypeOK /\ run \in RunType  BY DEF SequenceInvariant, SequenceTypeOK
  <1>1. CASE StartRun \/ LoopHead \/ TakeSignal \/ ExpireWait \/ ReplySignal \/ AwaitReply \/ ActivityFails
    <2>1. UNCHANGED <<position, execution, request, approver, bounded, sent>>
      BY <1>1 DEF StartRun, LoopHead, TakeSignal, ExpireWait, ReplySignal, AwaitReply, ActivityFails
    <2>2. /\ run'.slot = run.slot
          /\ run.pc # "returned"
          /\ run'.pc = "send" => \/ run.pc = "send" /\ run'.used = run.used
                                 \/ run.slot # "none" /\ run'.used = run.slot
          /\ run'.pc \in {"draft", "wait", "send", "expire"} =>
               \/ run.pc \in {"draft", "wait", "send", "expire"}
               \/ position # SequenceSteps
          /\ run'.pc # "returned" => run'.result = run.result
          /\ run'.pc = "returned" => run'.result # "TIMEOUT"
      <3>1. CASE StartRun  BY <3>1 DEF StartRun, RunType
      <3>2. CASE LoopHead
        <4>1. /\ run.pc = "loop"
              /\ \/ run' = [run EXCEPT !.pc = "returned", !.result = "FAILED"]
                 \/ run' = [run EXCEPT !.pc = "returned", !.result = "COMPLETED"]
                 \/ run' = [run EXCEPT !.pc = "draft", !.round = @ + 1] /\ position # SequenceSteps
          BY <3>2 DEF LoopHead, Return
        <4> QED  BY <4>1 DEF RunType
      <3>3. CASE TakeSignal  BY <3>3 DEF TakeSignal, RunType
      <3>4. CASE ExpireWait  BY <3>4 DEF ExpireWait, RunType
      <3>5. CASE ReplySignal  BY <3>5 DEF ReplySignal, RunType
      <3>6. CASE AwaitReply  BY <3>6 DEF AwaitReply, RunType
      <3>7. CASE ActivityFails  BY <3>7 DEF ActivityFails, Return, RunType
      <3> QED  BY <1>1, <3>1, <3>2, <3>3, <3>4, <3>5, <3>6, <3>7
    <2>3. position \in 0..SequenceSteps  BY DEF SequenceTypeOK
    <2>4. RunIsSound'
      BY <2>1, <2>2, <2>3, CallsUntouched, SequenceStepsAssumption DEF SequenceInvariant, RunIsSound
    <2>5. TimeoutLeavesNoWait'
      BY <2>1, <2>2 DEF SequenceInvariant, RunIsSound, TimeoutLeavesNoWait
    <2> QED  BY <2>1, <2>4, <2>5, CallsUntouched, RequestUntouched DEF SequenceInvariant
  <1>2. CASE PrepareDraft
    <2> DEFINE next == position + 1
    <2>1. /\ next \in Positions /\ position \in Nat /\ \A s \in Positions : s \in Nat
      BY <1>2, SequenceStepsAssumption
      DEF PrepareDraft, SequenceInvariant, RunIsSound, SequenceTypeOK, Positions
    <2>2. /\ UNCHANGED <<position, request, approver, bounded, sent>>
          /\ \/ UNCHANGED execution
             \/ /\ execution[next] = "NONE"
                /\ \/ execution' = [execution EXCEPT ![next] = "PENDING_APPROVAL"]
                   \/ execution' = [execution EXCEPT ![next] = "DRAFTING"]
      BY <1>2 DEF PrepareDraft
    <2>3. /\ run.pc = "draft" /\ run'.slot = run.slot
          /\ \/ run'.pc = "wait" /\ run'.result = run.result
             \/ run'.pc = "returned" /\ run'.result = "FAILED"
      BY <1>2 DEF PrepareDraft, Return, RunType
    <2>4. \A s \in Positions : \/ execution'[s] = execution[s]
                               \/ s = next /\ execution[s] = "NONE" /\ execution'[s] \notin {"NONE", "ACCEPTED"}
      BY <2>1, <2>2 DEF SequenceTypeOK
    <2> HIDE DEF next
    <2>5. RequestsHaveTargets'
      <3> SUFFICES ASSUME NEW r \in Requests, Asked(r)  PROVE execution'[request[r].target] # "NONE"
        BY <2>2, CallsUntouched DEF RequestsHaveTargets
      <3>1. request[r].target \in Positions /\ execution[request[r].target] # "NONE"
        BY DEF SequenceInvariant, RequestsHaveTargets, SequenceTypeOK, RequestType
      <3> QED  BY <2>4, <3>1
    <2>6. StepsInOrder'
      <3> SUFFICES ASSUME NEW s \in Positions
                   PROVE  /\ s <= position => execution'[s] = "ACCEPTED"
                          /\ execution'[s] # "NONE" => s <= position + 1
        BY <2>2 DEF StepsInOrder
      <3>1. /\ s <= position => execution[s] = "ACCEPTED"
            /\ execution[s] # "NONE" => s <= position + 1
        BY DEF SequenceInvariant, StepsInOrder
      <3> QED  BY <2>1, <2>4, <3>1 DEF next
    <2>7. RunIsSound'
      BY <2>2, <2>3, CallsUntouched DEF SequenceInvariant, RunIsSound
    <2>8. SendsAreApproved'  BY <2>2 DEF SequenceInvariant, SendsAreApproved
    <2>9. TimeoutLeavesNoWait'
      BY <2>3 DEF SequenceInvariant, RunIsSound, TimeoutLeavesNoWait
    <2> QED  BY <2>2, <2>5, <2>6, <2>7, <2>8, <2>9, CallsUntouched DEF SequenceInvariant
  <1>3. CASE ExpireApprovalWait
    <2> DEFINE next == position + 1
    <2>1. /\ next \in Positions /\ position \in Nat /\ \A s \in Positions : s \in Nat
      BY <1>3, SequenceStepsAssumption
      DEF ExpireApprovalWait, SequenceInvariant, RunIsSound, SequenceTypeOK, Positions
    <2>2. /\ UNCHANGED <<position, request, approver, bounded, sent>>
          /\ execution' = [execution EXCEPT ![next] = Expired(@)]
      BY <1>3 DEF ExpireApprovalWait
    <2>3. run'.slot = run.slot /\ run'.pc = "returned"
      BY <1>3 DEF ExpireApprovalWait, Return, RunType
    <2>4. /\ \A s \in Positions \ {next} : execution'[s] = execution[s]
          /\ execution'[next] # "PENDING_APPROVAL"
          /\ execution'[next] = "NONE" <=> execution[next] = "NONE"
          /\ execution'[next] = "ACCEPTED" <=> execution[next] = "ACCEPTED"
      BY <2>1, <2>2 DEF SequenceTypeOK, Expired
    <2> HIDE DEF next
    <2>5. RequestsHaveTargets'
      <3> SUFFICES ASSUME NEW r \in Requests, Asked(r)  PROVE execution'[request[r].target] # "NONE"
        BY <2>2, CallsUntouched DEF RequestsHaveTargets
      <3>1. request[r].target \in Positions /\ execution[request[r].target] # "NONE"
        BY DEF SequenceInvariant, RequestsHaveTargets, SequenceTypeOK, RequestType
      <3> QED  BY <2>4, <3>1
    <2>6. StepsInOrder'
      <3> SUFFICES ASSUME NEW s \in Positions
                   PROVE  /\ s <= position => execution'[s] = "ACCEPTED"
                          /\ execution'[s] # "NONE" => s <= position + 1
        BY <2>2 DEF StepsInOrder
      <3>1. /\ s <= position => execution[s] = "ACCEPTED"
            /\ execution[s] # "NONE" => s <= position + 1
        BY DEF SequenceInvariant, StepsInOrder
      <3> QED  BY <2>1, <2>4, <3>1 DEF next
    <2>7. RunIsSound'
      BY <2>2, <2>3, CallsUntouched DEF SequenceInvariant, RunIsSound
    <2>8. SendsAreApproved'  BY <2>2 DEF SequenceInvariant, SendsAreApproved
    <2>9. TimeoutLeavesNoWait'
      <3> SUFFICES ASSUME NEW s \in Positions  PROVE execution'[s] # "PENDING_APPROVAL"
        BY DEF TimeoutLeavesNoWait
      <3>1. /\ s <= position => execution[s] = "ACCEPTED"
            /\ execution[s] # "NONE" => s <= position + 1
        BY DEF SequenceInvariant, StepsInOrder
      <3> QED  BY <2>1, <2>4, <3>1 DEF next
    <2> QED  BY <2>2, <2>5, <2>6, <2>7, <2>8, <2>9, CallsUntouched DEF SequenceInvariant
  <1>4. CASE ExecuteSend
    <2> DEFINE used   == run.used
               target == request[used].target
    <2>1. PICK status \in ExecutionStates \ {"NONE"}, stage \in {"reply", "loop", "returned"},
               result \in {"none", "FAILED"} :
            /\ execution' = [execution EXCEPT ![target] = status]
            /\ run' = [run EXCEPT !.pc = stage, !.slot = "none", !.result = result]
            /\ stage # "returned" => result = "none"
            /\ \/ /\ execution[target] = "ACCEPTED" <=> status = "ACCEPTED"
                  /\ UNCHANGED <<position, sent>>
               \/ /\ status = "ACCEPTED" /\ Verified(used) /\ target = position + 1
                  /\ position' \in {position, position + 1}
                  /\ sent' = sent \cup {<<target, used>>}
      BY <1>4, SendStep
    <2>2. /\ used \in Requests /\ Asked(used) /\ target \in Positions
          /\ UNCHANGED <<request, approver, bounded>>
      BY <1>4, SendStep
    <2>3. run'.pc = stage /\ run'.slot = "none" /\ run'.result = result
      BY <2>1 DEF RunType
    <2>4. /\ \A s \in Positions \ {target} : execution'[s] = execution[s]
          /\ execution'[target] = status /\ status # "NONE"
      BY <2>1, <2>2 DEF SequenceTypeOK
    <2>5. position \in Nat /\ \A s \in Positions : s \in Nat
      BY SequenceStepsAssumption DEF SequenceTypeOK, Positions
    <2> HIDE DEF target, used
    <2>6. RequestsHaveTargets'
      <3> SUFFICES ASSUME NEW r \in Requests, Asked(r)  PROVE execution'[request[r].target] # "NONE"
        BY <2>2, CallsUntouched DEF RequestsHaveTargets
      <3>1. request[r].target \in Positions /\ execution[request[r].target] # "NONE"
        BY DEF SequenceInvariant, RequestsHaveTargets, SequenceTypeOK, RequestType
      <3> QED  BY <2>4, <3>1
    <2>7. StepsInOrder'
      <3> SUFFICES ASSUME NEW s \in Positions
                   PROVE  /\ s <= position' => execution'[s] = "ACCEPTED"
                          /\ execution'[s] # "NONE" => s <= position' + 1
        BY DEF StepsInOrder
      <3>1. /\ s <= position => execution[s] = "ACCEPTED"
            /\ execution[s] # "NONE" => s <= position + 1
        BY DEF SequenceInvariant, StepsInOrder
      <3>2. execution[target] # "NONE"
        BY <2>2 DEF SequenceInvariant, RequestsHaveTargets, target
      <3> QED  BY <2>1, <2>2, <2>4, <2>5, <3>1, <3>2
    <2>8. RunIsSound'  BY <2>1, <2>3 DEF RunIsSound
    <2>9. SendsAreApproved'
      <3> SUFFICES ASSUME NEW p \in sent'
                   PROVE  /\ request[p[2]].status = "APPROVED"
                          /\ request[p[2]].target = p[1] /\ request[p[2]].fits
        BY <2>2 DEF SendsAreApproved
      <3>1. CASE p \in sent  BY <3>1 DEF SequenceInvariant, SendsAreApproved
      <3>2. CASE p \notin sent
        <4>1. p = <<target, used>> /\ Verified(used)  BY <2>1, <3>2
        <4> QED  BY <4>1 DEF Verified, target
      <3> QED  BY <3>1, <3>2
    <2>10. TimeoutLeavesNoWait'  BY <2>3 DEF TimeoutLeavesNoWait
    <2> QED  BY <2>2, <2>6, <2>7, <2>8, <2>9, <2>10, CallsUntouched DEF SequenceInvariant
  <1> QED  BY <1>1, <1>2, <1>3, <1>4

LEMMA SequenceStep ==
  ASSUME SequenceInvariant, [SequenceNext]_sequenceVars
  PROVE  SequenceInvariant'
  <1>1. CASE SequenceNext
    BY <1>1, SequenceTypeStep, ApproverSteps, WorkflowSteps DEF SequenceNext
  <1>2. CASE UNCHANGED sequenceVars
    <2>1. SequenceTypeOK'
      BY <1>2 DEF sequenceVars, SequenceInvariant, SequenceTypeOK
    <2>2. RunIsSound' /\ TimeoutLeavesNoWait'
      BY <1>2 DEF sequenceVars, SequenceInvariant, RunIsSound, Asked, TimeoutLeavesNoWait
    <2> QED  BY <1>2, <2>1, <2>2, RequestUntouched, CallsUntouched DEF sequenceVars, SequenceInvariant
  <1> QED  BY <1>1, <1>2

\* The workflow, its approval request and its calls stay in step in every run: the inductive
\* invariant the properties below follow from, for any requests, approvers, steps and rounds.
THEOREM SequenceIsSound == SequenceSpec => []SequenceInvariant
  <1>1. SequenceInit => SequenceInvariant  BY SequenceInitHolds
  <1>2. SequenceInvariant /\ [SequenceNext]_sequenceVars => SequenceInvariant'  BY SequenceStep
  <1> QED  BY <1>1, <1>2, PTL DEF SequenceSpec

\* Every message of a sequence went out on a request for its own execution that an approver
\* granted and nobody revoked, for any number of requests, approvers and steps.
THEOREM MessagesWereApproved == SequenceSpec => []SendsAreApproved
  <1>1. SequenceInvariant => SendsAreApproved  BY DEF SequenceInvariant
  <1> QED  BY <1>1, SequenceIsSound, PTL

\* Of the approvers who decide a request one wins, whatever else they loaded before.
THEOREM OneVerdictStands == SequenceSpec => []VerdictsStand
  <1>1. SequenceInvariant => VerdictsStand
    BY DEF SequenceInvariant, CallsAreSound, CallIsSound, VerdictsStand
  <1> QED  BY <1>1, SequenceIsSound, PTL

\* A workflow that timed out leaves no execution that still awaits an approval.
THEOREM TimedOutWaitsForNothing == SequenceSpec => []TimeoutLeavesNoWait
  <1>1. SequenceInvariant => TimeoutLeavesNoWait  BY DEF SequenceInvariant
  <1> QED  BY <1>1, SequenceIsSound, PTL

-----------------------------------------------------------------------------
(* What the operator script and the plans have saved, at each point of their *)
(* runs, whatever crashed and whoever else runs.                             *)
PlanPoints    == {"idle", "recipient", "campaign", "sequence", "done", "thrown"}
PreparePoints == PlanPoints \cup {"allowlist", "suppression", "lead", "start", "link", "observe", "write"}
ExecutePoints == {"idle", "load", "allowlist", "suppression", "find", "confirm", "request",
                  "approve", "signal", "await", "done", "thrown"}
LeadPoints    == {"recipient", "campaign", "sequence", "start", "link", "observe", "write", "done"}
SavedPoints   == {"start", "link", "observe", "write", "done"}
FlowPoints    == {"link", "observe", "write", "done", "thrown"}

SavedStates   == {"NONE", "DRAFT", "RUNNING", "COMPLETED"}
ScriptFields  == [pc : PreparePoints \cup ExecutePoints, recipient : Recipients \cup {"none"},
                  sequence : Preparations \cup {"none"}, base : Nat]
SequenceFields == [status : SavedStates, linked : BOOLEAN, version : Nat]

OperatorTypeOK ==
  /\ leadRow \subseteq Recipients
  /\ campaignRow \in [Preparations -> SavedStates]
  /\ sequenceRow \in [Preparations -> SequenceFields]
  /\ executionRow \in [Preparations -> {"NONE", "DRAFTING", "PENDING_APPROVAL", "PROVIDER_ACCEPTED",
                                        "REPLIED", "FAILED", "UNAPPROVED"}]
  /\ approvalRow \in [Executes -> [status : {"NONE", "PENDING", "APPROVED"},
                                   sequence : Preparations \cup {"none"}]]
  /\ stateFile \in [sequence : Prepares \cup {"none", "torn"}, recipient : Recipients \cup {"none"}]
  /\ flow \in [Preparations -> [pc : {"none", "started", "waiting", "closed"},
                                slot : Executes \cup {"none", "elsewhere"}]]
  /\ script \in [Scripts -> ScriptFields]

\* The campaign and the sequence of a prepare run as the script walked them there.
SavedRunning(p) ==
  /\ campaignRow[p] \in {"RUNNING", "COMPLETED"}
  /\ sequenceRow[p].status \in {"RUNNING", "COMPLETED"}

PreparationIsSound(p) ==
  /\ script[p].pc \in (IF p \in Plans THEN PlanPoints ELSE PreparePoints)
  /\ script[p].pc # "idle" => script[p].recipient \in Recipients
  /\ sequenceRow[p].status # "NONE" => campaignRow[p] # "NONE"
  /\ executionRow[p] # "NONE" => sequenceRow[p].status # "NONE"
  /\ script[p].pc = "sequence" => campaignRow[p] = SavedAs(p) /\ sequenceRow[p].status = "NONE"
  /\ script[p].pc \in LeadPoints => script[p].recipient \in leadRow
  /\ p \in Prepares /\ script[p].pc \in SavedPoints => SavedRunning(p)
  /\ script[p].pc \in {"observe", "write"} => sequenceRow[p].linked
  /\ flow[p].pc # "none" =>
       /\ p \in Prepares /\ script[p].pc \in FlowPoints
       /\ SavedRunning(p) /\ script[p].recipient \in leadRow

ExecuteIsSound(e) ==
  /\ script[e].pc \in ExecutePoints
  /\ script[e].pc \notin {"idle", "done", "thrown"} => script[e].sequence \in Preparations
  /\ script[e].pc \in {"confirm", "request"} => executionRow[script[e].sequence] # "NONE"
  /\ script[e].pc = "approve" => approvalRow[e].status # "NONE"
  /\ approvalRow[e].status # "NONE" =>
       /\ approvalRow[e].sequence \in Preparations
       /\ executionRow[approvalRow[e].sequence] # "NONE"

\* A script that wrote the state file is done, and its row was linked before.
StateFileIsSound ==
  stateFile.sequence \in Prepares =>
    /\ sequenceRow[stateFile.sequence].linked
    /\ script[stateFile.sequence].pc = "done"
    /\ stateFile.recipient = script[stateFile.sequence].recipient

OperatorInvariant ==
  /\ OperatorTypeOK
  /\ \A p \in Preparations : PreparationIsSound(p)
  /\ \A e \in Executes : ExecuteIsSound(e)
  /\ StateFileIsSound

-----------------------------------------------------------------------------
LEMMA ScriptKinds ==
  /\ Preparations \cap Executes = {} /\ Prepares \cap Plans = {}
  /\ Scripts = Preparations \cup Executes /\ Preparations = Prepares \cup Plans
  /\ \A s \in Scripts : s # "none" /\ s # "torn" /\ s # "elsewhere"
  BY ScriptsAssumption DEF Scripts, Preparations

\* A run's record keeps its sort when its place, its sequence or its recipient is set.
LEMMA ScriptSet ==
  ASSUME NEW x \in ScriptFields, NEW pc \in PreparePoints \cup ExecutePoints,
         NEW q \in Preparations \cup {"none"}, NEW r \in Recipients \cup {"none"}
  PROVE  /\ [x EXCEPT !.pc = pc] \in ScriptFields
         /\ [x EXCEPT !.pc = pc, !.recipient = r] \in ScriptFields
         /\ [x EXCEPT !.pc = pc, !.sequence = q, !.recipient = r] \in ScriptFields
         /\ DOMAIN x = {"pc", "recipient", "sequence", "base"}
  <1> DEFINE Points == PreparePoints \cup ExecutePoints
             Rows == Preparations \cup {"none"}
             People == Recipients \cup {"none"}
  <1>1. x \in [pc : Points, recipient : People, sequence : Rows, base : Nat]
    BY DEF ScriptFields
  <1>2. ScriptFields = [pc : Points, recipient : People, sequence : Rows, base : Nat]
    BY DEF ScriptFields
  <1>3. pc \in Points /\ q \in Rows /\ r \in People  OBVIOUS
  <1> HIDE DEF Points, Rows, People
  <1>4. [x EXCEPT !.pc = pc] \in ScriptFields
    BY <1>1, <1>2, <1>3
  <1>5. [x EXCEPT !.pc = pc, !.recipient = r] \in ScriptFields  BY <1>1, <1>2, <1>3
  <1>6. [x EXCEPT !.pc = pc, !.sequence = q, !.recipient = r] \in ScriptFields
    BY <1>1, <1>2, <1>3
  <1>7. DOMAIN x = {"pc", "recipient", "sequence", "base"}  BY <1>1
  <1> QED  BY <1>4, <1>5, <1>6, <1>7

LEMMA OperatorTo ==
  ASSUME OperatorTypeOK, NEW s \in Scripts, NEW pc \in PreparePoints \cup ExecutePoints, To(s, pc)
  PROVE  /\ script' \in [Scripts -> ScriptFields]
         /\ script'[s].pc = pc /\ script'[s].recipient = script[s].recipient
         /\ script'[s].sequence = script[s].sequence /\ script'[s].base = script[s].base
         /\ \A t \in Scripts \ {s} : script'[t] = script[t]
  <1>1. script \in [Scripts -> ScriptFields]  BY DEF OperatorTypeOK
  <1> DEFINE x == script[s]
             new == [x EXCEPT !.pc = pc]
  <1>2. x \in ScriptFields  BY <1>1
  <1>3. new \in ScriptFields /\ DOMAIN x = {"pc", "recipient", "sequence", "base"}  BY <1>2, ScriptSet
  <1>4. /\ new.pc = pc /\ new.recipient = x.recipient /\ new.sequence = x.sequence
        /\ new.base = x.base
    BY <1>3
  <1>5. script' = [script EXCEPT ![s] = new]  BY <1>1 DEF To
  <1> HIDE DEF new
  <1> QED  BY <1>1, <1>3, <1>4, <1>5

\* What a script's move keeps sound when it writes no row.
\* The same of a start that also takes its recipient.
LEMMA ScriptSent ==
  ASSUME OperatorTypeOK, NEW s \in Scripts, NEW pc \in PreparePoints \cup ExecutePoints,
         NEW r \in Recipients,
         \/ script' = [script EXCEPT ![s].recipient = r, ![s].pc = pc]
         \/ script' = [script EXCEPT ![s].pc = pc, ![s].recipient = r]
  PROVE  /\ script' \in [Scripts -> ScriptFields]
         /\ script'[s].pc = pc /\ script'[s].recipient = r
         /\ \A t \in Scripts \ {s} : script'[t] = script[t]
  <1>1. script \in [Scripts -> ScriptFields]  BY DEF OperatorTypeOK
  <1> DEFINE x == script[s]
             new == [x EXCEPT !.pc = pc, !.recipient = r]
  <1>2. x \in ScriptFields  BY <1>1
  <1>3. new \in ScriptFields /\ DOMAIN x = {"pc", "recipient", "sequence", "base"}  BY <1>2, ScriptSet
  <1>4. new.pc = pc /\ new.recipient = r  BY <1>3
  <1>5. script' = [script EXCEPT ![s] = new]
    <2>1. [x EXCEPT !.recipient = r, !.pc = pc] = new  BY <1>3
    <2> QED  BY <1>1, <2>1
  <1> HIDE DEF new
  <1> QED  BY <1>1, <1>3, <1>4, <1>5

LEMMA OthersStaySound ==
  ASSUME OperatorInvariant, NEW s \in Scripts, \A t \in Scripts \ {s} : script'[t] = script[t],
         script' \in [Scripts -> ScriptFields], UNCHANGED <<prepared, released, stateFile>>,
         s \in Preparations => PreparationIsSound(s)' /\ script[s].pc # "done",
         s \in Executes => ExecuteIsSound(s)'
  PROVE  OperatorInvariant'
  <1> USE ScriptKinds DEF prepared, released
  <1>1. OperatorTypeOK'
    BY DEF OperatorInvariant, OperatorTypeOK
  <1>2. \A p \in Preparations : PreparationIsSound(p)'
    BY DEF OperatorInvariant, PreparationIsSound, SavedRunning, SavedAs
  <1>3. \A e \in Executes : ExecuteIsSound(e)'
    BY DEF OperatorInvariant, ExecuteIsSound
  <1>4. StateFileIsSound'
    BY DEF OperatorInvariant, StateFileIsSound
  <1> QED  BY <1>1, <1>2, <1>3, <1>4 DEF OperatorInvariant

(* Steps of a preparation that write no row.                                 *)
LEMMA QuietPreparation ==
  ASSUME OperatorInvariant, NEW p \in Preparations,
         \/ StartPrepare(p) \/ StartPlan(p) \/ ResolveRecipient(p) \/ ObserveDraft(p)
         \/ CheckAllowlist(p) \/ CheckSuppression(p) \/ ScriptThrows(p)
  PROVE  OperatorInvariant'
  <1> USE ScriptKinds
  <1>0. PreparationIsSound(p) /\ OperatorTypeOK /\ p \in Scripts
    BY DEF OperatorInvariant
  <1>1. UNCHANGED <<prepared, released, stateFile>> /\ script[p].pc # "done"
    BY DEF StartPrepare, StartPlan, ResolveRecipient, ObserveDraft, CheckAllowlist,
           CheckSuppression, ScriptThrows
  <1>2. ASSUME NEW pc \in PreparePoints, To(p, pc), script[p].pc # "idle", p \in Plans => pc \in PlanPoints,
               pc # "sequence", pc \in LeadPoints => script[p].pc \in LeadPoints,
               pc \in SavedPoints => script[p].pc \in SavedPoints,
               pc \in {"observe", "write"} => script[p].pc \in {"observe", "write"},
               script[p].pc \in FlowPoints => pc \in FlowPoints
        PROVE  OperatorInvariant'
    <2>1. /\ script' \in [Scripts -> ScriptFields]
          /\ script'[p].pc = pc /\ script'[p].recipient = script[p].recipient
          /\ \A t \in Scripts \ {p} : script'[t] = script[t]
      BY <1>0, <1>2, OperatorTo
    <2>2. PreparationIsSound(p)'
      BY <1>0, <1>1, <1>2, <2>1 DEF PreparationIsSound, SavedRunning, prepared, released
    <2> QED  BY <1>0, <1>1, <2>1, <2>2, OthersStaySound
  <1>3. ASSUME NEW r \in Recipients, NEW pc \in {"allowlist", "thrown", "recipient"},
               script' \in [Scripts -> ScriptFields], script'[p].pc = pc, script'[p].recipient = r,
               \A t \in Scripts \ {p} : script'[t] = script[t],
               pc = "allowlist" => p \in Prepares, pc = "recipient" => r \in leadRow,
               script[p].pc \in {"idle", "thrown"}, p \in Prepares => script[p].pc = "idle"
        PROVE  OperatorInvariant'
    <2>1. PreparationIsSound(p)'
      BY <1>0, <1>1, <1>3 DEF PreparationIsSound, SavedRunning, prepared, released,
         PreparePoints, PlanPoints, LeadPoints, SavedPoints, FlowPoints
    <2> QED  BY <1>0, <1>1, <1>3, <2>1, OthersStaySound
  <1>a. CASE StartPrepare(p)
    <2>1. PICK r \in Recipients, pc \in {"allowlist", "thrown"} :
            script' = [script EXCEPT ![p].recipient = r, ![p].pc = pc]
      BY <1>a DEF StartPrepare
    <2>2. /\ script' \in [Scripts -> ScriptFields]
          /\ script'[p].pc = pc /\ script'[p].recipient = r
          /\ \A t \in Scripts \ {p} : script'[t] = script[t]
      <3>1. pc \in PreparePoints \cup ExecutePoints  BY <2>1 DEF PreparePoints, PlanPoints
      <3> QED  BY <1>0, <2>1, <3>1, ScriptSent
    <2> QED  BY <1>3, <1>a, <2>2 DEF StartPrepare
  <1>b. CASE StartPlan(p)
    <2>1. PICK r \in leadRow : script' = [script EXCEPT ![p].pc = "recipient", ![p].recipient = r]
      BY <1>b DEF StartPlan
    <2>a. r \in Recipients /\ "recipient" \in PreparePoints
      BY <1>0, <2>1 DEF OperatorTypeOK, PreparePoints, PlanPoints
    <2>2. /\ script' \in [Scripts -> ScriptFields]
          /\ script'[p].pc = "recipient" /\ script'[p].recipient = r
          /\ \A t \in Scripts \ {p} : script'[t] = script[t]
      BY <1>0, <2>1, <2>a, ScriptSent
    <2> QED  BY <1>3, <1>b, <2>a, <2>1, <2>2 DEF StartPlan
  <1>4. CASE ResolveRecipient(p)
    BY <1>2, <1>4 DEF ResolveRecipient, PreparePoints, PlanPoints, LeadPoints, SavedPoints, FlowPoints
  <1>5. CASE ObserveDraft(p)
    BY <1>0, <1>2, <1>5 DEF ObserveDraft, PreparationIsSound, PreparePoints, PlanPoints, LeadPoints, SavedPoints, FlowPoints
  <1>6. CASE CheckAllowlist(p)
    BY <1>0, <1>2, <1>6 DEF CheckAllowlist, PreparationIsSound, PreparePoints, PlanPoints, LeadPoints, SavedPoints, FlowPoints
  <1>7. CASE CheckSuppression(p)
    BY <1>0, <1>2, <1>7 DEF CheckSuppression, PreparationIsSound, PreparePoints, PlanPoints, LeadPoints, SavedPoints, FlowPoints
  <1>8. CASE ScriptThrows(p)
    BY <1>2, <1>8 DEF ScriptThrows, PreparePoints, PlanPoints, LeadPoints, SavedPoints, FlowPoints
  <1> QED  BY <1>a, <1>b, <1>4, <1>5, <1>6, <1>7, <1>8

(* Steps of an execute command that write no row.                            *)
LEMMA QuietExecute ==
  ASSUME OperatorInvariant, NEW e \in Executes,
         \/ ReadState(e) \/ RecoverRecipient(e) \/ FindExecution(e) \/ ConfirmSend(e) \/ AwaitTerminal(e)
         \/ CheckAllowlist(e) \/ CheckSuppression(e) \/ ScriptThrows(e)
  PROVE  OperatorInvariant'
  <1> USE ScriptKinds
  <1>0. ExecuteIsSound(e) /\ OperatorTypeOK /\ e \in Scripts /\ e \notin Preparations
    BY DEF OperatorInvariant
  <1>1. UNCHANGED <<prepared, released, stateFile>>
    BY DEF ReadState, RecoverRecipient, FindExecution, ConfirmSend, AwaitTerminal, CheckAllowlist,
           CheckSuppression, ScriptThrows
  <1>2. ASSUME NEW pc \in ExecutePoints, To(e, pc), script[e].pc \notin {"idle", "done", "thrown"},
               pc # "approve", pc = "confirm" => executionRow[script[e].sequence] # "NONE",
               pc = "request" => script[e].pc = "confirm"
        PROVE  OperatorInvariant'
    <2>1. /\ script' \in [Scripts -> ScriptFields]
          /\ script'[e].pc = pc /\ script'[e].sequence = script[e].sequence
          /\ \A t \in Scripts \ {e} : script'[t] = script[t]
      BY <1>0, <1>2, OperatorTo
    <2>2. ExecuteIsSound(e)'
      BY <1>0, <1>1, <1>2, <2>1 DEF ExecuteIsSound, prepared, released
    <2> QED  BY <1>0, <1>1, <2>1, <2>2, OthersStaySound
  <1>3. CASE ReadState(e)
    <2>1. PICK pc \in {"load", "thrown"}, q \in Preparations \cup {"none"}, r \in Recipients \cup {"none"} :
            /\ script' = [script EXCEPT ![e].pc = pc, ![e].sequence = q, ![e].recipient = r]
            /\ pc = "load" => q # "none"
      <3>1. PICK mode \in {"ALLOWLIST_ONLY", "LIVE"}, live \in BOOLEAN, input \in Preparations \cup {"none"} :
              LET sequence == IF input = "none" THEN stateFile.sequence ELSE input
                  goesOn   == /\ Configured(mode, live, TRUE)
                              /\ stateFile.sequence # "torn" /\ sequence # "none"
              IN script' = [script EXCEPT ![e].pc = IF goesOn THEN "load" ELSE "thrown",
                              ![e].sequence  = IF goesOn THEN sequence ELSE "none",
                              ![e].recipient = IF goesOn THEN stateFile.recipient ELSE "none"]
        BY <1>3 DEF ReadState
      <3> DEFINE sequence == IF input = "none" THEN stateFile.sequence ELSE input
                 goesOn   == /\ Configured(mode, live, TRUE)
                             /\ stateFile.sequence # "torn" /\ sequence # "none"
      <3>2. stateFile.sequence \in Prepares \cup {"none", "torn"} /\ stateFile.recipient \in Recipients \cup {"none"}
        BY <1>0 DEF OperatorTypeOK
      <3>3. CASE goesOn
        BY <3>1, <3>2, <3>3
      <3>4. CASE ~goesOn
        BY <3>1, <3>4
      <3> QED  BY <3>3, <3>4
    <2>a. script \in [Scripts -> ScriptFields] /\ pc \in ExecutePoints
      BY <1>0 DEF OperatorTypeOK, ExecutePoints
    <2>b. /\ script[e] \in ScriptFields /\ DOMAIN script[e] = {"pc", "recipient", "sequence", "base"}
          /\ [script[e] EXCEPT !.pc = pc, !.sequence = q, !.recipient = r] \in ScriptFields
      <3>1. script[e] \in ScriptFields  BY <1>0, <2>a
      <3> QED  BY <2>a, <3>1, ScriptSet
    <2>c. script' = [script EXCEPT ![e] = [script[e] EXCEPT !.pc = pc, !.sequence = q, !.recipient = r]]
      BY <1>0, <2>1, <2>a
    <2>2. /\ script' \in [Scripts -> ScriptFields]
          /\ script'[e].pc = pc /\ script'[e].sequence = q
          /\ \A t \in Scripts \ {e} : script'[t] = script[t]
      BY <1>0, <2>a, <2>b, <2>c
    <2>3. ExecuteIsSound(e)'
      BY <1>0, <1>1, <2>1, <2>2 DEF ExecuteIsSound, prepared, released, ExecutePoints
    <2> QED  BY <1>0, <1>1, <2>2, <2>3, OthersStaySound
  <1>4. CASE RecoverRecipient(e)
    BY <1>2, <1>4 DEF RecoverRecipient, ExecutePoints
  <1>5. CASE FindExecution(e)
    BY <1>2, <1>5 DEF FindExecution, ExecutePoints
  <1>6. CASE ConfirmSend(e)
    BY <1>2, <1>6 DEF ConfirmSend, ExecutePoints
  <1>7. CASE AwaitTerminal(e)
    BY <1>2, <1>7 DEF AwaitTerminal, ExecutePoints
  <1>8. CASE CheckAllowlist(e)
    BY <1>2, <1>8 DEF CheckAllowlist, ExecutePoints
  <1>9. CASE CheckSuppression(e)
    BY <1>2, <1>9 DEF CheckSuppression, ExecutePoints
  <1>10. CASE ScriptThrows(e)
    BY <1>2, <1>10 DEF ScriptThrows, ExecutePoints
  <1> QED  BY <1>3, <1>4, <1>5, <1>6, <1>7, <1>8, <1>9, <1>10

-----------------------------------------------------------------------------
(* Steps of a preparation that save a row or the file.                       *)
LEMMA SavesLead ==
  ASSUME OperatorInvariant, NEW p \in Preparations, SaveLead(p)
  PROVE  OperatorInvariant'
  <1> USE ScriptKinds
  <1>0. PreparationIsSound(p) /\ OperatorTypeOK /\ p \in Scripts /\ script[p].pc = "lead"
    BY DEF OperatorInvariant, SaveLead
  <1>1. PICK pc \in {"thrown", "recipient"} : To(p, pc)
    BY DEF SaveLead
  <1>2. /\ script' \in [Scripts -> ScriptFields]
        /\ script'[p].pc = pc /\ script'[p].recipient = script[p].recipient
        /\ \A t \in Scripts \ {p} : script'[t] = script[t]
    BY <1>0, <1>1, OperatorTo DEF PreparePoints, PlanPoints
  <1>3. /\ leadRow' = leadRow \cup {script[p].recipient}
        /\ UNCHANGED <<campaignRow, sequenceRow, executionRow, approvalRow, flow, stateFile>>
    BY DEF SaveLead, released
  <1>4. OperatorTypeOK'
    BY <1>0, <1>2, <1>3 DEF OperatorTypeOK, PreparationIsSound
  <1>5. ASSUME NEW q \in Preparations PROVE PreparationIsSound(q)'
    <2>1. PreparationIsSound(q)  BY DEF OperatorInvariant
    <2>2. CASE q = p
      BY <1>0, <1>1, <1>2, <1>3, <2>1, <2>2 DEF PreparationIsSound, SavedRunning, PreparePoints, PlanPoints, FlowPoints,
         LeadPoints, SavedPoints
    <2>3. CASE q # p
      BY <1>2, <1>3, <2>1, <2>3 DEF PreparationIsSound, SavedRunning, SavedAs
    <2> QED  BY <2>2, <2>3
  <1>6. \A e \in Executes : ExecuteIsSound(e)'
    BY <1>2, <1>3 DEF OperatorInvariant, ExecuteIsSound
  <1>7. StateFileIsSound'
    BY <1>0, <1>2, <1>3 DEF OperatorInvariant, StateFileIsSound
  <1> QED  BY <1>4, <1>5, <1>6, <1>7 DEF OperatorInvariant

LEMMA SavesCampaign ==
  ASSUME OperatorInvariant, NEW p \in Preparations, SaveCampaign(p)
  PROVE  OperatorInvariant'
  <1> USE ScriptKinds
  <1>0. PreparationIsSound(p) /\ OperatorTypeOK /\ p \in Scripts /\ script[p].pc = "campaign"
    BY DEF OperatorInvariant, SaveCampaign
  <1>1. PICK pc \in {"thrown", "sequence"} : To(p, pc)
    BY DEF SaveCampaign
  <1>2. /\ script' \in [Scripts -> ScriptFields]
        /\ script'[p].pc = pc /\ script'[p].recipient = script[p].recipient
        /\ \A t \in Scripts \ {p} : script'[t] = script[t]
    BY <1>0, <1>1, OperatorTo DEF PreparePoints, PlanPoints
  <1>3. /\ UNCHANGED <<leadRow, sequenceRow, executionRow, approvalRow, flow, stateFile>>
        /\ \/ pc = "thrown" /\ UNCHANGED campaignRow
           \/ campaignRow[p] = "NONE" /\ campaignRow' = [campaignRow EXCEPT ![p] = SavedAs(p)]
    <2>1. To(p, "thrown") => pc = "thrown"
      BY <1>0, <1>2, OperatorTo DEF PreparePoints, PlanPoints
    <2> QED  BY <2>1 DEF SaveCampaign, released
  <1>4. OperatorTypeOK'
    BY <1>0, <1>2, <1>3 DEF OperatorTypeOK, SavedAs, SavedStates
  <1>5. ASSUME NEW q \in Preparations PROVE PreparationIsSound(q)'
    <2>1. PreparationIsSound(q) /\ campaignRow \in [Preparations -> SavedStates]
      BY DEF OperatorInvariant, OperatorTypeOK
    <2>2. CASE q = p
      BY <1>0, <1>1, <1>2, <1>3, <2>1, <2>2 DEF PreparationIsSound, SavedRunning, SavedAs, PreparePoints, PlanPoints,
         FlowPoints, LeadPoints, SavedPoints
    <2>3. CASE q # p
      BY <1>2, <1>3, <2>1, <2>3 DEF PreparationIsSound, SavedRunning, SavedAs
    <2> QED  BY <2>2, <2>3
  <1>6. \A e \in Executes : ExecuteIsSound(e)'
    BY <1>2, <1>3 DEF OperatorInvariant, ExecuteIsSound
  <1>7. StateFileIsSound'
    BY <1>0, <1>2, <1>3 DEF OperatorInvariant, StateFileIsSound
  <1> QED  BY <1>4, <1>5, <1>6, <1>7 DEF OperatorInvariant

LEMMA SavesSequence ==
  ASSUME OperatorInvariant, NEW p \in Preparations, SaveSequence(p)
  PROVE  OperatorInvariant'
  <1> USE ScriptKinds
  <1>0. PreparationIsSound(p) /\ OperatorTypeOK /\ p \in Scripts /\ script[p].pc = "sequence"
    BY DEF OperatorInvariant, SaveSequence
  <1>1. /\ UNCHANGED <<leadRow, campaignRow, executionRow, approvalRow, flow, stateFile>>
        /\ \/ To(p, "thrown") /\ UNCHANGED sequenceRow
           \/ /\ sequenceRow' = [sequenceRow EXCEPT ![p] =
                                   [status |-> SavedAs(p), linked |-> FALSE, version |-> 1]]
              /\ script' = [script EXCEPT ![p].base = 1, ![p].pc = IF p \in Plans THEN "done" ELSE "start"]
    BY DEF SaveSequence, released
  <1>2. CASE To(p, "thrown") /\ UNCHANGED sequenceRow
    <2>1. /\ script' \in [Scripts -> ScriptFields]
          /\ script'[p].pc = "thrown" /\ script'[p].recipient = script[p].recipient
          /\ \A t \in Scripts \ {p} : script'[t] = script[t]
      BY <1>0, <1>2, OperatorTo DEF PreparePoints, PlanPoints
    <2>2. PreparationIsSound(p)'
      BY <1>0, <1>1, <1>2, <2>1 DEF PreparationIsSound, SavedRunning, PreparePoints, PlanPoints, FlowPoints,
         LeadPoints, SavedPoints
    <2> QED  BY <1>0, <1>1, <1>2, <2>1, <2>2, OthersStaySound DEF prepared, released
  <1>3. CASE /\ sequenceRow' = [sequenceRow EXCEPT ![p] =
                                  [status |-> SavedAs(p), linked |-> FALSE, version |-> 1]]
             /\ script' = [script EXCEPT ![p].base = 1, ![p].pc = IF p \in Plans THEN "done" ELSE "start"]
    <2> DEFINE pc == IF p \in Plans THEN "done" ELSE "start"
    <2>1. /\ script' \in [Scripts -> ScriptFields]
          /\ script'[p].pc = pc /\ script'[p].recipient = script[p].recipient
          /\ \A t \in Scripts \ {p} : script'[t] = script[t]
      <3>1. pc \in PreparePoints  BY DEF PreparePoints, PlanPoints
      <3> HIDE DEF pc
      <3> QED  BY <1>0, <1>3, <3>1 DEF OperatorTypeOK, ScriptFields, pc
    <2>2. OperatorTypeOK'
      BY <1>0, <1>1, <1>3, <2>1 DEF OperatorTypeOK, SavedAs, SavedStates, SequenceFields
    <2>3. ASSUME NEW q \in Preparations PROVE PreparationIsSound(q)'
      <3>1. PreparationIsSound(q) /\ sequenceRow \in [Preparations -> SequenceFields]
        BY DEF OperatorInvariant, OperatorTypeOK
      <3>2. CASE q = p
        BY <1>0, <1>1, <1>3, <2>1, <3>1, <3>2 DEF PreparationIsSound, SavedRunning, SavedAs, PreparePoints, PlanPoints,
           FlowPoints, LeadPoints, SavedPoints
      <3>3. CASE q # p
        BY <1>1, <1>3, <2>1, <3>1, <3>3 DEF PreparationIsSound, SavedRunning, SavedAs
      <3> QED  BY <3>2, <3>3
    <2>4. \A e \in Executes : ExecuteIsSound(e)'
      BY <1>1, <2>1 DEF OperatorInvariant, ExecuteIsSound
    <2>5. StateFileIsSound'
      BY <1>0, <1>1, <1>3, <2>1 DEF OperatorInvariant, OperatorTypeOK, StateFileIsSound
    <2> QED  BY <2>2, <2>3, <2>4, <2>5 DEF OperatorInvariant
  <1> QED  BY <1>1, <1>2, <1>3

LEMMA LinksWorkflow ==
  ASSUME OperatorInvariant, NEW p \in Preparations, StartWorkflow(p) \/ LinkWorkflow(p) \/ WriteState(p)
  PROVE  OperatorInvariant'
  <1> USE ScriptKinds
  <1>0. PreparationIsSound(p) /\ OperatorTypeOK /\ p \in Scripts /\ p \in Prepares
    BY DEF OperatorInvariant, PreparationIsSound, StartWorkflow, LinkWorkflow, WriteState, PlanPoints
  <1>1. UNCHANGED <<leadRow, campaignRow, executionRow, approvalRow>>
    BY DEF StartWorkflow, LinkWorkflow, WriteState, prepared, released
  <1>2. CASE StartWorkflow(p)
    <2>1. /\ script' \in [Scripts -> ScriptFields]
          /\ script'[p].pc = "link" /\ script'[p].recipient = script[p].recipient
          /\ \A t \in Scripts \ {p} : script'[t] = script[t]
      BY <1>0, <1>2, OperatorTo DEF StartWorkflow, PreparePoints, PlanPoints
    <2>2. /\ script[p].pc = "start" /\ UNCHANGED <<sequenceRow, stateFile>>
          /\ flow' = [flow EXCEPT ![p].pc = "started"]
      BY <1>2 DEF StartWorkflow, prepared
    <2>3. OperatorTypeOK'
      BY <1>0, <1>1, <2>1, <2>2 DEF OperatorTypeOK
    <2>4. ASSUME NEW q \in Preparations PROVE PreparationIsSound(q)'
      <3>1. PreparationIsSound(q)  BY DEF OperatorInvariant
      <3>2. CASE q = p
        BY <1>0, <1>1, <2>1, <2>2, <3>1, <3>2 DEF PreparationIsSound, SavedRunning, PreparePoints, PlanPoints,
           FlowPoints, LeadPoints, SavedPoints
      <3>3. CASE q # p
        BY <1>0, <1>1, <2>1, <2>2, <3>1, <3>3 DEF PreparationIsSound, SavedRunning, SavedAs, OperatorTypeOK
      <3> QED  BY <3>2, <3>3
    <2>5. \A e \in Executes : ExecuteIsSound(e)'
      BY <1>0, <1>1, <2>1 DEF OperatorInvariant, ExecuteIsSound
    <2>6. StateFileIsSound'
      BY <1>0, <2>1, <2>2 DEF OperatorInvariant, StateFileIsSound
    <2> QED  BY <2>3, <2>4, <2>5, <2>6 DEF OperatorInvariant
  <1>3. CASE LinkWorkflow(p)
    <2>1. PICK pc \in {"observe", "thrown"} : To(p, pc)
      BY <1>3 DEF LinkWorkflow, Refused
    <2>2. /\ script' \in [Scripts -> ScriptFields]
          /\ script'[p].pc = pc /\ script'[p].recipient = script[p].recipient
          /\ \A t \in Scripts \ {p} : script'[t] = script[t]
      BY <1>0, <2>1, OperatorTo DEF PreparePoints, PlanPoints
    <2>3. /\ script[p].pc = "link" /\ UNCHANGED <<flow, stateFile>>
          /\ \/ sequenceRow' = [sequenceRow EXCEPT ![p].linked = TRUE, ![p].version = @ + 1]
             \/ pc = "thrown" /\ UNCHANGED sequenceRow
      <3>1. To(p, "thrown") => pc = "thrown"
        BY <1>0, <2>2, OperatorTo DEF PreparePoints, PlanPoints
      <3> QED  BY <1>3, <3>1 DEF LinkWorkflow, Refused, released
    <2>4. /\ sequenceRow' \in [Preparations -> SequenceFields]
          /\ \A q \in Preparations : /\ sequenceRow'[q].status = sequenceRow[q].status
                                     /\ sequenceRow[q].linked => sequenceRow'[q].linked
          /\ pc = "observe" => sequenceRow'[p].linked
      BY <1>0, <2>3 DEF OperatorTypeOK, SequenceFields
    <2>5. OperatorTypeOK'
      BY <1>0, <1>1, <2>2, <2>3, <2>4 DEF OperatorTypeOK
    <2>6. ASSUME NEW q \in Preparations PROVE PreparationIsSound(q)'
      <3>1. PreparationIsSound(q)  BY DEF OperatorInvariant
      <3>2. CASE q = p
        BY <1>0, <1>1, <2>1, <2>2, <2>3, <2>4, <3>1, <3>2 DEF PreparationIsSound, SavedRunning, PreparePoints, PlanPoints,
           FlowPoints, LeadPoints, SavedPoints
      <3>3. CASE q # p
        BY <1>0, <1>1, <2>2, <2>3, <2>4, <3>1, <3>3 DEF PreparationIsSound, SavedRunning, SavedAs
      <3> QED  BY <3>2, <3>3
    <2>7. \A e \in Executes : ExecuteIsSound(e)'
      BY <1>0, <1>1, <2>2 DEF OperatorInvariant, ExecuteIsSound
    <2>8. StateFileIsSound'
      BY <1>0, <2>2, <2>3, <2>4 DEF OperatorInvariant, StateFileIsSound
    <2> QED  BY <2>5, <2>6, <2>7, <2>8 DEF OperatorInvariant
  <1>4. CASE WriteState(p)
    <2>1. PICK pc \in {"done", "thrown"} :
            /\ To(p, pc)
            /\ \/ pc = "done" /\ stateFile' = [sequence |-> p, recipient |-> script[p].recipient]
               \/ stateFile' = [sequence |-> "torn", recipient |-> "none"]
      BY <1>4 DEF WriteState
    <2>2. /\ script' \in [Scripts -> ScriptFields]
          /\ script'[p].pc = pc /\ script'[p].recipient = script[p].recipient
          /\ \A t \in Scripts \ {p} : script'[t] = script[t]
      BY <1>0, <2>1, OperatorTo DEF PreparePoints, PlanPoints
    <2>3. script[p].pc = "write" /\ UNCHANGED <<flow, sequenceRow>>
      BY <1>4 DEF WriteState, prepared, released
    <2>4. OperatorTypeOK'
      BY <1>0, <1>1, <2>1, <2>2, <2>3 DEF OperatorTypeOK, PreparationIsSound
    <2>5. ASSUME NEW q \in Preparations PROVE PreparationIsSound(q)'
      <3>1. PreparationIsSound(q)  BY DEF OperatorInvariant
      <3>2. CASE q = p
        BY <1>0, <1>1, <2>1, <2>2, <2>3, <3>1, <3>2 DEF PreparationIsSound, SavedRunning, PreparePoints, PlanPoints,
           FlowPoints, LeadPoints, SavedPoints
      <3>3. CASE q # p
        BY <1>0, <1>1, <2>2, <2>3, <3>1, <3>3 DEF PreparationIsSound, SavedRunning, SavedAs
      <3> QED  BY <3>2, <3>3
    <2>6. \A e \in Executes : ExecuteIsSound(e)'
      BY <1>0, <1>1, <2>2 DEF OperatorInvariant, ExecuteIsSound
    <2>7. StateFileIsSound'
      BY <1>0, <2>1, <2>2, <2>3 DEF PreparationIsSound, StateFileIsSound
    <2> QED  BY <2>4, <2>5, <2>6, <2>7 DEF OperatorInvariant
  <1> QED  BY <1>2, <1>3, <1>4

-----------------------------------------------------------------------------
(* The execute command's own writes, and its signal.                         *)
LEMMA AsksAndApproves ==
  ASSUME OperatorInvariant, NEW e \in Executes, AskApproval(e) \/ ApproveOwn(e) \/ SignalApproval(e)
  PROVE  OperatorInvariant'
  <1> USE ScriptKinds
  <1>0. ExecuteIsSound(e) /\ OperatorTypeOK /\ e \in Scripts /\ e \notin Preparations
    BY DEF OperatorInvariant
  <1>1. UNCHANGED <<leadRow, campaignRow, sequenceRow, executionRow, stateFile>>
    BY DEF AskApproval, ApproveOwn, SignalApproval, prepared
  <1>2. PICK pc \in {"approve", "signal", "await", "thrown"} :
          /\ To(e, pc)
          /\ pc = "approve" => AskApproval(e)
    BY DEF AskApproval, ApproveOwn, SignalApproval
  <1>3. /\ script' \in [Scripts -> ScriptFields]
        /\ script'[e].pc = pc /\ script'[e].sequence = script[e].sequence
        /\ \A t \in Scripts \ {e} : script'[t] = script[t]
    BY <1>0, <1>2, OperatorTo DEF ExecutePoints
  <1>4. /\ approvalRow' \in [Executes -> [status : {"NONE", "PENDING", "APPROVED"},
                                          sequence : Preparations \cup {"none"}]]
        /\ \A x \in Executes \ {e} : approvalRow'[x] = approvalRow[x]
        /\ AskApproval(e) =>
             /\ script[e].pc = "request"
             /\ approvalRow'[e] = [status |-> "PENDING", sequence |-> script[e].sequence]
        /\ ~AskApproval(e) =>
             /\ approvalRow'[e].sequence = approvalRow[e].sequence
             /\ script[e].pc = "approve" \/ approvalRow'[e] = approvalRow[e]
        /\ script[e].pc \in {"request", "approve", "signal"}
    BY <1>0, SMTT(30) DEF AskApproval, ApproveOwn, SignalApproval, OperatorTypeOK, ExecuteIsSound
  <1>5. /\ flow' \in [Preparations -> [pc : {"none", "started", "waiting", "closed"},
                                       slot : Executes \cup {"none", "elsewhere"}]]
        /\ \A p \in Preparations : flow'[p].pc = flow[p].pc
    <2>1. CASE UNCHANGED flow
      BY <1>0, <2>1 DEF OperatorTypeOK
    <2>2. CASE SignalApproval(e) /\ flow' = [flow EXCEPT ![script[e].sequence].slot = e]
      <3>1. PICK p \in Preparations : p = script[e].sequence
        BY <1>0, <2>2 DEF SignalApproval, ExecuteIsSound
      <3>2. flow' = [flow EXCEPT ![p].slot = e]
        BY <2>2, <3>1
      <3>3. flow \in [Preparations -> [pc : {"none", "started", "waiting", "closed"},
                                      slot : Executes \cup {"none", "elsewhere"}]]
        BY <1>0 DEF OperatorTypeOK
      <3> QED  BY <3>2, <3>3
    <2> QED  BY <2>1, <2>2 DEF AskApproval, ApproveOwn, SignalApproval
  <1>6. OperatorTypeOK'
    BY <1>0, <1>1, <1>3, <1>4, <1>5 DEF OperatorTypeOK
  <1>7. \A p \in Preparations : PreparationIsSound(p)'
    BY <1>1, <1>3, <1>5 DEF OperatorInvariant, PreparationIsSound, SavedRunning, SavedAs
  <1>8. ASSUME NEW x \in Executes PROVE ExecuteIsSound(x)'
    <2>1. ExecuteIsSound(x)  BY DEF OperatorInvariant
    <2>2. CASE x = e
      BY <1>0, <1>1, <1>2, <1>3, <1>4, <2>1, <2>2 DEF ExecuteIsSound, ExecutePoints
    <2>3. CASE x # e
      BY <1>1, <1>3, <1>4, <2>1, <2>3 DEF ExecuteIsSound
    <2> QED  BY <2>2, <2>3
  <1>9. StateFileIsSound'
    BY <1>1, <1>3 DEF OperatorInvariant, StateFileIsSound
  <1> QED  BY <1>6, <1>7, <1>8, <1>9 DEF OperatorInvariant

SavedExecutions == {"NONE", "DRAFTING", "PENDING_APPROVAL", "PROVIDER_ACCEPTED", "REPLIED", "FAILED", "UNAPPROVED"}

\* What a step of the workflow or of a planned task keeps sound: executions are never
\* taken back, a workflow that runs was started, and a row is at most completed.
LEMMA ReleasedStaysSound ==
  ASSUME OperatorInvariant, UNCHANGED <<leadRow, approvalRow, stateFile, script>>,
         executionRow' \in [Preparations -> SavedExecutions],
         \A p \in Preparations :
           /\ executionRow[p] # "NONE" => executionRow'[p] # "NONE"
           /\ executionRow'[p] # "NONE" => sequenceRow[p].status # "NONE"
           /\ flow'[p].pc # "none" => flow[p].pc # "none"
           /\ \/ campaignRow'[p] = campaignRow[p] /\ sequenceRow'[p].status = sequenceRow[p].status
              \/ /\ sequenceRow[p].status = "RUNNING"
                 /\ campaignRow'[p] = "COMPLETED" /\ sequenceRow'[p].status = "COMPLETED"
           /\ sequenceRow'[p].linked = sequenceRow[p].linked,
         campaignRow' \in [Preparations -> SavedStates],
         sequenceRow' \in [Preparations -> SequenceFields],
         flow' \in [Preparations -> [pc : {"none", "started", "waiting", "closed"},
                                     slot : Executes \cup {"none", "elsewhere"}]]
  PROVE  OperatorInvariant'
  <1> USE ScriptKinds
  <1>1. OperatorTypeOK'
    BY DEF OperatorInvariant, OperatorTypeOK, SavedExecutions
  <1>2. ASSUME NEW p \in Preparations PROVE PreparationIsSound(p)'
    <2>1. PreparationIsSound(p)  BY DEF OperatorInvariant
    <2> QED  BY <2>1 DEF PreparationIsSound, SavedRunning, SavedAs
  <1>3. \A e \in Executes : ExecuteIsSound(e)'
    BY DEF OperatorInvariant, ExecuteIsSound
  <1>4. StateFileIsSound'
    BY DEF OperatorInvariant, StateFileIsSound
  <1> QED  BY <1>1, <1>2, <1>3, <1>4 DEF OperatorInvariant

LEMMA DraftKeeps ==
  ASSUME OperatorInvariant, NEW p \in Preparations,
         Draft(p) \/ DraftMessage(p) \/ ApprovedElsewhere(p) \/ RecordReply(p)
  PROVE  OperatorInvariant'
  <1> USE ScriptKinds
  <1>0. PreparationIsSound(p) /\ OperatorTypeOK
    BY DEF OperatorInvariant
  <1>1. UNCHANGED <<leadRow, campaignRow, sequenceRow, approvalRow, stateFile, script>>
    BY DEF Draft, DraftMessage, ApprovedElsewhere, RecordReply, prepared
  <1>2. /\ executionRow' \in [Preparations -> SavedExecutions]
        /\ \A q \in Preparations \ {p} : executionRow'[q] = executionRow[q]
        /\ executionRow[p] # "NONE" => executionRow'[p] # "NONE"
        /\ executionRow'[p] # "NONE" => sequenceRow[p].status # "NONE"
    BY <1>0 DEF Draft, Drafted, DraftMessage, ApprovedElsewhere, RecordReply, OperatorTypeOK,
       PreparationIsSound, SavedRunning, SavedExecutions
  <1>3. /\ flow' \in [Preparations -> [pc : {"none", "started", "waiting", "closed"},
                                       slot : Executes \cup {"none", "elsewhere"}]]
        /\ \A q \in Preparations : flow'[q].pc # "none" => flow[q].pc # "none"
    BY <1>0 DEF Draft, DraftMessage, ApprovedElsewhere, RecordReply, OperatorTypeOK
  <1>4. \A q \in Preparations : executionRow[q] # "NONE" => sequenceRow[q].status # "NONE"
    BY DEF OperatorInvariant, PreparationIsSound
  <1> QED  BY <1>0, <1>1, <1>2, <1>3, <1>4, ReleasedStaysSound DEF OperatorTypeOK

LEMMA ReleaseKeeps ==
  ASSUME OperatorInvariant, NEW p \in Preparations, ReleaseSend(p) \/ ExecutePlanned(p)
  PROVE  OperatorInvariant'
  <1> USE ScriptKinds
  <1>0. PreparationIsSound(p) /\ OperatorTypeOK
    BY DEF OperatorInvariant
  <1>1. UNCHANGED <<leadRow, approvalRow, stateFile, script>>
    BY DEF ReleaseSend, ExecutePlanned
  <1>2. sequenceRow[p].status \in {"DRAFT", "RUNNING", "COMPLETED"}
    BY <1>0 DEF ReleaseSend, ExecutePlanned, PreparationIsSound, SavedRunning, OperatorTypeOK, SequenceFields, SavedStates
  <1>3. PICK approval : Release(p, approval)
    BY DEF ReleaseSend, ExecutePlanned
  <1>4. "COMPLETED" \in SEQUENCE_STATE_TRANSITIONS[sequenceRow[p].status] <=> sequenceRow[p].status = "RUNNING"
    BY <1>2 DEF SEQUENCE_STATE_TRANSITIONS
  <1>5. /\ executionRow' \in [Preparations -> SavedExecutions]
        /\ \A q \in Preparations \ {p} : executionRow'[q] = executionRow[q]
        /\ executionRow'[p] # "NONE"
    BY <1>0, <1>3 DEF Release, OperatorTypeOK, SavedExecutions
  <1>6. \/ UNCHANGED <<campaignRow, sequenceRow>>
        \/ /\ sequenceRow[p].status = "RUNNING"
           /\ sequenceRow' = [sequenceRow EXCEPT ![p].status = "COMPLETED", ![p].version = @ + 1]
           /\ campaignRow' = [campaignRow EXCEPT ![p] = "COMPLETED"]
    BY <1>3, <1>4 DEF Release
  <1>7. /\ campaignRow' \in [Preparations -> SavedStates]
        /\ sequenceRow' \in [Preparations -> SequenceFields]
        /\ \A q \in Preparations \ {p} : campaignRow'[q] = campaignRow[q] /\ sequenceRow'[q] = sequenceRow[q]
        /\ sequenceRow'[p].linked = sequenceRow[p].linked
        /\ \/ campaignRow'[p] = campaignRow[p] /\ sequenceRow'[p].status = sequenceRow[p].status
           \/ /\ sequenceRow[p].status = "RUNNING"
              /\ campaignRow'[p] = "COMPLETED" /\ sequenceRow'[p].status = "COMPLETED"
    BY <1>0, <1>6 DEF OperatorTypeOK, SavedStates, SequenceFields
  <1>8. /\ flow' \in [Preparations -> [pc : {"none", "started", "waiting", "closed"},
                                       slot : Executes \cup {"none", "elsewhere"}]]
        /\ \A q \in Preparations : flow'[q].pc # "none" => flow[q].pc # "none"
    BY <1>0 DEF ReleaseSend, ExecutePlanned, OperatorTypeOK
  <1>9. \A q \in Preparations : executionRow[q] # "NONE" => sequenceRow[q].status # "NONE"
    BY DEF OperatorInvariant, PreparationIsSound
  <1> QED  BY <1>1, <1>2, <1>5, <1>7, <1>8, <1>9, ReleasedStaysSound

-----------------------------------------------------------------------------
LEMMA OperatorInitIsSound == OperatorInit => OperatorInvariant
  BY ScriptKinds
  DEF OperatorInit, OperatorInvariant, OperatorTypeOK, PreparationIsSound, ExecuteIsSound,
      StateFileIsSound, NoSequence, SavedStates, SequenceFields, ScriptFields, SavedRunning,
      PlanPoints, PreparePoints, ExecutePoints, LeadPoints, SavedPoints, FlowPoints

LEMMA OperatorStepKeeps ==
  ASSUME OperatorInvariant, [OperatorNext]_operatorVars
  PROVE  OperatorInvariant'
  <1>1. CASE UNCHANGED operatorVars
    BY <1>1 DEF operatorVars, prepared, released, OperatorInvariant, OperatorTypeOK, PreparationIsSound,
       ExecuteIsSound, StateFileIsSound, SavedRunning, SavedAs
  <1>2. CASE \E r \in Recipients : ListsChange(r)
    BY <1>2 DEF ListsChange, prepared, released, OperatorInvariant, OperatorTypeOK, PreparationIsSound,
       ExecuteIsSound, StateFileIsSound, SavedRunning, SavedAs
  <1>3. CASE \E s \in Scripts : CheckAllowlist(s) \/ CheckSuppression(s) \/ ScriptThrows(s)
    BY <1>3, ScriptKinds, QuietPreparation, QuietExecute
  <1>4. ASSUME NEW p \in Preparations,
               \/ StartPrepare(p) \/ SaveLead(p) \/ StartPlan(p) \/ ResolveRecipient(p) \/ SaveCampaign(p)
               \/ SaveSequence(p) \/ StartWorkflow(p) \/ LinkWorkflow(p) \/ ObserveDraft(p) \/ WriteState(p)
        PROVE  OperatorInvariant'
    BY <1>4, QuietPreparation, SavesLead, SavesCampaign, SavesSequence, LinksWorkflow
  <1>5. ASSUME NEW e \in Executes,
               \/ ReadState(e) \/ RecoverRecipient(e) \/ FindExecution(e) \/ ConfirmSend(e)
               \/ AskApproval(e) \/ ApproveOwn(e) \/ SignalApproval(e) \/ AwaitTerminal(e)
        PROVE  OperatorInvariant'
    BY <1>5, QuietExecute, AsksAndApproves
  <1>6. ASSUME NEW p \in Preparations,
               \/ Draft(p) \/ ApprovedElsewhere(p) \/ ReleaseSend(p)
               \/ DraftMessage(p) \/ ExecutePlanned(p) \/ RecordReply(p)
        PROVE  OperatorInvariant'
    BY <1>6, DraftKeeps, ReleaseKeeps
  <1> QED  BY <1>1, <1>2, <1>3, <1>4, <1>5, <1>6 DEF OperatorNext

(* Whatever run of the operator script crashed, was refused or lost its      *)
(* version, and however prepares, plans and executes interleave: nothing of  *)
(* operator.ts is saved without what it needs.                               *)
THEOREM PreparationsAreWhole == OperatorSpec => []PreparedIsWhole
  <1>1. OperatorInit => OperatorInvariant
    BY OperatorInitIsSound
  <1>2. OperatorInvariant /\ [OperatorNext]_operatorVars => OperatorInvariant'
    BY OperatorStepKeeps
  <1>3. OperatorInvariant => PreparedIsWhole
    <2> SUFFICES ASSUME OperatorInvariant PROVE PreparedIsWhole
      OBVIOUS
    <2>1. \A p \in Preparations : sequenceRow[p].status # "NONE" => campaignRow[p] # "NONE"
      BY DEF OperatorInvariant, PreparationIsSound
    <2>2. \A p \in Prepares : flow[p].pc # "none" =>
            /\ script[p].recipient \in leadRow /\ campaignRow[p] \in {"RUNNING", "COMPLETED"}
            /\ sequenceRow[p].status \in {"RUNNING", "COMPLETED"}
      BY ScriptKinds DEF OperatorInvariant, PreparationIsSound, SavedRunning
    <2>3. \A e \in Executes : approvalRow[e].status # "NONE" => executionRow[approvalRow[e].sequence] # "NONE"
      BY DEF OperatorInvariant, ExecuteIsSound
    <2> QED  BY <2>1, <2>2, <2>3 DEF PreparedIsWhole, OperatorInvariant, StateFileIsSound
  <1> QED  BY <1>1, <1>2, <1>3, PTL DEF OperatorSpec
=============================================================================
