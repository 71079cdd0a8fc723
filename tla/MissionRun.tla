----------------------------- MODULE MissionRun -----------------------------
(* One mission from its start to its end: the service's calls, the Temporal   *)
(* workflow, the engine's activities on the workers, and the approvals they   *)
(* ask for.  A call or an attempt of an activity works on the copy it loaded; *)
(* every await is a step of its own.  A lost save loads the row again and     *)
(* reapplies in the same step: versions only grow, so the conflict is still   *)
(* there at the time of the second load.                                      *)
EXTENDS MissionRules

CONSTANTS
  NoTask,     \* no task
  NoSlot,     \* no attempt
  Calls,      \* calls of the service; each runs once
  Slots,      \* activity attempts that can be under way at once
  Ops,        \* the operations calls may run, a subset of AllOps
  Answers,    \* what agents may answer, a subset of AgentAnswers
  Faults,     \* the disturbances that may happen, a subset of AllFaults
  MaxAttempts \* of an activity, of a call's save, of saveAndPublish: 3 in the code

AllOps == {"start", "pause", "resume", "cancel", "replan"}

\* crash    a worker or API process dies with what it was doing
\* throw    an await of an activity fails
\* timeout  an attempt outlives its startToCloseTimeout and runs on
AllFaults == {"crash", "throw", "timeout"}

ASSUME NoneAssumption == NoTask \notin Tasks /\ NoSlot \notin Slots
ASSUME MaxAttemptsAssumption == MaxAttempts \in Nat \ {0}
ASSUME MissionOpsAssumption == Ops \subseteq AllOps
ASSUME AnswersAssumption == Answers \subseteq AgentAnswers
ASSUME MissionFaultsAssumption == Faults \subseteq AllFaults

VARIABLES
  row,        \* mission.missions with its tasks
  approval,   \* the latest approval request of each task
  pc,         \* where each call is
  op,         \* the operation each call runs
  held,       \* the aggregate each call holds
  tries,      \* the attempts each call made
  at,         \* where each activity attempt is
  copy,       \* the aggregate each attempt holds
  task,       \* the task it runs
  result,     \* the agent's answer, or the mission status it will return
  saves,      \* the conflicts its saveAndPublish met
  wf,         \* where the workflow is
  control,    \* its controlRequest
  slot,       \* the attempt it waits for
  attempt     \* the number of that attempt

callVars == <<pc, op, held, tries>>
actVars  == <<at, copy, task, result, saves>>
wfVars   == <<wf, control, slot, attempt>>
vars     == <<row, approval, callVars, actVars, wfVars>>

ApprovalStates == {"NONE", "PENDING", "APPROVED", "REJECTED", "EXPIRED"}
CallPoints     == {"idle", "load", "save", "launch", "signal", "done"}
Activities     == {"plan", "replan", "step"}
AttemptPoints  == Activities \cup
  {"free", "planSave", "replanSave", "startSave", "agent", "record", "ask",
   "recordSave", "closeSave", "report", "answered", "failed"}
WorkflowPoints == Activities \cup {"none", "top", "wait", "ended", "failed"}
Controls       == {"none", "PAUSE", "RESUME", "CANCEL", "REPLAN"}

Init ==
  /\ row = NewMission
  /\ approval = [t \in Tasks |-> "NONE"]
  /\ pc = [c \in Calls |-> "idle"]
  /\ op = [c \in Calls |-> "start"]
  /\ held = [c \in Calls |-> NewMission]
  /\ tries = [c \in Calls |-> 0]
  /\ at = [s \in Slots |-> "free"]
  /\ copy = [s \in Slots |-> NewMission]
  /\ task = [s \in Slots |-> NoTask]
  /\ result = [s \in Slots |-> "none"]
  /\ saves = [s \in Slots |-> 0]
  /\ wf = "none"
  /\ control = "none"
  /\ slot = NoSlot
  /\ attempt = 0

-----------------------------------------------------------------------------
(* PostgresMissionRepository.save *)
\* Variant: the expected version is the one just read from the database.
Fresh_Always(m) == TRUE
Fresh(m)       == m.version = row.version
Committed(m)   == [m EXCEPT !.version = @ + 1]

(* The service *)

Signals == [pause |-> "PAUSE", resume |-> "RESUME", cancel |-> "CANCEL", replan |-> "REPLAN"]

\* Returns before any change, signal or conflict.
AlreadyThere(o, m) ==
  CASE o = "start"  -> m.status \in {"PLANNING", "EXECUTING"}
    [] o = "pause"  -> m.status = "PAUSED"
    [] o = "resume" -> m.status = "EXECUTING"
    [] OTHER        -> m.status \in TerminalStatuses

Target == [start |-> "PLANNING", pause |-> "PAUSED", resume |-> "EXECUTING",
           cancel |-> "CANCELLED"]

Admissible(o, m) ==
  CASE o = "pause"  -> m.status \in {"PLANNING", "EXECUTING"}
    [] o = "resume" -> m.status = "PAUSED"
    [] OTHER        -> TRUE

CallMoves(c, p, o, m, n) ==
  /\ pc'    = [pc EXCEPT ![c] = p]
  /\ op'    = [op EXCEPT ![c] = o]
  /\ held'  = [held EXCEPT ![c] = m]
  /\ tries' = [tries EXCEPT ![c] = n]

\* loadMission, the early returns and the operation on the copy.
LoadMission(c) ==
  /\ pc[c] \in {"idle", "load"}
  /\ \E o \in IF pc[c] = "idle" THEN Ops ELSE {op[c]} :
       IF AlreadyThere(o, row)
       THEN CallMoves(c, "done", o, held[c], tries[c])
       ELSE \/ o = "replan" /\ CallMoves(c, "signal", o, held[c], tries[c])
            \/ /\ o # "replan"
               /\ IF Admissible(o, row) /\ CanMove(row, Target[o])
                  THEN CallMoves(c, "save", o, MovedTo(row, Target[o]), tries[c])
                  ELSE CallMoves(c, "done", o, held[c], tries[c])
  /\ UNCHANGED <<row, approval, actVars, wfVars>>

\* Variant: startMission returns once the mission is saved.
AfterSave_NoLaunch(o) == IF o = "start" THEN "done" ELSE "signal"
AfterSave(o) == IF o = "start" THEN "launch" ELSE "signal"

SaveMission(c) ==
  /\ pc[c] = "save"
  /\ IF Fresh(held[c])
     THEN /\ row' = Committed(held[c])
          /\ pc' = [pc EXCEPT ![c] = AfterSave(op[c])]
          /\ UNCHANGED tries
     ELSE /\ pc' = [pc EXCEPT ![c] = IF op[c] # "start" /\ tries[c] + 1 < MaxAttempts
                                     THEN "load" ELSE "done"]
          /\ tries' = [tries EXCEPT ![c] = @ + 1]
          /\ UNCHANGED row
  /\ UNCHANGED <<approval, op, held, actVars, wfVars>>

\* REJECT_DUPLICATE: a second start of the same workflow only answers so.
LaunchWorkflow(c) ==
  /\ pc[c] = "launch"
  /\ pc' = [pc EXCEPT ![c] = "done"]
  /\ IF wf = "none" THEN wf' = "plan" /\ attempt' = 1 ELSE UNCHANGED <<wf, attempt>>
  /\ UNCHANGED <<row, approval, op, held, tries, actVars, control, slot>>

\* The handler keeps one request; a workflow that does not run cannot be signalled.
SignalWorkflow(c) ==
  /\ pc[c] = "signal"
  /\ pc' = [pc EXCEPT ![c] = "done"]
  /\ control' = IF wf \in {"none", "ended", "failed"} THEN control ELSE Signals[op[c]]
  /\ UNCHANGED <<row, approval, op, held, tries, actVars, wf, slot, attempt>>

CallCrashes(c) ==
  /\ "crash" \in Faults
  /\ pc[c] \in {"load", "save", "launch", "signal"}
  /\ pc' = [pc EXCEPT ![c] = "done"]
  /\ UNCHANGED <<row, approval, op, held, tries, actVars, wfVars>>

(* Approvals: a decision is saved once; its signal to a mission's workflow is   *)
(* cleared unread, so nothing else changes.                                     *)
Decide(t) ==
  /\ approval[t] = "PENDING"
  /\ \E d \in {"APPROVED", "REJECTED", "EXPIRED"} : approval' = [approval EXCEPT ![t] = d]
  /\ UNCHANGED <<row, callVars, actVars, wfVars>>

-----------------------------------------------------------------------------
(* The workflow *)

\* The loop's head.  The checkpoint activity changes nothing.
WorkflowLoop ==
  /\ wf = "top"
  /\ \/ /\ control = "CANCEL"
        /\ wf' = "ended"
        /\ UNCHANGED <<control, attempt>>
     \/ /\ control = "PAUSE"
        /\ wf' = "wait" /\ control' = "none"
        /\ UNCHANGED attempt
     \/ /\ control = "REPLAN"
        /\ wf' = "replan" /\ attempt' = 1
        /\ UNCHANGED control
     \/ /\ control = "RESUME"
        /\ control' = "none"
        /\ UNCHANGED <<wf, attempt>>
     \/ /\ control = "none"
        /\ wf' = "step" /\ attempt' = 1
        /\ UNCHANGED control
  /\ UNCHANGED <<row, approval, callVars, actVars, slot>>

Wake ==
  /\ wf = "wait" /\ control # "none"
  /\ wf' = "top"
  /\ UNCHANGED <<row, approval, callVars, actVars, control, slot, attempt>>

Dispatch(s) ==
  /\ wf \in Activities /\ slot = NoSlot /\ at[s] = "free"
  /\ slot' = s
  /\ at' = [at EXCEPT ![s] = wf]
  /\ saves' = [saves EXCEPT ![s] = 0]
  /\ UNCHANGED <<row, approval, callVars, copy, task, result, wf, control, attempt>>

Vacated(s) == /\ at' = [at EXCEPT ![s] = "free"]
              /\ copy' = [copy EXCEPT ![s] = NewMission]
              /\ task' = [task EXCEPT ![s] = NoTask]
              /\ result' = [result EXCEPT ![s] = "none"]
              /\ saves' = [saves EXCEPT ![s] = 0]

\* Variant: a mission that is not executing is taken for over.
Over_NotExecuting(a) == a # "EXECUTING"
\* The workflow returns on a terminal status.
Over(a) == a \in TerminalStatuses

\* The activity's answer.  A replan's end clears whatever control came meanwhile.
Deliver(s) ==
  /\ slot = s /\ at[s] = "answered"
  /\ Vacated(s)
  /\ slot' = NoSlot /\ attempt' = 0
  /\ wf' = IF wf = "step" /\ Over(result[s]) THEN "ended" ELSE "top"
  /\ control' = IF wf = "replan" THEN "none" ELSE control
  /\ UNCHANGED <<row, approval, callVars>>

\* Temporal retries an attempt that threw, died or timed out.
AttemptLost ==
  /\ slot' = NoSlot
  /\ IF attempt < MaxAttempts THEN attempt' = attempt + 1 /\ UNCHANGED wf
                              ELSE attempt' = 0 /\ wf' = "failed"
  /\ UNCHANGED <<row, approval, callVars, control>>

Throw(s) ==
  /\ slot = s /\ at[s] = "failed"
  /\ Vacated(s) /\ AttemptLost

WorkerCrashes(s) ==
  /\ "crash" \in Faults /\ at[s] # "free"
  /\ Vacated(s)
  /\ IF slot = s THEN AttemptLost ELSE UNCHANGED <<row, approval, callVars, wfVars>>

AttemptTimesOut(s) ==
  /\ "timeout" \in Faults /\ slot = s /\ at[s] # "answered"
  /\ AttemptLost
  /\ UNCHANGED actVars

\* Nobody waits for this attempt any more.
Discard(s) ==
  /\ slot # s /\ at[s] \in {"answered", "failed"}
  /\ Vacated(s)
  /\ UNCHANGED <<row, approval, callVars, wfVars>>

-----------------------------------------------------------------------------
(* The activities of the engine *)

Step(s, p, m, t, r) ==
  /\ at'     = [at EXCEPT ![s] = p]
  /\ copy'   = [copy EXCEPT ![s] = m]
  /\ task'   = [task EXCEPT ![s] = t]
  /\ result' = [result EXCEPT ![s] = r]

Fails(s) == Step(s, "failed", copy[s], task[s], result[s])

\* planMission up to its save: the planner's version is one above the loaded one.
LoadPlan(s) ==
  /\ at[s] = "plan"
  /\ IF row.status = "PLANNING" /\ CanTakePlan(row, row.plan + 1)
     THEN Step(s, "planSave", PlanTaken(row, row.plan + 1), NoTask, "none")
     ELSE Fails(s)
  /\ UNCHANGED <<row, approval, saves, callVars, wfVars>>

LoadReplan(s) ==
  /\ at[s] = "replan"
  /\ IF CanReplan(row, row.plan + 1)
     THEN Step(s, "replanSave", Replanned(row, row.plan + 1), NoTask, "none")
     ELSE Fails(s)
  /\ UNCHANGED <<row, approval, saves, callVars, wfVars>>

\* executeMissionStep up to its first save: nothing to do, close, or start a task.
LoadStep(s) ==
  /\ at[s] = "step"
  /\ \/ /\ row.status # "EXECUTING"
        /\ Step(s, "answered", copy[s], NoTask, row.status)
     \/ /\ row.status = "EXECUTING" /\ Runnable(row) = {}
        /\ Step(s, "closeSave", Closed(row), NoTask, Closed(row).status)
     \/ /\ row.status = "EXECUTING"
        /\ \E t \in Runnable(row) :
             IF CanStartTask(row, t)
             THEN Step(s, "startSave", TaskStarted(row, t), t, "none")
             ELSE Fails(s)
  /\ UNCHANGED <<row, approval, saves, callVars, wfVars>>

\* The reapply each operation hands to saveAndPublish.
CanReapply(s, m) ==
  CASE at[s] = "planSave"   -> CanTakePlan(m, copy[s].plan)
    [] at[s] = "replanSave" -> CanReplan(m, copy[s].plan)
    [] at[s] = "startSave"  -> CanStartTask(m, task[s])
    [] at[s] = "recordSave" -> CanRecord(m, task[s], result[s])
    [] OTHER                -> CanClose(m)
Reapplied(s, m) ==
  CASE at[s] = "planSave"   -> PlanTaken(m, copy[s].plan)
    [] at[s] = "replanSave" -> Replanned(m, copy[s].plan)
    [] at[s] = "startSave"  -> TaskStarted(m, task[s])
    [] at[s] = "recordSave" -> Recorded(m, task[s], result[s])
    [] OTHER                -> Closed(m)

\* What follows saveAndPublish, which returned m.  A task nobody started is not run.
Continue(s, m) ==
  CASE at[s] = "startSave" ->
         IF m.status # "EXECUTING" /\ m.task[task[s]] # "RUNNING"
         THEN Step(s, "record", m, task[s], "PAUSED")
         ELSE Step(s, "agent", m, task[s], "none")
    [] at[s] = "recordSave" -> Step(s, "report", m, task[s], result[s])
    [] OTHER                -> Step(s, "answered", m, task[s], result[s])

SavePoints == {"planSave", "replanSave", "startSave", "recordSave", "closeSave"}

\* An aggregate without events is saved at the version it has.
SavedBy(s) == IF at[s] = "recordSave" /\ result[s] = "PAUSED" THEN copy[s]
              ELSE Committed(copy[s])

SaveAndPublish(s) ==
  /\ at[s] \in SavePoints
  /\ \/ /\ Fresh(copy[s])
        /\ row' = SavedBy(s)
        /\ Continue(s, SavedBy(s))
        /\ saves' = [saves EXCEPT ![s] = 0]
     \/ /\ ~Fresh(copy[s]) /\ saves[s] + 1 < MaxAttempts
        /\ IF CanReapply(s, row)
           THEN /\ Step(s, at[s], Reapplied(s, row), task[s], result[s])
                /\ saves' = [saves EXCEPT ![s] = @ + 1]
           ELSE /\ Continue(s, row)
                /\ saves' = [saves EXCEPT ![s] = 0]
        /\ UNCHANGED row
     \/ /\ ~Fresh(copy[s]) /\ saves[s] + 1 = MaxAttempts
        /\ Fails(s)
        /\ UNCHANGED <<row, saves>>
  /\ UNCHANGED <<approval, callVars, wfVars>>

RunAgent(s) ==
  /\ at[s] = "agent"
  /\ \E r \in Answers : Step(s, "record", copy[s], task[s], r)
  /\ UNCHANGED <<row, approval, saves, callVars, wfVars>>

\* handleTaskResult on the mission as it is now.
RecordResult(s) ==
  /\ at[s] = "record"
  /\ IF result[s] = "AWAITING_APPROVAL"
     THEN IF CanMark(row, task[s], result[s])
          THEN Step(s, "ask", Marked(row, task[s], result[s]), task[s], result[s])
          ELSE Fails(s)
     ELSE IF CanRecord(row, task[s], result[s])
          THEN Step(s, "recordSave", Recorded(row, task[s], result[s]), task[s], result[s])
          ELSE Fails(s)
  /\ UNCHANGED <<row, approval, saves, callVars, wfVars>>

\* The request is saved before the mission is known to pause.
RequestApproval(s) ==
  /\ at[s] = "ask"
  /\ approval' = [approval EXCEPT ![task[s]] = "PENDING"]
  /\ IF CanMove(copy[s], "PAUSED")
     THEN Step(s, "recordSave", MovedTo(copy[s], "PAUSED"), task[s], result[s])
     ELSE Fails(s)
  /\ UNCHANGED <<row, saves, callVars, wfVars>>

Report(s) ==
  /\ at[s] = "report"
  /\ Step(s, "answered", row, task[s], row.status)
  /\ UNCHANGED <<row, approval, saves, callVars, wfVars>>

ActivityThrows(s) ==
  /\ "throw" \in Faults
  /\ at[s] \notin {"free", "answered", "failed"}
  /\ Fails(s)
  /\ UNCHANGED <<row, approval, saves, callVars, wfVars>>

-----------------------------------------------------------------------------
CallNext(c) == LoadMission(c) \/ SaveMission(c) \/ LaunchWorkflow(c) \/ SignalWorkflow(c)

AttemptNext(s) ==
  \/ LoadPlan(s) \/ LoadReplan(s) \/ LoadStep(s) \/ SaveAndPublish(s) \/ RunAgent(s)
  \/ RecordResult(s) \/ RequestApproval(s) \/ Report(s)

WorkflowNext ==
  \/ WorkflowLoop \/ Wake
  \/ \E s \in Slots : Dispatch(s) \/ Deliver(s) \/ Throw(s) \/ Discard(s)

Disturbance ==
  \/ \E c \in Calls : CallCrashes(c)
  \/ \E s \in Slots : WorkerCrashes(s) \/ AttemptTimesOut(s) \/ ActivityThrows(s)

Next ==
  \/ \E c \in Calls : CallNext(c)
  \/ \E s \in Slots : AttemptNext(s)
  \/ WorkflowNext
  \/ \E t \in Tasks : Decide(t)
  \/ Disturbance

Spec == Init /\ [][Next]_vars

\* Calls that began go on, workers run their attempts, Temporal its workflow.
FairSpec ==
  /\ Spec
  /\ \A c \in Calls : WF_vars(pc[c] # "idle" /\ CallNext(c))
  /\ \A s \in Slots : WF_vars(AttemptNext(s))
  /\ WF_vars(WorkflowNext)
=============================================================================
