---------------------------- MODULE MissionRules ----------------------------
(* The Mission aggregate: its status tables, and what each of its operations  *)
(* does to a copy of a mission.  A copy m is a record                         *)
(*   [status, plan (its version), task (status by task), version (as loaded)].*)
(* The domain events an operation appends are one step of the version, taken  *)
(* when the copy is saved.                                                    *)
EXTENDS Naturals

CONSTANTS Tasks,       \* the tasks every plan of the planner contains
          DependsOn    \* DependsOn[t]: the tasks that must be completed before t

ASSUME TasksAssumption == Tasks # {}    \* every plan has a task
ASSUME DependsOnAssumption == DependsOn \in [Tasks -> SUBSET Tasks]

MissionTransitions ==
  [ DRAFT             |-> {"APPROVED", "CANCELLED"},
    APPROVED          |-> {"SCHEDULED", "PLANNING"},
    SCHEDULED         |-> {"PLANNING"},
    PLANNING          |-> {"EXECUTING", "PAUSED", "CANCELLED"},
    EXECUTING         |-> {"PAUSED", "AWAITING_APPROVAL", "BLOCKED",
                           "COMPLETED", "FAILED", "CANCELLED"},
    PAUSED            |-> {"EXECUTING", "CANCELLED"},
    AWAITING_APPROVAL |-> {"EXECUTING", "CANCELLED"},
    BLOCKED           |-> {"EXECUTING", "FAILED"},
    COMPLETED         |-> {"ARCHIVED"},
    FAILED            |-> {"ARCHIVED"},
    CANCELLED         |-> {"ARCHIVED"},
    ARCHIVED          |-> {} ]

MissionStatuses == DOMAIN MissionTransitions

\* ABSENT: the mission has no such task yet, and findTask answers undefined.
TaskTransitions ==
  [ ABSENT            |-> {},
    PENDING           |-> {"RUNNING", "CANCELLED"},
    RUNNING           |-> {"AWAITING_APPROVAL", "PAUSED", "COMPLETED",
                           "FAILED", "TIMED_OUT"},
    AWAITING_APPROVAL |-> {"RUNNING", "CANCELLED"},
    PAUSED            |-> {"RUNNING", "CANCELLED"},
    COMPLETED         |-> {},
    FAILED            |-> {},
    CANCELLED         |-> {},
    TIMED_OUT         |-> {} ]

TaskStatuses == DOMAIN TaskTransitions

TerminalStatuses == {"COMPLETED", "FAILED", "CANCELLED", "ARCHIVED"}

Missions == [status: MissionStatuses, plan: Nat,
             task: [Tasks -> TaskStatuses], version: Nat]

NewMission == [status |-> "APPROVED", plan |-> 0,
               task |-> [t \in Tasks |-> "ABSENT"], version |-> 0]

-----------------------------------------------------------------------------
(* start, pause, resume, cancel, block: transitionTo *)
CanMove(m, s) == s \in MissionTransitions[m.status]
MovedTo(m, s) == [m EXCEPT !.status = s]

CanMark(m, t, s) == s \in TaskTransitions[m.task[t]]
Marked(m, t, s)  == [m EXCEPT !.task[t] = s]

\* A mission without tasks has completed them all.
AllDone(m)  == \A t \in Tasks : m.task[t] \in {"ABSENT", "COMPLETED"}
\* Variant: a dependency counts as soon as it was begun.
Ready_Begun(m, t) == \A d \in DependsOn[t] : m.task[d] \notin {"ABSENT", "PENDING"}
Ready(m, t) == \A d \in DependsOn[t] : m.task[d] = "COMPLETED"

(* addTask for every task of the plan, then planValid. *)
CanTakePlan(m, v)   == /\ m.status \notin TerminalStatuses
                       /\ \A t \in Tasks : m.task[t] = "ABSENT"
                       /\ v > 0
                       /\ CanMove(m, "EXECUTING")
PlanTaken(m, v)     == [m EXCEPT !.status = "EXECUTING", !.plan = v,
                                 !.task = [t \in Tasks |-> "PENDING"]]

(* replan: a newer plan, which keeps the completed tasks it has in common. *)
CanReplan(m, v) == m.status \notin TerminalStatuses /\ v > m.plan
Replanned(m, v) ==
  [m EXCEPT !.plan = v,
            !.task = [t \in Tasks |-> IF @[t] = "COMPLETED" THEN "COMPLETED"
                                                            ELSE "PENDING"]]

\* Variant: startTask does not look at the mission's status.
CanStartTask_AnyStatus(m, t) == Ready(m, t) /\ CanMark(m, t, "RUNNING")
CanStartTask(m, t) == /\ m.status = "EXECUTING"
                      /\ Ready(m, t)
                      /\ CanMark(m, t, "RUNNING")
TaskStarted(m, t)  == Marked(m, t, "RUNNING")

(* selectNextTask takes the first of these; rows come back in any order. *)
\* Variant: only tasks without dependencies are found.
Runnable_Roots(m) == {t \in Tasks : m.task[t] = "PENDING" /\ DependsOn[t] = {}}
Runnable(m) == {t \in Tasks : m.task[t] = "PENDING" /\ Ready(m, t)}

(* evaluateCompletion: complete, or fail with tasks left. *)
CanClose(m) == m.status = "EXECUTING"
Closed(m)   == MovedTo(m, IF AllDone(m) THEN "COMPLETED" ELSE "FAILED")

(* handleTaskResult: an agent's answer, applied to a copy of the mission. *)
\* TIMED_OUT and CANCELLED are handled as FAILED; PAUSED is runTask's own answer.
AgentAnswers == {"COMPLETED", "AWAITING_APPROVAL", "FAILED"}
Outcomes     == AgentAnswers \cup {"PAUSED"}

CanRecord(m, t, r) ==
  CASE r = "COMPLETED"         -> CanMark(m, t, "COMPLETED")
    [] r = "AWAITING_APPROVAL" -> CanMark(m, t, r) /\ CanMove(m, "PAUSED")
    [] r = "FAILED"            -> CanMark(m, t, "FAILED")
    [] OTHER                   -> TRUE
Recorded(m, t, r) ==
  CASE r = "COMPLETED"         -> Marked(m, t, "COMPLETED")
    [] r = "AWAITING_APPROVAL" -> MovedTo(Marked(m, t, r), "PAUSED")
    [] r = "FAILED"            ->
         LET failed == Marked(m, t, "FAILED") IN
         IF m.status = "EXECUTING" THEN MovedTo(failed, "BLOCKED") ELSE failed
    [] OTHER                   -> m
=============================================================================
