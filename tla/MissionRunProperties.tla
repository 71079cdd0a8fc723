------------------------ MODULE MissionRunProperties ------------------------
(* What must hold of a mission, and the variants of the code's definitions    *)
(* that break it.                                                             *)
EXTENDS MissionRun, FiniteSets

-----------------------------------------------------------------------------
(* Type invariant *)

\* The row, the copies and the places of calls, attempts and workflow keep their types.
TypeOK ==
  /\ row \in Missions
  /\ approval \in [Tasks -> ApprovalStates]
  /\ pc \in [Calls -> CallPoints]
  /\ op \in [Calls -> AllOps]
  /\ held \in [Calls -> Missions]
  /\ tries \in [Calls -> Nat]
  /\ at \in [Slots -> AttemptPoints]
  /\ copy \in [Slots -> Missions]
  /\ task \in [Slots -> Tasks \cup {NoTask}]
  /\ result \in [Slots -> {"none"} \cup Outcomes \cup MissionStatuses]
  /\ saves \in [Slots -> Nat]
  /\ wf \in WorkflowPoints
  /\ control \in Controls
  /\ slot \in Slots \cup {NoSlot}
  /\ attempt \in 0..MaxAttempts

-----------------------------------------------------------------------------
(* Safety *)

Begun(m, t) == m.task[t] \in TaskStatuses \ {"ABSENT", "PENDING"}

\* A mission that was planned and is COMPLETED has every task completed, and no task
\* was begun before the tasks it depends on were completed, whatever replans, retries
\* and stale copies were saved in between (evaluateCompletion, startTask, replan).
OrderKept(m) ==
  /\ m.status = "COMPLETED" /\ m.plan > 0 => \A t \in Tasks : m.task[t] = "COMPLETED"
  /\ \A t \in Tasks : Begun(m, t) => \A d \in DependsOn[t] : m.task[d] = "COMPLETED"
CompletedInOrder == OrderKept(row)

\* A mission is FAILED only when one of its tasks failed: the engine's "no runnable
\* tasks remain" is not reached by a mission whose tasks could all be done.
FailedMeansTaskFailed ==
  row.status = "FAILED" => \E t \in Tasks : row.task[t] = "FAILED"

\* A workflow that returned leaves a mission that is over: nobody would continue it.
EndedMeansTerminal ==
  wf = "ended" => row.status \in {"COMPLETED", "FAILED", "CANCELLED", "ARCHIVED"}

-----------------------------------------------------------------------------
(* Action properties *)

\* The mission as its owner sees it.
Life == INSTANCE MissionLife
  WITH status <- row.status, planned <- row.plan > 0,
       done <- {t \in Tasks : row.task[t] = "COMPLETED"}

\* The rows saved by racing calls and activity attempts are steps of a mission's life:
\* an end is final, a pause is left only to go on or be cancelled, done stays done.
LifeSpec == Life!Spec

\* No task is started in a mission that is not executing, however late the copy that
\* starts it was loaded: a pause or cancel that was saved holds back every start.
TasksStartWhileExecuting ==
  [][\A t \in Tasks : row.task[t] # "RUNNING" /\ row'.task[t] = "RUNNING"
       => row.status = "EXECUTING" /\ row'.status = "EXECUTING"]_vars

-----------------------------------------------------------------------------
(* Liveness *)

Settled == row.status \in {"COMPLETED", "FAILED", "CANCELLED", "BLOCKED", "PAUSED"}

\* A mission that was started reaches an end or stops where a person must act.
StartedMissionSettles == (row.status = "PLANNING") ~> Settled

-----------------------------------------------------------------------------
(* The inductive invariant behind CompletedInOrder and LifeSpec *)

\* What is true of the row, and so of every copy made from it.
Sound(m) ==
  /\ OrderKept(m)
  /\ m.status \in {"APPROVED", "PLANNING", "EXECUTING", "PAUSED", "BLOCKED",
                   "COMPLETED", "FAILED", "CANCELLED"}
  /\ m.plan = 0 => m.status # "BLOCKED" /\ \A t \in Tasks : m.task[t] = "ABSENT"
  /\ m.plan > 0 => \A t \in Tasks : m.task[t] # "ABSENT"

AllSound == /\ Sound(row)
            /\ \A c \in Calls : Sound(held[c])
            /\ \A s \in Slots : Sound(copy[s])

\* Copies were loaded at versions the row had.
CopiesTrail == /\ \A c \in Calls : held[c].version <= row.version
               /\ \A s \in Slots : copy[s].version <= row.version

Done(m) == {t \in Tasks : m.task[t] = "COMPLETED"}

\* n may follow m in a mission's life.
LifeStep(m, n) ==
  LET Same == (n.plan > 0) = (m.plan > 0) /\ Done(n) = Done(m)
      Turns(from, to) == m.status \in from /\ n.status = to /\ Same
  IN
  \/ n.status = m.status /\ Same
  \/ /\ m.plan > 0 /\ n.plan > 0 /\ n.status = m.status /\ m.status # "COMPLETED"
     /\ \E t \in Tasks \ Done(m) : DependsOn[t] \subseteq Done(m) /\ Done(n) = Done(m) \cup {t}
  \/ /\ m.status \notin {"COMPLETED", "FAILED", "CANCELLED"}
     /\ n.status = m.status /\ n.plan > 0 /\ Done(n) = Done(m)
  \/ /\ m.status \in {"PLANNING", "PAUSED"} /\ m.plan = 0
     /\ n.status = "EXECUTING" /\ n.plan > 0 /\ Done(n) = Done(m)
  \/ Turns({"APPROVED"}, "PLANNING")
  \/ Turns({"PLANNING", "EXECUTING"}, "PAUSED")
  \/ Turns({"PAUSED"}, "EXECUTING")
  \/ Turns({"EXECUTING"}, "BLOCKED")
  \/ Turns({"PLANNING", "EXECUTING", "PAUSED"}, "CANCELLED")
  \/ Turns({"EXECUTING"}, IF m.plan > 0 => Done(m) = Tasks THEN "COMPLETED" ELSE "FAILED")

\* A copy about to be saved may follow the row, unless the row moved on; a copy that
\* still waits for its approval request has not changed the mission's life yet, and the
\* copy of a task that was not run is the row.
CopiesFollow ==
  /\ \A c \in Calls : pc[c] = "save" /\ Fresh(held[c]) => LifeStep(row, held[c])
  /\ \A s \in Slots : at[s] \in SavePoints /\ Fresh(copy[s]) => LifeStep(row, copy[s])
  /\ \A s \in Slots : at[s] = "ask" /\ Fresh(copy[s])
       => /\ copy[s].status = row.status /\ copy[s].plan = row.plan
          /\ Done(copy[s]) = Done(row)
  /\ \A s \in Slots : at[s] = "recordSave" /\ result[s] = "PAUSED" /\ Fresh(copy[s])
       => copy[s] = row

\* The points at which an attempt works on a task.  A start does not signal.
OnTask(s) == at[s] \in {"startSave", "agent", "record", "ask", "recordSave"}
WorkKnown ==
  /\ \A c \in Calls : pc[c] = "signal" => op[c] # "start"
  /\ \A s \in Slots : /\ OnTask(s) => task[s] \in Tasks
                      /\ at[s] \in {"record", "recordSave"} => result[s] \in Outcomes
                      /\ at[s] = "ask" => result[s] = "AWAITING_APPROVAL"

RunInvariant == TypeOK /\ AllSound /\ CopiesTrail /\ CopiesFollow /\ WorkKnown
=============================================================================
