---------------------------- MODULE MissionProof ----------------------------
(* Proofs about MissionRun, for every set of tasks, dependencies, calls and   *)
(* attempts, and for every choice of operations, answers and faults: the rows *)
(* are a mission's life, and tasks are done in order.                         *)
EXTENDS MissionRunProperties, TLAPS

-----------------------------------------------------------------------------
(* What the operations do to a copy of a mission                             *)

\* The statuses of the two tables.
LEMMA Tables ==
  /\ MissionStatuses = {"DRAFT", "APPROVED", "SCHEDULED", "PLANNING", "EXECUTING",
       "PAUSED", "AWAITING_APPROVAL", "BLOCKED", "COMPLETED", "FAILED", "CANCELLED",
       "ARCHIVED"}
  /\ TaskStatuses = {"ABSENT", "PENDING", "RUNNING", "AWAITING_APPROVAL", "PAUSED",
       "COMPLETED", "FAILED", "CANCELLED", "TIMED_OUT"}
  BY DEF MissionStatuses, MissionTransitions, TaskStatuses, TaskTransitions

\* The fields of a copy whose status moved, of one whose task moved, of a saved one.
LEMMA MovedFields ==
  ASSUME NEW m \in Missions, NEW st \in MissionStatuses
  PROVE  /\ MovedTo(m, st) \in Missions
         /\ MovedTo(m, st).status = st /\ MovedTo(m, st).plan = m.plan
         /\ MovedTo(m, st).task = m.task /\ MovedTo(m, st).version = m.version
  BY DEF MovedTo, Missions

LEMMA MarkedFields ==
  ASSUME NEW m \in Missions, NEW t \in Tasks, NEW st \in TaskStatuses
  PROVE  /\ Marked(m, t, st) \in Missions
         /\ Marked(m, t, st).status = m.status /\ Marked(m, t, st).plan = m.plan
         /\ Marked(m, t, st).task = [m.task EXCEPT ![t] = st]
         /\ Marked(m, t, st).version = m.version
  BY DEF Marked, Missions

LEMMA CommittedFields ==
  ASSUME NEW m \in Missions
  PROVE  /\ Committed(m) \in Missions
         /\ Committed(m).status = m.status /\ Committed(m).plan = m.plan
         /\ Committed(m).task = m.task /\ Committed(m).version = m.version + 1
  BY DEF Committed, Missions

\* Soundness and the mission's life depend on status, plan and tasks alone.
LEMMA SameSound ==
  ASSUME NEW m, NEW n, m.status = n.status, m.plan = n.plan, m.task = n.task, Sound(m)
  PROVE  Sound(n)
  BY DEF Sound, OrderKept, Begun

LEMMA SameLife ==
  ASSUME NEW r, NEW m, NEW n, m.status = n.status, m.plan = n.plan, m.task = n.task,
         LifeStep(r, m)
  PROVE  LifeStep(r, n)
  <1>1. Done(m) = Done(n)  BY DEF Done
  <1> QED  BY <1>1 DEF LifeStep

\* A service call moves the mission's status and nothing else.
LEMMA TurnSound ==
  ASSUME NEW m \in Missions, Sound(m), NEW o \in AllOps \ {"replan"}, CanMove(m, Target[o]),
         Admissible(o, m), ~AlreadyThere(o, m)
  PROVE  /\ MovedTo(m, Target[o]) \in Missions /\ Sound(MovedTo(m, Target[o]))
         /\ LifeStep(m, MovedTo(m, Target[o]))
         /\ MovedTo(m, Target[o]).version = m.version
  <1> DEFINE n == MovedTo(m, Target[o])
  <1>1. Target[o] \in {"PLANNING", "PAUSED", "EXECUTING", "CANCELLED"}
    BY DEF AllOps, Target
  <1>2. /\ n \in Missions /\ n.status = Target[o] /\ n.plan = m.plan
        /\ n.task = m.task /\ n.version = m.version
    BY <1>1, MovedFields, Tables
  <1>3. Done(n) = Done(m)  BY <1>2 DEF Done
  <1>4. Sound(n)
    <2> HIDE DEF n
    <2> QED  BY <1>1, <1>2 DEF Sound, OrderKept, Begun
  <1>5. LifeStep(m, n)
    <2> HIDE DEF n
    <2>1. CASE o = "start"
      BY <2>1, <1>2, <1>3 DEF Target, CanMove, MissionTransitions, Sound, LifeStep
    <2>2. CASE o = "pause"
      BY <2>2, <1>2, <1>3 DEF Target, Admissible, LifeStep
    <2>3. CASE o = "resume"
      BY <2>3, <1>2, <1>3 DEF Target, Admissible, LifeStep
    <2>4. CASE o = "cancel"
      BY <2>4, <1>2, <1>3 DEF Target, CanMove, MissionTransitions, Sound, LifeStep
    <2> QED  BY <2>1, <2>2, <2>3, <2>4 DEF AllOps
  <1> QED  BY <1>2, <1>4, <1>5

\* The steps of the engine.
LEMMA PlanSound ==
  ASSUME NEW m \in Missions, Sound(m), NEW v \in Nat, CanTakePlan(m, v)
  PROVE  /\ PlanTaken(m, v) \in Missions /\ Sound(PlanTaken(m, v))
         /\ LifeStep(m, PlanTaken(m, v))
         /\ PlanTaken(m, v).version = m.version /\ PlanTaken(m, v).plan = v
  <1> DEFINE n == PlanTaken(m, v)
  <1>1. /\ n \in Missions /\ n.status = "EXECUTING" /\ n.plan = v
        /\ n.task = [t \in Tasks |-> "PENDING"] /\ n.version = m.version
    BY Tables DEF PlanTaken, Missions
  <1>2. v > 0 /\ m.plan \in Nat /\ \A t \in Tasks : m.task[t] = "ABSENT"
    BY DEF CanTakePlan, Missions
  <1>3. m.plan = 0  BY <1>2, TasksAssumption DEF Sound
  <1>4. m.status \in {"PLANNING", "PAUSED"}
    BY <1>3 DEF CanTakePlan, CanMove, MissionTransitions, Sound
  <1> HIDE DEF n
  <1>5. Done(n) = {} /\ Done(m) = {}  BY <1>1, <1>2 DEF Done
  <1>6. Sound(n)  BY <1>1, <1>2 DEF Sound, OrderKept, Begun
  <1>7. LifeStep(m, n)  BY <1>1, <1>2, <1>3, <1>4, <1>5 DEF LifeStep
  <1> QED  BY <1>1, <1>6, <1>7 DEF n

\* replan keeps the completed tasks and what is known of them.
LEMMA ReplanSound ==
  ASSUME NEW m \in Missions, Sound(m), NEW v \in Nat, CanReplan(m, v)
  PROVE  /\ Replanned(m, v) \in Missions /\ Sound(Replanned(m, v))
         /\ LifeStep(m, Replanned(m, v))
         /\ Replanned(m, v).version = m.version /\ Replanned(m, v).plan = v
  <1> DEFINE n == Replanned(m, v)
  <1>1. /\ n \in Missions /\ n.status = m.status /\ n.plan = v /\ n.version = m.version
        /\ n.task = [t \in Tasks |-> IF m.task[t] = "COMPLETED" THEN "COMPLETED"
                                                                ELSE "PENDING"]
    BY Tables DEF Replanned, Missions
  <1>2. v > 0 /\ m.status \notin TerminalStatuses
    BY DEF CanReplan, Missions
  <1>3. \A t \in Tasks : /\ n.task[t] \in {"COMPLETED", "PENDING"}
                         /\ n.task[t] = "COMPLETED" <=> m.task[t] = "COMPLETED"
    BY <1>1
  <1> HIDE DEF n
  <1>4. Done(n) = Done(m)  BY <1>3 DEF Done
  <1>5. \A t \in Tasks : DependsOn[t] \subseteq Tasks  BY DependsOnAssumption
  <1>6. \A t \in Tasks : Begun(n, t) => Begun(m, t)
    BY <1>3 DEF Begun, TaskStatuses, TaskTransitions
  <1>7. OrderKept(n)
    BY <1>1, <1>2, <1>3, <1>5, <1>6 DEF OrderKept, Sound, TerminalStatuses
  <1>8. Sound(n)
    BY <1>1, <1>2, <1>3, <1>7 DEF Sound
  <1>9. LifeStep(m, n)
    BY <1>1, <1>2, <1>4 DEF LifeStep, TerminalStatuses
  <1> QED  BY <1>1, <1>8, <1>9 DEF n

\* A task that starts, waits for approval or fails leaves the completed tasks alone.
LEMMA MarkSound ==
  ASSUME NEW m \in Missions, Sound(m), NEW t \in Tasks, NEW st \in TaskStatuses,
         st \in {"RUNNING", "AWAITING_APPROVAL", "FAILED"}, CanMark(m, t, st),
         st = "RUNNING" => Ready(m, t)
  PROVE  /\ Marked(m, t, st) \in Missions /\ Sound(Marked(m, t, st))
         /\ Done(Marked(m, t, st)) = Done(m)
         /\ m.plan > 0 /\ m.status # "COMPLETED"
  <1> DEFINE n == Marked(m, t, st)
  <1>1. /\ n \in Missions /\ n.status = m.status /\ n.plan = m.plan
        /\ n.task = [m.task EXCEPT ![t] = st] /\ n.version = m.version
    BY MarkedFields
  <1>2. /\ m.task \in [Tasks -> TaskStatuses] /\ m.plan \in Nat  BY DEF Missions
  <1>3. m.task[t] \notin {"ABSENT", "COMPLETED"}
    BY DEF CanMark, TaskTransitions
  <1>4. m.plan > 0 /\ m.status # "COMPLETED"
    BY <1>2, <1>3 DEF Sound, OrderKept
  <1>5. m.task[t] = "PENDING" => st = "RUNNING"
    BY DEF CanMark, TaskTransitions
  <1>6. n.task[t] = st /\ \A u \in Tasks \ {t} : n.task[u] = m.task[u]
    BY <1>1, <1>2
  <1>7. \A u \in Tasks : n.task[u] = "COMPLETED" <=> m.task[u] = "COMPLETED"
    BY <1>3, <1>6
  <1> HIDE DEF n
  <1>8. Done(n) = Done(m)  BY <1>7 DEF Done
  <1>9. \A u \in Tasks : DependsOn[u] \subseteq Tasks  BY DependsOnAssumption
  <1>10. \A u \in Tasks : Begun(n, u) => \A d \in DependsOn[u] : n.task[d] = "COMPLETED"
    <2> SUFFICES ASSUME NEW u \in Tasks, Begun(n, u)
                 PROVE  \A d \in DependsOn[u] : n.task[d] = "COMPLETED"
      OBVIOUS
    <2>1. \A d \in DependsOn[u] : m.task[d] = "COMPLETED"
      <3>1. CASE u # t  BY <3>1, <1>6 DEF Begun, Sound, OrderKept
      <3>2. CASE u = t /\ m.task[t] = "PENDING"  BY <3>2, <1>5 DEF Ready
      <3>3. CASE u = t /\ m.task[t] # "PENDING"
        BY <3>3, <1>2, <1>3 DEF Begun, Sound, OrderKept
      <3> QED  BY <3>1, <3>2, <3>3
    <2> QED  BY <2>1, <1>7, <1>9
  <1>11. Sound(n)
    BY <1>1, <1>4, <1>6, <1>10 DEF Sound, OrderKept
  <1> QED  BY <1>1, <1>4, <1>8, <1>11 DEF n

\* A task completes while its mission is not COMPLETED, after its dependencies.
LEMMA CompleteSound ==
  ASSUME NEW m \in Missions, Sound(m), NEW t \in Tasks, CanMark(m, t, "COMPLETED")
  PROVE  LET n == Marked(m, t, "COMPLETED") IN n \in Missions /\ Sound(n) /\ LifeStep(m, n)
  <1> DEFINE n == Marked(m, t, "COMPLETED")
  <1>1. /\ n \in Missions /\ n.status = m.status /\ n.plan = m.plan
        /\ n.task = [m.task EXCEPT ![t] = "COMPLETED"]
    BY MarkedFields, Tables
  <1>2. /\ m.task \in [Tasks -> TaskStatuses] /\ m.plan \in Nat  BY DEF Missions
  <1>3. m.task[t] = "RUNNING"
    BY <1>2 DEF CanMark, TaskTransitions, TaskStatuses
  <1>4. m.plan > 0 /\ m.status # "COMPLETED"
    BY <1>2, <1>3 DEF Sound, OrderKept
  <1>5. n.task[t] = "COMPLETED" /\ \A u \in Tasks \ {t} : n.task[u] = m.task[u]
    BY <1>1, <1>2
  <1> HIDE DEF n
  <1>6. \A u \in Tasks : DependsOn[u] \subseteq Tasks  BY DependsOnAssumption
  <1>7. Begun(m, t)  BY <1>3, Tables DEF Begun
  <1>8. \A d \in DependsOn[t] : m.task[d] = "COMPLETED"
    BY <1>7 DEF Sound, OrderKept
  <1>9. \A u \in Tasks : Begun(n, u) => Begun(m, u)
    BY <1>5, <1>7 DEF Begun
  <1>10. \A u \in Tasks : m.task[u] = "COMPLETED" => n.task[u] = "COMPLETED"
    BY <1>5
  <1>11. \A u \in Tasks : Begun(n, u) => \A d \in DependsOn[u] : n.task[d] = "COMPLETED"
    BY <1>6, <1>9, <1>10 DEF Sound, OrderKept
  <1>12. Sound(n)
    BY <1>1, <1>4, <1>5, <1>11 DEF Sound, OrderKept
  <1>13. Done(n) = Done(m) \cup {t}  BY <1>5 DEF Done
  <1>14. t \in Tasks \ Done(m)  BY <1>3 DEF Done
  <1>15. DependsOn[t] \subseteq Done(m)  BY <1>6, <1>8 DEF Done
  <1>16. LifeStep(m, n)
    BY <1>1, <1>4, <1>13, <1>14, <1>15 DEF LifeStep
  <1> QED  BY <1>1, <1>12, <1>16 DEF n

\* evaluateCompletion, on an executing mission.
LEMMA CloseSound ==
  ASSUME NEW m \in Missions, Sound(m), CanClose(m)
  PROVE  Closed(m) \in Missions /\ Sound(Closed(m)) /\ LifeStep(m, Closed(m))
  <1> DEFINE st == IF AllDone(m) THEN "COMPLETED" ELSE "FAILED"
             n == MovedTo(m, st)
  <1>1. /\ n \in Missions /\ n.status = st /\ n.plan = m.plan /\ n.task = m.task
    BY Tables, MovedFields
  <1>2. m.status = "EXECUTING" /\ m.plan \in Nat  BY DEF CanClose, Missions
  <1>3. AllDone(m) <=> (m.plan > 0 => Done(m) = Tasks)
    BY <1>2 DEF AllDone, Done, Sound
  <1> HIDE DEF n
  <1>4. Done(n) = Done(m)  BY <1>1 DEF Done
  <1>5. Sound(n)
    BY <1>1, <1>2 DEF Sound, OrderKept, Begun, AllDone
  <1>6. LifeStep(m, n)
    BY <1>1, <1>2, <1>3, <1>4 DEF LifeStep
  <1> QED  BY <1>1, <1>5, <1>6 DEF n, Closed

\* A pause of an executing mission, and a task that failed in it.
LEMMA HoldSound ==
  ASSUME NEW m \in Missions, Sound(m), NEW st \in {"PAUSED", "BLOCKED"}, CanMove(m, st),
         st = "BLOCKED" => m.plan > 0
  PROVE  MovedTo(m, st) \in Missions /\ Sound(MovedTo(m, st)) /\ LifeStep(m, MovedTo(m, st))
  <1> DEFINE n == MovedTo(m, st)
  <1>1. /\ n \in Missions /\ n.status = st /\ n.plan = m.plan /\ n.task = m.task
    BY Tables, MovedFields
  <1>2. m.status \in {"PLANNING", "EXECUTING"} /\ (st = "BLOCKED" => m.status = "EXECUTING")
    BY DEF CanMove, MissionTransitions, Sound
  <1> HIDE DEF n
  <1>3. Done(n) = Done(m)  BY <1>1 DEF Done
  <1>4. Sound(n)
    BY <1>1, <1>2 DEF Sound, OrderKept, Begun, Missions
  <1>5. LifeStep(m, n)
    BY <1>1, <1>2, <1>3 DEF LifeStep
  <1> QED  BY <1>1, <1>4, <1>5 DEF n

\* A step of one field does not matter to what may follow.
LEMMA LifeAfterSame ==
  ASSUME NEW k, NEW m, NEW n, k.status = m.status, k.plan = m.plan, Done(k) = Done(m),
         LifeStep(m, n)
  PROVE  LifeStep(k, n)
  BY DEF LifeStep

\* A copy with the same status, plan presence and completed tasks may follow.
LEMMA LifeSelf ==
  ASSUME NEW m, NEW n, n.status = m.status, n.plan = m.plan, Done(n) = Done(m)
  PROVE  LifeStep(m, n)
  BY DEF LifeStep

\* handleTaskResult, for each answer of the agent.
LEMMA RecordSound ==
  ASSUME NEW m \in Missions, Sound(m), NEW t \in Tasks, NEW r \in Outcomes,
         CanRecord(m, t, r)
  PROVE  /\ Recorded(m, t, r) \in Missions /\ Sound(Recorded(m, t, r))
         /\ LifeStep(m, Recorded(m, t, r))
         /\ Recorded(m, t, r).version = m.version
  <1>0. r \in {"COMPLETED", "AWAITING_APPROVAL", "FAILED", "PAUSED"}
    BY DEF Outcomes, AgentAnswers
  <1>1. CASE r = "COMPLETED"
    BY <1>1, CompleteSound, MarkedFields, Tables DEF CanRecord, Recorded
  <1>2. CASE r = "PAUSED"
    BY <1>2, LifeSelf DEF Recorded
  <1>3. CASE r = "AWAITING_APPROVAL"
    <2> DEFINE k == Marked(m, t, r)
    <2>1. /\ k \in Missions /\ Sound(k) /\ Done(k) = Done(m)
          /\ k.status = m.status /\ k.plan = m.plan /\ k.version = m.version
      BY <1>3, MarkSound, MarkedFields, Tables DEF CanRecord
    <2> HIDE DEF k
    <2>2. CanMove(k, "PAUSED")  BY <1>3, <2>1 DEF CanRecord, CanMove
    <2>3. /\ MovedTo(k, "PAUSED") \in Missions /\ Sound(MovedTo(k, "PAUSED"))
          /\ LifeStep(k, MovedTo(k, "PAUSED"))
      BY <2>1, <2>2, HoldSound
    <2>4. LifeStep(m, MovedTo(k, "PAUSED"))
      BY <2>1, <2>3, LifeAfterSame
    <2>5. MovedTo(k, "PAUSED").version = m.version  BY <2>1, MovedFields, Tables
    <2>6. Recorded(m, t, r) = MovedTo(k, "PAUSED")  BY <1>3 DEF Recorded, k
    <2> QED  BY <2>3, <2>4, <2>5, <2>6
  <1>4. CASE r = "FAILED"
    <2> DEFINE k == Marked(m, t, "FAILED")
    <2>1. /\ k \in Missions /\ Sound(k) /\ Done(k) = Done(m) /\ m.plan > 0
          /\ k.status = m.status /\ k.plan = m.plan /\ k.version = m.version
      BY <1>4, MarkSound, MarkedFields, Tables DEF CanRecord
    <2>2. Recorded(m, t, r) = IF m.status = "EXECUTING" THEN MovedTo(k, "BLOCKED") ELSE k
      BY <1>4 DEF Recorded
    <2> HIDE DEF k
    <2>3. CASE m.status = "EXECUTING"
      <3>1. CanMove(k, "BLOCKED")  BY <2>1, <2>3 DEF CanMove, MissionTransitions
      <3>2. /\ MovedTo(k, "BLOCKED") \in Missions /\ Sound(MovedTo(k, "BLOCKED"))
            /\ LifeStep(k, MovedTo(k, "BLOCKED"))
        BY <2>1, <3>1, HoldSound
      <3>3. LifeStep(m, MovedTo(k, "BLOCKED"))  BY <2>1, <3>2, LifeAfterSame
      <3>4. MovedTo(k, "BLOCKED").version = m.version  BY <2>1, MovedFields, Tables
      <3> QED  BY <2>2, <2>3, <3>2, <3>3, <3>4
    <2>4. CASE m.status # "EXECUTING"
      BY <2>1, <2>2, <2>4, LifeSelf
    <2> QED  BY <2>3, <2>4
  <1> QED  BY <1>0, <1>1, <1>2, <1>3, <1>4


-----------------------------------------------------------------------------
(* The invariant                                                             *)

Results    == {"none"} \cup Outcomes \cup MissionStatuses
WorkflowOK == /\ wf \in WorkflowPoints /\ control \in Controls
              /\ slot \in Slots \cup {NoSlot} /\ attempt \in 0..MaxAttempts

\* The row as it was, or a later version of it.
RowMoves == /\ row' \in Missions /\ Sound(row')
            /\ row' = row \/ row'.version > row.version

\* m may be the copy that an attempt holds at p, for task t and with result r.
Fits(p, m, t, r) ==
  /\ p \in AttemptPoints /\ m \in Missions /\ t \in Tasks \cup {NoTask} /\ r \in Results
  /\ Sound(m) /\ m.version <= row'.version
  /\ p \in {"startSave", "agent", "record", "ask", "recordSave"} => t \in Tasks
  /\ p \in {"record", "recordSave"} => r \in Outcomes
  /\ p = "ask" => r = "AWAITING_APPROVAL"
  /\ m.version = row'.version =>
       /\ p \in SavePoints => LifeStep(row', m)
       /\ p = "ask" => /\ m.status = row'.status /\ m.plan = row'.plan
                       /\ Done(m) = Done(row')
       /\ p = "recordSave" /\ r = "PAUSED" => m = row'

\* An attempt's move keeps the invariant when what it holds then fits.
LEMMA AttemptKeeps ==
  ASSUME RunInvariant, NEW s \in Slots, NEW p, NEW m, NEW t, NEW r,
         Step(s, p, m, t, r), saves' \in [Slots -> Nat], RowMoves, Fits(p, m, t, r),
         UNCHANGED callVars, approval' \in [Tasks -> ApprovalStates], WorkflowOK'
  PROVE  RunInvariant'
  <1> USE DEF RunInvariant, RowMoves, Fits
  <1>1. /\ at' \in [Slots -> AttemptPoints] /\ copy' \in [Slots -> Missions]
        /\ task' \in [Slots -> Tasks \cup {NoTask}] /\ result' \in [Slots -> Results]
        /\ at'[s] = p /\ copy'[s] = m /\ task'[s] = t /\ result'[s] = r
        /\ \A u \in Slots \ {s} : /\ at'[u] = at[u] /\ copy'[u] = copy[u]
                                  /\ task'[u] = task[u] /\ result'[u] = result[u]
    BY DEF Step, TypeOK, Results
  <1>2. pc' = pc /\ op' = op /\ held' = held /\ tries' = tries  BY DEF callVars
  <1>3. /\ row.version \in Nat /\ row'.version \in Nat /\ row.version <= row'.version
        /\ \A c \in Calls : held[c].version \in Nat
        /\ \A u \in Slots : copy[u].version \in Nat
    BY DEF TypeOK, Missions
  <1>4. TypeOK'  BY <1>1, <1>2 DEF TypeOK, WorkflowOK, Results
  <1>5. AllSound'  BY <1>1, <1>2 DEF AllSound
  <1>6. CopiesTrail'  BY <1>1, <1>2, <1>3 DEF CopiesTrail
  <1>7. WorkKnown'  BY <1>1, <1>2 DEF WorkKnown, OnTask
  <1>8. CopiesFollow'
    <2>1. ASSUME NEW c \in Calls, pc'[c] = "save", held'[c].version = row'.version
          PROVE  LifeStep(row', held'[c])
      <3>1. row' = row  BY <2>1, <1>2, <1>3 DEF CopiesTrail
      <3> QED  BY <3>1, <2>1, <1>2 DEF CopiesFollow, Fresh
    <2>2. ASSUME NEW u \in Slots, copy'[u].version = row'.version
          PROVE  /\ at'[u] \in SavePoints => LifeStep(row', copy'[u])
                 /\ at'[u] = "ask" => /\ copy'[u].status = row'.status
                                      /\ copy'[u].plan = row'.plan
                                      /\ Done(copy'[u]) = Done(row')
                 /\ at'[u] = "recordSave" /\ result'[u] = "PAUSED" => copy'[u] = row'
      <3>1. CASE u = s  BY <3>1, <2>2, <1>1
      <3>2. CASE u # s
        <4>1. row' = row  BY <3>2, <2>2, <1>1, <1>3 DEF CopiesTrail
        <4> QED  BY <4>1, <3>2, <2>2, <1>1 DEF CopiesFollow, Fresh
      <3> QED  BY <3>1, <3>2
    <2> QED  BY <2>1, <2>2 DEF CopiesFollow, Fresh
  <1> QED  BY <1>4, <1>5, <1>6, <1>7, <1>8

\* So does a call's move, when it holds no copy that might go wrong.
LEMMA CallKeeps ==
  ASSUME RunInvariant, NEW c \in Calls, NEW m \in Missions,
         pc' \in [Calls -> CallPoints], \A d \in Calls \ {c} : pc'[d] = pc[d],
         op' \in [Calls -> AllOps], \A d \in Calls \ {c} : op'[d] = op[d],
         pc'[c] = "signal" => op'[c] # "start", tries' \in [Calls -> Nat],
         held' = [held EXCEPT ![c] = m],
         Sound(m), m.version <= row'.version, RowMoves,
         pc'[c] = "save" /\ m.version = row'.version => LifeStep(row', m),
         UNCHANGED <<approval, actVars>>, WorkflowOK'
  PROVE  RunInvariant'
  <1> USE DEF RunInvariant, RowMoves
  <1>1. /\ held' \in [Calls -> Missions] /\ held'[c] = m
        /\ \A d \in Calls \ {c} : held'[d] = held[d]
    BY DEF TypeOK
  <1>2. /\ approval' = approval /\ at' = at /\ copy' = copy /\ task' = task
        /\ result' = result /\ saves' = saves
    BY DEF actVars
  <1>3. /\ row.version \in Nat /\ row'.version \in Nat /\ row.version <= row'.version
        /\ \A d \in Calls : held[d].version \in Nat
        /\ \A u \in Slots : copy[u].version \in Nat
    BY DEF TypeOK, Missions
  <1>4. TypeOK'  BY <1>1, <1>2 DEF TypeOK, WorkflowOK
  <1>5. AllSound'  BY <1>1, <1>2 DEF AllSound
  <1>6. CopiesTrail'  BY <1>1, <1>2, <1>3 DEF CopiesTrail
  <1>7. WorkKnown'  BY <1>2 DEF WorkKnown, OnTask
  <1>8. CopiesFollow'
    <2>1. ASSUME NEW d \in Calls, pc'[d] = "save", held'[d].version = row'.version
          PROVE  LifeStep(row', held'[d])
      <3>1. CASE d = c  BY <3>1, <2>1, <1>1
      <3>2. CASE d # c
        <4>1. row' = row  BY <3>2, <2>1, <1>1, <1>3 DEF CopiesTrail
        <4> QED  BY <4>1, <3>2, <2>1, <1>1 DEF CopiesFollow, Fresh
      <3> QED  BY <3>1, <3>2
    <2>2. ASSUME NEW u \in Slots, copy'[u].version = row'.version
          PROVE  row' = row
      BY <2>2, <1>2, <1>3 DEF CopiesTrail
    <2> QED  BY <2>1, <2>2, <1>2 DEF CopiesFollow, Fresh
  <1> QED  BY <1>4, <1>5, <1>6, <1>7, <1>8

\* And what touches neither.
LEMMA OtherKeeps ==
  ASSUME RunInvariant, UNCHANGED <<row, callVars, actVars>>,
         approval' \in [Tasks -> ApprovalStates], WorkflowOK'
  PROVE  RunInvariant'
  BY DEF RunInvariant, TypeOK, AllSound, CopiesTrail, CopiesFollow, WorkKnown, OnTask,
         Fresh, WorkflowOK, callVars, actVars


-----------------------------------------------------------------------------
(* The steps of calls                                                        *)

\* A call loads the mission, and returns or moves its copy.
LEMMA LoadMissionKeeps ==
  ASSUME RunInvariant, NEW c \in Calls, LoadMission(c)
  PROVE  RunInvariant' /\ row' = row
  <1>1. row \in Missions /\ Sound(row) /\ held \in [Calls -> Missions] /\ op \in [Calls -> AllOps]
    BY DEF RunInvariant, TypeOK, AllSound
  <1>2. row' = row /\ UNCHANGED <<approval, actVars>> /\ WorkflowOK'
    BY DEF LoadMission, RunInvariant, TypeOK, WorkflowOK, wfVars
  <1>3. RowMoves  BY <1>1, <1>2 DEF RowMoves
  <1>4. row.version \in Nat /\ held[c].version <= row.version /\ Sound(held[c])
    BY <1>1 DEF RunInvariant, CopiesTrail, AllSound, Missions
  <1>5. PICK o \in AllOps : \/ /\ CallMoves(c, "done", o, held[c], tries[c])
                            \/ /\ o # "start" /\ CallMoves(c, "signal", o, held[c], tries[c])
                            \/ /\ o # "replan" /\ ~AlreadyThere(o, row)
                               /\ Admissible(o, row) /\ CanMove(row, Target[o])
                               /\ CallMoves(c, "save", o, MovedTo(row, Target[o]), tries[c])
    BY <1>1, MissionOpsAssumption DEF LoadMission
  <1>6. /\ pc \in [Calls -> CallPoints] /\ tries \in [Calls -> Nat]
    BY DEF RunInvariant, TypeOK
  <1>7. CASE \E p \in {"done", "signal"} : /\ p = "signal" => o # "start"
                                         /\ CallMoves(c, p, o, held[c], tries[c])
    <2>1. PICK p \in {"done", "signal"} : /\ p = "signal" => o # "start"
                                          /\ CallMoves(c, p, o, held[c], tries[c])  BY <1>7
    <2>2. /\ pc' \in [Calls -> CallPoints] /\ pc'[c] # "save"
          /\ \A d \in Calls \ {c} : pc'[d] = pc[d]
          /\ op' \in [Calls -> AllOps] /\ \A d \in Calls \ {c} : op'[d] = op[d]
          /\ pc'[c] = "signal" => op'[c] # "start"
          /\ tries' \in [Calls -> Nat]
          /\ held' = [held EXCEPT ![c] = held[c]]
      BY <2>1, <1>1, <1>6 DEF CallMoves, CallPoints
    <2> QED  BY <2>2, <1>1, <1>2, <1>3, <1>4, CallKeeps
  <1>8. CASE /\ o # "replan" /\ ~AlreadyThere(o, row)
             /\ Admissible(o, row) /\ CanMove(row, Target[o])
             /\ CallMoves(c, "save", o, MovedTo(row, Target[o]), tries[c])
    <2>1. /\ MovedTo(row, Target[o]) \in Missions /\ Sound(MovedTo(row, Target[o]))
          /\ LifeStep(row, MovedTo(row, Target[o]))
          /\ MovedTo(row, Target[o]).version = row.version
      BY <1>8, <1>1, TurnSound
    <2>2. /\ pc' \in [Calls -> CallPoints] /\ \A d \in Calls \ {c} : pc'[d] = pc[d]
          /\ op' \in [Calls -> AllOps] /\ \A d \in Calls \ {c} : op'[d] = op[d]
          /\ pc'[c] = "signal" => op'[c] # "start"
          /\ tries' \in [Calls -> Nat]
          /\ held' = [held EXCEPT ![c] = MovedTo(row, Target[o])]
      BY <1>8, <1>1, <1>6 DEF CallMoves, CallPoints
    <2> DEFINE m == MovedTo(row, Target[o])
    <2> HIDE DEF m
    <2>3. /\ m \in Missions /\ Sound(m) /\ m.version <= row'.version
          /\ LifeStep(row', m) /\ held' = [held EXCEPT ![c] = m]
      BY <2>1, <2>2, <1>2, <1>4 DEF m
    <2> QED  BY <2>2, <2>3, <1>2, <1>3, CallKeeps
  <1> QED  BY <1>2, <1>5, <1>7, <1>8

\* A call saves its copy, if the row did not move on.
LEMMA SaveMissionKeeps ==
  ASSUME RunInvariant, NEW c \in Calls, SaveMission(c)
  PROVE  RunInvariant' /\ LifeStep(row, row')
  <1>1. /\ row \in Missions /\ Sound(row) /\ held \in [Calls -> Missions]
        /\ held[c] \in Missions /\ Sound(held[c])
        /\ op \in [Calls -> AllOps] /\ pc \in [Calls -> CallPoints]
        /\ tries \in [Calls -> Nat]
    BY DEF RunInvariant, TypeOK, AllSound
  <1>2. /\ UNCHANGED <<approval, actVars>> /\ WorkflowOK' /\ op' = op
        /\ held' = [held EXCEPT ![c] = held[c]]
    BY <1>1 DEF SaveMission, RunInvariant, TypeOK, WorkflowOK, wfVars
  <1>3. held[c].version <= row.version /\ row.version \in Nat /\ held[c].version \in Nat
    BY <1>1 DEF RunInvariant, CopiesTrail, Missions
  <1>4. /\ pc' \in [Calls -> CallPoints] /\ pc'[c] # "save"
        /\ \A d \in Calls \ {c} : pc'[d] = pc[d]
        /\ pc'[c] = "signal" => op'[c] # "start"
        /\ tries' \in [Calls -> Nat]
    BY <1>1 DEF SaveMission, AfterSave, CallPoints
  <1>5. CASE Fresh(held[c])
    <2>1. row' = Committed(held[c])  BY <1>5 DEF SaveMission
    <2>2. /\ row' \in Missions /\ row'.version = row.version + 1
          /\ row'.status = held[c].status /\ row'.plan = held[c].plan
          /\ row'.task = held[c].task
      BY <2>1, <1>1, <1>5, CommittedFields DEF Fresh
    <2>3. Sound(row')  BY <2>2, <1>1, SameSound
    <2>4. LifeStep(row, held[c])
      BY <1>5 DEF SaveMission, RunInvariant, CopiesFollow
    <2>5. LifeStep(row, row')  BY <2>2, <2>4, SameLife
    <2>6. RowMoves  BY <2>2, <2>3, <1>3 DEF RowMoves
    <2>7. held[c].version <= row'.version  BY <2>2, <1>3
    <2> QED  BY <2>5, <2>6, <2>7, <1>1, <1>2, <1>4, CallKeeps
  <1>6. CASE ~Fresh(held[c])
    <2>1. row' = row  BY <1>6 DEF SaveMission
    <2>2. RowMoves  BY <2>1, <1>1 DEF RowMoves
    <2> QED  BY <2>1, <2>2, <1>1, <1>2, <1>3, <1>4, CallKeeps, LifeSelf
  <1> QED  BY <1>5, <1>6

\* The launch, the signal and the crash of a call.
LEMMA CallEndKeeps ==
  ASSUME RunInvariant, NEW c \in Calls,
         LaunchWorkflow(c) \/ SignalWorkflow(c) \/ CallCrashes(c)
  PROVE  RunInvariant' /\ row' = row
  <1>1. /\ row \in Missions /\ Sound(row) /\ held \in [Calls -> Missions]
        /\ held[c] \in Missions /\ Sound(held[c])
        /\ op \in [Calls -> AllOps] /\ pc \in [Calls -> CallPoints]
        /\ tries \in [Calls -> Nat] /\ WorkflowOK
    BY DEF RunInvariant, TypeOK, AllSound, WorkflowOK
  <1>2. /\ row' = row /\ UNCHANGED <<approval, actVars>> /\ op' = op /\ tries' = tries
        /\ held' = [held EXCEPT ![c] = held[c]] /\ pc' = [pc EXCEPT ![c] = "done"]
    BY <1>1 DEF LaunchWorkflow, SignalWorkflow, CallCrashes
  <1>3. held[c].version <= row.version  BY DEF RunInvariant, CopiesTrail
  <1>4. WorkflowOK'
    <2>1. CASE LaunchWorkflow(c)
      BY <2>1, <1>1, MaxAttemptsAssumption DEF LaunchWorkflow, WorkflowOK, WorkflowPoints, Activities
    <2>2. CASE SignalWorkflow(c)
      <3>1. op[c] \in AllOps  BY <1>1
      <3>2. op[c] # "start"  BY <2>2 DEF SignalWorkflow, RunInvariant, WorkKnown
      <3> QED  BY <3>1, <3>2, <2>2, <1>1 DEF SignalWorkflow, WorkflowOK, Controls, Signals, AllOps
    <2>3. CASE CallCrashes(c)  BY <2>3, <1>1 DEF CallCrashes, WorkflowOK, wfVars
    <2> QED  BY <2>1, <2>2, <2>3
  <1>5. RowMoves  BY <1>1, <1>2 DEF RowMoves
  <1>6. /\ pc' \in [Calls -> CallPoints] /\ pc'[c] = "done"
        /\ \A d \in Calls \ {c} : pc'[d] = pc[d]
    BY <1>1, <1>2 DEF CallPoints
  <1> QED  BY <1>1, <1>2, <1>3, <1>4, <1>5, <1>6, CallKeeps


-----------------------------------------------------------------------------
(* The steps of the workflow                                                 *)

\* The mission before any step.
LEMMA NewSound == NewMission \in Missions /\ Sound(NewMission) /\ NewMission.version = 0
  BY Tables, TasksAssumption DEF NewMission, Missions, Sound, OrderKept, Begun

\* What the invariant says of one attempt.
LEMMA AttemptFacts ==
  ASSUME RunInvariant, NEW s \in Slots
  PROVE  /\ row \in Missions /\ Sound(row) /\ row.version \in Nat
         /\ copy[s] \in Missions /\ Sound(copy[s]) /\ copy[s].version <= row.version
         /\ copy[s].version \in Nat
         /\ at[s] \in AttemptPoints /\ result[s] \in Results
         /\ task[s] \in Tasks \cup {NoTask} /\ saves[s] \in Nat
         /\ saves \in [Slots -> Nat] /\ approval \in [Tasks -> ApprovalStates] /\ WorkflowOK
  BY DEF RunInvariant, TypeOK, AllSound, CopiesTrail, Missions, Results, WorkflowOK

\* A point that is no save, no request and works on no task holds any sound copy.
LEMMA IdleFits ==
  ASSUME RunInvariant, NEW s \in Slots, row' = row,
         NEW p \in Activities \cup {"free", "answered", "failed"},
         NEW m \in Missions, Sound(m), m.version <= row.version,
         NEW t \in Tasks \cup {NoTask}, NEW r \in Results
  PROVE  Fits(p, m, t, r) /\ RowMoves
  BY AttemptFacts DEF Fits, RowMoves, AttemptPoints, Activities, SavePoints

\* An attempt ends and its slot is free again.
LEMMA VacatedKeeps ==
  ASSUME RunInvariant, NEW s \in Slots, Vacated(s), UNCHANGED <<row, approval, callVars>>,
         WorkflowOK'
  PROVE  RunInvariant'
  <1>1. Step(s, "free", NewMission, NoTask, "none")  BY DEF Vacated, Step
  <1>2. Fits("free", NewMission, NoTask, "none") /\ RowMoves
    <2>1. 0 <= row.version  BY AttemptFacts
    <2> QED  BY <2>1, NewSound, IdleFits DEF Results
  <1>3. saves' \in [Slots -> Nat] /\ approval' \in [Tasks -> ApprovalStates]
    BY AttemptFacts DEF Vacated
  <1> QED  BY <1>1, <1>2, <1>3, AttemptKeeps

\* Temporal counts a lost attempt.
LEMMA LostOK ==
  ASSUME RunInvariant, NEW s \in Slots, AttemptLost
  PROVE  WorkflowOK' /\ UNCHANGED <<row, approval, callVars>>
  BY AttemptFacts, MaxAttemptsAssumption DEF AttemptLost, WorkflowOK, WorkflowPoints

\* The workflow changes neither the row nor a copy that matters.
LEMMA WorkflowKeeps ==
  ASSUME RunInvariant, WorkflowNext
  PROVE  RunInvariant' /\ row' = row
  <1>1. WorkflowOK /\ approval \in [Tasks -> ApprovalStates]
    BY DEF RunInvariant, TypeOK, WorkflowOK
  <1>2. CASE WorkflowLoop
    <2>1. WorkflowOK'
      BY <1>1, <1>2, MaxAttemptsAssumption
      DEF WorkflowLoop, WorkflowOK, WorkflowPoints, Controls, Activities
    <2> QED  BY <1>1, <1>2, <2>1, OtherKeeps DEF WorkflowLoop
  <1>3. CASE Wake
    <2>1. WorkflowOK'  BY <1>1, <1>3 DEF Wake, WorkflowOK, WorkflowPoints
    <2> QED  BY <1>1, <1>3, <2>1, OtherKeeps DEF Wake
  <1>4. ASSUME NEW s \in Slots, Dispatch(s)  PROVE RunInvariant' /\ row' = row
    <2>1. Step(s, wf, copy[s], task[s], result[s])
      BY <1>4 DEF Dispatch, Step, RunInvariant, TypeOK
    <2>2. Fits(wf, copy[s], task[s], result[s]) /\ RowMoves
      BY <1>4, AttemptFacts, IdleFits DEF Dispatch
    <2>3. /\ saves' \in [Slots -> Nat] /\ UNCHANGED <<row, callVars, approval>> /\ WorkflowOK'
      BY <1>4, <1>1, AttemptFacts DEF Dispatch, WorkflowOK
    <2> QED  BY <1>1, <2>1, <2>2, <2>3, AttemptKeeps
  <1>5. ASSUME NEW s \in Slots, Deliver(s)  PROVE RunInvariant' /\ row' = row
    <2>1. WorkflowOK'
      BY <1>1, <1>5, MaxAttemptsAssumption DEF Deliver, WorkflowOK, WorkflowPoints, Controls
    <2> QED  BY <1>5, <2>1, VacatedKeeps DEF Deliver
  <1>6. ASSUME NEW s \in Slots, Throw(s)  PROVE RunInvariant' /\ row' = row
    BY <1>6, LostOK, VacatedKeeps DEF Throw
  <1>7. ASSUME NEW s \in Slots, Discard(s)  PROVE RunInvariant' /\ row' = row
    <2>1. WorkflowOK'  BY <1>1, <1>7 DEF Discard, WorkflowOK, wfVars
    <2> QED  BY <1>7, <2>1, VacatedKeeps DEF Discard
  <1> QED  BY <1>2, <1>3, <1>4, <1>5, <1>6, <1>7 DEF WorkflowNext

\* A decision on an approval.
LEMMA DecideKeeps ==
  ASSUME RunInvariant, NEW t \in Tasks, Decide(t)
  PROVE  RunInvariant' /\ row' = row
  <1>1. WorkflowOK /\ approval \in [Tasks -> ApprovalStates]
    BY DEF RunInvariant, TypeOK, WorkflowOK
  <1>2. WorkflowOK' /\ approval' \in [Tasks -> ApprovalStates]
    BY <1>1 DEF Decide, WorkflowOK, wfVars, ApprovalStates
  <1> QED  BY <1>2, OtherKeeps DEF Decide

\* Crashes, timeouts and failed awaits.
LEMMA DisturbanceKeeps ==
  ASSUME RunInvariant, Disturbance
  PROVE  RunInvariant' /\ row' = row
  <1>1. ASSUME NEW c \in Calls, CallCrashes(c)  PROVE RunInvariant' /\ row' = row
    BY <1>1, CallEndKeeps
  <1>2. ASSUME NEW s \in Slots, WorkerCrashes(s)  PROVE RunInvariant' /\ row' = row
    <2>1. WorkflowOK' /\ UNCHANGED <<row, approval, callVars>>
      BY <1>2, LostOK, AttemptFacts DEF WorkerCrashes, WorkflowOK, wfVars
    <2> QED  BY <1>2, <2>1, VacatedKeeps DEF WorkerCrashes
  <1>3. ASSUME NEW s \in Slots, AttemptTimesOut(s)  PROVE RunInvariant' /\ row' = row
    <2>1. WorkflowOK' /\ UNCHANGED <<row, approval, callVars>>
      BY <1>3, LostOK DEF AttemptTimesOut
    <2> QED  BY <1>3, <2>1, AttemptFacts, OtherKeeps DEF AttemptTimesOut
  <1>4. ASSUME NEW s \in Slots, ActivityThrows(s)  PROVE RunInvariant' /\ row' = row
    <2>1. Step(s, "failed", copy[s], task[s], result[s])
      BY <1>4 DEF ActivityThrows, Fails
    <2>2. /\ row' = row /\ UNCHANGED callVars /\ saves' \in [Slots -> Nat] /\ WorkflowOK'
          /\ approval' \in [Tasks -> ApprovalStates]
      BY <1>4, AttemptFacts DEF ActivityThrows, WorkflowOK, wfVars
    <2>3. Fits("failed", copy[s], task[s], result[s]) /\ RowMoves
      BY <2>2, AttemptFacts, IdleFits
    <2> QED  BY <2>1, <2>2, <2>3, AttemptKeeps
  <1> QED  BY <1>1, <1>2, <1>3, <1>4 DEF Disturbance


-----------------------------------------------------------------------------
(* The steps of the activities                                               *)

\* A step of an attempt that only works on its copy.
LEMMA PrivateKeeps ==
  ASSUME RunInvariant, NEW s \in Slots, NEW p, NEW m, NEW t, NEW r, Step(s, p, m, t, r),
         Fits(p, m, t, r), UNCHANGED <<row, callVars, wfVars>>,
         saves' \in [Slots -> Nat], approval' \in [Tasks -> ApprovalStates]
  PROVE  RunInvariant' /\ row' = row
  <1>1. WorkflowOK'  BY AttemptFacts DEF WorkflowOK, wfVars
  <1>2. RowMoves  BY AttemptFacts DEF RowMoves
  <1> QED  BY <1>1, <1>2, AttemptKeeps

\* An attempt that throws keeps its copy and never saves it.
LEMMA FailsKeeps ==
  ASSUME RunInvariant, NEW s \in Slots, Fails(s), UNCHANGED <<row, callVars, wfVars>>,
         saves' \in [Slots -> Nat], approval' \in [Tasks -> ApprovalStates]
  PROVE  RunInvariant' /\ row' = row
  <1>1. Step(s, "failed", copy[s], task[s], result[s])  BY DEF Fails
  <1>2. Fits("failed", copy[s], task[s], result[s])  BY AttemptFacts, IdleFits
  <1> QED  BY <1>1, <1>2, PrivateKeeps

\* A copy made from the row, ready to be saved.
LEMMA SaveFits ==
  ASSUME row' = row, NEW p \in SavePoints, NEW m \in Missions, Sound(m), LifeStep(row, m),
         m.version = row.version, row.version \in Nat,
         NEW t \in Tasks \cup {NoTask}, p \in {"startSave", "recordSave"} => t \in Tasks,
         NEW r \in Results, p = "recordSave" => r \in Outcomes,
         p = "recordSave" /\ r = "PAUSED" => m = row
  PROVE  Fits(p, m, t, r)
  BY DEF Fits, SavePoints, AttemptPoints

\* What the planner, the task's start and the completion make of a sound mission.
LEMMA StartSound ==
  ASSUME NEW m \in Missions, Sound(m), NEW t \in Tasks, CanStartTask(m, t)
  PROVE  /\ TaskStarted(m, t) \in Missions /\ Sound(TaskStarted(m, t))
         /\ LifeStep(m, TaskStarted(m, t)) /\ TaskStarted(m, t).version = m.version
  <1>1. /\ Marked(m, t, "RUNNING") \in Missions /\ Sound(Marked(m, t, "RUNNING"))
        /\ Done(Marked(m, t, "RUNNING")) = Done(m)
    BY MarkSound, Tables DEF CanStartTask
  <1>2. /\ Marked(m, t, "RUNNING").status = m.status /\ Marked(m, t, "RUNNING").plan = m.plan
        /\ Marked(m, t, "RUNNING").version = m.version
    BY MarkedFields, Tables
  <1> QED  BY <1>1, <1>2, LifeSelf DEF TaskStarted

\* evaluateCompletion keeps the version.
LEMMA ClosedVersion ==
  ASSUME NEW m \in Missions
  PROVE  Closed(m).version = m.version /\ Closed(m).status \in {"COMPLETED", "FAILED"}
  BY MovedFields, Tables DEF Closed

\* The attempt loads the mission and makes the copy it will save.
LEMMA LoadKeeps ==
  ASSUME RunInvariant, NEW s \in Slots, LoadPlan(s) \/ LoadReplan(s) \/ LoadStep(s)
  PROVE  RunInvariant' /\ row' = row
  <1>1. /\ row' = row /\ approval' = approval /\ saves' = saves
        /\ UNCHANGED <<row, callVars, wfVars>>
        /\ saves' \in [Slots -> Nat] /\ approval' \in [Tasks -> ApprovalStates]
    BY AttemptFacts DEF LoadPlan, LoadReplan, LoadStep
  <1>2. row \in Missions /\ Sound(row) /\ row.version \in Nat /\ row.plan + 1 \in Nat
    BY AttemptFacts DEF Missions
  <1>3. CASE Fails(s)  BY <1>1, <1>3, FailsKeeps
  <1>4. CASE /\ CanTakePlan(row, row.plan + 1)
             /\ Step(s, "planSave", PlanTaken(row, row.plan + 1), NoTask, "none")
    <2>1. Fits("planSave", PlanTaken(row, row.plan + 1), NoTask, "none")
      BY <1>1, <1>2, <1>4, PlanSound, SaveFits DEF SavePoints, Results
    <2> QED  BY <1>1, <1>4, <2>1, PrivateKeeps
  <1>5. CASE /\ CanReplan(row, row.plan + 1)
             /\ Step(s, "replanSave", Replanned(row, row.plan + 1), NoTask, "none")
    <2>1. Fits("replanSave", Replanned(row, row.plan + 1), NoTask, "none")
      BY <1>1, <1>2, <1>5, ReplanSound, SaveFits DEF SavePoints, Results
    <2> QED  BY <1>1, <1>5, <2>1, PrivateKeeps
  <1>6. CASE Step(s, "answered", copy[s], NoTask, row.status)
    <2>1. Fits("answered", copy[s], NoTask, row.status)
      BY <1>1, <1>2, AttemptFacts, IdleFits DEF Results, Missions
    <2> QED  BY <1>1, <1>6, <2>1, PrivateKeeps
  <1>7. CASE /\ row.status = "EXECUTING"
             /\ Step(s, "closeSave", Closed(row), NoTask, Closed(row).status)
    <2>1. Closed(row) \in Missions /\ Sound(Closed(row)) /\ LifeStep(row, Closed(row))
      BY <1>2, <1>7, CloseSound DEF CanClose
    <2>2. Closed(row).version = row.version /\ Closed(row).status \in Results
      BY <1>2, ClosedVersion, Tables DEF Results
    <2>3. Fits("closeSave", Closed(row), NoTask, Closed(row).status)
      BY <1>1, <1>2, <2>1, <2>2, SaveFits DEF SavePoints
    <2> QED  BY <1>1, <1>7, <2>3, PrivateKeeps
  <1>8. CASE \E t \in Runnable(row) : /\ CanStartTask(row, t)
                                      /\ Step(s, "startSave", TaskStarted(row, t), t, "none")
    <2>1. PICK t \in Tasks : /\ CanStartTask(row, t)
                             /\ Step(s, "startSave", TaskStarted(row, t), t, "none")
      BY <1>8 DEF Runnable
    <2>2. Fits("startSave", TaskStarted(row, t), t, "none")
      BY <1>1, <1>2, <2>1, StartSound, SaveFits DEF SavePoints, Results
    <2> QED  BY <1>1, <2>1, <2>2, PrivateKeeps
  <1> QED
    BY <1>3, <1>4, <1>5, <1>6, <1>7, <1>8 DEF LoadPlan, LoadReplan, LoadStep


\* The agent answers, or the attempt reports the status it read.
LEMMA RunAgentKeeps ==
  ASSUME RunInvariant, NEW s \in Slots, RunAgent(s) \/ Report(s)
  PROVE  RunInvariant' /\ row' = row
  <1>1. /\ row' = row /\ UNCHANGED <<row, callVars, wfVars>>
        /\ saves' \in [Slots -> Nat] /\ approval' \in [Tasks -> ApprovalStates]
    BY AttemptFacts DEF RunAgent, Report
  <1>2. CASE RunAgent(s)
    <2>1. PICK r \in Answers : Step(s, "record", copy[s], task[s], r)  BY <1>2 DEF RunAgent
    <2>2. r \in Outcomes /\ r \in Results  BY AnswersAssumption DEF Outcomes, Results
    <2>3. task[s] \in Tasks  BY <1>2 DEF RunAgent, RunInvariant, WorkKnown, OnTask
    <2>4. Fits("record", copy[s], task[s], r)
      BY <1>1, <2>2, <2>3, AttemptFacts DEF Fits, AttemptPoints, SavePoints
    <2> QED  BY <1>1, <2>1, <2>4, PrivateKeeps
  <1>3. CASE Report(s)
    <2>1. row.status \in Results /\ row.version <= row.version
      BY AttemptFacts DEF Results, Missions
    <2>2. Fits("answered", row, task[s], row.status)
      BY <1>1, <2>1, AttemptFacts, IdleFits
    <2> QED  BY <1>1, <1>3, <2>2, PrivateKeeps DEF Report
  <1> QED  BY <1>2, <1>3

\* handleTaskResult works on a copy of the row as it is now.
LEMMA RecordResultKeeps ==
  ASSUME RunInvariant, NEW s \in Slots, RecordResult(s)
  PROVE  RunInvariant' /\ row' = row
  <1>1. /\ row' = row /\ UNCHANGED <<row, callVars, wfVars>>
        /\ saves' \in [Slots -> Nat] /\ approval' \in [Tasks -> ApprovalStates]
    BY AttemptFacts DEF RecordResult
  <1>2. /\ task[s] \in Tasks /\ result[s] \in Outcomes
        /\ row \in Missions /\ Sound(row) /\ row.version \in Nat /\ result[s] \in Results
    BY AttemptFacts DEF RecordResult, RunInvariant, WorkKnown, OnTask
  <1>3. CASE Fails(s)  BY <1>1, <1>3, FailsKeeps
  <1>4. CASE /\ result[s] = "AWAITING_APPROVAL" /\ CanMark(row, task[s], result[s])
             /\ Step(s, "ask", Marked(row, task[s], result[s]), task[s], result[s])
    <2> DEFINE m == Marked(row, task[s], "AWAITING_APPROVAL")
    <2>1. CanMark(row, task[s], "AWAITING_APPROVAL")
      BY <1>4
    <2>2. /\ m \in Missions /\ Sound(m) /\ Done(m) = Done(row)
          /\ m.status = row.status /\ m.plan = row.plan /\ m.version = row.version
      BY <1>2, <2>1, MarkSound, MarkedFields, Tables
    <2>3. Step(s, "ask", m, task[s], result[s])
      BY <1>4
    <2> HIDE DEF m
    <2>4. Fits("ask", m, task[s], result[s])
      BY <1>1, <1>2, <1>4, <2>2 DEF Fits, AttemptPoints, SavePoints
    <2> QED  BY <1>1, <2>3, <2>4, PrivateKeeps
  <1>5. CASE /\ CanRecord(row, task[s], result[s])
             /\ Step(s, "recordSave", Recorded(row, task[s], result[s]), task[s], result[s])
    <2> DEFINE m == Recorded(row, task[s], result[s])
    <2>1. /\ m \in Missions /\ Sound(m) /\ LifeStep(row, m) /\ m.version = row.version
      BY <1>2, <1>5, RecordSound
    <2>2. result[s] = "PAUSED" => m = row  BY DEF Recorded
    <2> HIDE DEF m
    <2>3. Fits("recordSave", m, task[s], result[s])
      BY <1>1, <1>2, <2>1, <2>2, SaveFits DEF SavePoints
    <2> QED  BY <1>1, <1>5, <2>3, PrivateKeeps DEF m
  <1> QED  BY <1>3, <1>4, <1>5 DEF RecordResult

\* The approval request, then the pause of the copy.
LEMMA RequestApprovalKeeps ==
  ASSUME RunInvariant, NEW s \in Slots, RequestApproval(s)
  PROVE  RunInvariant' /\ row' = row
  <1>1. /\ row' = row /\ UNCHANGED <<row, callVars, wfVars>>
        /\ saves' \in [Slots -> Nat] /\ approval' \in [Tasks -> ApprovalStates]
    BY AttemptFacts DEF RequestApproval, ApprovalStates
  <1>2. CASE Fails(s)  BY <1>1, <1>2, FailsKeeps
  <1>3. CASE /\ CanMove(copy[s], "PAUSED")
             /\ Step(s, "recordSave", MovedTo(copy[s], "PAUSED"), task[s], result[s])
    <2> DEFINE m == MovedTo(copy[s], "PAUSED")
    <2>1. /\ m \in Missions /\ Sound(m) /\ LifeStep(copy[s], m)
          /\ m.version = copy[s].version
      BY <1>3, AttemptFacts, HoldSound, MovedFields, Tables
    <2>2. task[s] \in Tasks /\ result[s] = "AWAITING_APPROVAL"
      BY DEF RequestApproval, RunInvariant, WorkKnown, OnTask
    <2>3. m.version = row.version => LifeStep(row, m)
      BY <2>1, LifeAfterSame DEF RequestApproval, RunInvariant, CopiesFollow, Fresh
    <2> HIDE DEF m
    <2>4. Fits("recordSave", m, task[s], result[s])
      BY <1>1, <2>1, <2>2, <2>3, AttemptFacts
      DEF Fits, AttemptPoints, SavePoints, Outcomes, AgentAnswers
    <2> QED  BY <1>1, <1>3, <2>4, PrivateKeeps DEF m
  <1> QED  BY <1>2, <1>3 DEF RequestApproval


\* After a save, or without one, the attempt goes on with the mission as it is.
LEMMA ContinueKeeps ==
  ASSUME RunInvariant, NEW s \in Slots, at[s] \in SavePoints, RowMoves, Continue(s, row'),
         UNCHANGED <<approval, callVars, wfVars>>, saves' \in [Slots -> Nat]
  PROVE  RunInvariant'
  <1>1. /\ WorkflowOK' /\ approval' \in [Tasks -> ApprovalStates] /\ UNCHANGED callVars
    BY AttemptFacts DEF WorkflowOK, wfVars
  <1>2. /\ row' \in Missions /\ Sound(row') /\ row'.version <= row'.version
    BY DEF RowMoves, Missions
  <1>3. /\ at[s] \in {"startSave", "recordSave"} => task[s] \in Tasks
        /\ task[s] \in Tasks \cup {NoTask} /\ result[s] \in Results
    BY AttemptFacts DEF RunInvariant, WorkKnown, OnTask
  <1>4. \A p \in {"report", "answered"} : Fits(p, row', task[s], result[s])
    BY <1>2, <1>3 DEF Fits, AttemptPoints, SavePoints
  <1>5. CASE at[s] = "startSave" /\ Step(s, "record", row', task[s], "PAUSED")
    <2>1. Fits("record", row', task[s], "PAUSED")
      BY <1>2, <1>3, <1>5 DEF Fits, AttemptPoints, SavePoints, Outcomes, Results
    <2> QED  BY <1>1, <1>5, <2>1, AttemptKeeps
  <1>6. CASE at[s] = "startSave" /\ Step(s, "agent", row', task[s], "none")
    <2>1. Fits("agent", row', task[s], "none")
      BY <1>2, <1>3, <1>6 DEF Fits, AttemptPoints, SavePoints, Results
    <2> QED  BY <1>1, <1>6, <2>1, AttemptKeeps
  <1>7. CASE \E p \in {"report", "answered"} : Step(s, p, row', task[s], result[s])
    BY <1>1, <1>3, <1>4, <1>7, AttemptKeeps
  <1> QED  BY <1>5, <1>6, <1>7 DEF Continue

\* What an operation's reapply makes of the row it lost to.
LEMMA ReapplyFits ==
  ASSUME RunInvariant, NEW s \in Slots, at[s] \in SavePoints, row' = row,
         CanReapply(s, row)
  PROVE  Fits(at[s], Reapplied(s, row), task[s], result[s])
  <1> DEFINE m == Reapplied(s, row)
  <1>1. /\ row \in Missions /\ Sound(row) /\ row.version \in Nat /\ copy[s].plan \in Nat
        /\ task[s] \in Tasks \cup {NoTask} /\ result[s] \in Results
    BY AttemptFacts DEF Missions
  <1>2. /\ at[s] \in {"startSave", "recordSave"} => task[s] \in Tasks
        /\ at[s] = "recordSave" => result[s] \in Outcomes
    BY DEF RunInvariant, WorkKnown, OnTask
  <1>3. /\ m \in Missions /\ Sound(m) /\ LifeStep(row, m) /\ m.version = row.version
        /\ at[s] = "recordSave" /\ result[s] = "PAUSED" => m = row
    <2>1. CASE at[s] = "planSave"
      <3>1. CanTakePlan(row, copy[s].plan) /\ m = PlanTaken(row, copy[s].plan)
        BY <2>1 DEF CanReapply, Reapplied
      <3> QED  BY <3>1, <1>1, <2>1, PlanSound
    <2>2. CASE at[s] = "replanSave"
      <3>1. CanReplan(row, copy[s].plan) /\ m = Replanned(row, copy[s].plan)
        BY <2>2 DEF CanReapply, Reapplied
      <3> QED  BY <3>1, <1>1, <2>2, ReplanSound
    <2>3. CASE at[s] = "startSave"
      <3>1. CanStartTask(row, task[s]) /\ m = TaskStarted(row, task[s])
        BY <2>3 DEF CanReapply, Reapplied
      <3> QED  BY <3>1, <1>1, <1>2, <2>3, StartSound
    <2>4. CASE at[s] = "recordSave"
      <3>1. CanRecord(row, task[s], result[s]) /\ m = Recorded(row, task[s], result[s])
        BY <2>4 DEF CanReapply, Reapplied
      <3>2. result[s] = "PAUSED" => m = row  BY <3>1 DEF Recorded
      <3> QED  BY <3>1, <3>2, <1>1, <1>2, <2>4, RecordSound
    <2>5. CASE at[s] = "closeSave"
      <3>1. CanClose(row) /\ m = Closed(row)
        BY <2>5 DEF CanReapply, Reapplied
      <3> QED  BY <3>1, <1>1, <2>5, CloseSound, ClosedVersion
    <2> QED  BY <2>1, <2>2, <2>3, <2>4, <2>5 DEF SavePoints
  <1> HIDE DEF m
  <1>4. Fits(at[s], m, task[s], result[s])  BY <1>1, <1>2, <1>3, SaveFits
  <1> QED  BY <1>4 DEF m

\* The save, its conflict with a reapply, and its last conflict.
LEMMA SaveAndPublishKeeps ==
  ASSUME RunInvariant, NEW s \in Slots, SaveAndPublish(s)
  PROVE  RunInvariant' /\ LifeStep(row, row')
  <1>1. /\ at[s] \in SavePoints /\ UNCHANGED <<approval, callVars, wfVars>>
        /\ approval' \in [Tasks -> ApprovalStates] /\ saves' \in [Slots -> Nat]
    BY AttemptFacts DEF SaveAndPublish
  <1>2. /\ row \in Missions /\ Sound(row) /\ row.version \in Nat
        /\ copy[s] \in Missions /\ Sound(copy[s])
    BY AttemptFacts
  <1>3. CASE Fresh(copy[s]) /\ row' = SavedBy(s) /\ Continue(s, SavedBy(s))
    <2>1. LifeStep(row, copy[s])
      BY <1>1, <1>3 DEF RunInvariant, CopiesFollow
    <2>2. CASE at[s] = "recordSave" /\ result[s] = "PAUSED"
      <3>1. row' = row  BY <1>3, <2>2 DEF RunInvariant, CopiesFollow, SavedBy
      <3>2. RowMoves  BY <1>2, <3>1 DEF RowMoves
      <3> QED  BY <1>1, <1>3, <3>1, <3>2, ContinueKeeps, LifeSelf
    <2>3. CASE ~(at[s] = "recordSave" /\ result[s] = "PAUSED")
      <3>1. row' = Committed(copy[s])  BY <1>3, <2>3 DEF SavedBy
      <3>2. /\ row' \in Missions /\ row'.version = row.version + 1
            /\ row'.status = copy[s].status /\ row'.plan = copy[s].plan
            /\ row'.task = copy[s].task
        BY <3>1, <1>2, <1>3, CommittedFields DEF Fresh
      <3>3. Sound(row')  BY <3>2, <1>2, SameSound
      <3>4. LifeStep(row, row')  BY <2>1, <3>2, SameLife
      <3>5. RowMoves  BY <1>2, <3>2, <3>3 DEF RowMoves
      <3> QED  BY <1>1, <1>3, <3>4, <3>5, ContinueKeeps
    <2> QED  BY <2>2, <2>3
  <1>4. CASE row' = row
    <2>1. RowMoves /\ LifeStep(row, row')  BY <1>2, <1>4, LifeSelf DEF RowMoves
    <2>2. CASE /\ CanReapply(s, row)
               /\ Step(s, at[s], Reapplied(s, row), task[s], result[s])
      BY <1>1, <1>4, <2>1, <2>2, ReapplyFits, PrivateKeeps
    <2>3. CASE Continue(s, row)
      BY <1>1, <1>4, <2>1, <2>3, ContinueKeeps
    <2>4. CASE Fails(s)
      BY <1>1, <1>4, <2>1, <2>4, FailsKeeps
    <2>5. CASE Fresh(copy[s]) /\ row' = SavedBy(s) /\ Continue(s, SavedBy(s))
      BY <1>3, <2>5
    <2> QED  BY <2>2, <2>3, <2>4, <2>5 DEF SaveAndPublish
  <1> QED  BY <1>3, <1>4 DEF SaveAndPublish

-----------------------------------------------------------------------------
(* The theorems                                                              *)

\* The first state.
LEMMA InitInvariant == Init => RunInvariant
  <1> SUFFICES ASSUME Init  PROVE RunInvariant
    OBVIOUS
  <1>1. TypeOK
    BY NewSound, MaxAttemptsAssumption
    DEF Init, TypeOK, ApprovalStates, CallPoints, AllOps, AttemptPoints, WorkflowPoints,
        Controls
  <1>2. AllSound  BY NewSound DEF Init, AllSound
  <1>3. CopiesTrail  BY NewSound DEF Init, CopiesTrail
  <1>4. CopiesFollow  BY DEF Init, CopiesFollow, SavePoints
  <1>5. WorkKnown  BY DEF Init, WorkKnown, OnTask
  <1> QED  BY <1>1, <1>2, <1>3, <1>4, <1>5 DEF RunInvariant

\* Every step keeps the invariant, and saves only what may follow in a mission's life.
LEMMA StepKeeps ==
  ASSUME RunInvariant, [Next]_vars
  PROVE  RunInvariant' /\ LifeStep(row, row')
  <1>1. row' = row => LifeStep(row, row')  BY LifeSelf
  <1>2. ASSUME NEW c \in Calls, CallNext(c)  PROVE RunInvariant' /\ LifeStep(row, row')
    BY <1>1, <1>2, LoadMissionKeeps, SaveMissionKeeps, CallEndKeeps DEF CallNext
  <1>3. ASSUME NEW s \in Slots, AttemptNext(s)  PROVE RunInvariant' /\ LifeStep(row, row')
    BY <1>1, <1>3, LoadKeeps, SaveAndPublishKeeps, RunAgentKeeps, RecordResultKeeps,
       RequestApprovalKeeps DEF AttemptNext
  <1>4. CASE UNCHANGED vars
    <2>1. UNCHANGED <<row, callVars, actVars>> /\ approval' = approval /\ UNCHANGED wfVars
      BY <1>4 DEF vars
    <2>2. WorkflowOK' /\ approval' \in [Tasks -> ApprovalStates]
      BY <2>1 DEF RunInvariant, TypeOK, WorkflowOK, wfVars
    <2> QED  BY <1>1, <2>1, <2>2, OtherKeeps
  <1> QED
    BY <1>1, <1>2, <1>3, <1>4, WorkflowKeeps, DecideKeeps, DisturbanceKeeps DEF Next


\* The inductive invariant: rows and copies are sound, and a copy whose version is still
\* the row's may follow it (save's version check).
THEOREM RunInvariantHolds == Spec => []RunInvariant
  <1>1. Init => RunInvariant  BY InitInvariant
  <1>2. RunInvariant /\ [Next]_vars => RunInvariant'  BY StepKeeps
  <1> QED  BY <1>1, <1>2, PTL DEF Spec

\* The row, the copies and the places of calls, attempts and workflow keep their types
\* (the mission aggregate and the table of its tasks).
THEOREM MissionTypeCorrect == Spec => []TypeOK
  <1>1. RunInvariant => TypeOK  BY DEF RunInvariant
  <1> QED  BY <1>1, RunInvariantHolds, PTL

\* However many calls, attempts, crashes, timeouts and late saves there are, a planned
\* mission is COMPLETED only with every task completed, and every task that was begun
\* follows completed ones (startTask, evaluateCompletion, save's version check).
THEOREM OrderHolds == Spec => []CompletedInOrder
  <1>1. RunInvariant => CompletedInOrder
    BY DEF RunInvariant, AllSound, Sound, CompletedInOrder
  <1> QED  BY <1>1, RunInvariantHolds, PTL

\* The lemmas' LifeStep is the abstract next-state relation.
LEMMA StepIsLife ==
  ASSUME LifeStep(row, row')
  PROVE  [Life!Next]_<<row.status, row.plan > 0, {t \in Tasks : row.task[t] = "COMPLETED"}>>
  <1>1. Done(row) = {t \in Tasks : row.task[t] = "COMPLETED"}  BY DEF Done
  <1>2. Done(row') = {t \in Tasks : row'.task[t] = "COMPLETED"}  BY DEF Done
  <1> QED
    BY <1>1, <1>2
    DEF LifeStep, Life!Next, Life!Finish, Life!Plan, Life!Planned, Life!Turn, Life!Begin,
        Life!Hold, Life!Release, Life!Stick, Life!Cancel, Life!Close, Life!Active

\* The rows that racing calls and activity attempts save are steps of the life the
\* abstract mission promises: the detailed run implements MissionLife.
THEOREM LifeImplemented == Spec => LifeSpec
  <1>1. Init => Life!Init
    BY DEF Init, Life!Init, NewMission
  <1>2. RunInvariant /\ [Next]_vars
          => [Life!Next]_<<row.status, row.plan > 0,
                           {t \in Tasks : row.task[t] = "COMPLETED"}>>
    BY StepKeeps, StepIsLife
  <1> QED  BY <1>1, <1>2, RunInvariantHolds, PTL DEF Spec, LifeSpec, Life!Spec

-----------------------------------------------------------------------------
(* What starts a task: the copy of startTask alone, and only while both the  *)
(* row it may replace and the copy itself are executing.                     *)

Starts(m, n)   == \E t \in Tasks : m.task[t] # "RUNNING" /\ n.task[t] = "RUNNING"
CopyPoints     == SavePoints \cup {"ask"}
MayStart(p, n) ==
  p \in CopyPoints /\ Starts(row, n) => p = "startSave" /\ row.status = "EXECUTING" /\ n.status = "EXECUTING"

StartsHeld ==
  /\ \A c \in Calls : pc[c] = "save" /\ Fresh(held[c]) => ~Starts(row, held[c])
  /\ \A s \in Slots : Fresh(copy[s]) => MayStart(at[s], copy[s])

\* Everything the aggregate does but startTask starts nothing.
LEMMA OthersStartNothing ==
  ASSUME NEW m \in Missions
  PROVE  /\ \A s : ~Starts(m, MovedTo(m, s)) /\ MovedTo(m, s).task = m.task
         /\ \A v : ~Starts(m, PlanTaken(m, v)) /\ ~Starts(m, Replanned(m, v))
         /\ ~Starts(m, Closed(m)) /\ ~Starts(m, m)
         /\ \A t \in Tasks : \A s : s # "RUNNING" => ~Starts(m, Marked(m, t, s))
         /\ \A t \in Tasks : \A r : ~Starts(m, Recorded(m, t, r))
  <1>1. \A n, s : MovedTo(n, s).task = n.task
    BY DEF MovedTo
  <1>2. \A n : n.task = m.task => ~Starts(m, n)  BY DEF Starts
  <1>3. \A t \in Tasks : \A s : s # "RUNNING" => ~Starts(m, Marked(m, t, s))
    BY DEF Starts, Marked, Missions
  <1>4. \A v : ~Starts(m, PlanTaken(m, v)) /\ ~Starts(m, Replanned(m, v))
    BY DEF Starts, PlanTaken, Replanned, Missions
  <1>5. \A s : ~Starts(m, MovedTo(m, s))  BY <1>1, <1>2
  <1>6. ~Starts(m, Closed(m)) /\ ~Starts(m, m)  BY <1>2, <1>5 DEF Closed
  <1>7. ASSUME NEW t \in Tasks, NEW r  PROVE ~Starts(m, Recorded(m, t, r))
    <2>1. ASSUME NEW n, NEW s, ~Starts(m, n)  PROVE ~Starts(m, MovedTo(n, s))
      BY <2>1, <1>1 DEF Starts
    <2>2. /\ ~Starts(m, Marked(m, t, "COMPLETED")) /\ ~Starts(m, Marked(m, t, "FAILED"))
          /\ ~Starts(m, Marked(m, t, "AWAITING_APPROVAL"))
      BY <1>3
    <2>3. CASE r = "COMPLETED"  BY <2>2, <2>3 DEF Recorded
    <2>4. CASE r = "AWAITING_APPROVAL"  BY <2>1, <2>2, <2>4 DEF Recorded
    <2>5. CASE r = "FAILED"  BY <2>1, <2>2, <2>5 DEF Recorded
    <2>6. CASE r \notin {"COMPLETED", "AWAITING_APPROVAL", "FAILED"}  BY <1>6, <2>6 DEF Recorded
    <2> QED  BY <2>3, <2>4, <2>5, <2>6
  <1> QED  BY <1>1, <1>3, <1>4, <1>5, <1>6, <1>7

\* Work of an attempt on its copy.
LEMMA PrivateStarts ==
  ASSUME RunInvariant, StartsHeld, NEW s \in Slots, NEW p, NEW m, NEW t, NEW r, Step(s, p, m, t, r),
         row' = row, UNCHANGED <<pc, held>>, Fresh(m) => MayStart(p, m)
  PROVE  StartsHeld'
  <1>1. /\ at'[s] = p /\ copy'[s] = m
        /\ \A q \in Slots \ {s} : at'[q] = at[q] /\ copy'[q] = copy[q]
    BY DEF RunInvariant, TypeOK, Step
  <1>2. ASSUME NEW q \in Slots, Fresh(copy[q])'  PROVE MayStart(at[q], copy[q])'
    BY <1>1, <1>2 DEF StartsHeld, MayStart, Starts, Fresh
  <1> QED  BY <1>2 DEF StartsHeld, Starts, Fresh

\* A committed save leaves no other copy at the row's version.
LEMMA CommitStarts ==
  ASSUME RunInvariant, row'.version \in Nat, row'.version > row.version,
         \A c \in Calls : pc'[c] = "save" => held'[c] = held[c],
         \A s \in Slots : at'[s] \in CopyPoints => copy'[s] = copy[s]
  PROVE  StartsHeld'
  <1>1. \A c \in Calls : held[c].version <= row.version /\ held[c].version \in Nat
    BY DEF RunInvariant, TypeOK, CopiesTrail, Missions
  <1>2. \A s \in Slots : copy[s].version <= row.version /\ copy[s].version \in Nat
    BY DEF RunInvariant, TypeOK, CopiesTrail, Missions
  <1>3. row.version \in Nat  BY DEF RunInvariant, TypeOK, Missions
  <1>4. \A c \in Calls : pc'[c] = "save" => ~Fresh(held[c])'
    BY <1>1, <1>3 DEF Fresh
  <1>5. \A s \in Slots : at'[s] \in CopyPoints => ~Fresh(copy[s])'
    BY <1>2, <1>3 DEF Fresh
  <1> QED  BY <1>4, <1>5 DEF StartsHeld, MayStart

\* The rows, calls and copies that may start a task stay as they are.
LEMMA QuietStarts ==
  ASSUME StartsHeld, row' = row,
         \A c \in Calls : pc'[c] = "save" => pc[c] = "save" /\ held'[c] = held[c],
         \A s \in Slots : at'[s] \in CopyPoints => at'[s] = at[s] /\ copy'[s] = copy[s]
  PROVE  StartsHeld'
  <1>1. ASSUME NEW s \in Slots, Fresh(copy[s])'  PROVE MayStart(at[s], copy[s])'
    BY <1>1 DEF StartsHeld, MayStart, Starts, Fresh
  <1> QED  BY <1>1 DEF StartsHeld, Starts, Fresh

LEMMA CallStarts ==
  ASSUME RunInvariant, StartsHeld, NEW c \in Calls, CallNext(c) \/ CallCrashes(c)
  PROVE  StartsHeld'
  <1>1. /\ row \in Missions /\ row.version \in Nat /\ held[c] \in Missions /\ held[c].version \in Nat
        /\ held \in [Calls -> Missions] /\ pc \in [Calls -> CallPoints]
    BY DEF RunInvariant, TypeOK, Missions
  <1>2. CASE LoadMission(c)
    <2>0. row' = row /\ UNCHANGED <<at, copy>>  BY <1>2 DEF LoadMission, actVars
    <2>1. PICK p, m : /\ pc' = [pc EXCEPT ![c] = p] /\ held' = [held EXCEPT ![c] = m]
                      /\ p = "save" => \E o : m = MovedTo(row, o)
      <3>1. PICK p, o, m, n : CallMoves(c, p, o, m, n) /\ (p = "save" => m = MovedTo(row, Target[o]))
        <4>1. PICK o : \/ CallMoves(c, "done", o, held[c], tries[c])
                       \/ CallMoves(c, "signal", o, held[c], tries[c])
                       \/ CallMoves(c, "save", o, MovedTo(row, Target[o]), tries[c])
          BY <1>2 DEF LoadMission
        <4> QED  BY <4>1
      <3> QED  BY <3>1 DEF CallMoves
    <2>2. ASSUME NEW d \in Calls, pc'[d] = "save", Fresh(held[d])'  PROVE ~Starts(row, held[d])'
      <3>1. CASE d = c  BY <1>1, <2>0, <2>1, <2>2, <3>1, OthersStartNothing DEF Starts
      <3>2. CASE d # c  BY <1>1, <2>0, <2>1, <2>2, <3>2 DEF StartsHeld, Starts, Fresh
      <3> QED  BY <3>1, <3>2
    <2>3. \A s \in Slots : Fresh(copy[s])' => MayStart(at[s], copy[s])'
      BY <2>0 DEF StartsHeld, MayStart, Starts, Fresh
    <2> QED  BY <2>2, <2>3 DEF StartsHeld
  <1>3. CASE SaveMission(c) /\ Fresh(held[c])
    <2>1. row' = Committed(held[c]) /\ UNCHANGED <<held, at, copy>>
      BY <1>3 DEF SaveMission, actVars
    <2>2. row'.version = row.version + 1  BY <1>1, <1>3, <2>1, CommittedFields DEF Fresh
    <2> QED  BY <1>1, <2>1, <2>2, CommitStarts
  <1>4. CASE SaveMission(c) /\ ~Fresh(held[c])
    <2>1. /\ row' = row /\ UNCHANGED <<held, at, copy>> /\ pc'[c] # "save"
          /\ \A d \in Calls \ {c} : pc'[d] = pc[d]
      BY <1>1, <1>4 DEF SaveMission, actVars
    <2> QED  BY <2>1, QuietStarts
  <1>5. CASE LaunchWorkflow(c) \/ SignalWorkflow(c) \/ CallCrashes(c)
    <2>1. /\ row' = row /\ UNCHANGED <<held, at, copy>> /\ pc'[c] # "save"
          /\ \A d \in Calls \ {c} : pc'[d] = pc[d]
      BY <1>1, <1>5 DEF LaunchWorkflow, SignalWorkflow, CallCrashes, actVars
    <2> QED  BY <2>1, QuietStarts
  <1> QED  BY <1>2, <1>3, <1>4, <1>5 DEF CallNext

LEMMA OutsideStarts ==
  ASSUME RunInvariant, StartsHeld,
         \/ WorkflowNext \/ (\E t \in Tasks : Decide(t)) \/ UNCHANGED vars
         \/ \E s \in Slots : WorkerCrashes(s) \/ AttemptTimesOut(s) \/ ActivityThrows(s)
  PROVE  StartsHeld'
  <1>0. at \in [Slots -> AttemptPoints] /\ copy \in [Slots -> Missions]  BY DEF RunInvariant, TypeOK
  <1>1. CASE UNCHANGED <<row, pc, held, at, copy>>  BY <1>1, QuietStarts
  <1>2. ASSUME NEW s \in Slots, row' = row, UNCHANGED <<pc, held>>,
               NEW p \in {"free", "failed"} \cup Activities, at' = [at EXCEPT ![s] = p],
               \A q \in Slots \ {s} : copy'[q] = copy[q]
        PROVE  StartsHeld'
    <2>1. p \notin CopyPoints  BY DEF CopyPoints, SavePoints, Activities
    <2> QED  BY <1>0, <1>2, <2>1, QuietStarts
  <1>3. ASSUME NEW s \in Slots, Vacated(s), UNCHANGED <<row, callVars>>  PROVE StartsHeld'
    BY <1>0, <1>2, <1>3 DEF Vacated, callVars
  <1>4. CASE WorkflowNext
    <2>1. CASE WorkflowLoop \/ Wake  BY <1>1, <2>1 DEF WorkflowLoop, Wake, callVars, actVars
    <2>2. ASSUME NEW s \in Slots, Dispatch(s)  PROVE StartsHeld'
      BY <1>2, <2>2 DEF Dispatch, callVars
    <2>3. ASSUME NEW s \in Slots, Deliver(s) \/ Throw(s) \/ Discard(s)  PROVE StartsHeld'
      BY <1>3, <2>3 DEF Deliver, Throw, Discard, AttemptLost
    <2> QED  BY <1>4, <2>1, <2>2, <2>3 DEF WorkflowNext
  <1>5. ASSUME NEW s \in Slots, WorkerCrashes(s) \/ AttemptTimesOut(s) \/ ActivityThrows(s)
        PROVE  StartsHeld'
    <2>1. CASE WorkerCrashes(s)  BY <1>3, <2>1 DEF WorkerCrashes, AttemptLost
    <2>2. CASE AttemptTimesOut(s)
      BY <1>1, <2>2 DEF AttemptTimesOut, AttemptLost, callVars, actVars
    <2>3. CASE ActivityThrows(s)
      BY <1>0, <1>2, <2>3 DEF ActivityThrows, Fails, Step, callVars
    <2> QED  BY <1>5, <2>1, <2>2, <2>3
  <1>6. CASE (\E t \in Tasks : Decide(t)) \/ UNCHANGED vars
    BY <1>1, <1>6 DEF Decide, vars, callVars, actVars
  <1> QED  BY <1>4, <1>5, <1>6

\* Points at which a copy is not to be saved.
LEMMA NoCopyPoint ==
  \A p \in {"failed", "answered", "record", "agent", "report"} : \A m : MayStart(p, m)
  BY DEF MayStart, CopyPoints, SavePoints

LEMMA StartedStatus ==
  ASSUME NEW m \in Missions, NEW t \in Tasks
  PROVE  TaskStarted(m, t).status = m.status
  BY MarkedFields, Tables DEF TaskStarted

LEMMA WorkStarts ==
  ASSUME RunInvariant, StartsHeld, NEW s \in Slots,
         \/ LoadPlan(s) \/ LoadReplan(s) \/ LoadStep(s) \/ RunAgent(s) \/ RecordResult(s)
         \/ RequestApproval(s) \/ Report(s)
  PROVE  StartsHeld'
  <1>1. /\ row \in Missions /\ copy[s] \in Missions
        /\ at[s] \in {"record", "ask"} => task[s] \in Tasks
    BY DEF RunInvariant, TypeOK, WorkKnown, OnTask
  <1>2. row' = row /\ UNCHANGED <<pc, held>>
    BY DEF LoadPlan, LoadReplan, LoadStep, RunAgent, RecordResult, RequestApproval, Report, callVars
  <1>3. \E p, m, t, r : Step(s, p, m, t, r) /\ (Fresh(m) => MayStart(p, m))
    <2>0. ASSUME NEW p, NEW m, NEW t, NEW r, Step(s, p, m, t, r),
                 Fresh(m) => ~Starts(row, m)
          PROVE  \E q, n, u, v : Step(s, q, n, u, v) /\ (Fresh(n) => MayStart(q, n))
      BY <2>0 DEF MayStart
    <2>1. CASE Fails(s)  BY <2>1, NoCopyPoint DEF Fails
    <2>2. CASE LoadPlan(s)
      <3>1. ~Starts(row, PlanTaken(row, row.plan + 1))  BY <1>1, OthersStartNothing
      <3> QED  BY <2>0, <2>1, <2>2, <3>1 DEF LoadPlan
    <2>3. CASE LoadReplan(s)
      <3>1. ~Starts(row, Replanned(row, row.plan + 1))  BY <1>1, OthersStartNothing
      <3> QED  BY <2>0, <2>1, <2>3, <3>1 DEF LoadReplan
    <2>4. CASE LoadStep(s)
      <3>1. CASE Step(s, "answered", copy[s], NoTask, row.status)  BY <3>1, NoCopyPoint
      <3>2. CASE Step(s, "closeSave", Closed(row), NoTask, Closed(row).status)
        <4>1. ~Starts(row, Closed(row))  BY <1>1, OthersStartNothing
        <4> QED  BY <2>0, <3>2, <4>1
      <3>3. CASE \E t \in Tasks : /\ CanStartTask(row, t)
                                  /\ Step(s, "startSave", TaskStarted(row, t), t, "none")
        <4>1. PICK t \in Tasks : /\ CanStartTask(row, t)
                                 /\ Step(s, "startSave", TaskStarted(row, t), t, "none")
          BY <3>3
        <4>2. MayStart("startSave", TaskStarted(row, t))
          BY <1>1, <4>1, StartedStatus DEF MayStart, CanStartTask
        <4> QED  BY <4>1, <4>2
      <3> QED  BY <2>1, <2>4, <3>1, <3>2, <3>3 DEF LoadStep, Runnable
    <2>5. CASE RunAgent(s) \/ Report(s)  BY <2>5, NoCopyPoint DEF RunAgent, Report
    <2>6. CASE RecordResult(s)
      <3>1. task[s] \in Tasks  BY <1>1, <2>6 DEF RecordResult
      <3>2. /\ ~Starts(row, Marked(row, task[s], "AWAITING_APPROVAL"))
            /\ ~Starts(row, Recorded(row, task[s], result[s]))
        BY <1>1, <3>1, OthersStartNothing
      <3> QED  BY <2>0, <2>1, <2>6, <3>2 DEF RecordResult
    <2>7. CASE RequestApproval(s)
      <3>1. MovedTo(copy[s], "PAUSED").task = copy[s].task  BY <1>1, OthersStartNothing
      <3>2. MovedTo(copy[s], "PAUSED").version = copy[s].version  BY <1>1 DEF MovedTo, Missions
      <3>3. Fresh(MovedTo(copy[s], "PAUSED")) => ~Starts(row, MovedTo(copy[s], "PAUSED"))
        BY <2>7, <3>1, <3>2 DEF StartsHeld, MayStart, CopyPoints, RequestApproval, Starts, Fresh
      <3> QED  BY <2>0, <2>1, <2>7, <3>3 DEF RequestApproval
    <2> QED  BY <2>2, <2>3, <2>4, <2>5, <2>6, <2>7
  <1> QED  BY <1>2, <1>3, PrivateStarts

LEMMA PublishStarts ==
  ASSUME RunInvariant, StartsHeld, NEW s \in Slots, SaveAndPublish(s)
  PROVE  StartsHeld'
  <1>0. /\ row \in Missions /\ row.version \in Nat /\ copy[s] \in Missions /\ at[s] \in SavePoints
        /\ at[s] \in {"startSave", "recordSave"} => task[s] \in Tasks
        /\ UNCHANGED <<pc, held>> /\ at \in [Slots -> AttemptPoints] /\ copy \in [Slots -> Missions]
    BY DEF RunInvariant, TypeOK, WorkKnown, OnTask, Missions, SaveAndPublish, callVars
  <1>1. ASSUME NEW m, Continue(s, m)
        PROVE  \E p, t, r : /\ Step(s, p, m, t, r)
                            /\ p \in {"record", "agent", "report", "answered"}
    BY <1>1 DEF Continue
  <1>2. CASE Fresh(copy[s]) /\ row' = SavedBy(s) /\ Continue(s, SavedBy(s))
    <2>1. PICK p, t, r : /\ Step(s, p, SavedBy(s), t, r)
                         /\ p \in {"record", "agent", "report", "answered"}
      BY <1>1, <1>2
    <2>2. CASE at[s] = "recordSave" /\ result[s] = "PAUSED"
      <3>1. row' = row  BY <1>2, <2>2 DEF RunInvariant, CopiesFollow, SavedBy
      <3> QED  BY <1>0, <2>1, <3>1, NoCopyPoint, PrivateStarts
    <2>3. CASE ~(at[s] = "recordSave" /\ result[s] = "PAUSED")
      <3>1. row' = Committed(copy[s])  BY <1>2, <2>3 DEF SavedBy
      <3>2. row'.version = row.version + 1  BY <1>0, <1>2, <3>1, CommittedFields DEF Fresh
      <3>3. /\ at'[s] \notin CopyPoints
            /\ \A q \in Slots \ {s} : copy'[q] = copy[q]
        BY <1>0, <2>1 DEF Step, CopyPoints, SavePoints
      <3> QED  BY <1>0, <3>2, <3>3, CommitStarts
    <2> QED  BY <2>2, <2>3
  <1>3. CASE row' = row /\ Continue(s, row)
    BY <1>0, <1>1, <1>3, NoCopyPoint, PrivateStarts
  <1>4. CASE row' = row /\ Fails(s)
    BY <1>0, <1>4, NoCopyPoint, PrivateStarts DEF Fails
  <1>5. CASE /\ row' = row /\ CanReapply(s, row)
             /\ Step(s, at[s], Reapplied(s, row), task[s], result[s])
    <2>1. MayStart(at[s], Reapplied(s, row))
      <3>1. CASE at[s] = "startSave"
        <4>1. CanStartTask(row, task[s]) /\ Reapplied(s, row) = TaskStarted(row, task[s])
          BY <1>5, <3>1 DEF CanReapply, Reapplied
        <4> QED  BY <1>0, <3>1, <4>1, StartedStatus DEF MayStart, CanStartTask
      <3>2. CASE at[s] # "startSave"
        <4>1. \/ Reapplied(s, row) \in {PlanTaken(row, copy[s].plan), Replanned(row, copy[s].plan), Closed(row)}
              \/ at[s] = "recordSave" /\ Reapplied(s, row) = Recorded(row, task[s], result[s])
          BY <3>2 DEF Reapplied
        <4>2. ~Starts(row, Reapplied(s, row))  BY <1>0, <4>1, OthersStartNothing
        <4> QED  BY <4>2 DEF MayStart
      <3> QED  BY <3>1, <3>2
    <2> QED  BY <1>0, <1>5, <2>1, PrivateStarts
  <1> QED  BY <1>2, <1>3, <1>4, <1>5 DEF SaveAndPublish

\* Saves alone start tasks, and what they save was made while the mission executed.
LEMMA StepStarts ==
  ASSUME RunInvariant, StartsHeld, [Next]_vars
  PROVE  /\ StartsHeld'
         /\ Starts(row, row') => row.status = "EXECUTING" /\ row'.status = "EXECUTING"
  <1>0. row' = row => ~Starts(row, row')  BY DEF Starts
  <1>1. StartsHeld'
    BY CallStarts, OutsideStarts, WorkStarts, PublishStarts
    DEF Next, AttemptNext, Disturbance
  <1>2. ASSUME NEW c \in Calls, CallNext(c)  PROVE ~Starts(row, row')
    <2>1. CASE SaveMission(c) /\ Fresh(held[c])
      <3>1. row'.task = held[c].task
        BY <2>1, CommittedFields DEF SaveMission, RunInvariant, TypeOK
      <3> QED  BY <2>1, <3>1 DEF SaveMission, StartsHeld, Starts
    <2> QED  BY <1>0, <1>2, <2>1 DEF CallNext, LoadMission, SaveMission, LaunchWorkflow, SignalWorkflow
  <1>3. ASSUME NEW s \in Slots, SaveAndPublish(s), row' # row
        PROVE  Starts(row, row') => row.status = "EXECUTING" /\ row'.status = "EXECUTING"
    <2>1. Fresh(copy[s]) /\ row' = SavedBy(s) /\ at[s] \in SavePoints  BY <1>3 DEF SaveAndPublish
    <2>2. row' = Committed(copy[s])
      BY <1>3, <2>1 DEF RunInvariant, CopiesFollow, SavedBy
    <2>3. row'.task = copy[s].task /\ row'.status = copy[s].status
      BY <2>2, CommittedFields DEF RunInvariant, TypeOK
    <2> QED  BY <2>1, <2>3 DEF StartsHeld, MayStart, CopyPoints, Starts
  <1>4. ASSUME NEW s \in Slots, AttemptNext(s)
        PROVE  Starts(row, row') => row.status = "EXECUTING" /\ row'.status = "EXECUTING"
    <2>1. ~SaveAndPublish(s) => row' = row
      BY <1>4 DEF AttemptNext, LoadPlan, LoadReplan, LoadStep, RunAgent, RecordResult, RequestApproval, Report
    <2> QED  BY <1>0, <1>3, <2>1
  <1>5. WorkflowNext \/ (\E t \in Tasks : Decide(t)) \/ Disturbance \/ UNCHANGED vars => row' = row
    BY WorkflowKeeps, DecideKeeps, DisturbanceKeeps DEF vars
  <1> QED  BY <1>0, <1>1, <1>2, <1>4, <1>5 DEF Next

\* However late the copy was loaded that starts a task, the save's version check holds it
\* back once a pause, a cancel or an end was saved: startTask's own check is enough.
THEOREM StartsAreHeldBack == Spec => TasksStartWhileExecuting
  <1>1. Init => StartsHeld
    BY DEF Init, StartsHeld, MayStart, CopyPoints, SavePoints
  <1>2. RunInvariant /\ StartsHeld /\ [Next]_vars => StartsHeld'  BY StepStarts
  <1>3. RunInvariant /\ StartsHeld /\ [Next]_vars =>
          [\A t \in Tasks : row.task[t] # "RUNNING" /\ row'.task[t] = "RUNNING"
             => row.status = "EXECUTING" /\ row'.status = "EXECUTING"]_vars
    BY StepStarts DEF Starts
  <1> QED  BY <1>1, <1>2, <1>3, RunInvariantHolds, PTL DEF Spec, TasksStartWhileExecuting

-----------------------------------------------------------------------------
(* When the workflow returns.  Without an attempt that outlives its timeout,  *)
(* the workflow waits for the only one there is; without pause calls, only an *)
(* end can take the mission from it while it closes.                          *)

Ended(m) == m.status \in TerminalStatuses

OneAttempt == \A s \in Slots : at[s] # "free" => slot = s
CallsKnown ==
  \A c \in Calls : /\ pc[c] # "idle" => op[c] \in Ops
                   /\ pc[c] = "save" => op[c] # "replan" /\ held[c].status = Target[op[c]]
                   /\ pc[c] = "signal" /\ op[c] = "cancel" => Ended(row)
ReturnKnown == control = "CANCEL" \/ wf = "ended" => Ended(row)
\* What is known at a point p of a copy m and a result r, over the row n.
Closing(p, m, r, n) ==
  /\ p = "closeSave" => /\ n.status = "EXECUTING" \/ Ended(n)
                        /\ m.status \in {"COMPLETED", "FAILED"}
  /\ p \in {"planSave", "replanSave"} => r = "none"
  /\ p = "answered" /\ Over(r) => Ended(n)
AttemptsKnown == \A s \in Slots : Closing(at[s], copy[s], result[s], row)

EndsKnown == OneAttempt /\ CallsKnown /\ ReturnKnown /\ AttemptsKnown

LEMMA EndStays ==
  ASSUME LifeStep(row, row'), Sound(row), Ended(row)
  PROVE  Ended(row')
  BY DEF LifeStep, Sound, Ended, TerminalStatuses

LEMMA CallEnds ==
  ASSUME "pause" \notin Ops, RunInvariant, EndsKnown, NEW c \in Calls, CallNext(c) \/ CallCrashes(c)
  PROVE  EndsKnown'
  <1>0. /\ pc \in [Calls -> CallPoints] /\ op \in [Calls -> AllOps] /\ held \in [Calls -> Missions]
        /\ Ops \subseteq AllOps /\ row \in Missions /\ Sound(row)
    BY MissionOpsAssumption DEF RunInvariant, TypeOK, AllSound
  <1>1. UNCHANGED <<at, copy, result, slot>>
    BY DEF CallNext, LoadMission, SaveMission, LaunchWorkflow, SignalWorkflow, CallCrashes, actVars, wfVars
  <1>2. OneAttempt'  BY <1>1 DEF EndsKnown, OneAttempt
  <1>3. LifeStep(row, row')
    BY LifeSelf, LoadMissionKeeps, SaveMissionKeeps, CallEndKeeps DEF CallNext
  <1>4. Ended(row) => Ended(row')  BY <1>0, <1>3, EndStays
  <1>5. CASE row' = row
    <2>1. AttemptsKnown'  BY <1>1, <1>5 DEF EndsKnown, AttemptsKnown, Closing, Ended
    <2>2. CASE LoadMission(c)
      <3>1. UNCHANGED <<control, wf>>  BY <2>2 DEF LoadMission, wfVars
      <3>2. PICK o \in IF pc[c] = "idle" THEN Ops ELSE {op[c]} :
              \/ CallMoves(c, "done", o, held[c], tries[c])
              \/ o = "replan" /\ CallMoves(c, "signal", o, held[c], tries[c])
              \/ o # "replan" /\ CanMove(row, Target[o])
                 /\ CallMoves(c, "save", o, MovedTo(row, Target[o]), tries[c])
        BY <2>2 DEF LoadMission
      <3>3. o \in Ops /\ o \in AllOps  BY <1>0, <2>2, <3>2 DEF EndsKnown, CallsKnown, LoadMission
      <3>4. o # "replan" => MovedTo(row, Target[o]).status = Target[o]
        BY <1>0 DEF MovedTo, Missions
      <3>5. CallsKnown'
        BY <1>0, <1>5, <3>2, <3>3, <3>4 DEF EndsKnown, CallsKnown, CallMoves, Ended
      <3> QED  BY <1>2, <1>5, <2>1, <3>1, <3>5 DEF EndsKnown, ReturnKnown, Ended
    <2>3. CASE SaveMission(c)
      <3>1. UNCHANGED <<control, wf, op, held>> /\ ~Fresh(held[c])
        <4>1. Fresh(held[c]) => row'.version = row.version + 1
          BY <1>0, <2>3, CommittedFields DEF SaveMission, Fresh
        <4>2. row.version \in Nat  BY <1>0 DEF Missions
        <4> QED  BY <1>5, <2>3, <4>1, <4>2 DEF SaveMission, wfVars
      <3>2. pc'[c] \in {"load", "done"} /\ \A d \in Calls \ {c} : pc'[d] = pc[d]
        BY <1>0, <2>3, <3>1 DEF SaveMission
      <3>3. CallsKnown'  BY <1>0, <1>5, <2>3, <3>1, <3>2 DEF EndsKnown, CallsKnown, Ended, SaveMission
      <3> QED  BY <1>2, <1>5, <2>1, <3>1, <3>3 DEF EndsKnown, ReturnKnown, Ended
    <2>4. CASE LaunchWorkflow(c) \/ SignalWorkflow(c) \/ CallCrashes(c)
      <3>1. /\ UNCHANGED <<op, held>> /\ pc'[c] = "done" /\ pc[c] # "idle"
            /\ \A d \in Calls \ {c} : pc'[d] = pc[d]
        BY <1>0, <2>4 DEF LaunchWorkflow, SignalWorkflow, CallCrashes
      <3>2. CallsKnown'  BY <1>5, <3>1 DEF EndsKnown, CallsKnown, Ended
      <3>3. ReturnKnown'
        <4>1. CASE LaunchWorkflow(c)
          BY <1>5, <4>1 DEF LaunchWorkflow, EndsKnown, ReturnKnown, Ended
        <4>2. CASE SignalWorkflow(c)
          <5>1. op[c] \in {"start", "pause", "resume", "replan"} => Signals[op[c]] # "CANCEL" \/ op[c] = "start"
            BY DEF Signals
          <5>2. op[c] # "start"  BY <4>2 DEF SignalWorkflow, RunInvariant, WorkKnown
          <5>3. op[c] \in AllOps  BY <1>0
          <5>4. control' = "CANCEL" => control = "CANCEL" \/ op[c] = "cancel"
            BY <4>2, <5>1, <5>2, <5>3 DEF SignalWorkflow, AllOps
          <5> QED  BY <1>5, <4>2, <5>4 DEF SignalWorkflow, EndsKnown, ReturnKnown, CallsKnown, Ended
        <4>3. CASE CallCrashes(c)
          BY <1>5, <4>3 DEF CallCrashes, EndsKnown, ReturnKnown, Ended, wfVars
        <4> QED  BY <2>4, <4>1, <4>2, <4>3
      <3> QED  BY <1>2, <2>1, <3>2, <3>3 DEF EndsKnown
    <2> QED  BY <2>2, <2>3, <2>4 DEF CallNext
  <1>6. CASE row' # row
    <2>1. /\ SaveMission(c) /\ Fresh(held[c]) /\ row' = Committed(held[c])
          /\ UNCHANGED <<control, wf, op, held>> /\ pc' = [pc EXCEPT ![c] = AfterSave(op[c])]
      BY <1>6 DEF CallNext, LoadMission, SaveMission, LaunchWorkflow, SignalWorkflow, CallCrashes, wfVars
    <2>2. row'.status = Target[op[c]] /\ op[c] \in Ops /\ op[c] \in AllOps \ {"replan", "pause"}
      BY <1>0, <2>1, CommittedFields DEF EndsKnown, CallsKnown, SaveMission
    <2>3. /\ row'.status \in {"PLANNING", "EXECUTING", "CANCELLED"}
          /\ op[c] = "cancel" => row'.status = "CANCELLED"
      BY <2>2 DEF AllOps, Target
    <2>4. op[c] = "cancel" => Ended(row')  BY <2>3 DEF Ended, TerminalStatuses
    <2>5. row.status = "EXECUTING" => row'.status = "EXECUTING" \/ Ended(row')
      BY <1>3, <2>3 DEF LifeStep, Ended, TerminalStatuses
    <2>6. AttemptsKnown'  BY <1>1, <1>4, <2>5 DEF EndsKnown, AttemptsKnown, Closing
    <2>7. CallsKnown'
      BY <1>0, <1>4, <2>1, <2>2, <2>4 DEF EndsKnown, CallsKnown, AfterSave, SaveMission
    <2> QED  BY <1>2, <1>4, <2>1, <2>6, <2>7 DEF EndsKnown, ReturnKnown
  <1> QED  BY <1>5, <1>6

\* A step of the attempt the workflow waits for.
LEMMA WorkEnds ==
  ASSUME RunInvariant, RunInvariant', EndsKnown, NEW s \in Slots, at[s] # "free", LifeStep(row, row'),
         NEW p, NEW m, NEW t, NEW r, Step(s, p, m, t, r), Closing(p, m, r, row'),
         UNCHANGED <<callVars, wfVars>>
  PROVE  EndsKnown'
  <1>1. /\ at \in [Slots -> AttemptPoints] /\ copy \in [Slots -> Missions] /\ Sound(row)
        /\ result \in [Slots -> Results]
    BY DEF RunInvariant, TypeOK, AllSound, Results
  <1>2. Ended(row) => Ended(row')  BY <1>1, EndStays
  <1>3. \A q \in Slots \ {s} : at[q] = "free" /\ at'[q] = "free"
    BY <1>1 DEF EndsKnown, OneAttempt, Step
  <1>4. OneAttempt'
    BY <1>3 DEF EndsKnown, OneAttempt, wfVars
  <1>5. CallsKnown'  BY <1>2 DEF EndsKnown, CallsKnown, callVars
  <1>6. ReturnKnown'  BY <1>2 DEF EndsKnown, ReturnKnown, wfVars
  <1>7. at'[s] = p /\ copy'[s] = m /\ result'[s] = r  BY <1>1 DEF Step
  <1>8. \A n, x, y : Closing("free", n, x, y)  BY DEF Closing
  <1>9. AttemptsKnown'  BY <1>3, <1>7, <1>8 DEF AttemptsKnown
  <1> QED  BY <1>4, <1>5, <1>6, <1>9 DEF EndsKnown

LEMMA EasyClosing ==
  \A p \in {"failed", "record", "agent", "report", "ask", "startSave", "recordSave"} : \A m, r, n : Closing(p, m, r, n)
  BY DEF Closing

LEMMA LoadEnds ==
  ASSUME RunInvariant, NEW s \in Slots,
         \/ LoadPlan(s) \/ LoadReplan(s) \/ LoadStep(s) \/ RunAgent(s) \/ RecordResult(s)
         \/ RequestApproval(s) \/ Report(s) \/ ActivityThrows(s)
  PROVE  /\ row' = row /\ UNCHANGED <<callVars, wfVars>> /\ at[s] # "free"
         /\ \E p, m, t, r : Step(s, p, m, t, r) /\ Closing(p, m, r, row)
  <1>0. row \in Missions  BY DEF RunInvariant, TypeOK
  <1>1. row' = row /\ UNCHANGED <<callVars, wfVars>> /\ at[s] # "free"
    BY DEF LoadPlan, LoadReplan, LoadStep, RunAgent, RecordResult, RequestApproval, Report, ActivityThrows
  <1>2. CASE Fails(s)  BY <1>1, <1>2, EasyClosing DEF Fails
  <1>3. CASE LoadPlan(s) \/ LoadReplan(s)
    <2>1. \A m : Closing("planSave", m, "none", row) /\ Closing("replanSave", m, "none", row)
      BY DEF Closing
    <2> QED  BY <1>1, <1>2, <1>3, <2>1 DEF LoadPlan, LoadReplan
  <1>4. CASE LoadStep(s)
    <2>1. \A m : Closing("answered", m, row.status, row)  BY DEF Closing, Over, Ended
    <2>2. row.status = "EXECUTING" => Closing("closeSave", Closed(row), Closed(row).status, row)
      BY <1>0, ClosedVersion DEF Closing
    <2> QED  BY <1>1, <1>2, <1>4, <2>1, <2>2, EasyClosing DEF LoadStep
  <1>5. CASE RunAgent(s) \/ RecordResult(s) \/ RequestApproval(s)
    BY <1>1, <1>2, <1>5, EasyClosing DEF RunAgent, RecordResult, RequestApproval
  <1>6. CASE Report(s)
    <2>1. \A m : Closing("answered", m, row.status, row)  BY DEF Closing, Over, Ended
    <2> QED  BY <1>1, <1>6, <2>1 DEF Report
  <1>7. CASE ActivityThrows(s)  BY <1>1, <1>2, <1>7 DEF ActivityThrows
  <1> QED  BY <1>3, <1>4, <1>5, <1>6, <1>7

LEMMA PublishEnds ==
  ASSUME RunInvariant, EndsKnown, NEW s \in Slots, SaveAndPublish(s), LifeStep(row, row')
  PROVE  /\ UNCHANGED <<callVars, wfVars>> /\ at[s] # "free"
         /\ \E p, m, t, r : Step(s, p, m, t, r) /\ Closing(p, m, r, row')
  <1>0. /\ row \in Missions /\ copy[s] \in Missions /\ at[s] \in SavePoints
        /\ UNCHANGED <<callVars, wfVars>> /\ at[s] # "free" /\ Sound(row)
        /\ Closing(at[s], copy[s], result[s], row)
    BY DEF RunInvariant, TypeOK, AllSound, SaveAndPublish, SavePoints, EndsKnown, AttemptsKnown
  <1>1. CASE Fails(s)  BY <1>0, <1>1, EasyClosing DEF Fails
  <1>2. ASSUME Continue(s, row'), at[s] = "closeSave" => Ended(row')
        PROVE  \E p, m, t, r : Step(s, p, m, t, r) /\ Closing(p, m, r, row')
    <2>1. CASE at[s] \in {"startSave", "recordSave"}  BY <1>2, <2>1, EasyClosing DEF Continue
    <2>2. CASE at[s] \in {"planSave", "replanSave", "closeSave"}
      <3>1. Step(s, "answered", row', task[s], result[s])  BY <1>2, <2>2 DEF Continue
      <3>2. at[s] # "closeSave" => ~Over(result[s])
        BY <1>0, <2>2 DEF Closing, Over, TerminalStatuses
      <3>3. Closing("answered", row', result[s], row')  BY <1>2, <3>2 DEF Closing
      <3> QED  BY <3>1, <3>3
    <2> QED  BY <1>0, <2>1, <2>2 DEF SavePoints
  <1>3. CASE Fresh(copy[s]) /\ row' = SavedBy(s) /\ Continue(s, SavedBy(s))
    <2>1. at[s] = "closeSave" => row'.status = copy[s].status
      BY <1>0, <1>3, CommittedFields DEF SavedBy
    <2>2. at[s] = "closeSave" => Ended(row')
      BY <1>0, <2>1 DEF Closing, Ended, TerminalStatuses
    <2> QED  BY <1>0, <1>2, <1>3, <2>2
  <1>4. CASE row' = row /\ ~CanReapply(s, row) /\ Continue(s, row)
    <2>1. at[s] = "closeSave" => row.status # "EXECUTING"
      BY <1>4 DEF CanReapply, CanClose
    <2>2. at[s] = "closeSave" => Ended(row')  BY <1>0, <1>4, <2>1 DEF Closing
    <2> QED  BY <1>0, <1>2, <1>4, <2>2
  <1>5. CASE /\ row' = row /\ CanReapply(s, row)
             /\ Step(s, at[s], Reapplied(s, row), task[s], result[s])
    <2>1. at[s] = "closeSave" => Reapplied(s, row).status \in {"COMPLETED", "FAILED"}
      BY <1>0, ClosedVersion DEF Reapplied
    <2>2. Closing(at[s], Reapplied(s, row), result[s], row')
      BY <1>0, <1>5, <2>1 DEF Closing, SavePoints
    <2> QED  BY <1>0, <1>5, <2>2
  <1> QED  BY <1>0, <1>1, <1>3, <1>4, <1>5 DEF SaveAndPublish

LEMMA WorkflowEnds ==
  ASSUME "timeout" \notin Faults, RunInvariant, EndsKnown,
         \/ WorkflowNext \/ (\E t \in Tasks : Decide(t)) \/ UNCHANGED vars
         \/ \E s \in Slots : WorkerCrashes(s) \/ AttemptTimesOut(s)
  PROVE  EndsKnown'
  <1>0. /\ at \in [Slots -> AttemptPoints] /\ copy \in [Slots -> Missions] /\ result \in [Slots -> Results]
        /\ slot \in Slots \cup {NoSlot} /\ control \in Controls /\ NoSlot \notin Slots
    BY NoneAssumption DEF RunInvariant, TypeOK, Results
  <1>1. ASSUME row' = row, UNCHANGED callVars  PROVE CallsKnown'
    BY <1>1 DEF EndsKnown, CallsKnown, callVars, Ended
  <1>2. ASSUME row' = row, UNCHANGED <<at, copy, result, slot>>  PROVE OneAttempt' /\ AttemptsKnown'
    BY <1>2 DEF EndsKnown, OneAttempt, AttemptsKnown, Closing, Ended
  <1>3. CASE (\E t \in Tasks : Decide(t)) \/ UNCHANGED vars
    <2>1. row' = row /\ UNCHANGED <<callVars, actVars, wfVars>>  BY <1>3 DEF Decide, vars
    <2>2. ReturnKnown'  BY <2>1 DEF EndsKnown, ReturnKnown, wfVars, Ended
    <2> QED  BY <1>1, <1>2, <2>1, <2>2 DEF actVars, wfVars, EndsKnown
  <1>4. CASE WorkflowLoop \/ Wake
    <2>1. row' = row /\ UNCHANGED <<callVars, actVars, slot>>  BY <1>4 DEF WorkflowLoop, Wake
    <2>2. ReturnKnown'  BY <1>4, <2>1 DEF EndsKnown, ReturnKnown, WorkflowLoop, Wake, Ended
    <2> QED  BY <1>1, <1>2, <2>1, <2>2 DEF actVars, EndsKnown
  <1>5. ASSUME NEW s \in Slots, Dispatch(s)  PROVE EndsKnown'
    <2>1. row' = row /\ UNCHANGED <<callVars, wf, control>>  BY <1>5 DEF Dispatch
    <2>2. \A q \in Slots : at[q] = "free"  BY <1>0, <1>5 DEF EndsKnown, OneAttempt, Dispatch
    <2>3. /\ slot' = s /\ at'[s] \in Activities
          /\ \A q \in Slots \ {s} : at'[q] = "free"
      BY <1>0, <1>5, <2>2 DEF Dispatch
    <2>4. OneAttempt'  BY <2>3 DEF OneAttempt
    <2>5. \A q \in Slots : at'[q] \in {"free"} \cup Activities  BY <2>3
    <2>6. AttemptsKnown'  BY <2>5 DEF AttemptsKnown, Closing, Activities
    <2>7. ReturnKnown'  BY <2>1 DEF EndsKnown, ReturnKnown, Ended
    <2> QED  BY <1>1, <2>1, <2>4, <2>6, <2>7 DEF EndsKnown
  <1>6. ASSUME NEW s \in Slots, Vacated(s), at[s] # "free", row' = row, UNCHANGED callVars, ReturnKnown'
        PROVE  EndsKnown'
    <2>1. \A q \in Slots : at'[q] = "free"
      BY <1>0, <1>6 DEF EndsKnown, OneAttempt, Vacated
    <2>2. OneAttempt' /\ AttemptsKnown'  BY <2>1 DEF OneAttempt, AttemptsKnown, Closing
    <2> QED  BY <1>1, <1>6, <2>2 DEF EndsKnown
  <1>7. ASSUME AttemptLost  PROVE ReturnKnown' /\ row' = row /\ UNCHANGED callVars
    BY <1>7 DEF AttemptLost, EndsKnown, ReturnKnown, Ended
  <1>8. ASSUME NEW s \in Slots, Deliver(s)  PROVE EndsKnown'
    <2>1. row' = row /\ UNCHANGED callVars /\ Vacated(s) /\ at[s] = "answered"  BY <1>8 DEF Deliver
    <2>2. Over(result[s]) => Ended(row)  BY <2>1 DEF EndsKnown, AttemptsKnown, Closing
    <2>3. ReturnKnown'  BY <1>8, <2>1, <2>2 DEF Deliver, EndsKnown, ReturnKnown, Ended
    <2> QED  BY <1>6, <2>1, <2>3
  <1>9. ASSUME NEW s \in Slots, Throw(s)  PROVE EndsKnown'
    BY <1>6, <1>7, <1>9 DEF Throw
  <1>10. ASSUME NEW s \in Slots, Discard(s)  PROVE EndsKnown'
    BY <1>10 DEF Discard, EndsKnown, OneAttempt
  <1>11. ASSUME NEW s \in Slots, WorkerCrashes(s)  PROVE EndsKnown'
    <2>1. Vacated(s) /\ at[s] # "free" /\ slot = s /\ AttemptLost
      BY <1>11 DEF WorkerCrashes, EndsKnown, OneAttempt
    <2> QED  BY <1>6, <1>7, <2>1
  <1>12. ASSUME NEW s \in Slots, AttemptTimesOut(s)  PROVE EndsKnown'
    BY <1>12 DEF AttemptTimesOut
  <1> QED
    BY <1>3, <1>4, <1>5, <1>8, <1>9, <1>10, <1>11, <1>12 DEF WorkflowNext

LEMMA NextEnds ==
  ASSUME "timeout" \notin Faults, "pause" \notin Ops, RunInvariant, EndsKnown, [Next]_vars
  PROVE  EndsKnown'
  <1>1. RunInvariant' /\ LifeStep(row, row')  BY StepKeeps
  <1>2. ASSUME NEW s \in Slots, AttemptNext(s) \/ ActivityThrows(s)  PROVE EndsKnown'
    <2>1. CASE SaveAndPublish(s)  BY <1>1, <2>1, PublishEnds, WorkEnds
    <2>2. CASE ~SaveAndPublish(s)
      <3>1. /\ row' = row /\ UNCHANGED <<callVars, wfVars>> /\ at[s] # "free"
            /\ \E p, m, t, r : Step(s, p, m, t, r) /\ Closing(p, m, r, row)
        BY <1>2, <2>2, LoadEnds DEF AttemptNext
      <3> QED  BY <1>1, <3>1, WorkEnds
    <2> QED  BY <2>1, <2>2
  <1> QED  BY <1>2, CallEnds, WorkflowEnds DEF Next, Disturbance

\* Where attempts keep their timeouts and nobody calls pauseMission, a workflow that
\* returned leaves a mission that is over, whatever crashes, throws, answers late, is
\* cancelled or replanned: executeMissionStep reports an end only of a mission that ended.
THEOREM ReturnsWhenOver ==
  ASSUME "timeout" \notin Faults, "pause" \notin Ops
  PROVE  Spec => []EndedMeansTerminal
  <1>1. Init => EndsKnown
    BY DEF Init, EndsKnown, OneAttempt, CallsKnown, ReturnKnown, AttemptsKnown, Closing
  <1>2. RunInvariant /\ EndsKnown /\ [Next]_vars => EndsKnown'  BY NextEnds
  <1>3. EndsKnown => EndedMeansTerminal
    BY DEF EndsKnown, ReturnKnown, EndedMeansTerminal, Ended, TerminalStatuses
  <1> QED  BY <1>1, <1>2, <1>3, RunInvariantHolds, PTL DEF Spec

-----------------------------------------------------------------------------
(* When the engine fails a mission.  Where nothing disturbs the attempts and  *)
(* no mission is paused or resumed by a call, only a cancel comes between an  *)
(* attempt's load and its save; so a task of an executing mission is pending, *)
(* completed, or under way in the attempt the workflow waits for.             *)

\* validateTaskGraph refuses a plan with a cycle: some task of every set depends on none of it.
Acyclic == \A S \in SUBSET Tasks : S # {} => \E t \in S : DependsOn[t] \cap S = {}

Rest == {"ABSENT", "PENDING", "COMPLETED"}
WorkPoints == {"agent", "record", "ask", "recordSave"}
Resting(m) == \A t \in Tasks : m.task[t] \in Rest

\* What an attempt at p with a copy m of task t and a result r knows of the row n.
Follows(p, m, t, r, n) ==
  /\ p \in SavePoints \cup {"ask"} => m.version = n.version
  /\ p = "planSave" => m.status = "EXECUTING" /\ Resting(m)
  /\ p = "replanSave" => m.status = n.status /\ Resting(m)
  /\ p = "startSave" => n.status = "EXECUTING" /\ m = TaskStarted(n, t)
  /\ p \in WorkPoints => n.status = "EXECUTING" /\ n.task[t] = "RUNNING" /\ r # "PAUSED"
  /\ p = "ask" => m.status = "EXECUTING" /\ m.task = Marked(n, t, r).task /\ r = "AWAITING_APPROVAL"
  /\ p = "recordSave" => m.status = Recorded(n, t, r).status /\ m.task = Recorded(n, t, r).task
  /\ p = "closeSave" => m.status = "COMPLETED"

TasksWorked ==
  row.status = "EXECUTING" =>
    \A t \in Tasks : \/ row.task[t] \in Rest
                     \/ \E s \in Slots : at[s] \in WorkPoints /\ task[s] = t
StartsFirst ==
  /\ row.status = "APPROVED" => /\ wf = "none"
                                /\ \A c \in Calls : pc[c] # "launch"
                                /\ \A s \in Slots : at[s] = "free"
  /\ \A c \in Calls : pc[c] = "save" /\ Fresh(held[c])
       => /\ held[c].task = row.task
          /\ op[c] = "start" => row.status = "APPROVED"
Going ==
  /\ TasksWorked
  /\ StartsFirst
  /\ \A s \in Slots : Follows(at[s], copy[s], task[s], result[s], row)

NeverFails == row.status # "FAILED" /\ (Ended(row) \/ Going)

LEMMA EndFails ==
  ASSUME LifeStep(row, row'), Sound(row), Ended(row), row.status # "FAILED"
  PROVE  NeverFails'
  BY DEF LifeStep, Sound, Ended, TerminalStatuses, NeverFails

\* A free or answering attempt knows nothing, so nothing can fail it.
LEMMA EasyFollows ==
  \A p \in {"free", "failed", "report", "answered", "plan", "replan", "step"} :
    \A m, t, r, n : Follows(p, m, t, r, n)
  BY DEF Follows, SavePoints, WorkPoints

LEMMA CallFails ==
  ASSUME Ops \cap {"pause", "resume"} = {}, RunInvariant, RunInvariant', EndsKnown, ~Ended(row), Going,
         row.status # "FAILED", NEW c \in Calls, CallNext(c) \/ CallCrashes(c)
  PROVE  NeverFails'
  <1>0. /\ pc \in [Calls -> CallPoints] /\ op \in [Calls -> AllOps] /\ held \in [Calls -> Missions]
        /\ Ops \subseteq AllOps /\ row \in Missions /\ Sound(row) /\ row' \in Missions
    BY MissionOpsAssumption DEF RunInvariant, TypeOK, AllSound
  <1>1. UNCHANGED <<at, copy, result, task, slot>>
    BY DEF CallNext, LoadMission, SaveMission, LaunchWorkflow, SignalWorkflow, CallCrashes, actVars, wfVars
  <1>2. CASE row' = row
    <2>1. TasksWorked' /\ \A s \in Slots : Follows(at[s], copy[s], task[s], result[s], row)'
      BY <1>1, <1>2 DEF Going, TasksWorked, Follows
    <2>2. CASE LoadMission(c)
      <3>1. PICK o \in IF pc[c] = "idle" THEN Ops ELSE {op[c]} :
              \/ CallMoves(c, "done", o, held[c], tries[c])
              \/ CallMoves(c, "signal", o, held[c], tries[c])
              \/ /\ ~AlreadyThere(o, row) /\ CanMove(row, Target[o])
                 /\ CallMoves(c, "save", o, MovedTo(row, Target[o]), tries[c])
        BY <2>2 DEF LoadMission
      <3>2. MovedTo(row, Target[o]).task = row.task  BY <1>0 DEF MovedTo, Missions
      <3>3. ~AlreadyThere("start", row) /\ CanMove(row, Target["start"]) => row.status = "APPROVED"
        <4>1. Target["start"] = "PLANNING"  BY DEF Target
        <4> QED  BY <1>0, <4>1, Tables DEF CanMove, Sound, MissionTransitions
      <3>4. /\ pc'[c] \in {"done", "signal", "save"} /\ UNCHANGED wf
            /\ \A d \in Calls \ {c} : pc'[d] = pc[d] /\ op'[d] = op[d] /\ held'[d] = held[d]
            /\ op'[c] = o
            /\ pc'[c] = "save" => held'[c] = MovedTo(row, Target[o])
            /\ pc'[c] = "save" => ~AlreadyThere(o, row) /\ CanMove(row, Target[o])
        BY <1>0, <2>2, <3>1 DEF CallMoves, LoadMission, wfVars
      <3>5. StartsFirst'
        BY <1>1, <1>2, <3>2, <3>3, <3>4 DEF Going, StartsFirst, Fresh
      <3> QED  BY <1>2, <2>1, <3>5 DEF NeverFails, Going
    <2>3. CASE SaveMission(c) \/ SignalWorkflow(c) \/ CallCrashes(c)
      <3>1. UNCHANGED <<wf, op, held>>
        BY <2>3 DEF SaveMission, SignalWorkflow, CallCrashes, wfVars
      <3>2. SaveMission(c) => ~Fresh(held[c])
        <4>1. Fresh(held[c]) /\ SaveMission(c) => row'.version = row.version + 1
          BY <1>0, CommittedFields DEF SaveMission, Fresh
        <4>2. row.version \in Nat  BY <1>0 DEF Missions
        <4> QED  BY <1>2, <4>1, <4>2
      <3>3. pc'[c] \in {"load", "done"} /\ \A d \in Calls \ {c} : pc'[d] = pc[d]
        BY <1>0, <2>3, <3>2 DEF SaveMission, SignalWorkflow, CallCrashes
      <3>4. StartsFirst'  BY <1>1, <1>2, <3>1, <3>3 DEF Going, StartsFirst, Fresh
      <3> QED  BY <1>2, <2>1, <3>4 DEF NeverFails, Going
    <2>4. CASE LaunchWorkflow(c)
      <3>1. row.status # "APPROVED"  BY <2>4 DEF LaunchWorkflow, Going, StartsFirst
      <3>2. UNCHANGED <<op, held>> /\ pc'[c] = "done" /\ \A d \in Calls \ {c} : pc'[d] = pc[d]
        BY <1>0, <2>4 DEF LaunchWorkflow
      <3>3. StartsFirst'  BY <1>1, <1>2, <3>1, <3>2 DEF Going, StartsFirst, Fresh
      <3> QED  BY <1>2, <2>1, <3>3 DEF NeverFails, Going
    <2> QED  BY <2>2, <2>3, <2>4 DEF CallNext
  <1>3. CASE row' # row
    <2>1. /\ SaveMission(c) /\ Fresh(held[c]) /\ row' = Committed(held[c])
          /\ UNCHANGED <<wf, op, held>> /\ pc' = [pc EXCEPT ![c] = AfterSave(op[c])]
      BY <1>3 DEF CallNext, LoadMission, SaveMission, LaunchWorkflow, SignalWorkflow, CallCrashes, wfVars
    <2>2. /\ row'.status = Target[op[c]] /\ op[c] \in {"start", "cancel"}
          /\ row'.version = row.version + 1
      BY <1>0, <2>1, CommittedFields DEF EndsKnown, CallsKnown, SaveMission, AllOps, Fresh
    <2>3. CASE op[c] = "cancel"
      <3>1. row'.status = "CANCELLED"  BY <2>2, <2>3 DEF Target
      <3> QED  BY <3>1 DEF NeverFails, Ended, TerminalStatuses
    <2>4. CASE op[c] = "start"
      <3>1. row'.status = "PLANNING"  BY <2>2, <2>4 DEF Target
      <3>2. row.status = "APPROVED"  BY <2>1, <2>4 DEF Going, StartsFirst, SaveMission
      <3>3. \A s \in Slots : at[s] = "free"  BY <3>2 DEF Going, StartsFirst
      <3>4. \A s \in Slots : Follows(at[s], copy[s], task[s], result[s], row)'
        BY <1>1, <3>3, EasyFollows
      <3>5. \A d \in Calls : ~Fresh(held[d])'
        <4>1. \A d \in Calls : held[d].version <= row.version /\ held[d].version \in Nat
          BY <1>0 DEF RunInvariant, CopiesTrail, Missions
        <4>2. row.version \in Nat  BY <1>0 DEF Missions
        <4> QED  BY <2>1, <2>2, <4>1, <4>2 DEF Fresh
      <3>6. StartsFirst'  BY <3>1, <3>5 DEF StartsFirst
      <3>7. TasksWorked'  BY <3>1 DEF TasksWorked
      <3> QED  BY <3>1, <3>4, <3>6, <3>7 DEF NeverFails, Going
    <2> QED  BY <2>2, <2>3, <2>4
  <1> QED  BY <1>2, <1>3

\* The attempt the workflow waits for is the only one.
LEMMA AtRest ==
  ASSUME EndsKnown, Going, NEW s \in Slots, at[s] # "free"
  PROVE  /\ row.status # "APPROVED"
         /\ \A q \in Slots \ {s} : at[q] = "free"
         /\ row.status = "EXECUTING" /\ at[s] \notin WorkPoints => Resting(row)
         /\ row.status = "EXECUTING" => \A u \in Tasks \ {task[s]} : row.task[u] \in Rest
  <1>1. row.status # "APPROVED"  BY DEF Going, StartsFirst
  <1>2. \A q \in Slots \ {s} : at[q] = "free"  BY DEF EndsKnown, OneAttempt
  <1>3. "free" \notin WorkPoints  BY DEF WorkPoints
  <1> QED  BY <1>1, <1>2, <1>3 DEF Going, TasksWorked, Resting

\* A step of that attempt.
LEMMA WorkFails ==
  ASSUME RunInvariant, EndsKnown, Going, NEW s \in Slots, at[s] # "free",
         NEW p, NEW m, NEW t, NEW r, Step(s, p, m, t, r), UNCHANGED <<callVars, wfVars>>,
         row' = row \/ row'.version = row.version + 1,
         row'.status \notin {"FAILED", "APPROVED"},
         \/ Ended(row)'
         \/ /\ Follows(p, m, t, r, row')
            /\ row'.status = "EXECUTING" =>
                 \A u \in Tasks : row'.task[u] \in Rest \/ (p \in WorkPoints /\ u = t)
  PROVE  NeverFails'
  <1>0. /\ at \in [Slots -> AttemptPoints] /\ copy \in [Slots -> Missions] /\ row \in Missions
        /\ result \in [Slots -> Results] /\ task \in [Slots -> Tasks \cup {NoTask}]
        /\ held \in [Calls -> Missions]
    BY DEF RunInvariant, TypeOK, Results
  <1>1. /\ \A q \in Slots \ {s} : at[q] = "free" /\ at'[q] = "free"
        /\ at'[s] = p /\ copy'[s] = m /\ task'[s] = t /\ result'[s] = r
    BY <1>0, AtRest DEF Step
  <1>2. CASE ~Ended(row)'
    <2>1. TasksWorked'  BY <1>1, <1>2 DEF TasksWorked
    <2>2. \A q \in Slots : Follows(at[q], copy[q], task[q], result[q], row)'
      BY <1>1, <1>2, EasyFollows DEF Ended
    <2>3. CASE row' = row
      BY <2>1, <2>2, <2>3 DEF NeverFails, Going, StartsFirst, callVars, Fresh
    <2>4. CASE row'.version = row.version + 1
      <3>1. \A d \in Calls : held[d].version <= row.version /\ held[d].version \in Nat
        BY <1>0 DEF RunInvariant, CopiesTrail, Missions
      <3>2. row.version \in Nat  BY <1>0 DEF Missions
      <3>3. \A d \in Calls : ~Fresh(held[d])'
        BY <2>4, <3>1, <3>2 DEF Fresh, callVars
      <3> QED  BY <2>1, <2>2, <3>3 DEF NeverFails, Going, StartsFirst
    <2> QED  BY <2>3, <2>4
  <1> QED  BY <1>2 DEF NeverFails

\* Without a cycle, a mission whose tasks rest and of which none is runnable has all done.
LEMMA NothingLeft ==
  ASSUME Acyclic, NEW m \in Missions, Sound(m), Resting(m), Runnable(m) = {}
  PROVE  AllDone(m)
  <1> DEFINE Left == {t \in Tasks : m.task[t] = "PENDING"}
  <1>1. ASSUME Left # {}  PROVE FALSE
    <2>1. PICK t \in Left : DependsOn[t] \cap Left = {}  BY <1>1 DEF Acyclic
    <2>2. m.plan > 0  BY <2>1 DEF Sound, Missions
    <2>3. \A d \in DependsOn[t] : d \in Tasks  BY DependsOnAssumption, <2>1
    <2>4. \A d \in Tasks : m.task[d] # "ABSENT"  BY <2>2 DEF Sound
    <2>5. \A d \in DependsOn[t] : m.task[d] = "COMPLETED"
      BY <2>1, <2>3, <2>4 DEF Resting, Rest
    <2>6. t \in Runnable(m)  BY <2>1, <2>5 DEF Runnable, Ready
    <2> QED  BY <2>6
  <1> QED  BY <1>1 DEF AllDone, Resting, Rest

LEMMA LoadFails ==
  ASSUME Acyclic, RunInvariant, EndsKnown, ~Ended(row), Going, row.status # "FAILED",
         NEW s \in Slots, LoadPlan(s) \/ LoadReplan(s) \/ LoadStep(s) \/ Report(s)
  PROVE  NeverFails'
  <1>0. row \in Missions /\ Sound(row)  BY DEF RunInvariant, TypeOK, AllSound
  <1>1. /\ row' = row /\ UNCHANGED <<callVars, wfVars>>
        /\ at[s] \in {"plan", "replan", "step", "report"}
    BY DEF LoadPlan, LoadReplan, LoadStep, Report
  <1>2. /\ row.status # "APPROVED"
        /\ row.status = "EXECUTING" => Resting(row)
    BY <1>1, AtRest DEF WorkPoints
  <1>3. ASSUME NEW p, NEW m, NEW t, NEW r, Step(s, p, m, t, r), Follows(p, m, t, r, row)
        PROVE  NeverFails'
    <2>1. row'.status \notin {"FAILED", "APPROVED"} /\ at[s] # "free"  BY <1>1, <1>2
    <2>2. Follows(p, m, t, r, row')  BY <1>1, <1>3
    <2>3. row'.status = "EXECUTING" =>
            \A u \in Tasks : row'.task[u] \in Rest \/ (p \in WorkPoints /\ u = t)
      BY <1>1, <1>2 DEF Resting
    <2> QED  BY <1>1, <1>3, <2>1, <2>2, <2>3, WorkFails
  <1>4. CASE Fails(s)  BY <1>3, <1>4, EasyFollows DEF Fails
  <1>5. CASE LoadPlan(s) /\ ~Fails(s)
    <2>1. CanTakePlan(row, row.plan + 1) /\ Step(s, "planSave", PlanTaken(row, row.plan + 1), NoTask, "none")
      BY <1>5 DEF LoadPlan
    <2>2. Follows("planSave", PlanTaken(row, row.plan + 1), NoTask, "none", row)
      BY <1>0 DEF Follows, PlanTaken, Missions, Resting, Rest, WorkPoints
    <2> QED  BY <1>3, <2>1, <2>2
  <1>6. CASE LoadReplan(s) /\ ~Fails(s)
    <2>1. Step(s, "replanSave", Replanned(row, row.plan + 1), NoTask, "none")
      BY <1>6 DEF LoadReplan
    <2>2. Follows("replanSave", Replanned(row, row.plan + 1), NoTask, "none", row)
      BY <1>0 DEF Follows, Replanned, Missions, Resting, Rest, WorkPoints
    <2> QED  BY <1>3, <2>1, <2>2
  <1>7. CASE LoadStep(s) /\ ~Fails(s)
    <2>1. CASE row.status # "EXECUTING"  BY <1>3, <1>7, <2>1, EasyFollows DEF LoadStep
    <2>2. CASE /\ row.status = "EXECUTING" /\ Runnable(row) = {}
               /\ Step(s, "closeSave", Closed(row), NoTask, Closed(row).status)
      <3>1. AllDone(row)  BY <1>0, <1>2, <2>2, NothingLeft
      <3>2. Closed(row).status = "COMPLETED" /\ Closed(row).version = row.version
        BY <1>0, <3>1, ClosedVersion, MovedFields, Tables DEF Closed
      <3>3. Follows("closeSave", Closed(row), NoTask, Closed(row).status, row)
        BY <3>2 DEF Follows, WorkPoints
      <3> QED  BY <1>3, <2>2, <3>3
    <2>3. ASSUME row.status = "EXECUTING",
                 NEW t \in Runnable(row), Step(s, "startSave", TaskStarted(row, t), t, "none")
          PROVE  NeverFails'
      <3>1. TaskStarted(row, t).version = row.version
        BY <1>0 DEF TaskStarted, Marked, Missions
      <3>2. Follows("startSave", TaskStarted(row, t), t, "none", row)
        BY <2>3, <3>1 DEF Follows, WorkPoints
      <3> QED  BY <1>3, <2>3, <3>2
    <2> QED  BY <1>4, <1>7, <2>1, <2>2, <2>3 DEF LoadStep
  <1>8. CASE Report(s)  BY <1>3, <1>8, EasyFollows DEF Report
  <1> QED  BY <1>4, <1>5, <1>6, <1>7, <1>8

LEMMA ResultFails ==
  ASSUME RunInvariant, EndsKnown, ~Ended(row), Going, row.status # "FAILED",
         NEW s \in Slots, RunAgent(s) \/ RecordResult(s) \/ RequestApproval(s)
  PROVE  NeverFails'
  <1>0. /\ row \in Missions /\ copy[s] \in Missions /\ Answers \subseteq AgentAnswers
        /\ Follows(at[s], copy[s], task[s], result[s], row)
    BY AnswersAssumption DEF RunInvariant, TypeOK, Going
  <1>1. /\ row' = row /\ UNCHANGED <<callVars, wfVars>> /\ at[s] \in {"agent", "record", "ask"}
    BY DEF RunAgent, RecordResult, RequestApproval
  <1>2. /\ row.status = "EXECUTING" /\ row.task[task[s]] = "RUNNING" /\ result[s] # "PAUSED"
        /\ task[s] \in Tasks
        /\ at[s] = "record" => result[s] \in AgentAnswers
    BY <1>0, <1>1 DEF Follows, WorkPoints, RunInvariant, WorkKnown, OnTask, Outcomes
  <1>3. \A u \in Tasks \ {task[s]} : row.task[u] \in Rest  BY <1>1, <1>2, AtRest
  <1>4. ASSUME NEW p \in WorkPoints, NEW m, NEW r, Step(s, p, m, task[s], r),
               Follows(p, m, task[s], r, row)
        PROVE  NeverFails'
    <2>1. row'.status \notin {"FAILED", "APPROVED"} /\ at[s] # "free"  BY <1>1, <1>2
    <2>2. Follows(p, m, task[s], r, row')  BY <1>1, <1>4
    <2>3. row'.status = "EXECUTING" =>
            \A u \in Tasks : row'.task[u] \in Rest \/ (p \in WorkPoints /\ u = task[s])
      BY <1>1, <1>3
    <2> QED  BY <1>1, <1>4, <2>1, <2>2, <2>3, WorkFails
  <1>5. CASE RunAgent(s)
    <2>1. PICK r \in Answers : Step(s, "record", copy[s], task[s], r)  BY <1>5 DEF RunAgent
    <2>2. r # "PAUSED"  BY <1>0, <2>1 DEF AgentAnswers
    <2>3. Follows("record", copy[s], task[s], r, row)
      BY <1>2, <2>2 DEF Follows, SavePoints, WorkPoints
    <2> QED  BY <1>4, <2>1, <2>3 DEF WorkPoints
  <1>6. CASE RecordResult(s) /\ result[s] = "AWAITING_APPROVAL"
    <2>1. CanMark(row, task[s], result[s])  BY <1>2, <1>6 DEF CanMark, TaskTransitions
    <2>2. Step(s, "ask", Marked(row, task[s], result[s]), task[s], result[s])
      BY <1>6, <2>1 DEF RecordResult
    <2>3. /\ Marked(row, task[s], result[s]).version = row.version
          /\ Marked(row, task[s], result[s]).status = row.status
      BY <1>0 DEF Marked, Missions
    <2>4. Follows("ask", Marked(row, task[s], result[s]), task[s], result[s], row)
      BY <1>2, <1>6, <2>3 DEF Follows, SavePoints, WorkPoints
    <2> QED  BY <1>4, <2>2, <2>4 DEF WorkPoints
  <1>7. CASE RecordResult(s) /\ result[s] # "AWAITING_APPROVAL"
    <2>1. result[s] \in {"COMPLETED", "FAILED"}  BY <1>2, <1>7 DEF RecordResult, AgentAnswers
    <2>2. CanRecord(row, task[s], result[s])
      BY <1>2, <2>1 DEF CanRecord, CanMark, TaskTransitions
    <2>3. Step(s, "recordSave", Recorded(row, task[s], result[s]), task[s], result[s])
      BY <1>7, <2>2 DEF RecordResult
    <2>4. Recorded(row, task[s], result[s]).version = row.version
      BY <1>0, <2>1 DEF Recorded, Marked, MovedTo, Missions
    <2>5. Follows("recordSave", Recorded(row, task[s], result[s]), task[s], result[s], row)
      BY <1>2, <2>4 DEF Follows, WorkPoints
    <2> QED  BY <1>4, <2>3, <2>5 DEF WorkPoints
  <1>8. CASE RequestApproval(s)
    <2>0. at[s] = "ask"  BY <1>8 DEF RequestApproval
    <2>1. /\ copy[s].status = "EXECUTING" /\ copy[s].version = row.version
          /\ copy[s].task = Marked(row, task[s], result[s]).task /\ result[s] = "AWAITING_APPROVAL"
      BY <1>0, <2>0 DEF Follows
    <2>2. CanMove(copy[s], "PAUSED")  BY <2>1, Tables DEF CanMove, MissionTransitions
    <2>3. Step(s, "recordSave", MovedTo(copy[s], "PAUSED"), task[s], result[s])
      BY <1>8, <2>2 DEF RequestApproval
    <2>4. /\ MovedTo(copy[s], "PAUSED").status = "PAUSED"
          /\ MovedTo(copy[s], "PAUSED").task = copy[s].task
          /\ MovedTo(copy[s], "PAUSED").version = copy[s].version
      BY <1>0 DEF MovedTo, Missions
    <2>5. Recorded(row, task[s], result[s]) = MovedTo(Marked(row, task[s], result[s]), "PAUSED")
      BY <2>1 DEF Recorded
    <2>6. /\ Recorded(row, task[s], result[s]).status = "PAUSED"
          /\ Recorded(row, task[s], result[s]).task = Marked(row, task[s], result[s]).task
      BY <1>0, <2>5 DEF MovedTo, Marked, Missions
    <2>7. Follows("recordSave", MovedTo(copy[s], "PAUSED"), task[s], result[s], row)
      BY <1>2, <2>1, <2>4, <2>6 DEF Follows, WorkPoints
    <2> QED  BY <1>4, <2>3, <2>7 DEF WorkPoints
  <1> QED  BY <1>5, <1>6, <1>7, <1>8

LEMMA PublishFails ==
  ASSUME RunInvariant, EndsKnown, ~Ended(row), Going, row.status # "FAILED",
         NEW s \in Slots, SaveAndPublish(s)
  PROVE  NeverFails'
  <1>0. /\ row \in Missions /\ copy[s] \in Missions /\ at[s] \in SavePoints /\ at[s] # "free"
        /\ UNCHANGED <<callVars, wfVars>>
        /\ Follows(at[s], copy[s], task[s], result[s], row)
    BY DEF RunInvariant, TypeOK, SaveAndPublish, SavePoints, Going
  <1>1. Fresh(copy[s])  BY <1>0 DEF Follows, Fresh
  <1>2. SavedBy(s) = Committed(copy[s])  BY <1>0 DEF SavedBy, Follows, WorkPoints
  <1>3. row' = Committed(copy[s]) /\ Continue(s, row')
    BY <1>1, <1>2 DEF SaveAndPublish
  <1>4. /\ row'.status = copy[s].status /\ row'.task = copy[s].task
        /\ row'.version = row.version + 1
    BY <1>0, <1>1, <1>3, CommittedFields DEF Fresh
  <1>5. row.status # "APPROVED"  BY <1>0, AtRest
  <1>6. ASSUME at[s] \notin {"startSave", "recordSave"},
               row'.status \notin {"FAILED", "APPROVED"},
               Ended(row)' \/ (row'.status = "EXECUTING" => Resting(row'))
        PROVE  NeverFails'
    <2>1. Step(s, "answered", row', task[s], result[s])  BY <1>3, <1>6 DEF Continue
    <2>2. Follows("answered", row', task[s], result[s], row')  BY EasyFollows
    <2>3. Ended(row)' \/ (row'.status = "EXECUTING" =>
            \A u \in Tasks : row'.task[u] \in Rest \/ ("answered" \in WorkPoints /\ u = task[s]))
      BY <1>6 DEF Resting
    <2> QED  BY <1>0, <1>4, <1>6, <2>1, <2>2, <2>3, WorkFails
  <1>7. CASE at[s] \in {"planSave", "replanSave"}
    <2>1. (row'.status = "EXECUTING" \/ row'.status = row.status) /\ Resting(copy[s])
      BY <1>0, <1>4, <1>7 DEF Follows
    <2>2. Resting(row')  BY <1>4, <2>1 DEF Resting
    <2> QED  BY <1>5, <1>6, <1>7, <2>1, <2>2
  <1>8. CASE at[s] = "closeSave"
    <2>1. row'.status = "COMPLETED"  BY <1>0, <1>4, <1>8 DEF Follows
    <2>2. Ended(row)'  BY <2>1 DEF Ended, TerminalStatuses
    <2> QED  BY <1>6, <1>8, <2>1, <2>2
  <1>9. CASE at[s] = "startSave"
    <2>1. /\ row.status = "EXECUTING" /\ copy[s] = TaskStarted(row, task[s]) /\ task[s] \in Tasks
      BY <1>0, <1>9 DEF Follows, RunInvariant, WorkKnown, OnTask
    <2>2. /\ row'.status = "EXECUTING" /\ row'.task[task[s]] = "RUNNING"
          /\ \A u \in Tasks \ {task[s]} : row'.task[u] = row.task[u]
      BY <1>0, <1>4, <2>1 DEF TaskStarted, Marked, Missions
    <2>3. Step(s, "agent", row', task[s], "none")  BY <1>3, <1>9, <2>2 DEF Continue
    <2>4. Follows("agent", row', task[s], "none", row')
      BY <2>2 DEF Follows, SavePoints, WorkPoints
    <2>5. \A u \in Tasks : row'.task[u] \in Rest \/ ("agent" \in WorkPoints /\ u = task[s])
      BY <1>0, <2>1, <2>2, AtRest DEF WorkPoints
    <2>6. row'.status \notin {"FAILED", "APPROVED"}  BY <2>2
    <2> QED  BY <1>0, <1>4, <2>3, <2>4, <2>5, <2>6, WorkFails
  <1>10. CASE at[s] = "recordSave"
    <2>1. /\ row.status = "EXECUTING" /\ row.task[task[s]] = "RUNNING"
          /\ row'.status = Recorded(row, task[s], result[s]).status
          /\ row'.task = Recorded(row, task[s], result[s]).task
          /\ task[s] \in Tasks /\ result[s] \in AgentAnswers
      BY <1>0, <1>4, <1>10 DEF Follows, WorkPoints, RunInvariant, WorkKnown, OnTask, Outcomes
    <2>2. Step(s, "report", row', task[s], result[s])  BY <1>3, <1>10 DEF Continue
    <2>3. Follows("report", row', task[s], result[s], row')  BY EasyFollows
    <2>4. CASE result[s] = "COMPLETED"
      <3>1. Recorded(row, task[s], result[s]) = Marked(row, task[s], "COMPLETED")
        BY <2>4 DEF Recorded
      <3>2. /\ row'.status = "EXECUTING" /\ row'.task[task[s]] = "COMPLETED"
            /\ \A u \in Tasks \ {task[s]} : row'.task[u] = row.task[u]
        BY <1>0, <2>1, <3>1 DEF Marked, Missions
      <3>3. \A u \in Tasks : row'.task[u] \in Rest  BY <1>0, <2>1, <3>2, AtRest DEF Rest
      <3>4. row'.status \notin {"FAILED", "APPROVED"}  BY <3>2
      <3> QED  BY <1>0, <1>4, <2>2, <2>3, <3>3, <3>4, WorkFails
    <2>5. CASE result[s] = "AWAITING_APPROVAL"
      <3>1. Recorded(row, task[s], result[s]) = MovedTo(Marked(row, task[s], result[s]), "PAUSED")
        BY <2>5 DEF Recorded
      <3>2. row'.status = "PAUSED"  BY <1>0, <2>1, <3>1 DEF MovedTo, Marked, Missions
      <3> QED  BY <1>0, <1>4, <2>2, <2>3, <3>2, WorkFails
    <2>6. CASE result[s] = "FAILED"
      <3>1. Recorded(row, task[s], result[s]) = MovedTo(Marked(row, task[s], "FAILED"), "BLOCKED")
        BY <2>1, <2>6 DEF Recorded
      <3>2. row'.status = "BLOCKED"  BY <1>0, <2>1, <3>1 DEF MovedTo, Marked, Missions
      <3> QED  BY <1>0, <1>4, <2>2, <2>3, <3>2, WorkFails
    <2> QED  BY <2>1, <2>4, <2>5, <2>6 DEF AgentAnswers
  <1> QED  BY <1>0, <1>7, <1>8, <1>9, <1>10 DEF SavePoints

LEMMA WorkflowFails ==
  ASSUME RunInvariant, EndsKnown, ~Ended(row), Going, row.status # "FAILED",
         WorkflowNext \/ (\E t \in Tasks : Decide(t)) \/ UNCHANGED vars
  PROVE  NeverFails'
  <1>0. /\ at \in [Slots -> AttemptPoints] /\ copy \in [Slots -> Missions]
        /\ result \in [Slots -> Results] /\ task \in [Slots -> Tasks \cup {NoTask}]
        /\ slot \in Slots \cup {NoSlot} /\ NoSlot \notin Slots
    BY NoneAssumption DEF RunInvariant, TypeOK, Results
  <1>1. row' = row /\ UNCHANGED callVars
    BY DEF WorkflowNext, WorkflowLoop, Wake, Dispatch, Deliver, Throw, AttemptLost, Discard, wfVars, Decide, vars
  <1>2. ASSUME UNCHANGED actVars, wf' # "none" => wf # "none"  PROVE NeverFails'
    BY <1>1, <1>2 DEF NeverFails, Going, TasksWorked, StartsFirst, Follows, actVars, callVars, Fresh
  <1>3. ASSUME NEW s \in Slots, NEW p, p \in {"free"} \cup Activities,
               at' = [at EXCEPT ![s] = p], row.status # "APPROVED",
               \A q \in Slots \ {s} : at[q] = "free" /\ at'[q] = "free",
               at[s] \notin WorkPoints
        PROVE  NeverFails'
    <2>1. \A q \in Slots : at'[q] \in {"free"} \cup Activities
      BY <1>0, <1>3
    <2>2. \A q \in Slots : Follows(at[q], copy[q], task[q], result[q], row)'
      BY <2>1, EasyFollows DEF Activities
    <2>3. \A q \in Slots : at[q] \notin WorkPoints  BY <1>3 DEF WorkPoints
    <2>4. TasksWorked'  BY <1>1, <2>3 DEF Going, TasksWorked
    <2>5. StartsFirst'  BY <1>1, <1>3, <2>1 DEF Going, StartsFirst, callVars, Fresh
    <2> QED  BY <1>1, <2>2, <2>4, <2>5 DEF NeverFails, Going
  <1>4. CASE (\E t \in Tasks : Decide(t)) \/ UNCHANGED vars
    BY <1>2, <1>4 DEF Decide, vars, wfVars
  <1>5. CASE WorkflowLoop \/ Wake  BY <1>2, <1>5 DEF WorkflowLoop, Wake
  <1>6. ASSUME NEW s \in Slots, Dispatch(s)  PROVE NeverFails'
    <2>1. \A q \in Slots : at[q] = "free"  BY <1>0, <1>6 DEF EndsKnown, OneAttempt, Dispatch
    <2>2. at' = [at EXCEPT ![s] = wf] /\ wf \in Activities /\ row.status # "APPROVED"
      BY <1>6 DEF Dispatch, Activities, Going, StartsFirst
    <2>3. \A q \in Slots \ {s} : at'[q] = "free"  BY <1>0, <2>1, <2>2
    <2> QED  BY <1>3, <2>1, <2>2, <2>3 DEF WorkPoints
  <1>7. ASSUME NEW s \in Slots, Deliver(s) \/ Throw(s)  PROVE NeverFails'
    <2>1. /\ at' = [at EXCEPT ![s] = "free"] /\ at[s] \in {"answered", "failed"}
          /\ \A q \in Slots \ {s} : at[q] = "free"
      BY <1>7 DEF Deliver, Throw, Vacated, EndsKnown, OneAttempt
    <2>2. \A q \in Slots \ {s} : at'[q] = "free"  BY <1>0, <2>1
    <2>3. row.status # "APPROVED"  BY <2>1, AtRest
    <2> QED  BY <1>3, <2>1, <2>2, <2>3 DEF WorkPoints
  <1>8. ASSUME NEW s \in Slots, Discard(s)  PROVE NeverFails'
    BY <1>8 DEF Discard, EndsKnown, OneAttempt
  <1> QED  BY <1>4, <1>5, <1>6, <1>7, <1>8 DEF WorkflowNext

LEMMA NextFails ==
  ASSUME Faults = {}, Ops \cap {"pause", "resume"} = {}, Acyclic,
         RunInvariant, EndsKnown, NeverFails, [Next]_vars
  PROVE  NeverFails'
  <1>1. RunInvariant' /\ LifeStep(row, row')  BY StepKeeps
  <1>2. Sound(row)  BY DEF RunInvariant, AllSound
  <1>3. CASE Ended(row)  BY <1>1, <1>2, <1>3, EndFails DEF NeverFails
  <1>4. CASE ~Ended(row)
    <2>1. Going /\ row.status # "FAILED"  BY <1>4 DEF NeverFails
    <2>2. ASSUME NEW c \in Calls, CallNext(c)  PROVE NeverFails'
      BY <1>1, <1>4, <2>1, <2>2, CallFails
    <2>3. ASSUME NEW s \in Slots, AttemptNext(s)  PROVE NeverFails'
      BY <1>4, <2>1, <2>3, LoadFails, ResultFails, PublishFails DEF AttemptNext
    <2>4. ~Disturbance
      BY DEF Disturbance, CallCrashes, WorkerCrashes, AttemptTimesOut, ActivityThrows
    <2> QED  BY <1>4, <2>1, <2>2, <2>3, <2>4, WorkflowFails DEF Next
  <1> QED  BY <1>3, <1>4

\* Where every attempt runs to its answer and nobody calls pauseMission or resumeMission,
\* no mission is FAILED, so none without a failed task, whatever agents answer and whenever
\* it is cancelled or replanned: a failed task leaves it BLOCKED, and executeMissionStep
\* finds no runnable task only when all are done, a plan having no cycle.
THEOREM FailuresHaveAFailedTask ==
  ASSUME Faults = {}, Ops \cap {"pause", "resume"} = {}, Acyclic
  PROVE  Spec => []FailedMeansTaskFailed /\ [](row.status # "FAILED")
  <1>1. Init => EndsKnown
    BY DEF Init, EndsKnown, OneAttempt, CallsKnown, ReturnKnown, AttemptsKnown, Closing
  <1>2. Init => NeverFails
    BY EasyFollows DEF Init, NeverFails, Going, TasksWorked, StartsFirst, NewMission
  <1>3. RunInvariant /\ EndsKnown /\ [Next]_vars => EndsKnown'  BY NextEnds
  <1>4. RunInvariant /\ EndsKnown /\ NeverFails /\ [Next]_vars => NeverFails'  BY NextFails
  <1>5. NeverFails => FailedMeansTaskFailed /\ row.status # "FAILED"
    BY DEF NeverFails, FailedMeansTaskFailed
  <1> QED  BY <1>1, <1>2, <1>3, <1>4, <1>5, RunInvariantHolds, PTL DEF Spec
=============================================================================
