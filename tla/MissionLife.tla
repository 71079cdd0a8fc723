----------------------------- MODULE MissionLife ----------------------------
(* What a mission promises whoever looks at it, with no calls, copies,        *)
(* activities or versions: its status and the tasks that are done.            *)
EXTENDS Naturals

CONSTANTS Tasks, DependsOn

VARIABLES status, planned, done

Active == {"PLANNING", "EXECUTING"}

Init == status = "APPROVED" /\ planned = FALSE /\ done = {}

\* A task is done once, after the tasks it depends on, and stays done.
Finish(t) ==
  /\ planned /\ status # "COMPLETED"
  /\ t \notin done /\ DependsOn[t] \subseteq done
  /\ done' = done \cup {t}
  /\ UNCHANGED <<status, planned>>

\* A plan, once there, may be replaced but not taken away, and what is done stays so.
Plan ==
  /\ status \notin {"COMPLETED", "FAILED", "CANCELLED"}
  /\ planned' = TRUE
  /\ UNCHANGED <<status, done>>

Turn(from, to) ==
  status \in from /\ status' = to /\ UNCHANGED <<planned, done>>

Begin   == Turn({"APPROVED"}, "PLANNING")
Hold    == Turn(Active, "PAUSED")
Release == Turn({"PAUSED"}, "EXECUTING")
Stick   == Turn({"EXECUTING"}, "BLOCKED")
Cancel  == Turn(Active \cup {"PAUSED"}, "CANCELLED")

\* Planning ends with the plan; over a pause it also ends the pause.
Planned ==
  /\ status \in {"PLANNING", "PAUSED"} /\ ~planned
  /\ status' = "EXECUTING" /\ planned' = TRUE
  /\ UNCHANGED done

\* A planned mission completes when, and only when, every task is done; one that was
\* resumed before its plan was saved has nothing to do.
Close == Turn({"EXECUTING"}, IF planned => done = Tasks THEN "COMPLETED" ELSE "FAILED")

Next == \/ \E t \in Tasks : Finish(t)
        \/ Begin \/ Planned \/ Plan \/ Hold \/ Release \/ Stick \/ Cancel \/ Close

Spec == Init /\ [][Next]_<<status, planned, done>>
=============================================================================
