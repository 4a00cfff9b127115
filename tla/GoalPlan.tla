------------------------------ MODULE GoalPlan ------------------------------
(***************************************************************************)
(* What the agent promises about ONE goal and its plan, whatever runs it:  *)
(* the life of the rows of sub_goals and of the row of goals.              *)
(*                                                                         *)
(* The code has no such module: it is what the comments of goals.ts and    *)
(* goal-manager.ts say of the two tables ("sub_goal IDs that must complete *)
(* before this one can start", "complete when every sub-goal is completed  *)
(* or skipped").  AgentLoop is shown to implement it.                      *)
(***************************************************************************)
EXTENDS Naturals

CONSTANT SubGoalIds   \* ids the sub_goals table may hand out for this goal

VARIABLES
  goalStatus,   \* goals.status
  status,       \* sub_goals.status per id; "absent" while no row has the id
  dependsOn     \* sub_goals.depends_on per id

planVars == <<goalStatus, status, dependsOn>>

GoalStatuses    == {"active", "paused", "completed"}
SubGoalStatuses == {"absent", "pending", "in-progress",
                    "completed", "failed", "skipped"}
Terminal        == {"completed", "failed", "skipped"}
Started         == {"in-progress", "completed", "failed"}

Settled(i) == status[i] \in {"completed", "skipped"}
Ready(i)   == \A d \in dependsOn[i] : Settled(d)
AllSettled == \A i \in SubGoalIds : status[i] # "absent" => Settled(i)

PlanTypeOK ==
  /\ goalStatus \in GoalStatuses
  /\ status \in [SubGoalIds -> SubGoalStatuses]
  /\ dependsOn \in [SubGoalIds -> SUBSET SubGoalIds]

-----------------------------------------------------------------------------
SetStatus(i, s) == status' = [status EXCEPT ![i] = s]

(* A goal starts with no plan, or with a plan whose rows all wait.         *)
PlanInit ==
  /\ goalStatus \in {"active", "paused"}
  /\ status \in [SubGoalIds -> {"absent", "pending"}]
  /\ dependsOn \in [SubGoalIds -> SUBSET SubGoalIds]

Add(i) ==
  /\ goalStatus # "completed"
  /\ status[i] = "absent"
  /\ SetStatus(i, "pending")
  /\ dependsOn' = [dependsOn EXCEPT ![i] = {}]
  /\ UNCHANGED goalStatus

Link(i) ==
  /\ status[i] = "pending"
  /\ \E D \in SUBSET SubGoalIds : dependsOn' = [dependsOn EXCEPT ![i] = D]
  /\ UNCHANGED <<goalStatus, status>>

Begin(i) ==
  /\ status[i] = "pending"
  /\ Ready(i)
  /\ SetStatus(i, "in-progress")
  /\ UNCHANGED <<goalStatus, dependsOn>>

Finish(i) ==
  /\ status[i] = "in-progress"
  /\ \E s \in {"completed", "failed"} : SetStatus(i, s)
  /\ UNCHANGED <<goalStatus, dependsOn>>

Skip(i) ==
  /\ status[i] \in {"pending", "in-progress"}
  /\ SetStatus(i, "skipped")
  /\ UNCHANGED <<goalStatus, dependsOn>>

(* Only a restart takes work back.                                         *)
Retry(i) ==
  /\ status[i] = "in-progress"
  /\ SetStatus(i, "pending")
  /\ UNCHANGED <<goalStatus, dependsOn>>

Complete ==
  /\ AllSettled
  /\ goalStatus' = "completed"
  /\ UNCHANGED <<status, dependsOn>>

PauseOrActivate ==
  /\ goalStatus # "completed"
  /\ goalStatus' \in {"active", "paused"}
  /\ UNCHANGED <<status, dependsOn>>

PlanNext ==
  \/ \E i \in SubGoalIds : \/ Add(i) \/ Link(i) \/ Begin(i)
                           \/ Finish(i) \/ Skip(i) \/ Retry(i)
  \/ Complete
  \/ PauseOrActivate

PlanSpec == PlanInit /\ [][PlanNext]_planVars

-----------------------------------------------------------------------------
(* No sub-goal is started, or left started, while one it depends on is not *)
(* completed or skipped (the comment of sub_goals.depends_on).             *)
DependencySafety ==
  \A i \in SubGoalIds : status[i] \in Started => Ready(i)

(* A goal marked completed has no sub-goal left that is pending, running   *)
(* or failed (isGoalComplete).                                             *)
CompletionSound == goalStatus = "completed" => AllSettled

(* A sub-goal that reached a terminal status keeps it for ever, and so     *)
(* does a completed goal.                                                  *)
TerminalIsFinal ==
  [][/\ \A i \in SubGoalIds : status[i] \in Terminal => status'[i] = status[i]
     /\ goalStatus = "completed" => goalStatus' = "completed"]_planVars
=============================================================================
