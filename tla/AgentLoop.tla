------------------------------ MODULE AgentLoop ------------------------------
(***************************************************************************)
(* One goal of the agent process: the AgentLoop objects that work on it,   *)
(* the Evaluator and Replanner they call, the journal, the startup         *)
(* recovery, and the tables these share (apps/agent/src/loop, recovery).   *)
(*                                                                         *)
(* A step is what the code does between two awaits that another actor can  *)
(* tell apart; pc[l] names the await the loop l is at.  The supervisor is  *)
(* reduced to its activeLoops entry for this goal; module Supervisor has   *)
(* its reconciliation loop.  With one loop the model is the promise "one   *)
(* AgentLoop per active goal" kept, with two it is the promise broken by   *)
(* the pause/activate path of stopMainAgent.                               *)
(***************************************************************************)
EXTENDS Naturals, FiniteSets, Sequences

CONSTANTS
  Loops,             \* AgentLoop objects the supervisor may create for the goal
  NoLoop,            \* activeLoops has no entry for the goal
  MaxSubGoals,       \* bound: rows of sub_goals the goal may get
  Plans,             \* plans the planner may return: sequences of descriptors
  InitPlans,         \* plans the goal may have when the process first boots
  MaxTurns,          \* config.maxTurnsPerSubGoal
  MaxReplans,        \* config.maxReplansPerGoal
  CheckpointTries,   \* MAX_RETRIES of checkpoint
  MaxFaults          \* bound: crashes, shutdowns, failed database or provider calls

SubGoalIds == 1..MaxSubGoals
Descriptors == [dependsOn : SUBSET (1..MaxSubGoals + 1), priority : Nat]

ASSUME LoopsAssumption == NoLoop \notin Loops
ASSUME BoundsAssumption ==
  /\ MaxSubGoals \in Nat /\ MaxTurns \in Nat /\ MaxReplans \in Nat
  /\ CheckpointTries \in Nat \ {0} /\ MaxFaults \in Nat
ASSUME PlansAssumption ==
  /\ Plans \subseteq Seq(Descriptors)
  /\ InitPlans \subseteq Seq(Descriptors)
  /\ \A p \in InitPlans :
       /\ Len(p) <= MaxSubGoals
       /\ \A k \in 1..Len(p) : p[k].dependsOn \subseteq 1..Len(p)

VARIABLES
  \* database
  goalStatus,   \* goals.status
  replanCount,  \* goals.replan_count
  status,       \* sub_goals.status; "absent" while no row has the id
  dependsOn,    \* sub_goals.depends_on
  priority,     \* sub_goals.priority
  journal,      \* agent_state row "journal:<goalId>", {} when absent
  cycleLog,     \* planning_cycles, see below
  killSwitch,   \* agent_state row "kill_switch", value.active
  \* process
  phase,        \* where the process is in its boot sequence
  activeLoop,   \* supervisor.activeLoops.get(goalId), or NoLoop
  tick,         \* what the supervisor's tick is about to do for the goal
  pc,           \* the await each loop is at
  cur,          \* the sub-goal each loop holds
  cancelled,    \* AgentLoop.cancelled
  ctx,          \* the other locals of runGoalCycle and what it calls
  \* bound and history
  faults,       \* crashes, shutdowns and failed calls so far
  runs          \* history: times each sub-goal was set in-progress

(***************************************************************************)
(* planning_cycles is append-only: an 'active' row per cycle and rows that *)
(* close it.  All a property needs of a past cycle is the set of statuses  *)
(* of its closing rows, and all it needs of the table is which such sets   *)
(* occur in it.  The cycle of a running loop is open and not in the set.   *)
(***************************************************************************)

planRows == <<status, dependsOn, priority>>
goalRow  == <<goalStatus, replanCount>>
logs     == <<journal, cycleLog>>
process  == <<phase, activeLoop, tick, cancelled>>
local    == <<pc, cur, ctx>>
history  == <<runs>>
vars     == <<goalRow, planRows, logs, killSwitch, process, local, faults, history>>

\* The refinement mapping: the plan is what the two tables hold.
Plan == INSTANCE GoalPlan WITH
          SubGoalIds <- SubGoalIds, goalStatus <- goalStatus,
          status <- status, dependsOn <- dependsOn

-----------------------------------------------------------------------------
(* Types                                                                   *)

Entries    == [id : SubGoalIds, result : {"completed", "failed"}]
ClosingSet == SUBSET {"completed", "interrupted"}
Phases     == {"down", "detect", "reset", "up", "stopping"}
Serving    == phase \in {"up", "stopping"}
Labels     == {"idle", "top", "check", "finish", "clear",
               "start", "turn", "call",
               "ckptRead", "ckptWrite", "evaluate",
               "replan", "count", "escalate", "escalated", "survey",
               "judge", "skip", "plan", "insert", "resolve",
               "finally"}
Verdicts   == {"none", "minor", "major"}
Tallies    == [n : Nat, minor : Nat, major : Nat]

NoTally == [n |-> 0, minor |-> 0, major |-> 0]
FreshContext ==
  [turns |-> 0, result |-> "failed", entries |-> {}, tries |-> 0,
   tally |-> NoTally, count |-> 0, judge |-> {}, skip |-> {},
   plan |-> <<>>, ids |-> <<>>, at |-> 1]
Contexts ==
  [turns : Nat, result : {"completed", "failed"}, entries : SUBSET Entries,
   tries : Nat, tally : Tallies, count : Nat,
   judge : SUBSET SubGoalIds, skip : SUBSET SubGoalIds,
   plan : Seq(Descriptors), ids : Seq(SubGoalIds), at : Nat]

(* Every variable has its type.                                            *)
TypeOK ==
  /\ Plan!PlanTypeOK
  /\ replanCount \in Nat
  /\ priority \in [SubGoalIds -> Nat]
  /\ journal \subseteq Entries
  /\ cycleLog \subseteq ClosingSet
  /\ killSwitch \in BOOLEAN
  /\ phase \in Phases
  /\ activeLoop \in Loops \union {NoLoop}
  /\ tick \in {"none", "spawn", "stop"}
  /\ pc \in [Loops -> Labels]
  /\ cur \in [Loops -> SubGoalIds \union {0}]
  /\ cancelled \in [Loops -> BOOLEAN]
  /\ ctx \in [Loops -> Contexts]
  /\ faults \in Nat
  /\ runs \in [SubGoalIds -> Nat]

-----------------------------------------------------------------------------
(* Helpers                                                                 *)

Goto(l, label) == pc' = [pc EXCEPT ![l] = label]
SetLocals(l, c) == ctx' = [ctx EXCEPT ![l] = c]
SetStatus(i, s) == status' = [status EXCEPT ![i] = s]
Fault == faults < MaxFaults /\ faults' = faults + 1
Running(l) == pc[l] # "idle"
CompletedIds == {i \in SubGoalIds : [id |-> i, result |-> "completed"] \in journal}

(* getNextSubGoal: pending, every dependency completed or skipped, lowest  *)
(* priority value first; rows of equal priority come in any order.         *)
BugAnyPending == {i \in SubGoalIds : status[i] = "pending"}
BugRetryStranded ==
  {i \in SubGoalIds : status[i] \in {"pending", "in-progress"} /\ Plan!Ready(i)}
Actionable == {i \in SubGoalIds : status[i] = "pending" /\ Plan!Ready(i)}
NextSubGoals ==
  {i \in Actionable : \A j \in Actionable : priority[i] <= priority[j]}

IsGoalComplete == Plan!AllSettled

(* EvaluatorImpl.shouldReplan on the evaluations of this cycle, of which   *)
(* it uses only how many there are, how many are minor and how many major; *)
(* an evaluation is divergent when it is minor or major.                   *)
AddVerdict(t, v) ==
  [n |-> t.n + 1,
   minor |-> t.minor + (IF v = "minor" THEN 1 ELSE 0),
   major |-> t.major + (IF v = "major" THEN 1 ELSE 0)]
ShouldReplan(t) ==
  \/ t.major > 0
  \/ t.minor > 2
  \/ t.n >= 4 /\ 2 * (t.minor + t.major) > t.n

-----------------------------------------------------------------------------
(* Supervisor, as this goal sees it                                        *)

BugTickSpawnsAll ==
  /\ Serving
  /\ tick' = "spawn"
  /\ UNCHANGED <<goalRow, planRows, logs, killSwitch, phase, activeLoop, cancelled>>
  /\ UNCHANGED <<local, faults, history>>

(* A tick, or staggeredRestart, reads the active goals; the awaits of the  *)
(* goals before this one come between the read and what it does for it.    *)
(* The interval goes on during a shutdown.                                 *)
Tick ==
  /\ Serving
  /\ tick' = IF goalStatus = "active" THEN "spawn" ELSE "stop"
  /\ UNCHANGED <<goalRow, planRows, logs, killSwitch, phase, activeLoop, cancelled>>
  /\ UNCHANGED <<local, faults, history>>

(* spawnMainAgent and logCycleStart.  A start whose first statements fail  *)
(* leaves no trace, and is no step.                                        *)
Spawn(l) ==
  /\ Serving /\ tick = "spawn"
  /\ activeLoop = NoLoop /\ pc[l] = "idle"
  /\ activeLoop' = l
  /\ tick' = "none"
  /\ cancelled' = [cancelled EXCEPT ![l] = FALSE]
  /\ SetLocals(l, FreshContext)
  /\ Goto(l, "top")
  /\ UNCHANGED <<goalRow, planRows, logs, killSwitch, phase, cur, faults, history>>

(* stopMainAgent of a tick that did not find the goal active               *)
Stop ==
  /\ Serving /\ tick = "stop" /\ activeLoop # NoLoop
  /\ cancelled' = [cancelled EXCEPT ![activeLoop] = TRUE]
  /\ activeLoop' = NoLoop
  /\ tick' = "none"
  /\ UNCHANGED <<goalRow, planRows, logs, killSwitch, phase, local, faults, history>>

BugEntryKept(l) ==
  /\ pc[l] = "finally"
  /\ cycleLog' = cycleLog \union {{"completed"}}
  /\ Goto(l, "idle")
  /\ cur' = [cur EXCEPT ![l] = 0]
  /\ SetLocals(l, FreshContext)
  /\ UNCHANGED <<goalRow, planRows, journal, killSwitch, process, faults, history>>

(* finally { logCycleComplete } and the then/catch of spawnMainAgent, which *)
(* deletes the goal's entry whichever loop it names.  The insert may fail.  *)
EndCycle(l) ==
  /\ pc[l] = "finally"
  /\ \/ cycleLog' = cycleLog \union {{"completed"}} /\ UNCHANGED faults
     \/ Fault /\ cycleLog' = cycleLog \union {{}}
  /\ activeLoop' = NoLoop
  /\ Goto(l, "idle")
  /\ cur' = [cur EXCEPT ![l] = 0]
  /\ SetLocals(l, FreshContext)
  /\ UNCHANGED <<goalRow, planRows, journal, killSwitch, phase, tick, cancelled, history>>

-----------------------------------------------------------------------------
(* AgentLoop.runGoalCycle: choose a sub-goal, or finish the goal           *)

Top(l) ==
  /\ pc[l] = "top"
  /\ \/ /\ cancelled[l]
        /\ Goto(l, "finally") /\ UNCHANGED cur
     \/ /\ ~cancelled[l] /\ Actionable = {}
        /\ Goto(l, "check") /\ UNCHANGED cur
     \/ /\ ~cancelled[l]
        /\ \E i \in NextSubGoals : cur' = [cur EXCEPT ![l] = i]
        /\ Goto(l, "start")
  /\ UNCHANGED <<goalRow, planRows, logs, killSwitch, process, ctx, faults, history>>

(* isGoalComplete; when it is false the sub-goals left are blocked         *)
Check(l) ==
  /\ pc[l] = "check"
  /\ Goto(l, IF IsGoalComplete THEN "finish" ELSE "finally")
  /\ UNCHANGED <<goalRow, planRows, logs, killSwitch, process, cur, ctx, faults, history>>

CompleteGoal(l) ==
  /\ pc[l] = "finish"
  /\ goalStatus' = "completed"
  /\ Goto(l, "clear")
  /\ UNCHANGED <<replanCount, planRows, logs, killSwitch, process, cur, ctx, faults, history>>

ClearJournal(l) ==
  /\ pc[l] = "clear"
  /\ journal' = {}
  /\ Goto(l, "finally")
  /\ UNCHANGED <<goalRow, planRows, cycleLog, killSwitch, process, cur, ctx, faults, history>>

-----------------------------------------------------------------------------
(* AgentLoop.executeSubGoal                                                *)

StartSubGoal(l) ==
  /\ pc[l] = "start"
  /\ SetStatus(cur[l], "in-progress")
  /\ runs' = [runs EXCEPT ![cur[l]] = @ + 1]
  /\ SetLocals(l, [ctx[l] EXCEPT !.turns = 0])
  /\ Goto(l, "turn")
  /\ UNCHANGED <<goalRow, dependsOn, priority, logs, killSwitch, process, cur, faults>>

(* updateSubGoalStatus with a final status, and the return to runGoalCycle *)
Report(l, result) ==
  /\ SetStatus(cur[l], result)
  /\ SetLocals(l, [ctx[l] EXCEPT !.turns = 0, !.result = result, !.tries = 0])
  /\ Goto(l, "ckptRead")

(* The turn limit is tested before the flag, the flag before the call.     *)
TurnGivesUp(l) ==
  /\ pc[l] = "turn"
  /\ ctx[l].turns >= MaxTurns \/ cancelled[l]
  /\ Report(l, "failed")
  /\ UNCHANGED <<goalRow, dependsOn, priority, logs, killSwitch, process, cur, faults, history>>

(* The flag and the kill switch are read before the call, which may take   *)
(* long; its answer is used whatever happens in the meantime.              *)
CallModel(l) ==
  /\ pc[l] = "turn"
  /\ ctx[l].turns < MaxTurns /\ ~cancelled[l] /\ ~killSwitch
  /\ SetLocals(l, [ctx[l] EXCEPT !.turns = @ + 1])
  /\ Goto(l, "call")
  /\ UNCHANGED <<goalRow, planRows, logs, killSwitch, process, cur, faults, history>>

(* router.completeWithTools answers.  tool_calls: every call goes through  *)
(* invokeWithKillCheck, whose errors become tool results.  stop: done.     *)
(* length, content_filter or any other reason: failed.                     *)
Answer(l) ==
  /\ pc[l] = "call"
  /\ \/ Goto(l, "turn") /\ UNCHANGED <<ctx, status>>
     \/ Report(l, "completed")
     \/ Report(l, "failed")
  /\ UNCHANGED <<goalRow, dependsOn, priority, logs, killSwitch, process, cur, faults, history>>

BugTurnPolls(l) ==
  /\ pc[l] = "turn"
  /\ ctx[l].turns < MaxTurns /\ ~cancelled[l] /\ killSwitch
  /\ UNCHANGED vars

(* router.completeWithTools throws KillSwitchActiveError: nothing catches  *)
(* it before the finally of runGoalCycle.                                  *)
TurnKilled(l) ==
  /\ pc[l] = "turn"
  /\ ctx[l].turns < MaxTurns /\ ~cancelled[l] /\ killSwitch
  /\ Goto(l, "finally")
  /\ UNCHANGED <<goalRow, planRows, logs, killSwitch, process, cur, ctx, faults, history>>

-----------------------------------------------------------------------------
(* checkpoint: read the journal row, write it back with one more entry     *)

CheckpointRead(l) ==
  /\ pc[l] = "ckptRead"
  /\ SetLocals(l, [ctx[l] EXCEPT !.entries = journal])
  /\ Goto(l, "ckptWrite")
  /\ UNCHANGED <<goalRow, planRows, logs, killSwitch, process, cur, faults, history>>

Entry(l) == [id |-> cur[l], result |-> ctx[l].result]

BugWrittenAlone(l) == {Entry(l)}
Written(l) == ctx[l].entries \union {Entry(l)}

(* An attempt failed: sleep and read again, or throw after the last one.   *)
NextTry(l) ==
  /\ SetLocals(l, [ctx[l] EXCEPT !.tries = @ + 1, !.entries = {}])
  /\ Goto(l, IF ctx[l].tries + 1 < CheckpointTries THEN "ckptRead" ELSE "finally")

(* A row that was read is updated, which does nothing once the row is      *)
(* deleted; a row that was absent is inserted, which fails on the primary  *)
(* key once another loop inserted it.                                      *)
CheckpointWrite(l) ==
  LET done == SetLocals(l, [ctx[l] EXCEPT !.entries = {}]) /\ Goto(l, "evaluate")
  IN
  /\ pc[l] = "ckptWrite"
  /\ \/ /\ ctx[l].entries # {} /\ journal # {}
        /\ journal' = Written(l) /\ done
     \/ /\ ctx[l].entries # {} /\ journal = {}
        /\ UNCHANGED journal /\ done
     \/ /\ ctx[l].entries = {} /\ journal = {}
        /\ journal' = Written(l) /\ done
     \/ /\ ctx[l].entries = {} /\ journal # {}
        /\ UNCHANGED journal /\ NextTry(l)
  /\ UNCHANGED <<goalRow, planRows, cycleLog, killSwitch, process, cur, faults, history>>

(* A statement of an attempt fails; the write may have been applied.       *)
CheckpointFails(l) ==
  /\ pc[l] \in {"ckptRead", "ckptWrite"}
  /\ Fault
  /\ \/ UNCHANGED journal
     \/ /\ pc[l] = "ckptWrite" /\ (ctx[l].entries = {} <=> journal = {})
        /\ journal' = Written(l)
  /\ NextTry(l)
  /\ UNCHANGED <<goalRow, planRows, cycleLog, killSwitch, process, cur, history>>

-----------------------------------------------------------------------------
(* EvaluatorImpl.evaluateOutcome never throws.  The cost metric alone can  *)
(* answer while the kill switch is active, with a major divergence; the    *)
(* failed LLM call counts as none.  No outcome of executeSubGoal carries   *)
(* the success field the failure metric looks for.                         *)
Evaluate(l) ==
  /\ pc[l] = "evaluate"
  /\ \E v \in Verdicts :
       LET tally == AddVerdict(ctx[l].tally, v) IN
       /\ v = "minor" => ~killSwitch
       /\ SetLocals(l, [ctx[l] EXCEPT !.tally = tally, !.result = "failed"])
       /\ Goto(l, IF ShouldReplan(tally) THEN "replan" ELSE "top")
       /\ cur' = [cur EXCEPT ![l] = 0]
  /\ UNCHANGED <<goalRow, planRows, logs, killSwitch, process, faults, history>>

-----------------------------------------------------------------------------
(* ReplannerImpl.replan                                                    *)

(* incrementReplanCount: select, then update with the value read plus one  *)
ReadReplanCount(l) ==
  /\ pc[l] = "replan"
  /\ SetLocals(l, [ctx[l] EXCEPT !.count = replanCount + 1])
  /\ Goto(l, "count")
  /\ UNCHANGED <<goalRow, planRows, logs, killSwitch, process, cur, faults, history>>

WriteReplanCount(l) ==
  /\ pc[l] = "count"
  /\ replanCount' = ctx[l].count
  /\ SetLocals(l, [ctx[l] EXCEPT !.count = 0])
  /\ Goto(l, IF ctx[l].count > MaxReplans THEN "escalate" ELSE "survey")
  /\ UNCHANGED <<goalStatus, planRows, logs, killSwitch, process, cur, faults, history>>

(* The replanner pauses the goal and, once the operator alert is sent, the *)
(* loop pauses it again.                                                   *)
EscalatePause(l) ==
  /\ pc[l] \in {"escalate", "escalated"}
  /\ goalStatus' = "paused"
  /\ Goto(l, IF pc[l] = "escalate" THEN "escalated" ELSE "finally")
  /\ UNCHANGED <<replanCount, planRows, logs, killSwitch, process, cur, ctx, faults, history>>

(* getSubGoals: the rows to judge and the rows to skip are this snapshot   *)
Survey(l) ==
  /\ pc[l] = "survey"
  /\ SetLocals(l, [ctx[l] EXCEPT
       !.judge = {i \in SubGoalIds : status[i] = "in-progress"},
       !.skip  = {i \in SubGoalIds : status[i] = "pending"}])
  /\ Goto(l, "judge")
  /\ UNCHANGED <<goalRow, planRows, logs, killSwitch, process, cur, faults, history>>

(* The LLM keeps or skips one row; a call that throws keeps it.            *)
Judge(l) ==
  /\ pc[l] = "judge"
  /\ \/ /\ ctx[l].judge = {}
        /\ Goto(l, "skip")
        /\ UNCHANGED <<status, ctx>>
     \/ \E i \in ctx[l].judge :
          /\ SetLocals(l, [ctx[l] EXCEPT !.judge = @ \ {i}])
          /\ \/ UNCHANGED status
             \/ ~killSwitch /\ SetStatus(i, "skipped")
          /\ UNCHANGED pc
  /\ UNCHANGED <<goalRow, dependsOn, priority, logs, killSwitch, process, cur, faults, history>>

SkipPending(l) ==
  /\ pc[l] = "skip"
  /\ \/ /\ ctx[l].skip = {}
        /\ Goto(l, "plan")
        /\ UNCHANGED <<status, ctx>>
     \/ \E i \in ctx[l].skip :
          /\ SetLocals(l, [ctx[l] EXCEPT !.skip = @ \ {i}])
          /\ SetStatus(i, "skipped")
          /\ UNCHANGED pc
  /\ UNCHANGED <<goalRow, dependsOn, priority, logs, killSwitch, process, cur, faults, history>>

-----------------------------------------------------------------------------
(* GoalManager.decomposeGoal, inside the replanner's try                   *)

Absent == {i \in SubGoalIds : status[i] = "absent"}

(* replan returns: evaluations are reset only when the plan was replaced.  *)
ReplanReturns(l, tally) ==
  /\ SetLocals(l, [ctx[l] EXCEPT !.plan = <<>>, !.ids = <<>>, !.at = 1, !.tally = tally])
  /\ Goto(l, "top")

(* planGoalDecomposition answers with a plan the bound has room for        *)
PlanArrives(l) ==
  /\ pc[l] = "plan" /\ ~killSwitch
  /\ \E p \in Plans :
       /\ Len(p) \in 1..Cardinality(Absent)
       /\ SetLocals(l, [ctx[l] EXCEPT !.plan = p])
  /\ Goto(l, "insert")
  /\ UNCHANGED <<goalRow, planRows, logs, killSwitch, process, cur, faults, history>>

(* The kill switch, an empty plan or JSON the planner cannot parse; also   *)
(* the bound, when two loops insert and no id is left.                     *)
PlanFails(l) ==
  /\ pc[l] = "plan" \/ (pc[l] = "insert" /\ Absent = {})
  /\ ReplanReturns(l, ctx[l].tally)
  /\ UNCHANGED <<goalRow, planRows, logs, killSwitch, process, cur, faults, history>>

(* First pass: one row per descriptor, without its dependencies            *)
InsertRow(l) ==
  LET d == ctx[l].plan[ctx[l].at] IN
  /\ pc[l] = "insert"
  /\ \E i \in Absent :
       /\ \A j \in Absent : i <= j
       /\ SetStatus(i, "pending")
       /\ dependsOn' = [dependsOn EXCEPT ![i] = {}]
       /\ priority' = [priority EXCEPT ![i] = d.priority]
       /\ IF ctx[l].at < Len(ctx[l].plan)
          THEN /\ SetLocals(l, [ctx[l] EXCEPT !.ids = Append(@, i), !.at = @ + 1])
               /\ UNCHANGED pc
          ELSE /\ SetLocals(l, [ctx[l] EXCEPT !.ids = Append(@, i), !.at = 1])
               /\ Goto(l, "resolve")
  /\ UNCHANGED <<goalRow, logs, killSwitch, process, cur, faults, runs>>

(* Second pass: the next descriptor with dependencies gets them as ids; an *)
(* index out of range throws and leaves the rows after it unresolved.      *)
ResolveDependencies(l) ==
  LET at == ctx[l].at
      wanted == ctx[l].plan[at].dependsOn
      row == ctx[l].ids[at]
  IN
  /\ pc[l] = "resolve"
  /\ \/ /\ at > Len(ctx[l].plan)
        /\ ReplanReturns(l, NoTally)
        /\ UNCHANGED dependsOn
     \/ /\ at <= Len(ctx[l].plan) /\ wanted \subseteq 1..Len(ctx[l].ids)
        /\ dependsOn' = [dependsOn EXCEPT ![row] = {ctx[l].ids[k] : k \in wanted}]
        /\ SetLocals(l, [ctx[l] EXCEPT !.at = @ + 1])
        /\ UNCHANGED pc
     \/ /\ at <= Len(ctx[l].plan) /\ ~(wanted \subseteq 1..Len(ctx[l].ids))
        /\ ReplanReturns(l, ctx[l].tally)
        /\ UNCHANGED dependsOn
  /\ UNCHANGED <<goalRow, status, priority, logs, killSwitch, process, cur, faults, runs>>

-----------------------------------------------------------------------------
(* A database statement or provider call of the loop throws.  Inside       *)
(* decomposeGoal the replanner catches it; elsewhere it leaves             *)
(* runGoalCycle through its finally.                                       *)
CallFails(l) ==
  /\ Fault
  /\ \/ /\ pc[l] \in {"top", "check", "finish", "clear", "start", "turn", "call",
                      "replan", "count", "escalate", "escalated", "survey", "skip"}
        /\ Goto(l, "finally")
        /\ UNCHANGED ctx
     \/ /\ pc[l] \in {"plan", "insert", "resolve"}
        /\ ReplanReturns(l, ctx[l].tally)
  /\ UNCHANGED <<goalRow, planRows, logs, killSwitch, process, cur, history>>

-----------------------------------------------------------------------------
(* The process: crash, boot, startup recovery                              *)

(* Only the database is left; the cycles of the loops that ran stay open.  *)
ProcessEnds ==
  /\ phase' = "down"
  /\ activeLoop' = NoLoop /\ tick' = "none"
  /\ cancelled' = [l \in Loops |-> FALSE]
  /\ pc' = [l \in Loops |-> "idle"]
  /\ cur' = [l \in Loops |-> 0]
  /\ ctx' = [l \in Loops |-> FreshContext]
  /\ cycleLog' = IF \E l \in Loops : Running(l) THEN cycleLog \union {{}} ELSE cycleLog
  /\ UNCHANGED <<goalRow, planRows, journal, killSwitch, history>>

Crash == phase \notin {"down", "stopping"} /\ Fault /\ ProcessEnds

(* gracefulShutdown stops the loops of the map; the process exits when the *)
(* queues and pools are closed, or after ten seconds.                      *)
Shutdown ==
  /\ phase = "up" /\ Fault
  /\ phase' = "stopping"
  /\ cancelled' = [l \in Loops |-> cancelled[l] \/ l = activeLoop]
  /\ activeLoop' = NoLoop
  /\ UNCHANGED <<goalRow, planRows, logs, killSwitch, tick, local, history>>

Exit == phase = "stopping" /\ ProcessEnds /\ UNCHANGED faults

(* main: enforceStartupStopped comes before everything that runs goals     *)
Boot ==
  /\ phase = "down"
  /\ phase' = "detect"
  /\ killSwitch' = TRUE
  /\ UNCHANGED <<goalRow, planRows, logs, activeLoop, tick, cancelled, local, faults, history>>

(* detectCrashRecovery finds no active goal, of any description            *)
NothingToRecover ==
  /\ phase = "detect" /\ goalStatus # "active"
  /\ phase' = "up"
  /\ UNCHANGED <<goalRow, planRows, logs, killSwitch, activeLoop, tick, cancelled, local>>
  /\ UNCHANGED <<faults, history>>

(* performStartupRecovery: this goal is active, or another one is.  Every  *)
(* row with status 'active' gets a row that closes it as interrupted; an   *)
(* insert that fails is logged and passed over.                            *)
InterruptCycles ==
  /\ phase = "detect"
  /\ \E hit \in SUBSET cycleLog :
       /\ IF hit = cycleLog THEN UNCHANGED faults ELSE Fault
       /\ cycleLog' = (cycleLog \ hit) \union {c \union {"interrupted"} : c \in hit}
  /\ phase' = IF goalStatus = "active" THEN "reset" ELSE "up"
  /\ UNCHANGED <<goalRow, planRows, journal, killSwitch, activeLoop, tick, cancelled>>
  /\ UNCHANGED <<local, history>>

(* Rows left in-progress go back to pending, unless journalled completed   *)
BugInterruptedOrFailed ==
  {i \in SubGoalIds : status[i] \in {"in-progress", "failed"} /\ i \notin CompletedIds}
Interrupted == {i \in SubGoalIds : status[i] = "in-progress" /\ i \notin CompletedIds}

BugResetAnyTime(i) ==
  /\ i \in Interrupted
  /\ SetStatus(i, "pending")
  /\ UNCHANGED <<goalRow, dependsOn, priority, logs, killSwitch, process, local, faults, history>>

ResetSubGoal(i) ==
  /\ phase = "reset" /\ i \in Interrupted
  /\ SetStatus(i, "pending")
  /\ UNCHANGED <<goalRow, dependsOn, priority, logs, killSwitch, process, local, faults, history>>

(* No row is left to reset, or a statement failed and the goal is counted  *)
(* as escalated; staggeredRestart and the supervisor loop follow.          *)
RecoveryEnds ==
  /\ phase = "reset"
  /\ \/ Interrupted = {} /\ UNCHANGED faults
     \/ Interrupted # {} /\ Fault
  /\ phase' = "up"
  /\ UNCHANGED <<goalRow, planRows, logs, killSwitch, activeLoop, tick, cancelled, local>>
  /\ UNCHANGED history

-----------------------------------------------------------------------------
(* The operator: kill switch, and the status of the goal                   *)

ToggleKillSwitch ==
  /\ killSwitch' = ~killSwitch
  /\ UNCHANGED <<goalRow, planRows, logs, process, local, faults, history>>

SetGoalStatus ==
  /\ goalStatus # "completed"
  /\ goalStatus' = IF goalStatus = "active" THEN "paused" ELSE "active"
  /\ UNCHANGED <<replanCount, planRows, logs, killSwitch, process, local, faults, history>>

-----------------------------------------------------------------------------
(* The specification                                                       *)

InitPlan(p) ==
  /\ status = [i \in SubGoalIds |-> IF i <= Len(p) THEN "pending" ELSE "absent"]
  /\ dependsOn = [i \in SubGoalIds |-> IF i <= Len(p) THEN p[i].dependsOn ELSE {}]
  /\ priority = [i \in SubGoalIds |-> IF i <= Len(p) THEN p[i].priority ELSE 0]

Init ==
  /\ goalStatus \in {"active", "paused"} /\ replanCount = 0
  /\ \E p \in InitPlans : InitPlan(p)
  /\ journal = {} /\ cycleLog = {}
  /\ killSwitch \in BOOLEAN
  /\ phase = "down" /\ activeLoop = NoLoop /\ tick = "none"
  /\ cancelled = [l \in Loops |-> FALSE]
  /\ pc = [l \in Loops |-> "idle"]
  /\ cur = [l \in Loops |-> 0]
  /\ ctx = [l \in Loops |-> FreshContext]
  /\ faults = 0
  /\ runs = [i \in SubGoalIds |-> 0]

ExecuteStep(l) ==
  \/ StartSubGoal(l) \/ TurnGivesUp(l) \/ CallModel(l) \/ Answer(l) \/ TurnKilled(l)
  \/ CheckpointRead(l) \/ CheckpointWrite(l) \/ Evaluate(l)

ReplanStep(l) ==
  \/ ReadReplanCount(l) \/ WriteReplanCount(l) \/ EscalatePause(l)
  \/ Survey(l) \/ Judge(l) \/ SkipPending(l)
  \/ PlanArrives(l) \/ PlanFails(l) \/ InsertRow(l) \/ ResolveDependencies(l)

(* Whatever the loop l is at, it goes on without a failed call.            *)
LoopStep(l) ==
  \/ Top(l) \/ Check(l) \/ CompleteGoal(l) \/ ClearJournal(l) \/ EndCycle(l)
  \/ ExecuteStep(l) \/ ReplanStep(l)

BootStep ==
  \/ Boot \/ NothingToRecover \/ InterruptCycles
  \/ \E i \in SubGoalIds : ResetSubGoal(i)
  \/ RecoveryEnds \/ Exit

Next ==
  \/ \E l \in Loops : Spawn(l) \/ LoopStep(l) \/ CheckpointFails(l) \/ CallFails(l)
  \/ Tick \/ Stop
  \/ BootStep \/ Crash \/ Shutdown
  \/ ToggleKillSwitch \/ SetGoalStatus

Spec == Init /\ [][Next]_vars

(***************************************************************************)
(* The event loop of Node runs every continuation it has, providers and    *)
(* the database answer or time out, the supervisor's interval fires again  *)
(* and again, and the restart policy brings the process back.  Nothing is  *)
(* assumed of the operator, and faults may come, at most MaxFaults times.  *)
(***************************************************************************)
Fairness ==
  /\ \A l \in Loops : WF_vars(LoopStep(l)) /\ WF_vars(Spawn(l))
  /\ WF_vars(Tick) /\ WF_vars(Stop)
  /\ WF_vars(BootStep)

FairSpec == Spec /\ Fairness

-----------------------------------------------------------------------------
(* What the locals of a loop say of the tables (the proofs rest on it)     *)

(* The cursor of decomposeGoal stays inside the plan and its rows.         *)
CursorInPlan ==
  \A l \in Loops :
    /\ ctx[l].at >= 1
    /\ pc[l] \notin {"insert", "resolve"} => ctx[l].at = 1
    /\ pc[l] = "insert" => ctx[l].at <= Len(ctx[l].plan)
    /\ Len(ctx[l].ids) = IF pc[l] = "resolve" THEN Len(ctx[l].plan) ELSE ctx[l].at - 1

(* From its choice to its evaluation a loop holds a sub-goal.              *)
HoldsSubGoal ==
  \A l \in Loops :
    pc[l] \in {"start", "turn", "call", "ckptRead", "ckptWrite", "evaluate"}
      => cur[l] \in SubGoalIds

(* Loops live in a serving process, and a loop at work on a sub-goal works *)
(* for a goal that is not completed; a tick that read the goal before its  *)
(* end may start one more loop, which finds nothing to do.                 *)
Ending == {"idle", "top", "check", "finish", "clear", "finally"}
LoopsServe ==
  \A l \in Loops :
    /\ pc[l] # "idle" => Serving
    /\ pc[l] \notin Ending => goalStatus # "completed"

(* What a loop read before an await still holds when it acts on it.        *)
ReadsHold ==
  \A l \in Loops :
    /\ pc[l] = "start"  => cur[l] \in Actionable
    /\ pc[l] \in {"turn", "call"} => status[cur[l]] = "in-progress"
    /\ pc[l] = "finish" => IsGoalComplete
    /\ pc[l] = "judge"  => \A i \in ctx[l].judge : status[i] = "in-progress"
    /\ pc[l] \in {"judge", "skip"} => \A i \in ctx[l].skip : status[i] = "pending"
    /\ pc[l] \in {"insert", "resolve"} =>
         \A k \in 1..Len(ctx[l].ids) : status[ctx[l].ids[k]] = "pending"

(* A result, an entry read and an entry written are true of the row.       *)
EntriesTruthful ==
  \A l \in Loops :
    /\ pc[l] \in {"ckptRead", "ckptWrite"} /\ ctx[l].result = "completed"
         => status[cur[l]] = "completed"
    /\ pc[l] = "ckptWrite" =>
         \A e \in ctx[l].entries : e.result = "completed" => status[e.id] = "completed"

(* An entry 'completed' of the journal is never ahead of the sub_goals row *)
(* it speaks of: recovery, which trusts the journal, leaves no row behind. *)
JournalTruthful == \A i \in CompletedIds : status[i] = "completed"

(* No step of another actor comes between a read of the loop and its use   *)
(* that makes what it read untrue: neither the operator, nor a crash and   *)
(* the recovery, nor the supervisor's tick.                                *)
NoStaleRead ==
  /\ CursorInPlan /\ HoldsSubGoal /\ LoopsServe
  /\ ReadsHold /\ EntriesTruthful /\ JournalTruthful

-----------------------------------------------------------------------------
(* Properties of one loop per goal                                         *)

(* The tables live as GoalPlan says: every step of loop, replanner,        *)
(* recovery and crash is a step of the plan, or changes nothing in it.     *)
ImplementsPlan == Plan!PlanSpec

(* A sub-goal is running or has run only if all it depends on is completed *)
(* or skipped, and stays so (getNextSubGoal against replan and recovery).  *)
DependencySafety == Plan!DependencySafety

(* A completed goal has only completed or skipped sub-goals, also when the *)
(* operator, a crash or a replan came between isGoalComplete and the write.*)
CompletionSound == Plan!CompletionSound

(* RECOV-01: a sub-goal is not begun before the results of those before it *)
(* are journalled.  At most one completed row per crash or failed call is  *)
(* missing from the journal, besides the one being checkpointed.           *)
CheckpointsKeepUp ==
  goalStatus # "completed" =>
    Cardinality({i \in SubGoalIds : status[i] = "completed"} \ CompletedIds)
      <= faults + Cardinality({l \in Loops : pc[l] \in {"ckptRead", "ckptWrite"}})

(* A sub-goal is begun once, and once more at most for each crash or       *)
(* failed call: no interleaving of ticks, replans and the operator's       *)
(* commands re-executes it.                                                *)
NoDuplicateExecution == \A i \in SubGoalIds : runs[i] <= 1 + faults

(* When the goal is not active for ever, its loop stops in the end.        *)
InactiveGoalStops ==
  <>[](goalStatus # "active") => <>[](\A l \in Loops : pc[l] = "idle")

(* No sub-goal stays ready (nothing it depends on is open) for ever while  *)
(* its goal is active, once the operator leaves the kill switch off: it is *)
(* begun, or set aside by a replan.  No crash, failed call or stranded     *)
(* sibling makes the supervisor forget the goal.  A row may be ready for a *)
(* moment only: the planner inserts it before it writes its dependencies.  *)
ReadyWorkStarts ==
  <>[](~killSwitch) =>
    \A i \in SubGoalIds :
      i \in Actionable ~> i \notin Actionable \/ goalStatus # "active"

CyclesEnd == \A l \in Loops : pc[l] = "top" ~> pc[l] = "idle"

=============================================================================
