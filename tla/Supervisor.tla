----------------------------- MODULE Supervisor -----------------------------
(***************************************************************************)
(* The Supervisor: the reconciliation of the goals table with the running  *)
(* AgentLoop objects (apps/agent/src/multi-agent/supervisor.ts), the       *)
(* staggered restart, and the shutdown that stops the loops.               *)
(*                                                                         *)
(* A loop is reduced to what the supervisor sees of it: it runs, it may    *)
(* write its goal's status, it ends (module AgentLoop has its inside).  A  *)
(* step of a tick is what it does between two database calls; setInterval  *)
(* does not wait for the tick before, so ticks may overlap: Ticks.         *)
(***************************************************************************)
EXTENDS Naturals, FiniteSets

CONSTANTS
  Goals,        \* rows of goals
  Rank,         \* order of getActiveGoals: a number per goal, lower first
  Loops,        \* bound: AgentLoop objects alive at the same time
  Ticks,        \* invocations of tick that may overlap
  Cap,          \* maxConcurrentMainAgents
  Reactivates,  \* may the operator activate a goal a loop of which still runs?
  NoLoop, NoGoal,
  MaxFaults     \* bound: crashes, shutdowns and failed database calls

ASSUME NullsAssumption == NoLoop \notin Loops /\ NoGoal \notin Goals
ASSUME RankAssumption ==
  /\ Rank \in [Goals -> Nat]
  /\ \A g, h \in Goals : Rank[g] = Rank[h] => g = h
ASSUME CapAssumption == Cap \in Nat \ {0} /\ MaxFaults \in Nat
ASSUME FiniteAssumption == IsFiniteSet(Goals)
ASSUME ReactivatesAssumption == Reactivates \in BOOLEAN

VARIABLES
  goalStatus,   \* goals.status
  activeLoops,  \* the map activeLoops, NoLoop where it has no entry
  goalOf,       \* goal a running loop works on, NoGoal when it has ended
  cancelled,    \* AgentLoop.cancelled
  phase,        \* where the process is between boot and exit
  tpc,          \* the await each tick is at
  snap,         \* each tick's activeGoalIds
  todo,         \* the goals its spawn loop has not come to
  at,           \* the goal whose strategy it waits for
  loopHealth,   \* status of the agent_state row "system:loop_health"
  faults

tickVars == <<tpc, snap, todo, at>>
loopVars == <<activeLoops, goalOf, cancelled>>
vars == <<goalStatus, loopVars, phase, tickVars, loopHealth, faults>>

Alive(x) == goalOf[x] # NoGoal
ActiveGoals == {g \in Goals : goalStatus[g] = "active"}
Keys == {g \in Goals : activeLoops[g] # NoLoop}
Serving == phase \in {"up", "stopping"}
Fault == faults < MaxFaults /\ faults' = faults + 1

(* Every variable has its type.                                            *)
TypeOK ==
  /\ goalStatus \in [Goals -> {"active", "paused", "completed"}]
  /\ activeLoops \in [Goals -> Loops \union {NoLoop}]
  /\ goalOf \in [Loops -> Goals \union {NoGoal}]
  /\ cancelled \in [Loops -> BOOLEAN]
  /\ phase \in {"down", "stagger", "up", "stopping"}
  /\ tpc \in [Ticks -> {"idle", "spawn", "build", "stop", "health"}]
  /\ snap \in [Ticks -> SUBSET Goals]
  /\ todo \in [Ticks -> SUBSET Goals]
  /\ at \in [Ticks -> Goals \union {NoGoal}]
  /\ loopHealth \in {"none", "ok", "error"}
  /\ faults \in Nat

-----------------------------------------------------------------------------
(* tick, and the spawn loop it shares with staggeredRestart                *)

BeginRound(t) ==
  /\ snap' = [snap EXCEPT ![t] = ActiveGoals]
  /\ todo' = [todo EXCEPT ![t] = ActiveGoals]
  /\ tpc' = [tpc EXCEPT ![t] = "spawn"]
  /\ UNCHANGED at

EndRound(t) ==
  /\ snap' = [snap EXCEPT ![t] = {}]
  /\ todo' = [todo EXCEPT ![t] = {}]
  /\ at' = [at EXCEPT ![t] = NoGoal]
  /\ tpc' = [tpc EXCEPT ![t] = "idle"]

ReadGoals(t) ==
  /\ Serving /\ tpc[t] = "idle"
  /\ BeginRound(t)
  /\ UNCHANGED <<goalStatus, loopVars, phase, loopHealth, faults>>

(* The goals left that have no entry and may be spawned now                *)
Unregistered(t) == {g \in todo[t] : activeLoops[g] = NoLoop}

HasRoom == Cardinality(Keys) < Cap

BugLastFirst(S) == {g \in S : \A h \in S : Rank[h] <= Rank[g]}
First(S) == {g \in S : \A h \in S : Rank[g] <= Rank[h]}

(* The has and size checks of spawnMainAgent for the next goal that passes *)
(* them; the goals before it, which do not, cost no database call.  Then   *)
(* getStrategyByGoalId is awaited.                                         *)
ChooseGoal(t) ==
  /\ tpc[t] = "spawn" /\ HasRoom
  /\ \E g \in First(Unregistered(t)) :
       /\ at' = [at EXCEPT ![t] = g]
       /\ todo' = [todo EXCEPT ![t] = {h \in @ : Rank[g] < Rank[h]}]
  /\ tpc' = [tpc EXCEPT ![t] = "build"]
  /\ UNCHANGED <<goalStatus, loopVars, phase, snap, loopHealth, faults>>

(* new AgentLoop, activeLoops.set, runGoalCycle started and not awaited    *)
SpawnLoop(t) ==
  /\ tpc[t] = "build"
  /\ \E x \in Loops :
       /\ ~Alive(x)
       /\ activeLoops' = [activeLoops EXCEPT ![at[t]] = x]
       /\ goalOf' = [goalOf EXCEPT ![x] = at[t]]
       /\ cancelled' = [cancelled EXCEPT ![x] = FALSE]
  /\ tpc' = [tpc EXCEPT ![t] = "spawn"]
  /\ at' = [at EXCEPT ![t] = NoGoal]
  /\ UNCHANGED <<goalStatus, phase, snap, todo, loopHealth, faults>>

(* The staggered restart sleeps after every goal: one that found no room   *)
(* is passed over, though there may be room for the next.                  *)
PassOver(t) ==
  /\ tpc[t] = "spawn" /\ phase = "stagger" /\ ~HasRoom
  /\ \E g \in First(Unregistered(t)) : todo' = [todo EXCEPT ![t] = @ \ {g}]
  /\ UNCHANGED <<goalStatus, loopVars, phase, tpc, snap, at, loopHealth, faults>>

(* Nothing more to spawn: a tick goes on to stop loops, the staggered      *)
(* restart is over.                                                        *)
NoMoreToSpawn(t) ==
  /\ tpc[t] = "spawn"
  /\ Unregistered(t) = {} \/ (phase # "stagger" /\ ~HasRoom)
  /\ IF phase = "stagger"
     THEN phase' = "up" /\ EndRound(t)
     ELSE /\ tpc' = [tpc EXCEPT ![t] = "stop"]
          /\ todo' = [todo EXCEPT ![t] = {}]
          /\ UNCHANGED <<phase, snap, at>>
  /\ UNCHANGED <<goalStatus, loopVars, loopHealth, faults>>

-----------------------------------------------------------------------------
(* stopMainAgent: cancel the loop the map names and forget it              *)

BugStopKeepsEntry(gs) ==
  /\ cancelled' = [x \in Loops |-> cancelled[x] \/ \E g \in gs : activeLoops[g] = x]
  /\ UNCHANGED <<activeLoops, goalOf>>
StopLoops(gs) ==
  /\ cancelled' = [x \in Loops |-> cancelled[x] \/ \E g \in gs : activeLoops[g] = x]
  /\ activeLoops' = [g \in Goals |-> IF g \in gs THEN NoLoop ELSE activeLoops[g]]
  /\ UNCHANGED goalOf

(* The keys of the map whose goal the tick did not find active             *)
StopInactive(t) ==
  /\ tpc[t] = "stop"
  /\ StopLoops(Keys \ snap[t])
  /\ tpc' = [tpc EXCEPT ![t] = "health"]
  /\ UNCHANGED <<goalStatus, phase, snap, todo, at, loopHealth, faults>>

RecordHealth(t) ==
  /\ tpc[t] = "health"
  /\ loopHealth' = "ok"
  /\ EndRound(t)
  /\ UNCHANGED <<goalStatus, loopVars, phase, faults>>

(* A database call of the round throws.  A tick records the error, if that *)
(* write succeeds; the staggered restart counts it and boot goes on.       *)
RoundFails(t) ==
  /\ Fault
  /\ tpc[t] \in {"build", "health"} \/ (tpc[t] = "idle" /\ Serving)
  /\ EndRound(t)
  /\ IF phase = "stagger" THEN phase' = "up" /\ UNCHANGED loopHealth
                          ELSE loopHealth' \in {"error", loopHealth} /\ UNCHANGED phase
  /\ UNCHANGED <<goalStatus, loopVars>>

-----------------------------------------------------------------------------
(* The loops                                                               *)

(* runGoalCycle marks the goal completed, or escalation pauses it          *)
LoopSetsStatus(x) ==
  /\ Alive(x)
  /\ \E s \in {"completed", "paused"} :
       goalStatus' = [goalStatus EXCEPT ![goalOf[x]] = s]
  /\ UNCHANGED <<loopVars, phase, tickVars, loopHealth, faults>>

(* then / catch of runGoalCycle: the entry of the goal is deleted          *)
LoopEnds(x) ==
  /\ Alive(x)
  /\ activeLoops' = [activeLoops EXCEPT ![goalOf[x]] = NoLoop]
  /\ goalOf' = [goalOf EXCEPT ![x] = NoGoal]
  /\ cancelled' = [cancelled EXCEPT ![x] = FALSE]
  /\ UNCHANGED <<goalStatus, phase, tickVars, loopHealth, faults>>

-----------------------------------------------------------------------------
(* The process and the operator                                            *)

Idle == /\ tpc' = [t \in Ticks |-> "idle"]
        /\ snap' = [t \in Ticks |-> {}]
        /\ todo' = [t \in Ticks |-> {}]
        /\ at' = [t \in Ticks |-> NoGoal]

(* main: staggeredRestart when a goal is active, then the supervisor loop; *)
(* when the restart cannot read the goals it is skipped.                   *)
Boot ==
  /\ phase = "down"
  /\ \/ /\ ActiveGoals = {} /\ phase' = "up"
        /\ UNCHANGED <<tickVars, faults>>
     \/ /\ ActiveGoals # {} /\ phase' = "stagger"
        /\ \E t \in Ticks : BeginRound(t)
        /\ UNCHANGED faults
     \/ /\ ActiveGoals # {} /\ Fault /\ phase' = "up"
        /\ UNCHANGED tickVars
  /\ UNCHANGED <<goalStatus, loopVars, loopHealth>>

ProcessEnds ==
  /\ phase' = "down"
  /\ activeLoops' = [g \in Goals |-> NoLoop]
  /\ goalOf' = [x \in Loops |-> NoGoal]
  /\ cancelled' = [x \in Loops |-> FALSE]
  /\ Idle
  /\ UNCHANGED <<goalStatus, loopHealth>>

Crash == phase \notin {"down", "stopping"} /\ Fault /\ ProcessEnds

(* gracefulShutdown step 3; nothing clears the supervisor's interval       *)
Shutdown ==
  /\ phase = "up" /\ Fault
  /\ phase' = "stopping"
  /\ StopLoops(Keys)
  /\ UNCHANGED <<goalStatus, tickVars, loopHealth>>

Exit == phase = "stopping" /\ ProcessEnds /\ UNCHANGED faults

SetGoalStatus(g) ==
  /\ \/ /\ goalStatus[g] = "active"
        /\ goalStatus' = [goalStatus EXCEPT ![g] = "paused"]
     \/ /\ goalStatus[g] = "paused"
        /\ Reactivates \/ \A x \in Loops : goalOf[x] # g
        /\ goalStatus' = [goalStatus EXCEPT ![g] = "active"]
  /\ UNCHANGED <<loopVars, phase, tickVars, loopHealth, faults>>

-----------------------------------------------------------------------------
Init ==
  /\ goalStatus \in [Goals -> {"active", "paused"}]
  /\ activeLoops = [g \in Goals |-> NoLoop]
  /\ goalOf = [x \in Loops |-> NoGoal]
  /\ cancelled = [x \in Loops |-> FALSE]
  /\ phase = "down"
  /\ tpc = [t \in Ticks |-> "idle"]
  /\ snap = [t \in Ticks |-> {}]
  /\ todo = [t \in Ticks |-> {}]
  /\ at = [t \in Ticks |-> NoGoal]
  /\ loopHealth = "none"
  /\ faults = 0

Round(t) ==
  \/ ReadGoals(t) \/ ChooseGoal(t) \/ SpawnLoop(t) \/ PassOver(t) \/ NoMoreToSpawn(t)
  \/ StopInactive(t) \/ RecordHealth(t)

Next ==
  \/ \E t \in Ticks : Round(t) \/ RoundFails(t)
  \/ \E x \in Loops : LoopSetsStatus(x) \/ LoopEnds(x)
  \/ Boot \/ Crash \/ Shutdown \/ Exit
  \/ \E g \in Goals : SetGoalStatus(g)

Spec == Init /\ [][Next]_vars

(* The interval fires again and again, its database calls answer, every    *)
(* cycle of a loop ends (AgentLoop!CyclesEnd), the process is restarted.   *)
Fairness ==
  /\ \A t \in Ticks : WF_vars(Round(t))
  /\ \A x \in Loops : WF_vars(LoopEnds(x))
  /\ WF_vars(Boot) /\ WF_vars(Exit)

FairSpec == Spec /\ Fairness

-----------------------------------------------------------------------------
(* Properties                                                              *)

(* "Running agent loops, keyed by goalId": an entry always names a loop    *)
(* that runs on the goal and has not been told to stop.  A tick passes     *)
(* over every goal that has an entry, so an entry without such a loop      *)
(* would keep its goal from ever being worked on, and one of the Cap slots *)
(* from every other.  Ticks may overlap, goals become active again.        *)
MapEntriesRun ==
  \A g \in Goals, x \in Loops : activeLoops[g] = x => goalOf[x] = g /\ ~cancelled[x]

(* "Spawn one AgentLoop per active goal" (supervisor.ts:38): until the     *)
(* process is shutting down, no two loops that nobody told to stop work on *)
(* one goal.  The code breaks it: two ticks that overlap pass the has      *)
(* check together (:84, :119), and the end of a cancelled loop deletes the *)
(* entry of its goal whoever set it (:126), so that a goal paused and      *)
(* activated within a call of its first loop gets a third.                 *)
OneLoopPerGoal ==
  phase # "stopping" =>
    \A x, y \in Loops :
      Alive(x) /\ goalOf[x] = goalOf[y] /\ ~cancelled[x] /\ ~cancelled[y] => x = y

(* The map never holds more than maxConcurrentMainAgents loops, although   *)
(* the size is checked before an await and the entry is set after it.  The *)
(* code breaks it when ticks overlap; it holds for one tick at a time.     *)
MapWithinCap == Cardinality(Keys) <= Cap

(* A goal among the Cap first in priority order that stays active always   *)
(* gets a loop again: loops of later goals do not keep its place for ever. *)
TopGoalsServed ==
  \A g \in Goals :
    Cardinality({h \in Goals : Rank[h] < Rank[g]}) < Cap =>
      (<>[](goalStatus[g] = "active" /\ phase = "up")
         => []<>(\E x \in Loops : goalOf[x] = g /\ ~cancelled[x]))
=============================================================================
