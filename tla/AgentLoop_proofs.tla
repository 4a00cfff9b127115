-------------------------- MODULE AgentLoop_proofs --------------------------
(***************************************************************************)
(* Theorems about AgentLoop, for all values of its constants.  First the   *)
(* plan by itself: its theorems need only that its steps are those of      *)
(* GoalPlan.  Then the types of the loop, for any number of loops on the   *)
(* goal; then, for one loop, what the agent promises: the loop implements  *)
(* the plan, so what the plan keeps the loop keeps; its reads hold when it *)
(* uses them; the journal is never ahead of the rows and keeps up.         *)
(***************************************************************************)
EXTENDS AgentLoop, FiniteSetTheorems, TLAPS

-----------------------------------------------------------------------------
(* The plan, whoever takes its steps (module GoalPlan)                     *)

(* Type correctness of the tables, whatever order the rows change in.      *)
THEOREM PlanTypeCorrect == Plan!PlanSpec => []Plan!PlanTypeOK
<1>1. Plan!PlanInit => Plan!PlanTypeOK
  BY DEF Plan!PlanInit, Plan!PlanTypeOK, Plan!GoalStatuses, Plan!SubGoalStatuses
<1>2. Plan!PlanTypeOK /\ [Plan!PlanNext]_(Plan!planVars) => Plan!PlanTypeOK'
  <2> SUFFICES ASSUME Plan!PlanTypeOK, [Plan!PlanNext]_(Plan!planVars) PROVE Plan!PlanTypeOK'
    OBVIOUS
  <2> USE DEF Plan!PlanTypeOK, Plan!GoalStatuses, Plan!SubGoalStatuses, Plan!SetStatus
  <2>1. ASSUME NEW i \in SubGoalIds, Plan!Add(i) PROVE Plan!PlanTypeOK'
    BY <2>1 DEF Plan!Add
  <2>2. ASSUME NEW i \in SubGoalIds, Plan!Link(i) PROVE Plan!PlanTypeOK'
    BY <2>2 DEF Plan!Link
  <2>3. ASSUME NEW i \in SubGoalIds, Plan!Begin(i) PROVE Plan!PlanTypeOK'
    BY <2>3 DEF Plan!Begin
  <2>4. ASSUME NEW i \in SubGoalIds, Plan!Finish(i) PROVE Plan!PlanTypeOK'
    BY <2>4 DEF Plan!Finish
  <2>5. ASSUME NEW i \in SubGoalIds, Plan!Skip(i) PROVE Plan!PlanTypeOK'
    BY <2>5 DEF Plan!Skip
  <2>6. ASSUME NEW i \in SubGoalIds, Plan!Retry(i) PROVE Plan!PlanTypeOK'
    BY <2>6 DEF Plan!Retry
  <2>7. CASE Plan!Complete
    BY <2>7 DEF Plan!Complete
  <2>8. CASE Plan!PauseOrActivate
    BY <2>8 DEF Plan!PauseOrActivate
  <2>9. CASE UNCHANGED Plan!planVars
    BY <2>9 DEF Plan!planVars
  <2> QED
    BY <2>1, <2>2, <2>3, <2>4, <2>5, <2>6, <2>7, <2>8, <2>9 DEF Plan!PlanNext
<1> QED
  BY <1>1, <1>2, PTL DEF Plan!PlanSpec

-----------------------------------------------------------------------------
(* What one step may do to one row: a settled row stays settled, a row     *)
(* that ended keeps its status, a row that was started keeps its           *)
(* dependencies, and a row that starts was ready.                          *)
LEMMA RowStep ==
  ASSUME Plan!PlanTypeOK, Plan!PlanNext, NEW i \in SubGoalIds
  PROVE  /\ Plan!Settled(i) => Plan!Settled(i)'
         /\ status[i] \in Plan!Terminal => status'[i] = status[i]
         /\ status'[i] \in Plan!Started =>
              /\ dependsOn'[i] = dependsOn[i]
              /\ status[i] \in Plan!Started \/ Plan!Ready(i)
         /\ status[i] = "absent" /\ status'[i] # "absent" => goalStatus # "completed"
<1> USE DEF Plan!PlanTypeOK, Plan!SubGoalStatuses, Plan!Settled, Plan!Terminal,
            Plan!Started, Plan!SetStatus
<1>1. ASSUME NEW j \in SubGoalIds, Plan!Add(j)
      PROVE  /\ status' = [status EXCEPT ![j] = "pending"] /\ status[j] = "absent"
             /\ dependsOn' = [dependsOn EXCEPT ![j] = {}]
             /\ goalStatus # "completed"
  BY <1>1 DEF Plan!Add
<1>2. CASE \E j \in SubGoalIds : Plan!Add(j)
  BY <1>1, <1>2
<1>3. CASE \E j \in SubGoalIds : Plan!Link(j)
  BY <1>3 DEF Plan!Link
<1>4. CASE \E j \in SubGoalIds : Plan!Begin(j)
  BY <1>4 DEF Plan!Begin
<1>5. CASE \E j \in SubGoalIds : Plan!Finish(j)
  BY <1>5 DEF Plan!Finish
<1>6. CASE \E j \in SubGoalIds : Plan!Skip(j)
  BY <1>6 DEF Plan!Skip
<1>7. CASE \E j \in SubGoalIds : Plan!Retry(j)
  BY <1>7 DEF Plan!Retry
<1>8. CASE Plan!Complete \/ Plan!PauseOrActivate
  BY <1>8 DEF Plan!Complete, Plan!PauseOrActivate
<1> QED
  BY <1>2, <1>3, <1>4, <1>5, <1>6, <1>7, <1>8 DEF Plan!PlanNext

(* No sub-goal is started, or stays started, before those it depends on    *)
(* are completed or skipped.                                               *)
THEOREM PlanDependencySafety == Plan!PlanSpec => []Plan!DependencySafety
<1>1. Plan!PlanInit => Plan!DependencySafety
  BY DEF Plan!PlanInit, Plan!DependencySafety, Plan!Started
<1>2. Plan!PlanTypeOK /\ Plan!DependencySafety /\ [Plan!PlanNext]_(Plan!planVars)
        => Plan!DependencySafety'
  <2> SUFFICES ASSUME Plan!PlanTypeOK, Plan!DependencySafety, Plan!PlanNext,
                      NEW i \in SubGoalIds, status'[i] \in Plan!Started
               PROVE  Plan!Ready(i)'
    BY DEF Plan!DependencySafety, Plan!planVars, Plan!Ready, Plan!Settled, Plan!Started
  <2>1. dependsOn'[i] = dependsOn[i] /\ Plan!Ready(i)
    BY RowStep DEF Plan!DependencySafety
  <2>2. dependsOn[i] \subseteq SubGoalIds
    BY DEF Plan!PlanTypeOK
  <2>3. \A d \in dependsOn[i] : Plan!Settled(d)'
    BY <2>1, <2>2, RowStep DEF Plan!Ready
  <2> QED
    BY <2>1, <2>3 DEF Plan!Ready, Plan!Settled
<1> QED
  BY <1>1, <1>2, PlanTypeCorrect, PTL DEF Plan!PlanSpec

LEMMA CompletionStep ==
  ASSUME Plan!PlanTypeOK, Plan!CompletionSound, [Plan!PlanNext]_(Plan!planVars)
  PROVE  Plan!CompletionSound'
<1> SUFFICES ASSUME Plan!PlanNext, goalStatus' = "completed",
                    NEW i \in SubGoalIds, status'[i] # "absent"
             PROVE  Plan!Settled(i)'
  BY DEF Plan!CompletionSound, Plan!AllSettled, Plan!planVars, Plan!Settled
<1>1. CASE Plan!Complete
  BY <1>1, RowStep DEF Plan!Complete, Plan!AllSettled, Plan!Settled
<1>2. CASE ~Plan!Complete
  <2>1. goalStatus = "completed"
    BY <1>2 DEF Plan!PlanNext, Plan!Add, Plan!Link, Plan!Begin, Plan!Finish, Plan!Skip,
       Plan!Retry, Plan!PauseOrActivate
  <2>2. Plan!AllSettled /\ status[i] # "absent"
    BY <2>1, RowStep DEF Plan!CompletionSound
  <2> QED
    BY <2>2, RowStep DEF Plan!AllSettled
<1> QED
  BY <1>1, <1>2

(* A completed goal has no sub-goal that is neither completed nor skipped: *)
(* its plan gains no row and its rows stay settled.                        *)
THEOREM PlanCompletionSound == Plan!PlanSpec => []Plan!CompletionSound
<1>1. Plan!PlanInit => Plan!CompletionSound
  BY DEF Plan!PlanInit, Plan!CompletionSound
<1>2. Plan!PlanTypeOK /\ Plan!CompletionSound /\ [Plan!PlanNext]_(Plan!planVars)
        => Plan!CompletionSound'
  BY CompletionStep
<1> QED
  BY <1>1, <1>2, PlanTypeCorrect, PTL DEF Plan!PlanSpec

(* A completed, failed or skipped sub-goal and a completed goal never      *)
(* change their status again.                                              *)
THEOREM PlanTerminalIsFinal == Plan!PlanSpec => Plan!TerminalIsFinal
<1>1. Plan!PlanTypeOK /\ [Plan!PlanNext]_(Plan!planVars) =>
        [/\ \A i \in SubGoalIds : status[i] \in Plan!Terminal => status'[i] = status[i]
         /\ goalStatus = "completed" => goalStatus' = "completed"]_(Plan!planVars)
  <2> SUFFICES ASSUME Plan!PlanTypeOK, Plan!PlanNext
               PROVE  /\ \A i \in SubGoalIds : status[i] \in Plan!Terminal
                                                 => status'[i] = status[i]
                      /\ goalStatus = "completed" => goalStatus' = "completed"
    OBVIOUS
  <2>1. \A i \in SubGoalIds : status[i] \in Plan!Terminal => status'[i] = status[i]
    BY RowStep
  <2>2. goalStatus = "completed" => goalStatus' = "completed"
    BY DEF Plan!PlanNext, Plan!Add, Plan!Link, Plan!Begin, Plan!Finish, Plan!Skip,
       Plan!Retry, Plan!Complete, Plan!PauseOrActivate
  <2> QED
    BY <2>1, <2>2
<1> QED
  BY <1>1, PlanTypeCorrect, PTL DEF Plan!PlanSpec, Plan!TerminalIsFinal

-----------------------------------------------------------------------------
(* The locals of a loop                                                    *)

LEMMA FreshContextType ==
  FreshContext \in Contexts /\ FreshContext.at = 1 /\ Len(FreshContext.ids) = 0
BY DEF FreshContext, Contexts, Tallies, NoTally

(* SetLocals touches the locals of one loop.                               *)
LEMMA LocalsSet ==
  ASSUME ctx \in [Loops -> Contexts], NEW l \in Loops, NEW c \in Contexts,
         SetLocals(l, c)
  PROVE  /\ ctx' \in [Loops -> Contexts]
         /\ ctx'[l] = c
         /\ \A m \in Loops : m # l => ctx'[m] = ctx[m]
BY DEF SetLocals

SameCursor(c, d) == c.at = d.at /\ c.ids = d.ids /\ c.plan = d.plan

LEMMA TurnsUpdate ==
  ASSUME NEW c \in Contexts, NEW n \in Nat
  PROVE  LET d == [c EXCEPT !.turns = n] IN d \in Contexts /\ SameCursor(c, d)
BY DEF Contexts, SameCursor

LEMMA ReportUpdate ==
  ASSUME NEW c \in Contexts, NEW r \in {"completed", "failed"}
  PROVE  LET d == [c EXCEPT !.turns = 0, !.result = r, !.tries = 0] IN
           d \in Contexts /\ SameCursor(c, d) /\ d.result = r
BY DEF Contexts, SameCursor

LEMMA EntriesUpdate ==
  ASSUME NEW c \in Contexts, NEW e \in SUBSET Entries
  PROVE  LET d == [c EXCEPT !.entries = e] IN
           d \in Contexts /\ SameCursor(c, d) /\ d.result = c.result /\ d.entries = e
BY DEF Contexts, SameCursor

LEMMA TriesUpdate ==
  ASSUME NEW c \in Contexts, NEW n \in Nat
  PROVE  LET d == [c EXCEPT !.tries = n, !.entries = {}] IN
           d \in Contexts /\ SameCursor(c, d) /\ d.result = c.result
BY DEF Contexts, SameCursor

LEMMA TallyUpdate ==
  ASSUME NEW c \in Contexts, NEW t \in Tallies
  PROVE  LET d == [c EXCEPT !.tally = t, !.result = "failed"] IN
           d \in Contexts /\ SameCursor(c, d)
BY DEF Contexts, SameCursor

LEMMA CountUpdate ==
  ASSUME NEW c \in Contexts, NEW n \in Nat
  PROVE  LET d == [c EXCEPT !.count = n] IN d \in Contexts /\ SameCursor(c, d)
BY DEF Contexts, SameCursor

LEMMA JudgeUpdate ==
  ASSUME NEW c \in Contexts, NEW i
  PROVE  LET d == [c EXCEPT !.judge = @ \ {i}] IN
           /\ d \in Contexts /\ SameCursor(c, d)
           /\ d.judge = c.judge \ {i} /\ d.skip = c.skip
BY DEF Contexts, SameCursor

LEMMA SkipUpdate ==
  ASSUME NEW c \in Contexts, NEW i
  PROVE  LET d == [c EXCEPT !.skip = @ \ {i}] IN
           d \in Contexts /\ SameCursor(c, d) /\ d.skip = c.skip \ {i}
BY DEF Contexts, SameCursor

LEMMA PlanUpdate ==
  ASSUME NEW c \in Contexts, NEW p \in Seq(Descriptors)
  PROVE  LET d == [c EXCEPT !.plan = p] IN
           d \in Contexts /\ d.at = c.at /\ d.ids = c.ids /\ d.plan = p
BY DEF Contexts

LEMMA PlanDropped ==
  ASSUME NEW c \in Contexts, NEW t \in Tallies
  PROVE  LET d == [c EXCEPT !.plan = <<>>, !.ids = <<>>, !.at = 1, !.tally = t] IN
           d \in Contexts /\ d.at = 1 /\ Len(d.ids) = 0
<1> DEFINE e == <<>>
<1>1. e \in Seq(Descriptors) /\ e \in Seq(SubGoalIds) /\ e = <<>> /\ Len(e) = 0
  OBVIOUS
<1> HIDE DEF e
<1>2. LET d == [c EXCEPT !.plan = e, !.ids = e, !.at = 1, !.tally = t] IN
        d \in Contexts /\ d.at = 1 /\ d.ids = e
  BY <1>1 DEF Contexts
<1> QED
  BY <1>1, <1>2

WithRow(c, i, n) == [c EXCEPT !.ids = Append(@, i), !.at = n]

LEMMA RowAppended ==
  ASSUME NEW c \in Contexts, NEW i \in SubGoalIds, NEW n \in Nat
  PROVE  /\ WithRow(c, i, n) \in Contexts
         /\ WithRow(c, i, n).at = n
         /\ WithRow(c, i, n).plan = c.plan
         /\ WithRow(c, i, n).ids = Append(c.ids, i)
         /\ Len(WithRow(c, i, n).ids) = Len(c.ids) + 1
<1>1. Append(c.ids, i) \in Seq(SubGoalIds) /\ Len(Append(c.ids, i)) = Len(c.ids) + 1
  BY DEF Contexts
<1> QED
  BY <1>1 DEF Contexts, WithRow

LEMMA CursorUpdate ==
  ASSUME NEW c \in Contexts, NEW n \in Nat
  PROVE  LET d == [c EXCEPT !.at = n] IN
           d \in Contexts /\ d.at = n /\ d.ids = c.ids /\ d.plan = c.plan
BY DEF Contexts

LEMMA VerdictType ==
  ASSUME NEW t \in Tallies, NEW v
  PROVE  AddVerdict(t, v) \in Tallies
<1>1. t.n \in Nat /\ t.minor \in Nat /\ t.major \in Nat
  BY DEF Tallies
<1>2. \A m \in Nat : \A b : (m + (IF b THEN 1 ELSE 0)) \in Nat
  OBVIOUS
<1> QED
  BY <1>1, <1>2 DEF AddVerdict, Tallies

LEMMA Surveyed ==
  ASSUME ctx \in [Loops -> Contexts], NEW l \in Loops, Survey(l)
  PROVE  \E c \in Contexts :
           /\ SetLocals(l, c) /\ SameCursor(ctx[l], c)
           /\ c.judge = {i \in SubGoalIds : status[i] = "in-progress"}
           /\ c.skip = {i \in SubGoalIds : status[i] = "pending"}
<1> DEFINE J == {i \in SubGoalIds : status[i] = "in-progress"}
           S == {i \in SubGoalIds : status[i] = "pending"}
<1>1. J \in SUBSET SubGoalIds /\ S \in SUBSET SubGoalIds
  OBVIOUS
<1>2. SetLocals(l, [ctx[l] EXCEPT !.judge = J, !.skip = S])
  BY DEF Survey
<1>3. ctx[l] \in Contexts
  OBVIOUS
<1> HIDE DEF J, S
<1> DEFINE c == [ctx[l] EXCEPT !.judge = J, !.skip = S]
<1>4. c \in Contexts /\ SameCursor(ctx[l], c) /\ c.judge = J /\ c.skip = S
  BY <1>1, <1>3 DEF Contexts, SameCursor
<1>5. SetLocals(l, c)
  BY <1>2
<1> HIDE DEF c
<1> QED
  BY <1>4, <1>5 DEF J, S

(* The actions that leave the cursor of decomposeGoal alone.               *)
LEMMA CursorKept ==
  ASSUME ctx \in [Loops -> Contexts], journal \subseteq Entries, replanCount \in Nat,
         NEW l \in Loops,
         \/ StartSubGoal(l) \/ TurnGivesUp(l) \/ CallModel(l) \/ Answer(l)
         \/ CheckpointRead(l) \/ CheckpointWrite(l) \/ CheckpointFails(l)
         \/ Evaluate(l) \/ ReadReplanCount(l) \/ WriteReplanCount(l)
         \/ Survey(l) \/ Judge(l) \/ SkipPending(l)
  PROVE  /\ ctx' \in [Loops -> Contexts]
         /\ \A m \in Loops : SameCursor(ctx[m], ctx'[m])
<1> SUFFICES ctx' = ctx \/ \E c \in Contexts : SetLocals(l, c) /\ SameCursor(ctx[l], c)
  BY LocalsSet DEF SameCursor
<1>0. ctx[l] \in Contexts
  OBVIOUS
<1>1. CASE StartSubGoal(l)
  BY <1>0, <1>1, TurnsUpdate DEF StartSubGoal
<1>2. CASE TurnGivesUp(l) \/ CallModel(l) \/ Answer(l)
  <2>1. CASE \E r \in {"completed", "failed"} : Report(l, r)
    BY <1>0, <2>1, ReportUpdate DEF Report
  <2>2. CASE SetLocals(l, [ctx[l] EXCEPT !.turns = @ + 1])
    <3>1. ctx[l].turns + 1 \in Nat
      BY <1>0 DEF Contexts
    <3> QED
      BY <1>0, <2>2, <3>1, TurnsUpdate
  <2>3. \/ ctx' = ctx
        \/ SetLocals(l, [ctx[l] EXCEPT !.turns = @ + 1])
        \/ \E r \in {"completed", "failed"} : Report(l, r)
    BY <1>2 DEF TurnGivesUp, CallModel, Answer
  <2> QED
    BY <2>1, <2>2, <2>3
<1>3. CASE CheckpointRead(l)
  BY <1>0, <1>3, EntriesUpdate DEF CheckpointRead
<1>4. CASE NextTry(l)
  <2>1. ctx[l].tries + 1 \in Nat
    BY <1>0 DEF Contexts
  <2> QED
    BY <1>0, <1>4, <2>1, TriesUpdate DEF NextTry
<1>5. CASE SetLocals(l, [ctx[l] EXCEPT !.entries = {}])
  BY <1>0, <1>5, EntriesUpdate
<1>6. CASE CheckpointWrite(l) \/ CheckpointFails(l)
  BY <1>4, <1>5, <1>6 DEF CheckpointWrite, CheckpointFails
<1>7. CASE Evaluate(l)
  <2>1. ctx[l].tally \in Tallies
    BY <1>0 DEF Contexts
  <2>2. \A v : AddVerdict(ctx[l].tally, v) \in Tallies
    BY <2>1, VerdictType
  <2> QED
    BY <1>0, <1>7, <2>2, TallyUpdate DEF Evaluate
<1>8. CASE ReadReplanCount(l) \/ WriteReplanCount(l)
  <2>1. \E n \in Nat : SetLocals(l, [ctx[l] EXCEPT !.count = n])
    BY <1>8 DEF ReadReplanCount, WriteReplanCount
  <2> QED
    BY <1>0, <2>1, CountUpdate
<1>9. CASE Survey(l)
  BY <1>0, <1>9, Surveyed
<1>10. CASE Judge(l)
  BY <1>0, <1>10, JudgeUpdate DEF Judge
<1>11. CASE SkipPending(l)
  BY <1>0, <1>11, SkipUpdate DEF SkipPending
<1> QED
  BY <1>1, <1>2, <1>3, <1>6, <1>7, <1>8, <1>9, <1>10, <1>11
-----------------------------------------------------------------------------
(* Types                                                                   *)

TypeInv == TypeOK /\ CursorInPlan /\ HoldsSubGoal

(* replan returns and drops its plan.                                      *)
LEMMA PlanLeft ==
  ASSUME ctx \in [Loops -> Contexts], NEW l \in Loops,
         ReplanReturns(l, NoTally) \/ ReplanReturns(l, ctx[l].tally)
  PROVE  /\ ctx' \in [Loops -> Contexts]
         /\ \A m \in Loops : m # l => SameCursor(ctx[m], ctx'[m])
         /\ ctx'[l].at = 1 /\ Len(ctx'[l].ids) = 0
<1>1. ctx[l] \in Contexts /\ ctx[l].tally \in Tallies /\ NoTally \in Tallies
  BY DEF Contexts, Tallies, NoTally
<1>2. PICK c \in Contexts : SetLocals(l, c) /\ c.at = 1 /\ Len(c.ids) = 0
  BY <1>1, PlanDropped DEF ReplanReturns
<1> QED
  BY <1>2, LocalsSet DEF SameCursor

(* A plan arrives, the cursor is at its start.                             *)
LEMMA PlanKept ==
  ASSUME ctx \in [Loops -> Contexts], NEW l \in Loops, PlanArrives(l)
  PROVE  /\ ctx' \in [Loops -> Contexts]
         /\ \A m \in Loops : m # l => SameCursor(ctx[m], ctx'[m])
         /\ ctx'[l].at = ctx[l].at /\ ctx'[l].ids = ctx[l].ids
         /\ Len(ctx'[l].plan) >= 1
<1>1. PICK p \in Plans : /\ Len(p) \in 1..Cardinality(Absent)
                        /\ SetLocals(l, [ctx[l] EXCEPT !.plan = p])
  BY DEF PlanArrives
<1>2. p \in Seq(Descriptors) /\ Len(p) >= 1
  BY <1>1, PlansAssumption
<1>3. PICK c \in Contexts : /\ SetLocals(l, c) /\ c.at = ctx[l].at
                            /\ c.ids = ctx[l].ids /\ c.plan = p
  BY <1>1, <1>2, PlanUpdate
<1> QED
  BY <1>2, <1>3, LocalsSet DEF SameCursor

LEMMA CurrentDescriptor ==
  ASSUME ctx \in [Loops -> Contexts], CursorInPlan, NEW l \in Loops, pc[l] = "insert"
  PROVE  /\ ctx[l].at \in 1..Len(ctx[l].plan)
         /\ ctx[l].plan[ctx[l].at] \in Descriptors
<1>1. ctx[l].plan \in Seq(Descriptors) /\ ctx[l].at \in Nat
  BY DEF Contexts
<1>2. ctx[l].at \in 1..Len(ctx[l].plan)
  BY <1>1 DEF CursorInPlan
<1> QED
  BY <1>1, <1>2

(* A row is inserted and its id appended.                                  *)
LEMMA RowInserted ==
  ASSUME ctx \in [Loops -> Contexts], CursorInPlan, NEW l \in Loops, InsertRow(l)
  PROVE  /\ ctx' \in [Loops -> Contexts]
         /\ \A m \in Loops : m # l => SameCursor(ctx[m], ctx'[m])
         /\ ctx'[l].plan = ctx[l].plan
         /\ Len(ctx'[l].ids) = Len(ctx[l].ids) + 1
         /\ \E i \in Absent : SetStatus(i, "pending") /\ ctx'[l].ids = Append(ctx[l].ids, i)
         /\ \/ ctx[l].at < Len(ctx[l].plan) /\ ctx'[l].at = ctx[l].at + 1 /\ UNCHANGED pc
            \/ ctx[l].at = Len(ctx[l].plan) /\ ctx'[l].at = 1 /\ Goto(l, "resolve")
<1>1. ctx[l].at \in Nat /\ Len(ctx[l].plan) \in Nat /\ ctx[l].at <= Len(ctx[l].plan)
  BY CurrentDescriptor DEF InsertRow, Contexts
<1>2. PICK i \in Absent :
        /\ SetStatus(i, "pending")
        /\ IF ctx[l].at < Len(ctx[l].plan)
           THEN SetLocals(l, [ctx[l] EXCEPT !.ids = Append(@, i), !.at = @ + 1]) /\ UNCHANGED pc
           ELSE SetLocals(l, [ctx[l] EXCEPT !.ids = Append(@, i), !.at = 1]) /\ Goto(l, "resolve")
  BY DEF InsertRow
<1> DEFINE c(n) == WithRow(ctx[l], i, n)
<1>3. \A n \in Nat : /\ c(n) \in Contexts /\ c(n).at = n /\ c(n).plan = ctx[l].plan
                     /\ c(n).ids = Append(ctx[l].ids, i)
                     /\ Len(c(n).ids) = Len(ctx[l].ids) + 1
  <2> TAKE n \in Nat
  <2>1. ctx[l] \in Contexts /\ i \in SubGoalIds
    BY DEF Absent
  <2> QED
    BY <2>1, RowAppended
<1>4. CASE ctx[l].at < Len(ctx[l].plan)
  <2>1. SetLocals(l, c(ctx[l].at + 1)) /\ UNCHANGED pc
    BY <1>2, <1>4 DEF WithRow
  <2> HIDE DEF c
  <2> QED
    BY <1>1, <1>2, <1>3, <1>4, <2>1, LocalsSet DEF SameCursor
<1>5. CASE ctx[l].at = Len(ctx[l].plan)
  <2>1. SetLocals(l, c(1)) /\ Goto(l, "resolve")
    BY <1>1, <1>2, <1>5 DEF WithRow
  <2> HIDE DEF c
  <2> QED
    BY <1>1, <1>2, <1>3, <1>5, <2>1, LocalsSet DEF SameCursor
<1> QED
  BY <1>1, <1>4, <1>5

(* A step of the second pass moves the cursor on, or ends the replan.      *)
LEMMA DependenciesResolved ==
  ASSUME ctx \in [Loops -> Contexts], NEW l \in Loops, ResolveDependencies(l)
  PROVE  /\ ctx' \in [Loops -> Contexts]
         /\ \A m \in Loops : m # l => SameCursor(ctx[m], ctx'[m])
         /\ \/ /\ ctx'[l].at = 1 /\ Len(ctx'[l].ids) = 0 /\ Goto(l, "top")
            \/ /\ ctx'[l].at = ctx[l].at + 1 /\ ctx'[l].ids = ctx[l].ids
               /\ ctx'[l].plan = ctx[l].plan /\ UNCHANGED pc
<1>1. CASE ReplanReturns(l, NoTally) \/ ReplanReturns(l, ctx[l].tally)
  BY <1>1, PlanLeft DEF ReplanReturns
<1>2. CASE SetLocals(l, [ctx[l] EXCEPT !.at = @ + 1]) /\ UNCHANGED pc
  <2>1. ctx[l] \in Contexts /\ ctx[l].at + 1 \in Nat
    BY DEF Contexts
  <2> DEFINE d == [ctx[l] EXCEPT !.at = ctx[l].at + 1]
  <2>2. d \in Contexts /\ d.at = ctx[l].at + 1 /\ d.ids = ctx[l].ids /\ d.plan = ctx[l].plan
    BY <2>1, CursorUpdate
  <2>3. SetLocals(l, d)
    BY <1>2
  <2> HIDE DEF d
  <2> QED
    BY <1>2, <2>2, <2>3, LocalsSet DEF SameCursor
<1> QED
  BY <1>1, <1>2 DEF ResolveDependencies

LEMMA ClosingSets ==
  /\ {} \in ClosingSet /\ {"completed"} \in ClosingSet
  /\ \A c \in ClosingSet : c \union {"interrupted"} \in ClosingSet
BY DEF ClosingSet

LEMMA TypeInit == Init => TypeInv
<1> SUFFICES ASSUME Init PROVE TypeInv
  OBVIOUS
<1>1. PICK p \in InitPlans : InitPlan(p)
  BY DEF Init
<1>2. p \in Seq(Descriptors) /\ Len(p) <= MaxSubGoals
  BY PlansAssumption
<1>3. /\ Len(p) \in Nat
      /\ \A i \in 1..Len(p) : /\ p[i].priority \in Nat
                             /\ p[i].dependsOn \subseteq SubGoalIds
  <2>1. \A i \in 1..Len(p) : p[i] \in Descriptors
    BY <1>2
  <2>2. \A i \in 1..Len(p) : p[i].dependsOn \subseteq 1..Len(p)
    BY PlansAssumption
  <2>3. 1..Len(p) \subseteq SubGoalIds
    BY <1>2, BoundsAssumption DEF SubGoalIds
  <2> QED
    BY <1>2, <2>1, <2>2, <2>3 DEF Descriptors
<1>4. \A i \in SubGoalIds : i <= Len(p) => i \in 1..Len(p)
  BY <1>3 DEF SubGoalIds
<1>5. Plan!PlanTypeOK /\ priority \in [SubGoalIds -> Nat]
  BY <1>1, <1>3, <1>4
  DEF Init, InitPlan, Plan!PlanTypeOK, Plan!GoalStatuses, Plan!SubGoalStatuses
<1>6. /\ replanCount \in Nat /\ journal \subseteq Entries
      /\ cycleLog \subseteq ClosingSet /\ killSwitch \in BOOLEAN
      /\ phase \in Phases /\ activeLoop \in Loops \union {NoLoop}
      /\ tick \in {"none", "spawn", "stop"}
      /\ pc \in [Loops -> Labels] /\ cur \in [Loops -> SubGoalIds \union {0}]
      /\ cancelled \in [Loops -> BOOLEAN] /\ faults \in Nat
      /\ runs \in [SubGoalIds -> Nat]
  BY DEF Init, Phases, Labels
<1>7. ctx \in [Loops -> Contexts]
  BY FreshContextType DEF Init
<1>8. CursorInPlan /\ HoldsSubGoal
  BY FreshContextType DEF Init, CursorInPlan, HoldsSubGoal
<1> QED
  BY <1>5, <1>6, <1>7, <1>8 DEF TypeInv, TypeOK

(* TypeOK and HoldsSubGoal are kept by every step of a state that has      *)
(* them and CursorInPlan.                                                  *)
LEMMA TypeStep ==
  ASSUME TypeInv, [Next]_vars
  PROVE  TypeOK' /\ HoldsSubGoal'
<1> USE DEF TypeInv, TypeOK, HoldsSubGoal, Labels, Phases, Goto,
        Plan!PlanTypeOK, Plan!GoalStatuses, Plan!SubGoalStatuses,
        goalRow, planRows, logs, process, local, history
<1> DEFINE Good == TypeOK' /\ HoldsSubGoal'
<1>1. ASSUME NEW l \in Loops, Spawn(l) PROVE Good
  BY <1>1, FreshContextType, LocalsSet DEF Spawn
<1>2. ASSUME NEW l \in Loops, EndCycle(l) PROVE Good
  <2>1. cycleLog' \subseteq ClosingSet
    BY <1>2, ClosingSets DEF EndCycle
  <2>2. faults' \in Nat
    BY <1>2 DEF EndCycle, Fault
  <2> QED
    BY <1>2, <2>1, <2>2, FreshContextType, LocalsSet DEF EndCycle
<1>3. ASSUME NEW l \in Loops, Top(l) \/ Check(l) PROVE Good
  BY <1>3 DEF Top, Check, NextSubGoals, Actionable
<1>4. ASSUME NEW l \in Loops, CompleteGoal(l) \/ ClearJournal(l) PROVE Good
  BY <1>4 DEF CompleteGoal, ClearJournal
<1>5. ASSUME NEW l \in Loops, StartSubGoal(l) PROVE Good
  <2>1. ctx' \in [Loops -> Contexts]
    BY <1>5, CursorKept
  <2>2. cur[l] \in SubGoalIds
    BY <1>5 DEF StartSubGoal
  <2>3. status' \in [SubGoalIds -> Plan!SubGoalStatuses] /\ runs' \in [SubGoalIds -> Nat]
    BY <1>5, <2>2 DEF StartSubGoal, SetStatus
  <2> QED
    BY <1>5, <2>1, <2>3 DEF StartSubGoal
<1>6. ASSUME NEW l \in Loops, TurnGivesUp(l) \/ CallModel(l) \/ Answer(l) PROVE Good
  <2>1. ctx' \in [Loops -> Contexts]
    BY <1>6, CursorKept
  <2>2. cur[l] \in SubGoalIds
    BY <1>6 DEF TurnGivesUp, CallModel, Answer
  <2>3. /\ UNCHANGED status \/ \E s \in {"completed", "failed"} : SetStatus(cur[l], s)
        /\ \E label \in {"turn", "call", "ckptRead"} : Goto(l, label)
        /\ UNCHANGED <<goalRow, dependsOn, priority, logs, killSwitch, process, cur>>
        /\ UNCHANGED <<faults, history>>
    BY <1>6 DEF TurnGivesUp, CallModel, Answer, Report
  <2>4. status' \in [SubGoalIds -> Plan!SubGoalStatuses]
    BY <2>2, <2>3 DEF SetStatus
  <2> QED
    BY <2>1, <2>2, <2>3, <2>4
<1>7. ASSUME NEW l \in Loops, TurnKilled(l) PROVE Good
  BY <1>7 DEF TurnKilled
<1>8. ASSUME NEW l \in Loops, CheckpointRead(l) PROVE Good
  BY <1>8, CursorKept DEF CheckpointRead
<1>9. ASSUME NEW l \in Loops, CheckpointWrite(l) \/ CheckpointFails(l) PROVE Good
  <2>1. ctx' \in [Loops -> Contexts]
    BY <1>9, CursorKept
  <2>2. ctx[l].entries \subseteq Entries /\ ctx[l].result \in {"completed", "failed"}
    BY DEF Contexts
  <2>3. pc[l] = "ckptWrite" => Written(l) \subseteq Entries
    BY <2>2 DEF Written, Entry, Entries
  <2>4. journal' \subseteq Entries
    BY <1>9, <2>3 DEF CheckpointWrite, CheckpointFails
  <2>5. faults' \in Nat
    BY <1>9 DEF CheckpointWrite, CheckpointFails, Fault
  <2>6. \E label \in {"ckptRead", "evaluate", "finally"} :
          Goto(l, label) /\ (label # "finally" => cur[l] \in SubGoalIds)
    BY <1>9 DEF CheckpointWrite, CheckpointFails, NextTry
  <2>7. UNCHANGED <<goalRow, planRows, cycleLog, killSwitch, process, cur, history>>
    BY <1>9 DEF CheckpointWrite, CheckpointFails
  <2> QED
    BY <2>1, <2>4, <2>5, <2>6, <2>7
<1>10. ASSUME NEW l \in Loops, Evaluate(l) PROVE Good
  <2>1. ctx' \in [Loops -> Contexts]
    BY <1>10, CursorKept
  <2>2. cur' = [cur EXCEPT ![l] = 0] /\ \E label \in {"replan", "top"} : Goto(l, label)
    BY <1>10 DEF Evaluate
  <2>3. UNCHANGED <<goalRow, planRows, logs, killSwitch, process, faults, history>>
    BY <1>10 DEF Evaluate
  <2> QED
    BY <2>1, <2>2, <2>3
<1>11. ASSUME NEW l \in Loops, ReadReplanCount(l) \/ WriteReplanCount(l) PROVE Good
  <2>1. ctx' \in [Loops -> Contexts]
    BY <1>11, CursorKept
  <2>2. ctx[l].count \in Nat
    BY DEF Contexts
  <2> QED
    BY <1>11, <2>1, <2>2 DEF ReadReplanCount, WriteReplanCount
<1>12. ASSUME NEW l \in Loops, EscalatePause(l) PROVE Good
  BY <1>12 DEF EscalatePause
<1>13. ASSUME NEW l \in Loops, Survey(l) PROVE Good
  BY <1>13, CursorKept DEF Survey
<1>14. ASSUME NEW l \in Loops, Judge(l) \/ SkipPending(l) PROVE Good
  <2>1. ctx' \in [Loops -> Contexts]
    BY <1>14, CursorKept
  <2>2. ctx[l].judge \subseteq SubGoalIds /\ ctx[l].skip \subseteq SubGoalIds
    BY DEF Contexts
  <2>3. UNCHANGED status \/ \E i \in SubGoalIds : SetStatus(i, "skipped")
    BY <1>14, <2>2 DEF Judge, SkipPending
  <2>4. status' \in [SubGoalIds -> Plan!SubGoalStatuses]
    BY <2>3 DEF SetStatus
  <2>5. UNCHANGED pc \/ \E label \in {"skip", "plan"} : Goto(l, label)
    BY <1>14 DEF Judge, SkipPending
  <2>6. UNCHANGED <<goalRow, dependsOn, priority, logs, killSwitch, process, cur, faults, history>>
    BY <1>14 DEF Judge, SkipPending
  <2> QED
    BY <2>1, <2>4, <2>5, <2>6
<1>15. ASSUME NEW l \in Loops, PlanArrives(l) PROVE Good
  BY <1>15, PlanKept DEF PlanArrives
<1>16. ASSUME NEW l \in Loops, PlanFails(l) PROVE Good
  BY <1>16, PlanLeft DEF PlanFails, ReplanReturns
<1>17. ASSUME NEW l \in Loops, InsertRow(l) PROVE Good
  <2>1. ctx' \in [Loops -> Contexts]
    BY <1>17, RowInserted
  <2>2. PICK i \in SubGoalIds :
          /\ SetStatus(i, "pending")
          /\ dependsOn' = [dependsOn EXCEPT ![i] = {}]
          /\ priority' = [priority EXCEPT ![i] = ctx[l].plan[ctx[l].at].priority]
    BY <1>17 DEF InsertRow, Absent
  <2>3. ctx[l].plan[ctx[l].at].priority \in Nat
    BY <1>17, CurrentDescriptor DEF InsertRow, Descriptors
  <2>4. /\ status' \in [SubGoalIds -> Plan!SubGoalStatuses]
        /\ dependsOn' \in [SubGoalIds -> SUBSET SubGoalIds]
        /\ priority' \in [SubGoalIds -> Nat]
    BY <2>2, <2>3 DEF SetStatus
  <2>5. UNCHANGED pc \/ Goto(l, "resolve")
    BY <1>17 DEF InsertRow
  <2>6. UNCHANGED <<goalRow, logs, killSwitch, process, cur, faults, runs>> /\ pc[l] = "insert"
    BY <1>17 DEF InsertRow
  <2> QED
    BY <2>1, <2>4, <2>5, <2>6
<1>18. ASSUME NEW l \in Loops, ResolveDependencies(l) PROVE Good
  <2>1. ctx' \in [Loops -> Contexts]
    BY <1>18, DependenciesResolved
  <2>2. dependsOn' \in [SubGoalIds -> SUBSET SubGoalIds]
    <3>1. CASE UNCHANGED dependsOn
      BY <3>1
    <3>2. ASSUME NEW row, NEW W \in SUBSET (1..Len(ctx[l].ids)),
                 dependsOn' = [dependsOn EXCEPT ![row] = {ctx[l].ids[k] : k \in W}]
          PROVE  dependsOn' \in [SubGoalIds -> SUBSET SubGoalIds]
      <4>1. ctx[l].ids \in Seq(SubGoalIds)
        BY DEF Contexts
      <4>2. {ctx[l].ids[k] : k \in W} \subseteq SubGoalIds
        BY <4>1
      <4> QED
        BY <3>2, <4>2
    <3> QED
      BY <1>18, <3>1, <3>2 DEF ResolveDependencies
  <2>3. UNCHANGED pc \/ Goto(l, "top")
    BY <1>18 DEF ResolveDependencies, ReplanReturns
  <2> QED
    BY <1>18, <2>1, <2>2, <2>3 DEF ResolveDependencies
<1>19. ASSUME NEW l \in Loops, CallFails(l) PROVE Good
  <2>1. faults' \in Nat
    BY <1>19 DEF CallFails, Fault
  <2>2. (UNCHANGED ctx /\ Goto(l, "finally")) \/ ReplanReturns(l, ctx[l].tally)
    BY <1>19 DEF CallFails
  <2>3. ctx' \in [Loops -> Contexts] /\ (Goto(l, "finally") \/ Goto(l, "top"))
    BY <2>2, PlanLeft DEF ReplanReturns
  <2> QED
    BY <1>19, <2>1, <2>3 DEF CallFails
<1>20. CASE Tick \/ Stop
  BY <1>20 DEF Tick, Stop
<1>21. CASE ProcessEnds /\ faults' \in Nat
  <2>1. cycleLog' \subseteq ClosingSet
    BY <1>21, ClosingSets DEF ProcessEnds
  <2> QED
    BY <1>21, <2>1, FreshContextType DEF ProcessEnds
<1>22. CASE Crash \/ Exit
  <2>1. faults' \in Nat
    BY <1>22 DEF Crash, Exit, Fault
  <2> QED
    BY <1>21, <1>22, <2>1 DEF Crash, Exit
<1>23. CASE Shutdown
  BY <1>23 DEF Shutdown, Fault
<1>24. CASE Boot \/ NothingToRecover
  BY <1>24 DEF Boot, NothingToRecover
<1>25. CASE InterruptCycles
  <2>1. cycleLog' \subseteq ClosingSet
    BY <1>25, ClosingSets DEF InterruptCycles
  <2>2. faults' \in Nat
    BY <1>25 DEF InterruptCycles, Fault
  <2> QED
    BY <1>25, <2>1, <2>2 DEF InterruptCycles
<1>26. ASSUME NEW i \in SubGoalIds, ResetSubGoal(i) PROVE Good
  BY <1>26 DEF ResetSubGoal, SetStatus
<1>27. CASE RecoveryEnds
  BY <1>27 DEF RecoveryEnds, Fault
<1>28. CASE ToggleKillSwitch \/ SetGoalStatus
  BY <1>28 DEF ToggleKillSwitch, SetGoalStatus
<1>29. CASE UNCHANGED vars
  BY <1>29 DEF vars
<1> HIDE DEF TypeInv, TypeOK, HoldsSubGoal
<1> QED
  BY <1>1, <1>2, <1>3, <1>4, <1>5, <1>6, <1>7, <1>8, <1>9, <1>10, <1>11, <1>12, <1>13,
     <1>14, <1>15, <1>16, <1>17, <1>18, <1>19, <1>20, <1>22, <1>23, <1>24, <1>25, <1>26,
     <1>27, <1>28, <1>29
  DEF Next, LoopStep, ExecuteStep, ReplanStep, BootStep

(* A step that moves loops between labels outside decomposeGoal, and not   *)
(* their cursors.                                                          *)
LEMMA CursorUntouched ==
  ASSUME CursorInPlan,
         \A m \in Loops : SameCursor(ctx[m], ctx'[m]),
         \A m \in Loops : \/ pc'[m] = pc[m]
                          \/ {pc[m], pc'[m]} \intersect {"insert", "resolve"} = {}
  PROVE  CursorInPlan'
BY DEF CursorInPlan, SameCursor

(* The same for a step of one loop that does change its locals.            *)
LEMMA CursorMoved ==
  ASSUME CursorInPlan, NEW l \in Loops,
         \A m \in Loops : m # l => SameCursor(ctx[m], ctx'[m]) /\ pc'[m] = pc[m],
         ctx'[l].at >= 1,
         pc'[l] \notin {"insert", "resolve"} => ctx'[l].at = 1,
         pc'[l] = "insert" => ctx'[l].at <= Len(ctx'[l].plan),
         Len(ctx'[l].ids) = IF pc'[l] = "resolve" THEN Len(ctx'[l].plan) ELSE ctx'[l].at - 1
  PROVE  CursorInPlan'
BY DEF CursorInPlan, SameCursor

LEMMA CursorStep ==
  ASSUME TypeInv, [Next]_vars
  PROVE  CursorInPlan'
<1>1. /\ ctx \in [Loops -> Contexts] /\ pc \in [Loops -> Labels] /\ CursorInPlan
      /\ journal \subseteq Entries /\ replanCount \in Nat
  BY DEF TypeInv, TypeOK
<1>2. ASSUME NEW l \in Loops,
             \/ Top(l) \/ Check(l) \/ CompleteGoal(l) \/ ClearJournal(l)
             \/ TurnKilled(l) \/ EscalatePause(l)
      PROVE  CursorInPlan'
  <2>1. UNCHANGED ctx
    BY <1>2 DEF Top, Check, CompleteGoal, ClearJournal, TurnKilled, EscalatePause
  <2>2. \E label \in Labels \ {"insert", "resolve"} : Goto(l, label)
    BY <1>2 DEF Top, Check, CompleteGoal, ClearJournal, TurnKilled, EscalatePause, Labels
  <2>3. pc[l] \notin {"insert", "resolve"}
    BY <1>2 DEF Top, Check, CompleteGoal, ClearJournal, TurnKilled, EscalatePause
  <2> QED
    BY <1>1, <2>1, <2>2, <2>3, CursorUntouched DEF Goto, SameCursor
<1>3. ASSUME NEW l \in Loops,
             \/ StartSubGoal(l) \/ TurnGivesUp(l) \/ CallModel(l) \/ Answer(l)
             \/ CheckpointRead(l) \/ CheckpointWrite(l) \/ CheckpointFails(l)
             \/ Evaluate(l) \/ ReadReplanCount(l) \/ WriteReplanCount(l)
             \/ Survey(l) \/ Judge(l) \/ SkipPending(l)
      PROVE  CursorInPlan'
  <2>1. \A m \in Loops : SameCursor(ctx[m], ctx'[m])
    BY <1>1, <1>3, CursorKept
  <2>2. UNCHANGED pc \/ \E label \in Labels \ {"insert", "resolve"} : Goto(l, label)
    BY <1>3 DEF StartSubGoal, TurnGivesUp, CallModel, Answer, Report,
                CheckpointRead, CheckpointWrite, CheckpointFails, NextTry, Evaluate,
                ReadReplanCount, WriteReplanCount,
                Survey, Judge, SkipPending, Labels
  <2>3. pc[l] \notin {"insert", "resolve"}
    BY <1>3 DEF StartSubGoal, TurnGivesUp, CallModel, Answer, CheckpointRead, CheckpointWrite,
                CheckpointFails, Evaluate, ReadReplanCount, WriteReplanCount,
                Survey, Judge, SkipPending
  <2> QED
    BY <1>1, <2>1, <2>2, <2>3, CursorUntouched DEF Goto
<1>4. ASSUME NEW l \in Loops, Spawn(l) \/ EndCycle(l) PROVE CursorInPlan'
  <2>1. SetLocals(l, FreshContext) /\ (Goto(l, "top") \/ Goto(l, "idle"))
    BY <1>4 DEF Spawn, EndCycle
  <2> QED
    BY <1>1, <2>1, FreshContextType, LocalsSet, CursorMoved DEF Goto, SameCursor
<1>5. ASSUME NEW l \in Loops, PlanArrives(l) PROVE CursorInPlan'
  <2>1. Goto(l, "insert") /\ pc[l] = "plan"
    BY <1>5 DEF PlanArrives
  <2>2. ctx[l].at = 1 /\ Len(ctx[l].ids) = 0
    BY <1>1, <2>1 DEF CursorInPlan
  <2> QED
    BY <1>1, <1>5, <2>1, <2>2, PlanKept, CursorMoved DEF Goto
<1>6. ASSUME NEW l \in Loops, Goto(l, "top"),
             ReplanReturns(l, NoTally) \/ ReplanReturns(l, ctx[l].tally)
      PROVE  CursorInPlan'
  BY <1>1, <1>6, PlanLeft, CursorMoved DEF Goto
<1>7. ASSUME NEW l \in Loops, PlanFails(l) PROVE CursorInPlan'
  BY <1>6, <1>7 DEF PlanFails, ReplanReturns
<1>8. ASSUME NEW l \in Loops, InsertRow(l) PROVE CursorInPlan'
  <2>1. pc[l] = "insert" /\ ctx[l].at \in Nat /\ Len(ctx[l].plan) \in Nat
    BY <1>1, <1>8 DEF InsertRow, Contexts
  <2>2. ctx[l].at >= 1 /\ Len(ctx[l].ids) = ctx[l].at - 1
    BY <1>1, <2>1 DEF CursorInPlan
  <2>3. \A m \in Loops : m # l => SameCursor(ctx[m], ctx'[m]) /\ pc'[m] = pc[m]
    BY <1>1, <1>8, RowInserted DEF Goto
  <2>4. \/ ctx[l].at < Len(ctx[l].plan) /\ ctx'[l].at = ctx[l].at + 1 /\ pc'[l] = "insert"
        \/ ctx[l].at = Len(ctx[l].plan) /\ ctx'[l].at = 1 /\ pc'[l] = "resolve"
    BY <1>1, <1>8, <2>1, RowInserted DEF Goto
  <2>5. ctx'[l].plan = ctx[l].plan /\ Len(ctx'[l].ids) = Len(ctx[l].ids) + 1
    BY <1>1, <1>8, RowInserted
  <2> QED
    BY SMTT(30), <1>1, <2>1, <2>2, <2>3, <2>4, <2>5, CursorMoved
<1>9. ASSUME NEW l \in Loops, ResolveDependencies(l) PROVE CursorInPlan'
  <2>1. pc[l] = "resolve" /\ ctx[l].at \in Nat
    BY <1>1, <1>9 DEF ResolveDependencies, Contexts
  <2>2. ctx[l].at >= 1 /\ Len(ctx[l].ids) = Len(ctx[l].plan)
    BY <1>1, <2>1 DEF CursorInPlan
  <2> QED
    BY <1>1, <1>9, <2>1, <2>2, DependenciesResolved, CursorMoved DEF Goto
<1>10. ASSUME NEW l \in Loops, CallFails(l) PROVE CursorInPlan'
  <2>1. \/ UNCHANGED ctx /\ Goto(l, "finally") /\ pc[l] \notin {"insert", "resolve"}
        \/ ReplanReturns(l, ctx[l].tally)
    BY <1>10 DEF CallFails
  <2>2. CASE UNCHANGED ctx /\ Goto(l, "finally") /\ pc[l] \notin {"insert", "resolve"}
    BY <1>1, <2>2, CursorUntouched DEF Goto, SameCursor
  <2>3. CASE ReplanReturns(l, ctx[l].tally)
    BY <1>6, <2>3 DEF ReplanReturns
  <2> QED
    BY <2>1, <2>2, <2>3
<1>11. CASE Crash \/ Exit
  BY <1>11, FreshContextType DEF Crash, Exit, ProcessEnds, CursorInPlan
<1>12. CASE \/ Tick \/ Stop \/ Shutdown \/ Boot \/ NothingToRecover \/ InterruptCycles
            \/ \E i \in SubGoalIds : ResetSubGoal(i)
            \/ RecoveryEnds \/ ToggleKillSwitch \/ SetGoalStatus
            \/ UNCHANGED vars
  <2>1. UNCHANGED <<ctx, pc>>
    BY <1>12 DEF Tick, Stop, Shutdown, Boot, NothingToRecover, InterruptCycles, ResetSubGoal,
                 RecoveryEnds, ToggleKillSwitch, SetGoalStatus, vars, local
  <2> QED
    BY <1>1, <2>1, CursorUntouched DEF SameCursor
<1> QED
  BY <1>2, <1>3, <1>4, <1>5, <1>7, <1>8, <1>9, <1>10, <1>11, <1>12
  DEF Next, LoopStep, ExecuteStep, ReplanStep, BootStep

(* Type correctness, for any number of loops on the goal: no interleaving  *)
(* of them takes the cursor of decomposeGoal out of its plan, or lets a    *)
(* loop report on a sub-goal it does not hold.                             *)
THEOREM TypeCorrect == Spec => []TypeOK
<1>1. Init => TypeInv
  BY TypeInit
<1>2. TypeInv /\ [Next]_vars => TypeInv'
  BY TypeStep, CursorStep DEF TypeInv
<1>3. TypeInv => TypeOK
  BY DEF TypeInv
<1> QED
  BY <1>1, <1>2, <1>3, PTL DEF Spec

-----------------------------------------------------------------------------
(* One loop on the goal, as the supervisor promises                        *)

OneLoop == \A l, m \in Loops : l = m

SafeInv == TypeOK /\ NoStaleRead /\ CompletionSound

LEMMA SafeType == SafeInv => TypeInv
BY DEF SafeInv, TypeInv, NoStaleRead

LEMMA SafeInit == Init => SafeInv
<1> SUFFICES ASSUME Init PROVE SafeInv
  OBVIOUS
<1>1. TypeInv
  BY TypeInit
<1>2. LoopsServe /\ ReadsHold /\ EntriesTruthful /\ JournalTruthful
  BY DEF Init, LoopsServe, ReadsHold, EntriesTruthful, JournalTruthful, CompletedIds
<1>3. CompletionSound
  BY DEF Init, CompletionSound, Plan!CompletionSound
<1> QED
  BY <1>1, <1>2, <1>3 DEF SafeInv, TypeInv, NoStaleRead

LEMMA PlanInitially == Init => Plan!PlanInit
<1> SUFFICES ASSUME Init PROVE Plan!PlanInit
  OBVIOUS
<1>1. status \in [SubGoalIds -> {"absent", "pending"}]
  BY DEF Init, InitPlan
<1>2. dependsOn \in [SubGoalIds -> SUBSET SubGoalIds]
  BY TypeInit DEF TypeInv, TypeOK, Plan!PlanTypeOK
<1> QED
  BY <1>1, <1>2 DEF Init, Plan!PlanInit

(* Every step of the loop, of recovery and of the operator is a step of    *)
(* the plan, or leaves the tables of the plan alone.                       *)
LEMMA PlanStep ==
  ASSUME OneLoop, SafeInv, [Next]_vars
  PROVE  [Plan!PlanNext]_(Plan!planVars)
<1> DEFINE Same == UNCHANGED <<goalStatus, status, dependsOn>>
<1>0. Same => UNCHANGED Plan!planVars
  BY DEF Plan!planVars
<1>1. ASSUME NEW l \in Loops,
             \/ Spawn(l) \/ EndCycle(l) \/ Top(l) \/ Check(l) \/ ClearJournal(l)
             \/ TurnKilled(l) \/ CheckpointRead(l) \/ CheckpointWrite(l)
             \/ CheckpointFails(l) \/ Evaluate(l)
             \/ ReadReplanCount(l) \/ WriteReplanCount(l) \/ Survey(l)
             \/ PlanArrives(l) \/ PlanFails(l) \/ CallFails(l)
      PROVE  Same
  BY <1>1 DEF Spawn, EndCycle, Top, Check, ClearJournal, TurnKilled, CheckpointRead,
     CheckpointWrite, CheckpointFails, Evaluate, ReadReplanCount, WriteReplanCount, Survey,
     PlanArrives, PlanFails, CallFails, goalRow, planRows
<1>2. CASE \/ Tick \/ Stop \/ Crash \/ Exit \/ Shutdown \/ Boot \/ NothingToRecover
           \/ InterruptCycles \/ RecoveryEnds \/ ToggleKillSwitch \/ UNCHANGED vars
  <2>1. Same
    BY <1>2 DEF Tick, Stop, Crash, Exit, ProcessEnds, Shutdown, Boot, NothingToRecover,
       InterruptCycles, RecoveryEnds, ToggleKillSwitch, vars, goalRow, planRows
  <2> QED
    BY <1>0, <2>1
<1>3. ASSUME NEW l \in Loops, CompleteGoal(l) PROVE Plan!PlanNext
  <2>1. Plan!AllSettled
    BY <1>3 DEF CompleteGoal, SafeInv, NoStaleRead, ReadsHold, IsGoalComplete
  <2> QED
    BY <1>3, <2>1 DEF CompleteGoal, Plan!PlanNext, Plan!Complete, planRows
<1>4. ASSUME NEW l \in Loops, StartSubGoal(l) PROVE Plan!PlanNext
  <2>1. cur[l] \in Actionable
    BY <1>4 DEF StartSubGoal, SafeInv, NoStaleRead, ReadsHold
  <2>2. Plan!Begin(cur[l]) /\ cur[l] \in SubGoalIds
    BY <1>4, <2>1 DEF StartSubGoal, Actionable, Plan!Begin, SetStatus, Plan!SetStatus, goalRow
  <2> QED
    BY <2>2 DEF Plan!PlanNext
<1>5. ASSUME NEW l \in Loops, TurnGivesUp(l) \/ CallModel(l) \/ Answer(l)
      PROVE  Same \/ Plan!PlanNext
  <2>1. cur[l] \in SubGoalIds /\ status[cur[l]] = "in-progress"
    BY <1>5 DEF TurnGivesUp, CallModel, Answer, SafeInv, NoStaleRead, ReadsHold, HoldsSubGoal
  <2>2. UNCHANGED <<goalStatus, dependsOn>>
    BY <1>5 DEF TurnGivesUp, CallModel, Answer, goalRow, planRows
  <2>3. UNCHANGED status \/ \E s \in {"completed", "failed"} : SetStatus(cur[l], s)
    BY <1>5 DEF TurnGivesUp, CallModel, Answer, Report, planRows
  <2> QED
    BY <2>1, <2>2, <2>3 DEF Plan!PlanNext, Plan!Finish, SetStatus, Plan!SetStatus
<1>6. ASSUME NEW l \in Loops, EscalatePause(l) PROVE Plan!PlanNext
  BY <1>6 DEF EscalatePause, SafeInv, NoStaleRead, LoopsServe, Ending, planRows,
     Plan!PlanNext, Plan!PauseOrActivate
<1>7. ASSUME NEW l \in Loops, Judge(l) \/ SkipPending(l)
      PROVE  Same \/ Plan!PlanNext
  <2>1. UNCHANGED <<goalStatus, dependsOn>>
    BY <1>7 DEF Judge, SkipPending, goalRow
  <2>2. \/ UNCHANGED status
        \/ \E i : /\ SetStatus(i, "skipped")
                  /\ i \in ctx[l].judge \/ i \in ctx[l].skip
                  /\ status[i] \in {"pending", "in-progress"}
    <3>1. CASE Judge(l)
      <4>1. \A i \in ctx[l].judge : status[i] = "in-progress"
        BY <3>1 DEF Judge, SafeInv, NoStaleRead, ReadsHold
      <4>2. UNCHANGED status \/ \E i \in ctx[l].judge : SetStatus(i, "skipped")
        BY <3>1 DEF Judge
      <4> QED
        BY <4>1, <4>2
    <3>2. CASE SkipPending(l)
      BY <3>2 DEF SkipPending, SafeInv, NoStaleRead, ReadsHold
    <3> QED
      BY <1>7, <3>1, <3>2
  <2>3. ctx[l].judge \subseteq SubGoalIds /\ ctx[l].skip \subseteq SubGoalIds
    BY DEF SafeInv, TypeOK, Contexts
  <2> QED
    BY <2>1, <2>2, <2>3 DEF Plan!PlanNext, Plan!Skip, SetStatus, Plan!SetStatus
<1>8. ASSUME NEW l \in Loops, InsertRow(l) PROVE Plan!PlanNext
  <2>1. PICK i \in Absent : /\ SetStatus(i, "pending")
                            /\ dependsOn' = [dependsOn EXCEPT ![i] = {}]
    BY <1>8 DEF InsertRow
  <2>2. goalStatus # "completed" /\ UNCHANGED goalStatus
    BY <1>8 DEF InsertRow, SafeInv, NoStaleRead, LoopsServe, Ending, goalRow
  <2> QED
    BY <2>1, <2>2 DEF Absent, Plan!PlanNext, Plan!Add, SetStatus, Plan!SetStatus
<1>9. ASSUME NEW l \in Loops, ResolveDependencies(l) PROVE Same \/ Plan!PlanNext
  <2>1. UNCHANGED <<goalStatus, status>>
    BY <1>9 DEF ResolveDependencies, goalRow
  <2>2. CASE UNCHANGED dependsOn
    BY <2>1, <2>2
  <2>3. CASE /\ ctx[l].at <= Len(ctx[l].plan)
             /\ \E D : dependsOn' = [dependsOn EXCEPT ![ctx[l].ids[ctx[l].at]] = D]
    <3>1. /\ ctx[l].ids \in Seq(SubGoalIds) /\ ctx[l].plan \in Seq(Descriptors)
          /\ ctx[l].at \in Nat
      BY DEF SafeInv, TypeOK, Contexts
    <3>2. pc[l] = "resolve"
      BY <1>9 DEF ResolveDependencies
    <3>3. ctx[l].ids[ctx[l].at] \in SubGoalIds /\ status[ctx[l].ids[ctx[l].at]] = "pending"
      <4>1. ctx[l].at >= 1 /\ Len(ctx[l].ids) = Len(ctx[l].plan)
        BY <3>2 DEF SafeInv, NoStaleRead, CursorInPlan
      <4>2. ctx[l].at \in 1..Len(ctx[l].ids)
        BY <2>3, <3>1, <4>1
      <4>3. \A k \in 1..Len(ctx[l].ids) : status[ctx[l].ids[k]] = "pending"
        BY <3>2 DEF SafeInv, NoStaleRead, ReadsHold
      <4> QED
        BY <3>1, <4>2, <4>3
    <3>4. dependsOn' \in [SubGoalIds -> SUBSET SubGoalIds]
      BY SafeType, TypeStep DEF TypeOK, Plan!PlanTypeOK
    <3>5. dependsOn'[ctx[l].ids[ctx[l].at]] \in SUBSET SubGoalIds
      BY <3>3, <3>4
    <3>6. dependsOn \in [SubGoalIds -> SUBSET SubGoalIds]
      BY DEF SafeInv, TypeOK, Plan!PlanTypeOK
    <3>7. PICK D : dependsOn' = [dependsOn EXCEPT ![ctx[l].ids[ctx[l].at]] = D]
      BY <2>3
    <3>8. D \in SUBSET SubGoalIds
      BY <3>3, <3>5, <3>6, <3>7
    <3>9. Plan!Link(ctx[l].ids[ctx[l].at])
      BY <2>1, <3>3, <3>7, <3>8 DEF Plan!Link
    <3> QED
      BY <3>3, <3>9 DEF Plan!PlanNext
  <2> QED
    BY <1>9, <2>2, <2>3 DEF ResolveDependencies
<1>10. ASSUME NEW i \in SubGoalIds, ResetSubGoal(i) PROVE Plan!PlanNext
  BY <1>10 DEF ResetSubGoal, Interrupted, SetStatus, Plan!SetStatus, Plan!Retry,
     Plan!PlanNext, goalRow
<1>11. CASE SetGoalStatus
  BY <1>11 DEF SetGoalStatus, planRows, Plan!PlanNext, Plan!PauseOrActivate,
     SafeInv, TypeOK, Plan!PlanTypeOK, Plan!GoalStatuses
<1> HIDE DEF Same
<1> QED
  BY <1>0, <1>1, <1>2, <1>3, <1>4, <1>5, <1>6, <1>7, <1>8, <1>9, <1>10, <1>11
  DEF Next, LoopStep, ExecuteStep, ReplanStep, BootStep

-----------------------------------------------------------------------------
(* What one loop read stays true                                           *)

(* A step that leaves the loop and its sub-goals alone.                    *)
LEMMA ReadsKept ==
  ASSUME ReadsHold, EntriesTruthful,
         UNCHANGED <<pc, cur, ctx, status, dependsOn>>
  PROVE  ReadsHold' /\ EntriesTruthful'
BY DEF ReadsHold, EntriesTruthful, Actionable, IsGoalComplete, Plan!AllSettled,
       Plan!Settled, Plan!Ready

(* A step after which the loop waits at a label that reads nothing.        *)
LEMMA ReadsDropped ==
  ASSUME \A l \in Loops : pc'[l] \notin
           {"start", "turn", "call", "finish", "judge", "skip", "insert", "resolve",
            "ckptRead", "ckptWrite"}
  PROVE  ReadsHold' /\ EntriesTruthful'
BY DEF ReadsHold, EntriesTruthful

(* A loop lives in a serving process and works on sub-goals only of a goal *)
(* that is not completed.                                                  *)
LEMMA ServeStep ==
  ASSUME OneLoop, SafeInv, [Next]_vars
  PROVE  LoopsServe'
<1>1. LoopsServe /\ pc \in [Loops -> Labels]
  BY DEF SafeInv, NoStaleRead, TypeOK
<1>2. ASSUME NEW l \in Loops,
             \/ TurnKilled(l) \/ StartSubGoal(l) \/ TurnGivesUp(l)
             \/ CallModel(l) \/ Answer(l) \/ CheckpointRead(l)
             \/ CheckpointWrite(l) \/ CheckpointFails(l)
             \/ Evaluate(l) \/ ReadReplanCount(l) \/ WriteReplanCount(l) \/ Survey(l)
             \/ Judge(l) \/ SkipPending(l) \/ PlanArrives(l) \/ PlanFails(l)
             \/ InsertRow(l) \/ ResolveDependencies(l)
      PROVE  LoopsServe'
  <2>1. pc[l] \notin Ending
    BY <1>2 DEF TurnKilled, StartSubGoal, TurnGivesUp, CallModel, Answer, CheckpointRead,
       CheckpointWrite, CheckpointFails, Evaluate, ReadReplanCount, WriteReplanCount, Survey,
       Judge, SkipPending, PlanArrives, PlanFails, InsertRow, ResolveDependencies, Ending
  <2>2. UNCHANGED <<phase, goalStatus>>
    BY <1>2 DEF TurnKilled, StartSubGoal, TurnGivesUp, CallModel, Answer, CheckpointRead,
       CheckpointWrite, CheckpointFails, Evaluate, ReadReplanCount, WriteReplanCount, Survey,
       Judge, SkipPending, PlanArrives, PlanFails, InsertRow, ResolveDependencies,
       process, goalRow
  <2> QED
    BY <1>1, <2>1, <2>2 DEF OneLoop, LoopsServe, Serving, Ending
<1>3. ASSUME NEW l \in Loops, Check(l) \/ CompleteGoal(l) \/ ClearJournal(l) \/ EndCycle(l)
      PROVE  LoopsServe'
  <2>1. pc'[l] \in Ending /\ pc[l] # "idle"
    BY <1>1, <1>3 DEF Check, CompleteGoal, ClearJournal, EndCycle, Goto, Ending
  <2>2. UNCHANGED phase
    BY <1>3 DEF Check, CompleteGoal, ClearJournal, EndCycle, process
  <2> QED
    BY <1>1, <2>1, <2>2 DEF OneLoop, LoopsServe, Serving
<1>4. ASSUME NEW l \in Loops, Spawn(l) PROVE LoopsServe'
  BY <1>1, <1>4 DEF Spawn, OneLoop, LoopsServe, Serving, Ending, Goto
<1>10. ASSUME NEW l \in Loops, Top(l) PROVE LoopsServe'
  <2>1. UNCHANGED <<phase, goalStatus>> /\ pc[l] = "top"
    BY <1>10 DEF Top, process, goalRow
  <2>2. CASE Goto(l, "finally") \/ Goto(l, "check")
    BY <1>1, <2>1, <2>2 DEF OneLoop, LoopsServe, Serving, Ending, Goto
  <2>3. CASE \E i : i \in NextSubGoals
    <3>1. \E i \in SubGoalIds : status[i] = "pending"
      BY <2>3 DEF NextSubGoals, Actionable
    <3>2. goalStatus # "completed"
      BY <3>1 DEF SafeInv, CompletionSound, Plan!CompletionSound, Plan!AllSettled, Plan!Settled
    <3> QED
      BY <1>1, <2>1, <3>2 DEF OneLoop, LoopsServe, Serving, Ending
  <2> QED
    BY <1>10, <2>2, <2>3 DEF Top
<1>5. ASSUME NEW l \in Loops, EscalatePause(l) PROVE LoopsServe'
  BY <1>1, <1>5 DEF EscalatePause, OneLoop, LoopsServe, Serving, process, Goto
<1>6. ASSUME NEW l \in Loops, CallFails(l) PROVE LoopsServe'
  <2>1. /\ pc[l] # "idle"
        /\ pc'[l] = "finally" \/ pc[l] \notin Ending
    BY <1>1, <1>6 DEF CallFails, Goto, Ending
  <2>2. UNCHANGED <<phase, goalStatus>>
    BY <1>6 DEF CallFails, process, goalRow
  <2> QED
    BY <1>1, <2>1, <2>2 DEF OneLoop, LoopsServe, Serving, Ending
<1>7. CASE \/ Tick \/ Stop \/ Shutdown \/ ToggleKillSwitch \/ SetGoalStatus \/ UNCHANGED vars
  <2>1. UNCHANGED pc /\ (UNCHANGED phase \/ phase' = "stopping")
    BY <1>7 DEF Tick, Stop, Shutdown, ToggleKillSwitch, SetGoalStatus, vars, process, local
  <2>2. UNCHANGED goalStatus \/ goalStatus' # "completed"
    BY <1>7 DEF Tick, Stop, Shutdown, ToggleKillSwitch, SetGoalStatus, vars, goalRow
  <2> QED
    BY <1>1, <2>1, <2>2 DEF LoopsServe, Serving, Ending
<1>8. CASE Crash \/ Exit
  BY <1>8 DEF Crash, Exit, ProcessEnds, LoopsServe, Ending
<1>9. CASE \/ Boot \/ NothingToRecover \/ InterruptCycles
           \/ \E i \in SubGoalIds : ResetSubGoal(i)
           \/ RecoveryEnds
  <2>1. ~Serving /\ UNCHANGED pc
    BY <1>9 DEF Boot, NothingToRecover, InterruptCycles, ResetSubGoal, RecoveryEnds,
       Serving, local
  <2> QED
    BY <1>1, <2>1 DEF LoopsServe, Serving, Ending
<1> QED
  BY <1>2, <1>3, <1>4, <1>5, <1>6, <1>7, <1>8, <1>9, <1>10
  DEF Next, LoopStep, ExecuteStep, ReplanStep, BootStep

(* The journal as checkpoint reads it, and a row taken off a snapshot.     *)
LEMMA EntriesSet ==
  ASSUME ctx \in [Loops -> Contexts], NEW l \in Loops, NEW e \in SUBSET Entries,
         SetLocals(l, [ctx[l] EXCEPT !.entries = e])
  PROVE  ctx'[l].entries = e /\ ctx'[l].result = ctx[l].result
<1>1. PICK c \in Contexts :
        SetLocals(l, c) /\ c.result = ctx[l].result /\ c.entries = e
  <2>1. ctx[l] \in Contexts
    OBVIOUS
  <2> QED
    BY <2>1, EntriesUpdate
<1> QED
  BY <1>1, LocalsSet

LEMMA JudgeSet ==
  ASSUME ctx \in [Loops -> Contexts], NEW l \in Loops, NEW i,
         SetLocals(l, [ctx[l] EXCEPT !.judge = @ \ {i}])
  PROVE  ctx'[l].judge = ctx[l].judge \ {i} /\ ctx'[l].skip = ctx[l].skip
<1>1. PICK c \in Contexts :
        SetLocals(l, c) /\ c.judge = ctx[l].judge \ {i} /\ c.skip = ctx[l].skip
  <2>1. ctx[l] \in Contexts
    OBVIOUS
  <2> QED
    BY <2>1, JudgeUpdate
<1> QED
  BY <1>1, LocalsSet

LEMMA SkipSet ==
  ASSUME ctx \in [Loops -> Contexts], NEW l \in Loops, NEW i,
         SetLocals(l, [ctx[l] EXCEPT !.skip = @ \ {i}])
  PROVE  ctx'[l].skip = ctx[l].skip \ {i}
<1>1. PICK c \in Contexts : SetLocals(l, c) /\ c.skip = ctx[l].skip \ {i}
  <2>1. ctx[l] \in Contexts
    OBVIOUS
  <2> QED
    BY <2>1, SkipUpdate
<1> QED
  BY <1>1, LocalsSet

(* What the loop read before an await holds when it acts on it.            *)
LEMMA ReadsStep ==
  ASSUME OneLoop, SafeInv, [Next]_vars
  PROVE  ReadsHold' /\ EntriesTruthful'
<1>1. /\ LoopsServe /\ ReadsHold /\ EntriesTruthful /\ JournalTruthful /\ HoldsSubGoal
      /\ pc \in [Loops -> Labels] /\ ctx \in [Loops -> Contexts]
      /\ cur \in [Loops -> SubGoalIds \union {0}]
      /\ status \in [SubGoalIds -> Plan!SubGoalStatuses]
      /\ journal \subseteq Entries
  BY DEF SafeInv, NoStaleRead, TypeOK, Plan!PlanTypeOK
<1> DEFINE Reading == {"start", "turn", "call", "finish", "judge", "skip", "insert", "resolve",
                       "ckptRead", "ckptWrite"}
<1>2. ASSUME NEW l \in Loops, pc'[l] \notin Reading
      PROVE  ReadsHold' /\ EntriesTruthful'
  BY <1>2, ReadsDropped DEF OneLoop
<1>3. ASSUME NEW l \in Loops,
             \/ Spawn(l) \/ EndCycle(l) \/ CompleteGoal(l) \/ ClearJournal(l)
             \/ TurnKilled(l) \/ Evaluate(l) \/ ReadReplanCount(l)
             \/ WriteReplanCount(l) \/ EscalatePause(l) \/ PlanFails(l) \/ CallFails(l)
      PROVE  ReadsHold' /\ EntriesTruthful'
  <2>1. pc'[l] \notin Reading
    BY <1>1, <1>3 DEF Spawn, EndCycle, CompleteGoal, ClearJournal, TurnKilled, Evaluate,
       ReadReplanCount, WriteReplanCount, EscalatePause, PlanFails, CallFails,
       ReplanReturns, Goto
  <2> QED
    BY <1>2, <2>1
<1>4. ASSUME NEW l \in Loops, Top(l) PROVE ReadsHold' /\ EntriesTruthful'
  <2>1. CASE Goto(l, "finally") \/ Goto(l, "check")
    BY <1>1, <1>2, <2>1 DEF Goto
  <2>2. CASE Goto(l, "start") /\ \E i \in NextSubGoals : cur' = [cur EXCEPT ![l] = i]
    <3>1. pc'[l] = "start" /\ cur'[l] \in Actionable /\ UNCHANGED <<status, dependsOn>>
      BY <1>1, <1>4, <2>2 DEF Top, Goto, NextSubGoals, planRows
    <3>2. cur'[l] \in Actionable'
      BY <3>1 DEF Actionable, Plan!Ready, Plan!Settled
    <3> QED
      BY <3>1, <3>2 DEF OneLoop, ReadsHold, EntriesTruthful
  <2> QED
    BY <1>4, <2>1, <2>2 DEF Top
<1>5. ASSUME NEW l \in Loops, Check(l) PROVE ReadsHold' /\ EntriesTruthful'
  <2>1. CASE ~IsGoalComplete
    BY <1>1, <1>2, <1>5, <2>1 DEF Check, Goto
  <2>2. CASE IsGoalComplete
    <3>1. pc'[l] = "finish" /\ UNCHANGED status
      BY <1>1, <1>5, <2>2 DEF Check, Goto, planRows
    <3>2. IsGoalComplete'
      BY <2>2, <3>1 DEF IsGoalComplete, Plan!AllSettled, Plan!Settled
    <3> QED
      BY <3>1, <3>2 DEF OneLoop, ReadsHold, EntriesTruthful
  <2> QED
    BY <2>1, <2>2
<1>6. ASSUME NEW l \in Loops, StartSubGoal(l) PROVE ReadsHold' /\ EntriesTruthful'
  <2>1. pc'[l] = "turn" /\ cur'[l] = cur[l] /\ cur[l] \in SubGoalIds
    BY <1>1, <1>6 DEF StartSubGoal, Goto, HoldsSubGoal
  <2>2. status'[cur[l]] = "in-progress"
    BY <1>1, <1>6, <2>1 DEF StartSubGoal, SetStatus
  <2> QED
    BY <2>1, <2>2 DEF OneLoop, ReadsHold, EntriesTruthful
<1>7. ASSUME NEW l \in Loops, TurnGivesUp(l) \/ CallModel(l) \/ Answer(l)
      PROVE  ReadsHold' /\ EntriesTruthful'
  <2>1. /\ pc[l] \in {"turn", "call"}
        /\ cur[l] \in SubGoalIds /\ status[cur[l]] = "in-progress"
        /\ UNCHANGED cur /\ ctx[l] \in Contexts
    BY <1>1, <1>7 DEF TurnGivesUp, CallModel, Answer, HoldsSubGoal, ReadsHold
  <2>2. CASE UNCHANGED status /\ (Goto(l, "turn") \/ Goto(l, "call"))
    <3>1. pc'[l] \in {"turn", "call"} /\ status'[cur'[l]] = "in-progress"
      BY <1>1, <2>1, <2>2 DEF Goto
    <3> QED
      BY <3>1 DEF OneLoop, ReadsHold, EntriesTruthful
  <2>3. ASSUME NEW r \in {"completed", "failed"}, Report(l, r)
        PROVE  ReadsHold' /\ EntriesTruthful'
    <3>1. pc'[l] = "ckptRead" /\ status'[cur[l]] = r
      BY <1>1, <2>1, <2>3 DEF Report, SetStatus, Goto
    <3> DEFINE d == [ctx[l] EXCEPT !.turns = 0, !.result = r, !.tries = 0]
    <3>2. ctx'[l].result = r
      <4>1. d \in Contexts /\ d.result = r
        BY <2>1, ReportUpdate
      <4>2. SetLocals(l, d)
        BY <2>3 DEF Report
      <4> HIDE DEF d
      <4> QED
        BY <1>1, <4>1, <4>2, LocalsSet
    <3> QED
      BY <2>1, <3>1, <3>2 DEF OneLoop, ReadsHold, EntriesTruthful
  <2> QED
    BY <1>7, <2>2, <2>3 DEF TurnGivesUp, CallModel, Answer, planRows
<1>8. ASSUME NEW l \in Loops, CheckpointRead(l) PROVE ReadsHold' /\ EntriesTruthful'
  <2>1. /\ pc[l] = "ckptRead" /\ pc'[l] = "ckptWrite" /\ UNCHANGED <<cur, status>>
        /\ ctx[l] \in Contexts
    BY <1>1, <1>8 DEF CheckpointRead, Goto, planRows
  <2>2. ctx'[l].entries = journal /\ ctx'[l].result = ctx[l].result
    BY <1>1, <1>8, EntriesSet DEF CheckpointRead
  <2>3. \A e \in journal : e.result = "completed" => status[e.id] = "completed"
    BY <1>1 DEF Entries, JournalTruthful, CompletedIds
  <2> QED
    BY <1>1, <2>1, <2>2, <2>3 DEF OneLoop, ReadsHold, EntriesTruthful
<1>9. ASSUME NEW l \in Loops, CheckpointWrite(l) \/ CheckpointFails(l)
      PROVE  ReadsHold' /\ EntriesTruthful'
  <2>1. /\ pc[l] \in {"ckptRead", "ckptWrite"} /\ UNCHANGED <<cur, status>>
        /\ ctx[l] \in Contexts
    BY <1>1, <1>9 DEF CheckpointWrite, CheckpointFails, planRows
  <2>2. Goto(l, "evaluate") \/ NextTry(l)
    BY <1>9 DEF CheckpointWrite, CheckpointFails
  <2>3. CASE pc'[l] \notin Reading
    BY <1>2, <2>3
  <2>4. CASE NextTry(l) /\ pc'[l] \in Reading
    <3>1. ctx[l].tries + 1 \in Nat
      BY <2>1 DEF Contexts
    <3> DEFINE d == [ctx[l] EXCEPT !.tries = ctx[l].tries + 1, !.entries = {}]
    <3>2. ctx'[l].result = ctx[l].result
      <4>1. d \in Contexts /\ d.result = ctx[l].result
        BY <2>1, <3>1, TriesUpdate
      <4>2. SetLocals(l, d)
        BY <2>4 DEF NextTry
      <4> HIDE DEF d
      <4> QED
        BY <1>1, <4>1, <4>2, LocalsSet
    <3>3. pc'[l] = "ckptRead"
      BY <1>1, <2>4 DEF NextTry, Goto
    <3> QED
      BY <1>1, <2>1, <3>2, <3>3 DEF OneLoop, ReadsHold, EntriesTruthful
  <2> QED
    BY <1>1, <2>2, <2>3, <2>4 DEF Goto
<1>10. ASSUME NEW l \in Loops, Survey(l) PROVE ReadsHold' /\ EntriesTruthful'
  <2>1. pc'[l] = "judge" /\ UNCHANGED status
    BY <1>1, <1>10 DEF Survey, Goto, planRows
  <2>2. /\ ctx'[l].judge = {i \in SubGoalIds : status[i] = "in-progress"}
        /\ ctx'[l].skip = {i \in SubGoalIds : status[i] = "pending"}
    BY <1>1, <1>10, Surveyed, LocalsSet
  <2> QED
    BY <2>1, <2>2 DEF OneLoop, ReadsHold, EntriesTruthful
<1>11. ASSUME NEW l \in Loops, Judge(l) PROVE ReadsHold' /\ EntriesTruthful'
  <2>1. /\ pc[l] = "judge" /\ ctx[l] \in Contexts
        /\ \A i \in ctx[l].judge : status[i] = "in-progress"
        /\ \A i \in ctx[l].skip : status[i] = "pending"
        /\ ctx[l].judge \subseteq SubGoalIds /\ ctx[l].skip \subseteq SubGoalIds
    BY <1>1, <1>11 DEF Judge, ReadsHold, Contexts
  <2>2. CASE ctx[l].judge = {} /\ Goto(l, "skip") /\ UNCHANGED <<status, ctx>>
    BY <1>1, <2>1, <2>2 DEF OneLoop, ReadsHold, EntriesTruthful, Goto
  <2>3. ASSUME NEW i \in ctx[l].judge, SetLocals(l, [ctx[l] EXCEPT !.judge = @ \ {i}]),
               UNCHANGED status \/ SetStatus(i, "skipped"), UNCHANGED pc
        PROVE  ReadsHold' /\ EntriesTruthful'
    <3>1. ctx'[l].judge = ctx[l].judge \ {i} /\ ctx'[l].skip = ctx[l].skip
      BY <1>1, <2>3, JudgeSet
    <3>2. \A j \in SubGoalIds : j # i => status'[j] = status[j]
      BY <1>1, <2>3 DEF SetStatus
    <3>3. i \notin ctx[l].skip
      BY <2>1
    <3> QED
      BY <2>1, <2>3, <3>1, <3>2, <3>3 DEF OneLoop, ReadsHold, EntriesTruthful
  <2> QED
    BY <1>11, <2>2, <2>3 DEF Judge
<1>12. ASSUME NEW l \in Loops, SkipPending(l) PROVE ReadsHold' /\ EntriesTruthful'
  <2>1. /\ pc[l] = "skip" /\ ctx[l] \in Contexts
        /\ \A i \in ctx[l].skip : status[i] = "pending"
        /\ ctx[l].skip \subseteq SubGoalIds
    BY <1>1, <1>12 DEF SkipPending, ReadsHold, Contexts
  <2>2. CASE Goto(l, "plan")
    BY <1>1, <1>2, <2>2 DEF Goto
  <2>3. ASSUME NEW i \in ctx[l].skip, SetLocals(l, [ctx[l] EXCEPT !.skip = @ \ {i}]),
               SetStatus(i, "skipped"), UNCHANGED pc
        PROVE  ReadsHold' /\ EntriesTruthful'
    <3>1. ctx'[l].skip = ctx[l].skip \ {i}
      BY <1>1, <2>3, SkipSet
    <3>2. \A j \in SubGoalIds : j # i => status'[j] = status[j]
      BY <1>1, <2>3 DEF SetStatus
    <3> QED
      BY <2>1, <2>3, <3>1, <3>2 DEF OneLoop, ReadsHold, EntriesTruthful
  <2> QED
    BY <1>12, <2>2, <2>3 DEF SkipPending
<1>13. ASSUME NEW l \in Loops, PlanArrives(l) PROVE ReadsHold' /\ EntriesTruthful'
  <2>1. pc[l] = "plan" /\ pc'[l] = "insert"
    BY <1>1, <1>13 DEF PlanArrives, Goto
  <2>2. Len(ctx[l].ids) = 0
    BY <2>1 DEF SafeInv, NoStaleRead, CursorInPlan
  <2>3. Len(ctx'[l].ids) = 0
    BY <1>1, <1>13, <2>2, PlanKept
  <2> QED
    BY <2>1, <2>3 DEF OneLoop, ReadsHold, EntriesTruthful
<1>14. ASSUME NEW l \in Loops, InsertRow(l) PROVE ReadsHold' /\ EntriesTruthful'
  <2>1. /\ pc[l] = "insert" /\ pc'[l] \in {"insert", "resolve"}
        /\ ctx[l].ids \in Seq(SubGoalIds)
        /\ \A k \in 1..Len(ctx[l].ids) : status[ctx[l].ids[k]] = "pending"
    <3>1. /\ pc[l] = "insert" /\ pc'[l] \in {"insert", "resolve"}
      BY <1>1, <1>14, RowInserted DEF InsertRow, Goto, SafeInv, NoStaleRead
    <3>2. ctx[l].ids \in Seq(SubGoalIds)
      BY <1>1 DEF Contexts
    <3> QED
      BY <1>1, <3>1, <3>2 DEF ReadsHold
  <2>2. PICK i \in Absent :
          SetStatus(i, "pending") /\ ctx'[l].ids = Append(ctx[l].ids, i)
    BY <1>1, <1>14, RowInserted DEF SafeInv, NoStaleRead
  <2>3. \A j \in SubGoalIds : j = i \/ status[j] = "pending" => status'[j] = "pending"
    BY <1>1, <2>2 DEF SetStatus, Absent
  <2>4. i \in SubGoalIds
    BY DEF Absent
  <2>5. \A k \in 1..Len(ctx'[l].ids) : status'[ctx'[l].ids[k]] = "pending"
    BY <2>1, <2>2, <2>3, <2>4
  <2> QED
    BY <2>1, <2>5 DEF OneLoop, ReadsHold, EntriesTruthful
<1>15. ASSUME NEW l \in Loops, ResolveDependencies(l) PROVE ReadsHold' /\ EntriesTruthful'
  <2>1. pc[l] = "resolve" /\ UNCHANGED status
    BY <1>15 DEF ResolveDependencies
  <2>2. CASE Goto(l, "top")
    BY <1>1, <1>2, <2>2 DEF Goto
  <2>3. CASE UNCHANGED pc /\ ctx'[l].ids = ctx[l].ids
    BY <1>1, <2>1, <2>3 DEF OneLoop, ReadsHold, EntriesTruthful
  <2> QED
    BY <1>1, <1>15, <2>2, <2>3, DependenciesResolved
<1>16. CASE \/ Tick \/ Stop \/ Shutdown \/ Boot \/ NothingToRecover \/ InterruptCycles
            \/ RecoveryEnds \/ ToggleKillSwitch \/ SetGoalStatus \/ UNCHANGED vars
  <2>1. UNCHANGED <<pc, cur, ctx, status, dependsOn>>
    BY <1>16 DEF Tick, Stop, Shutdown, Boot, NothingToRecover, InterruptCycles, RecoveryEnds,
       ToggleKillSwitch, SetGoalStatus, vars, local, planRows
  <2> QED
    BY <1>1, <2>1, ReadsKept
<1>17. CASE Crash \/ Exit \/ \E i \in SubGoalIds : ResetSubGoal(i)
  <2>1. \A l \in Loops : pc'[l] = "idle"
    BY <1>1, <1>17 DEF Crash, Exit, ProcessEnds, ResetSubGoal, LoopsServe, Serving, local
  <2> QED
    BY <2>1, ReadsDropped
<1> QED
  BY <1>3, <1>4, <1>5, <1>6, <1>7, <1>8, <1>9, <1>10, <1>11, <1>12, <1>13, <1>14, <1>15,
     <1>16, <1>17
  DEF Next, LoopStep, ExecuteStep, ReplanStep, BootStep

(* A completed row stays completed, whatever comes.                        *)
LEMMA CompletedStays ==
  ASSUME OneLoop, SafeInv, [Next]_vars,
         NEW i \in SubGoalIds, status[i] = "completed"
  PROVE  status'[i] = "completed"
<1>1. status \in [SubGoalIds -> Plan!SubGoalStatuses]
  BY DEF SafeInv, TypeOK, Plan!PlanTypeOK
<1>2. CASE UNCHANGED Plan!planVars
  BY <1>2 DEF Plan!planVars
<1>3. CASE Plan!PlanNext
  <2>1. \/ UNCHANGED status
        \/ \E j \in SubGoalIds : Plan!Begin(j) \/ Plan!Finish(j) \/ Plan!Skip(j)
                                  \/ Plan!Retry(j) \/ Plan!Add(j)
    BY <1>3 DEF Plan!PlanNext, Plan!Link, Plan!Complete, Plan!PauseOrActivate
  <2>2. ASSUME NEW j \in SubGoalIds,
               Plan!Begin(j) \/ Plan!Finish(j) \/ Plan!Skip(j) \/ Plan!Retry(j) \/ Plan!Add(j)
        PROVE  status'[i] = "completed"
    <3>1. status[j] # "completed"
      BY <2>2 DEF Plan!Begin, Plan!Finish, Plan!Skip, Plan!Retry, Plan!Add
    <3>2. \E s : status' = [status EXCEPT ![j] = s]
      BY <2>2 DEF Plan!Begin, Plan!Finish, Plan!Skip, Plan!Retry, Plan!Add, Plan!SetStatus
    <3> QED
      BY <1>1, <3>1, <3>2
  <2> QED
    BY <2>1, <2>2
<1> QED
  BY <1>2, <1>3, PlanStep

(* The entry of a checkpoint is true of its row, so is the journal.        *)
LEMMA JournalStep ==
  ASSUME OneLoop, SafeInv, [Next]_vars
  PROVE  JournalTruthful'
<1>1. /\ JournalTruthful /\ EntriesTruthful /\ HoldsSubGoal
      /\ \A i \in SubGoalIds : status[i] = "completed" => status'[i] = "completed"
  BY CompletedStays DEF SafeInv, NoStaleRead
<1>2. CASE UNCHANGED journal \/ journal' = {}
  BY <1>1, <1>2 DEF JournalTruthful, CompletedIds
<1>3. ASSUME NEW l \in Loops, pc[l] = "ckptWrite", journal' = Written(l)
      PROVE  JournalTruthful'
  <2>1. /\ cur[l] \in SubGoalIds
        /\ \A e \in ctx[l].entries : e.result = "completed" => status[e.id] = "completed"
        /\ ctx[l].result = "completed" => status[cur[l]] = "completed"
    BY <1>1, <1>3 DEF EntriesTruthful, HoldsSubGoal
  <2>2. \A e \in journal' : e.result = "completed" => status[e.id] = "completed"
    BY <1>3, <2>1 DEF Written, Entry
  <2> QED
    BY <1>1, <2>2 DEF JournalTruthful, CompletedIds
<1>4. \/ UNCHANGED journal \/ journal' = {}
      \/ \E l \in Loops : pc[l] = "ckptWrite" /\ journal' = Written(l)
  <2>1. ASSUME NEW l \in Loops,
               \/ Spawn(l) \/ LoopStep(l) \/ CheckpointFails(l) \/ CallFails(l)
        PROVE  \/ UNCHANGED journal \/ journal' = {}
               \/ pc[l] = "ckptWrite" /\ journal' = Written(l)
    <3>1. CASE CheckpointWrite(l) \/ CheckpointFails(l)
      BY <3>1 DEF CheckpointWrite, CheckpointFails
    <3>2. CASE ClearJournal(l)
      BY <3>2 DEF ClearJournal
    <3>3. CASE \/ Spawn(l) \/ CallFails(l) \/ EndCycle(l) \/ Top(l) \/ Check(l)
               \/ CompleteGoal(l) \/ StartSubGoal(l) \/ TurnGivesUp(l) \/ CallModel(l) \/ Answer(l)
               \/ TurnKilled(l) \/ CheckpointRead(l) \/ Evaluate(l) \/ ReplanStep(l)
      BY <3>3 DEF Spawn, CallFails, EndCycle, Top, Check, CompleteGoal, StartSubGoal,
         TurnGivesUp, CallModel, Answer, TurnKilled, CheckpointRead, Evaluate, ReplanStep,
         ReadReplanCount, WriteReplanCount, EscalatePause, Survey, Judge, SkipPending,
         PlanArrives, PlanFails, InsertRow, ResolveDependencies, logs
    <3> QED
      BY <2>1, <3>1, <3>2, <3>3 DEF LoopStep, ExecuteStep
  <2>2. CASE \/ Tick \/ Stop \/ BootStep \/ Crash \/ Shutdown \/ ToggleKillSwitch
             \/ SetGoalStatus \/ UNCHANGED vars
    BY <2>2 DEF Tick, Stop, BootStep, Boot, NothingToRecover, InterruptCycles, ResetSubGoal,
       RecoveryEnds, Exit, Crash, ProcessEnds, Shutdown, ToggleKillSwitch, SetGoalStatus,
       vars, logs
  <2> QED
    BY <2>1, <2>2 DEF Next
<1> QED
  BY <1>2, <1>3, <1>4

LEMMA CompletionKept == ASSUME OneLoop, SafeInv, [Next]_vars PROVE CompletionSound'
<1>1. Plan!PlanTypeOK /\ Plan!CompletionSound
  BY DEF SafeInv, TypeOK, CompletionSound
<1>2. Plan!CompletionSound'
  BY <1>1, PlanStep, CompletionStep
<1> QED
  BY <1>2 DEF CompletionSound

LEMMA SafeStep == ASSUME OneLoop, SafeInv, [Next]_vars PROVE SafeInv'
<1>1. TypeInv'
  BY SafeType, TypeStep, CursorStep DEF TypeInv
<1> QED
  BY <1>1, ServeStep, ReadsStep, JournalStep, CompletionKept DEF SafeInv, TypeInv, NoStaleRead

(* With one loop on the goal no step of the operator, of the supervisor's  *)
(* tick or of a crash and its recovery comes between a read of that loop   *)
(* and its use that makes the read untrue; the journal never runs ahead of *)
(* the sub_goals rows.                                                     *)
THEOREM ReadsAreFresh == ASSUME OneLoop PROVE Spec => []NoStaleRead
<1>1. Init => SafeInv
  BY SafeInit
<1>2. SafeInv /\ [Next]_vars => SafeInv'
  BY SafeStep
<1>3. SafeInv => NoStaleRead
  BY DEF SafeInv
<1> QED
  BY <1>1, <1>2, <1>3, PTL DEF Spec

(* With one loop on the goal, the loop, the replanner, the recovery and    *)
(* the crashes work on the tables as the plan of GoalPlan promises.        *)
THEOREM LoopImplementsPlan == ASSUME OneLoop PROVE Spec => ImplementsPlan
<1>1. Init => SafeInv /\ Plan!PlanInit
  BY SafeInit, PlanInitially
<1>2. SafeInv /\ [Next]_vars => SafeInv'
  BY SafeStep
<1>3. SafeInv /\ [Next]_vars => [Plan!PlanNext]_(Plan!planVars)
  BY PlanStep
<1> QED
  BY <1>1, <1>2, <1>3, PTL DEF Spec, ImplementsPlan, Plan!PlanSpec

(* With one loop on the goal, no sub-goal runs, or has run, before those   *)
(* it depends on are completed or skipped, and a completed goal has no     *)
(* sub-goal that is not: whatever the restarts, replans and the operator.  *)
THEOREM LoopKeepsDependencies ==
  ASSUME OneLoop PROVE Spec => [](DependencySafety /\ CompletionSound)
<1>1. Spec => Plan!PlanSpec
  BY LoopImplementsPlan DEF ImplementsPlan
<1>2. Plan!PlanSpec => []Plan!DependencySafety
  BY PlanDependencySafety
<1>3. Plan!PlanSpec => []Plan!CompletionSound
  BY PlanCompletionSound
<1> QED
  BY <1>1, <1>2, <1>3, PTL DEF DependencySafety, CompletionSound

(* With one loop on the goal, no step of the loop, of a replan, of recovery *)
(* or of the operator takes a row out of completed, failed or skipped, and  *)
(* a completed goal stays completed.                                        *)
THEOREM EndedStaysEnded == ASSUME OneLoop PROVE Spec => Plan!TerminalIsFinal
BY LoopImplementsPlan, PlanTerminalIsFinal DEF ImplementsPlan

(* With one loop on the goal, a goal is marked completed only when every   *)
(* sub-goal is completed or skipped, and gains no other sub-goal: no step  *)
(* comes between isGoalComplete and the write (agent-loop.ts).             *)
THEOREM CompletedIsSettled == ASSUME OneLoop PROVE Spec => []CompletionSound
BY LoopKeepsDependencies, PTL

(* With one loop on the goal, the journal names no sub-goal completed whose *)
(* row is not: startup recovery, which leaves such rows alone, forgets none *)
(* (startup-recovery.ts).                                                     *)
THEOREM JournalNeverAhead == ASSUME OneLoop PROVE Spec => []JournalTruthful
<1>1. NoStaleRead => JournalTruthful
  BY DEF NoStaleRead
<1> QED
  BY <1>1, ReadsAreFresh, PTL

-----------------------------------------------------------------------------
(* How often a sub-goal is begun                                           *)

(* A row that waits in a serving process may still be begun once; a row    *)
(* that is back in the queue after a restart has that restart's fault to   *)
(* its account; in a shutdown the fault is already counted.                *)
RunsBounded ==
  \A i \in SubGoalIds :
    LET waits == status[i] \in {"absent", "pending"} IN
    /\ phase \in {"down", "detect", "reset"} => runs[i] <= faults
    /\ phase = "up" => runs[i] <= 1 + faults /\ (waits => runs[i] <= faults)
    /\ phase = "stopping" => runs[i] <= faults /\ (waits => 1 + runs[i] <= faults)

(* A step that begins no sub-goal, takes none back and counts no fault     *)
(* back.                                                                   *)
LEMMA RunsKept ==
  ASSUME RunsBounded, faults \in Nat, runs \in [SubGoalIds -> Nat],
         UNCHANGED <<phase, runs>>, faults' \in {faults, faults + 1},
         \A i \in SubGoalIds :
           status'[i] \in {"absent", "pending"} => status[i] \in {"absent", "pending"}
  PROVE  RunsBounded'
BY DEF RunsBounded

LEMMA RunsStep ==
  ASSUME OneLoop, SafeInv, RunsBounded, [Next]_vars
  PROVE  RunsBounded'
<1>1. /\ LoopsServe /\ ReadsHold /\ HoldsSubGoal
      /\ faults \in Nat /\ runs \in [SubGoalIds -> Nat] /\ phase \in Phases
      /\ status \in [SubGoalIds -> Plan!SubGoalStatuses]
      /\ \A l \in Loops : ctx[l] \in Contexts
  BY DEF SafeInv, NoStaleRead, TypeOK, Plan!PlanTypeOK
<1> DEFINE Waits == {"absent", "pending"}
<1>2. ASSUME NEW l \in Loops, StartSubGoal(l) PROVE RunsBounded'
  <2>1. /\ cur[l] \in SubGoalIds /\ status[cur[l]] = "pending" /\ Serving
        /\ UNCHANGED <<phase, faults>>
    BY <1>1, <1>2 DEF StartSubGoal, ReadsHold, HoldsSubGoal, LoopsServe, Actionable, process
  <2>2. /\ status' = [status EXCEPT ![cur[l]] = "in-progress"]
        /\ runs' = [runs EXCEPT ![cur[l]] = @ + 1]
    BY <1>2 DEF StartSubGoal, SetStatus
  <2> QED
    BY <1>1, <2>1, <2>2 DEF RunsBounded, Serving
<1>3. ASSUME NEW l \in Loops,
             \/ Spawn(l) \/ EndCycle(l) \/ Top(l) \/ Check(l) \/ CompleteGoal(l)
             \/ ClearJournal(l) \/ TurnKilled(l) \/ CheckpointRead(l) \/ CheckpointWrite(l)
             \/ CheckpointFails(l) \/ Evaluate(l) \/ ReadReplanCount(l)
             \/ WriteReplanCount(l) \/ EscalatePause(l) \/ Survey(l) \/ PlanArrives(l)
             \/ PlanFails(l) \/ ResolveDependencies(l) \/ CallFails(l)
      PROVE  RunsBounded'
  <2>1. UNCHANGED <<status, phase, runs>> /\ faults' \in {faults, faults + 1}
    BY <1>3 DEF Spawn, EndCycle, Top, Check, CompleteGoal, ClearJournal, TurnKilled,
       CheckpointRead, CheckpointWrite, CheckpointFails, Evaluate, ReadReplanCount,
       WriteReplanCount, EscalatePause, Survey, PlanArrives, PlanFails,
       ResolveDependencies, CallFails, Fault, planRows, process, history
  <2> QED
    BY <1>1, <2>1, RunsKept
<1>4. ASSUME NEW l \in Loops,
             \/ TurnGivesUp(l) \/ CallModel(l) \/ Answer(l)
             \/ Judge(l) \/ SkipPending(l) \/ InsertRow(l)
      PROVE  RunsBounded'
  <2>1. UNCHANGED <<phase, runs, faults>>
    BY <1>4 DEF TurnGivesUp, CallModel, Answer, Judge, SkipPending, InsertRow, process, history
  <2>2. \/ UNCHANGED status
        \/ \E i, s : /\ status' = [status EXCEPT ![i] = s]
                     /\ s \notin Waits \/ status[i] \in Waits
    <3>1. CASE TurnGivesUp(l) \/ CallModel(l) \/ Answer(l) \/ Judge(l) \/ SkipPending(l)
      <4>1. \/ UNCHANGED status
            \/ \E i, s : SetStatus(i, s) /\ s \in {"completed", "failed", "skipped"}
        BY <3>1 DEF TurnGivesUp, CallModel, Answer, Report, Judge, SkipPending, planRows
      <4> QED
        BY <4>1 DEF SetStatus
    <3>2. CASE InsertRow(l)
      <4>1. \E i \in Absent : SetStatus(i, "pending")
        BY <3>2 DEF InsertRow
      <4> QED
        BY <4>1 DEF Absent, SetStatus
    <3> QED
      BY <1>4, <3>1, <3>2
  <2>3. \A i \in SubGoalIds : status'[i] \in Waits => status[i] \in Waits
    BY <1>1, <2>2
  <2> QED
    BY <1>1, <2>1, <2>3, RunsKept
<1>5. CASE Tick \/ Stop \/ ToggleKillSwitch \/ SetGoalStatus \/ UNCHANGED vars
  <2>1. UNCHANGED <<status, phase, runs, faults>>
    BY <1>5 DEF Tick, Stop, ToggleKillSwitch, SetGoalStatus, vars, planRows, process, history
  <2> QED
    BY <1>1, <2>1, RunsKept
<1>6. CASE Crash
  <2>1. /\ phase \in {"detect", "reset", "up"} /\ phase' = "down"
        /\ UNCHANGED <<status, runs>> /\ faults' = faults + 1
    BY <1>1, <1>6 DEF Crash, Fault, ProcessEnds, Phases, planRows, history
  <2> QED
    BY <1>1, <2>1 DEF RunsBounded
<1>7. CASE Shutdown
  <2>1. /\ phase = "up" /\ phase' = "stopping"
        /\ UNCHANGED <<status, runs>> /\ faults' = faults + 1
    BY <1>7 DEF Shutdown, Fault, planRows, history
  <2> QED
    BY <1>1, <2>1 DEF RunsBounded
<1>8. CASE Exit
  <2>1. /\ phase = "stopping" /\ phase' = "down" /\ UNCHANGED <<status, runs, faults>>
    BY <1>8 DEF Exit, ProcessEnds, planRows, history
  <2> QED
    BY <1>1, <2>1 DEF RunsBounded
<1>9. CASE \/ Boot \/ NothingToRecover \/ InterruptCycles
           \/ \E i \in SubGoalIds : ResetSubGoal(i)
           \/ RecoveryEnds
  <2>1. /\ phase \in {"down", "detect", "reset"}
        /\ phase' \in {"down", "detect", "reset", "up"}
        /\ UNCHANGED runs /\ faults' \in {faults, faults + 1}
    BY <1>9 DEF Boot, NothingToRecover, InterruptCycles, ResetSubGoal, RecoveryEnds,
       Fault, process, history
  <2> QED
    BY <1>1, <2>1 DEF RunsBounded
<1> QED
  BY <1>2, <1>3, <1>4, <1>5, <1>6, <1>7, <1>8, <1>9
  DEF Next, LoopStep, ExecuteStep, ReplanStep, BootStep

(* With one loop on the goal a sub-goal is begun once, and at most once    *)
(* more for each crash, shutdown or failed call: no order of ticks,        *)
(* replans and operator commands executes it again.                        *)
THEOREM ExecutedOnce == ASSUME OneLoop PROVE Spec => []NoDuplicateExecution
<1> DEFINE IInv == SafeInv /\ RunsBounded
<1>1. Init => IInv
  BY SafeInit DEF Init, RunsBounded
<1>2. IInv /\ [Next]_vars => IInv'
  BY SafeStep, RunsStep
<1>3. IInv => NoDuplicateExecution
  <2> SUFFICES ASSUME SafeInv, RunsBounded, NEW i \in SubGoalIds PROVE runs[i] <= 1 + faults
    BY DEF NoDuplicateExecution
  <2>1. phase \in Phases /\ faults \in Nat /\ runs[i] \in Nat
    BY DEF SafeInv, TypeOK
  <2> QED
    BY <2>1 DEF RunsBounded, Phases
<1> QED
  BY <1>1, <1>2, <1>3, PTL DEF Spec

-----------------------------------------------------------------------------
(* How far the journal may be behind the rows                              *)

Checkpointing == {l \in Loops : pc[l] \in {"ckptRead", "ckptWrite"}}
CompletedRows == {i \in SubGoalIds : status[i] = "completed"}

(* Completed rows that are neither in the journal nor on their way to it.  *)
Missing == (CompletedRows \ CompletedIds) \ {cur[l] : l \in Checkpointing}

(* A row goes missing by a fault, and none does otherwise.  A shutdown is  *)
(* a fault that takes its row when the process exits.                      *)
KeepInv ==
  /\ \A l \in Checkpointing :
       /\ status[cur[l]] = ctx[l].result
       /\ pc[l] = "ckptWrite" => ctx[l].entries = journal
  /\ \A l \in Loops : pc[l] = "clear" => goalStatus = "completed"
  /\ goalStatus # "completed" =>
       Cardinality(Missing) + (IF phase = "stopping" THEN 1 ELSE 0) <= faults

LEMMA SubGoalsFinite ==
  /\ IsFiniteSet(SubGoalIds)
  /\ \A S \in SUBSET SubGoalIds : IsFiniteSet(S) /\ Cardinality(S) \in Nat
<1>1. IsFiniteSet(SubGoalIds)
  BY BoundsAssumption, FS_Interval DEF SubGoalIds
<1> QED
  BY <1>1, FS_Subset, FS_CardinalityType

(* The rows that may be added to a set, and what they add to its size.     *)
LEMMA Grows ==
  ASSUME NEW S \in SUBSET SubGoalIds, NEW T \in SUBSET SubGoalIds
  PROVE  /\ T \subseteq S => Cardinality(T) <= Cardinality(S)
         /\ \A x \in SubGoalIds : T \subseteq S \union {x} => Cardinality(T) <= Cardinality(S) + 1
<1>1. IsFiniteSet(S) /\ IsFiniteSet(T) /\ Cardinality(S) \in Nat /\ Cardinality(T) \in Nat
  BY SubGoalsFinite
<1>2. T \subseteq S => Cardinality(T) <= Cardinality(S)
  BY <1>1, FS_Subset
<1>3. ASSUME NEW x \in SubGoalIds, T \subseteq S \union {x}
      PROVE  Cardinality(T) <= Cardinality(S) + 1
  <2> DEFINE U == S \union {x}
  <2>1. IsFiniteSet(U) /\ Cardinality(U) = IF x \in S THEN Cardinality(S) ELSE Cardinality(S) + 1
    BY <1>1, FS_AddElement, Zenon
  <2>2. T \subseteq U
    BY <1>3
  <2> HIDE DEF U
  <2>3. Cardinality(T) <= Cardinality(U) /\ Cardinality(U) \in Nat
    BY <2>1, <2>2, FS_Subset, FS_CardinalityType
  <2> QED
    BY <1>1, <2>1, <2>3
<1> QED
  BY <1>2, <1>3

(* The count of KeepInv over a step: no row goes missing, one does by a    *)
(* fault, or one does when the process exits.                              *)
LEMMA CountKept ==
  ASSUME KeepInv, faults \in Nat, faults' \in Nat, goalStatus # "completed",
         \/ /\ Missing' \subseteq Missing
            /\ faults' >= faults
            /\ phase' = phase \/ phase' # "stopping" \/ faults' = faults + 1
         \/ /\ \E x \in SubGoalIds : Missing' \subseteq Missing \union {x}
            /\ \/ faults' = faults + 1 /\ (phase' = phase \/ phase' # "stopping")
               \/ faults' = faults /\ phase = "stopping" /\ phase' # "stopping"
  PROVE  Cardinality(Missing') + (IF phase' = "stopping" THEN 1 ELSE 0) <= faults'
<1>1. Missing \in SUBSET SubGoalIds
  BY DEF Missing, CompletedRows
<1>2. Missing' \in SUBSET SubGoalIds
  BY DEF Missing, CompletedRows
<1>3. Cardinality(Missing) \in Nat /\ Cardinality(Missing') \in Nat
  BY <1>1, <1>2, SubGoalsFinite
<1>4. Cardinality(Missing) + (IF phase = "stopping" THEN 1 ELSE 0) <= faults
  BY DEF KeepInv
<1>5. CASE Missing' \subseteq Missing
  <2>1. Cardinality(Missing') <= Cardinality(Missing)
    BY <1>1, <1>2, <1>5, Grows
  <2> QED
    BY <1>3, <1>4, <2>1
<1>6. CASE \E x \in SubGoalIds : Missing' \subseteq Missing \union {x}
  <2>1. Cardinality(Missing') <= Cardinality(Missing) + 1
    BY <1>1, <1>2, <1>6, Grows
  <2>2. CASE Missing' \subseteq Missing
    BY <1>5, <2>2
  <2>3. CASE ~(Missing' \subseteq Missing)
    BY <1>3, <1>4, <2>1, <2>3
  <2> QED
    BY <2>2, <2>3
<1> QED
  BY <1>5, <1>6

(* A step outside the checkpoint, and of no crash.                         *)
LEMMA KeepQuiet ==
  ASSUME OneLoop, SafeInv, KeepInv, UNCHANGED journal,
         \A i \in SubGoalIds : status'[i] = "completed" => status[i] = "completed",
         faults' \in Nat, faults' >= faults,
         phase' = phase \/ phase' # "stopping" \/ faults' = faults + 1,
         \/ Checkpointing = {} /\ Checkpointing' = {}
         \/ UNCHANGED <<pc, cur, ctx, status>>,
         goalStatus = "completed" => goalStatus' = "completed",
         \A l \in Loops : pc'[l] = "clear" => pc[l] = "clear" \/ goalStatus' = "completed"
  PROVE  KeepInv'
<1>1. \A l \in Checkpointing' :
         /\ status'[cur'[l]] = ctx'[l].result
         /\ pc'[l] = "ckptWrite" => ctx'[l].entries = journal'
  BY DEF KeepInv, Checkpointing
<1>2. \A l \in Loops : pc'[l] = "clear" => goalStatus' = "completed"
  BY DEF KeepInv
<1>3. Missing' \subseteq Missing
  <2>1. CompletedIds' = CompletedIds
    BY DEF CompletedIds
  <2>2. CompletedRows' \subseteq CompletedRows
    BY DEF CompletedRows
  <2>3. {cur[l] : l \in Checkpointing} \subseteq {cur'[l] : l \in Checkpointing'}
    BY DEF Checkpointing
  <2> QED
    BY <2>1, <2>2, <2>3 DEF Missing
<1>4. faults \in Nat
  BY DEF SafeInv, TypeOK
<1>5. goalStatus' # "completed" =>
         Cardinality(Missing') + (IF phase' = "stopping" THEN 1 ELSE 0) <= faults'
  BY <1>3, <1>4, CountKept
<1> QED
  BY <1>1, <1>2, <1>5 DEF KeepInv

LEMMA KeepReport ==
  ASSUME OneLoop, SafeInv, KeepInv, NEW l \in Loops,
         TurnGivesUp(l) \/ CallModel(l) \/ Answer(l)
  PROVE  KeepInv'
<1>1. /\ pc \in [Loops -> Labels] /\ ctx \in [Loops -> Contexts] /\ faults \in Nat
      /\ status \in [SubGoalIds -> Plan!SubGoalStatuses]
      /\ cur[l] \in SubGoalIds /\ status[cur[l]] = "in-progress" /\ pc[l] \in {"turn", "call"}
  BY DEF SafeInv, NoStaleRead, TypeOK, Plan!PlanTypeOK, ReadsHold, HoldsSubGoal,
         TurnGivesUp, CallModel, Answer
<1>2. /\ UNCHANGED <<goalStatus, journal, phase, faults, cur>>
      /\ Checkpointing = {}
  BY <1>1 DEF TurnGivesUp, CallModel, Answer, goalRow, logs, process, Checkpointing, OneLoop
<1>3. CASE UNCHANGED status /\ (Goto(l, "turn") \/ Goto(l, "call"))
  <2>1. Checkpointing' = {} /\ \A m \in Loops : pc'[m] # "clear"
    BY <1>1, <1>3 DEF Checkpointing, OneLoop, Goto
  <2> QED
    BY <1>1, <1>2, <1>3, <2>1, KeepQuiet
<1>4. ASSUME NEW r \in {"completed", "failed"}, Report(l, r)
      PROVE  KeepInv'
  <2>1. /\ pc'[l] = "ckptRead" /\ status'[cur[l]] = r
        /\ \A i \in SubGoalIds : i # cur[l] => status'[i] = status[i]
    BY <1>1, <1>4 DEF Report, SetStatus, Goto
  <2> DEFINE d == [ctx[l] EXCEPT !.turns = 0, !.result = r, !.tries = 0]
  <2>2. ctx'[l].result = r
    <3>0. ctx[l] \in Contexts
      BY <1>1
    <3>1. d \in Contexts /\ d.result = r
      BY <3>0, ReportUpdate
    <3>2. SetLocals(l, d)
      BY <1>4 DEF Report
    <3> HIDE DEF d
    <3> QED
      BY <1>1, <3>1, <3>2, LocalsSet
  <2>3. Checkpointing' = {l}
    BY <2>1 DEF Checkpointing, OneLoop
  <2>4. Missing' \subseteq Missing
    <3>1. CompletedIds' = CompletedIds
      BY <1>2 DEF CompletedIds
    <3>2. CompletedRows' \subseteq CompletedRows \union {cur[l]}
      BY <2>1 DEF CompletedRows
    <3>3. {cur'[m] : m \in Checkpointing'} = {cur[l]} /\ {cur[m] : m \in Checkpointing} = {}
      BY <1>2, <2>3
    <3> QED
      BY <3>1, <3>2, <3>3 DEF Missing
  <2>5. goalStatus' # "completed" =>
           Cardinality(Missing') + (IF phase' = "stopping" THEN 1 ELSE 0) <= faults'
    BY <1>1, <1>2, <2>4, CountKept
  <2>6. \A m \in Loops : m = l
    BY DEF OneLoop
  <2> QED
    BY <1>2, <2>1, <2>2, <2>3, <2>5, <2>6 DEF KeepInv
<1> QED
  BY <1>3, <1>4 DEF TurnGivesUp, CallModel, Answer, planRows

LEMMA KeepCheckpoint ==
  ASSUME OneLoop, SafeInv, KeepInv, NEW l \in Loops,
         CheckpointRead(l) \/ CheckpointWrite(l) \/ CheckpointFails(l)
  PROVE  KeepInv'
<1>1. /\ pc \in [Loops -> Labels] /\ ctx \in [Loops -> Contexts] /\ faults \in Nat
      /\ journal \subseteq Entries /\ ctx[l] \in Contexts
      /\ cur[l] \in SubGoalIds /\ pc[l] \in {"ckptRead", "ckptWrite"}
      /\ \A m \in Loops : m = l
  BY DEF SafeInv, NoStaleRead, TypeOK, HoldsSubGoal, OneLoop,
         CheckpointRead, CheckpointWrite, CheckpointFails
<1>2. /\ Checkpointing = {l} /\ {cur[m] : m \in Checkpointing} = {cur[l]}
      /\ status[cur[l]] = ctx[l].result
      /\ pc[l] = "ckptWrite" => ctx[l].entries = journal
  <2>1. Checkpointing = {l}
    BY <1>1 DEF Checkpointing
  <2> QED
    BY <2>1 DEF KeepInv
<1>3. UNCHANGED <<goalStatus, phase, status, cur>>
  BY DEF CheckpointRead, CheckpointWrite, CheckpointFails, goalRow, planRows, process
<1>4. CASE CheckpointRead(l)
  <2>1. UNCHANGED <<journal, faults>> /\ pc'[l] = "ckptWrite"
    BY <1>1, <1>4 DEF CheckpointRead, Goto, logs
  <2>2. ctx'[l].entries = journal /\ ctx'[l].result = ctx[l].result
    BY <1>1, <1>4, EntriesSet DEF CheckpointRead
  <2>3. Checkpointing' = {l}
    BY <1>1, <2>1 DEF Checkpointing
  <2>4. Missing' = Missing
    BY <1>2, <1>3, <2>1, <2>3 DEF Missing, CompletedRows, CompletedIds
  <2>5. goalStatus' # "completed" =>
           Cardinality(Missing') + (IF phase' = "stopping" THEN 1 ELSE 0) <= faults'
    BY <1>1, <1>3, <2>1, <2>4, CountKept
  <2> QED
    BY <1>1, <1>2, <1>3, <2>1, <2>2, <2>3, <2>5 DEF KeepInv
<1>5. CASE CheckpointWrite(l)
  <2>1. pc[l] = "ckptWrite" /\ ctx[l].entries = journal
    BY <1>2, <1>5 DEF CheckpointWrite
  <2>2. /\ journal' = journal \union {Entry(l)} /\ pc'[l] = "evaluate" /\ UNCHANGED faults
    BY <1>1, <1>5, <2>1 DEF CheckpointWrite, Written, Goto
  <2>3. Checkpointing' = {} /\ \A m \in Loops : pc'[m] # "clear"
    BY <1>1, <2>2 DEF Checkpointing
  <2>4. Missing' \subseteq Missing
    <3>1. CompletedRows' = CompletedRows
      BY <1>3 DEF CompletedRows
    <3>2. CompletedIds \subseteq CompletedIds'
      BY <2>2 DEF CompletedIds
    <3>3. cur[l] \in CompletedRows => cur[l] \in CompletedIds'
      BY <1>1, <1>2, <2>2 DEF CompletedRows, CompletedIds, Entry
    <3> QED
      BY <1>2, <3>1, <3>2, <3>3 DEF Missing
  <2>5. goalStatus' # "completed" =>
           Cardinality(Missing') + (IF phase' = "stopping" THEN 1 ELSE 0) <= faults'
    BY <1>1, <1>3, <2>2, <2>4, CountKept
  <2> QED
    BY <2>3, <2>5 DEF KeepInv
<1>6. CASE CheckpointFails(l)
  <2>1. /\ journal \subseteq journal'
        /\ faults' = faults + 1 /\ NextTry(l)
    BY <1>2, <1>6 DEF CheckpointFails, Fault, Written
  <2>2. pc'[l] \in {"ckptRead", "finally"}
    BY <1>1, <2>1 DEF NextTry, Goto
  <2>3. ctx'[l].result = ctx[l].result
    <3>1. ctx[l].tries + 1 \in Nat
      BY <1>1 DEF Contexts
    <3> DEFINE d == [ctx[l] EXCEPT !.tries = ctx[l].tries + 1, !.entries = {}]
    <3>2. d \in Contexts /\ d.result = ctx[l].result
      BY <1>1, <3>1, TriesUpdate
    <3>3. SetLocals(l, d)
      BY <2>1 DEF NextTry
    <3> HIDE DEF d
    <3> QED
      BY <1>1, <3>2, <3>3, LocalsSet
  <2>4. Missing' \subseteq Missing \union {cur[l]}
    <3>1. CompletedRows' = CompletedRows
      BY <1>3 DEF CompletedRows
    <3>2. CompletedIds \subseteq CompletedIds'
      BY <2>1 DEF CompletedIds
    <3> QED
      BY <1>2, <3>1, <3>2 DEF Missing
  <2>5. goalStatus' # "completed" =>
           Cardinality(Missing') + (IF phase' = "stopping" THEN 1 ELSE 0) <= faults'
    BY <1>1, <1>3, <2>1, <2>4, CountKept
  <2>6. \A m \in Checkpointing' :
           status'[cur'[m]] = ctx'[m].result /\ pc'[m] # "ckptWrite"
    BY <1>1, <1>2, <1>3, <2>2, <2>3 DEF Checkpointing
  <2>7. \A m \in Loops : pc'[m] # "clear"
    BY <1>1, <2>2
  <2> QED
    BY <2>5, <2>6, <2>7 DEF KeepInv
<1> QED
  BY <1>4, <1>5, <1>6

(* The process ends: what was on its way to the journal goes missing.      *)
LEMMA KeepEnds ==
  ASSUME OneLoop, SafeInv, KeepInv, Crash \/ Exit
  PROVE  KeepInv'
<1>1. /\ UNCHANGED <<goalStatus, status, journal>> /\ phase' = "down"
      /\ \A l \in Loops : pc'[l] = "idle"
      /\ \/ faults' = faults + 1
         \/ faults' = faults /\ phase = "stopping"
      /\ faults \in Nat
  BY DEF Crash, Exit, ProcessEnds, Fault, goalRow, planRows, SafeInv, TypeOK
<1>2. Checkpointing' = {}
  BY <1>1 DEF Checkpointing
<1>3. Missing' \subseteq CompletedRows \ CompletedIds
  BY <1>1 DEF Missing, CompletedRows, CompletedIds
<1>4. Missing' \subseteq Missing \/ \E x \in SubGoalIds : Missing' \subseteq Missing \union {x}
  <2>1. CASE Checkpointing = {}
    BY <1>3, <2>1 DEF Missing
  <2>2. ASSUME NEW l \in Checkpointing
        PROVE  \E x \in SubGoalIds : Missing' \subseteq Missing \union {x}
    <3>1. cur[l] \in SubGoalIds
      BY <2>2 DEF Checkpointing, SafeInv, NoStaleRead, HoldsSubGoal
    <3>2. {cur[m] : m \in Checkpointing} \subseteq {cur[l]}
      BY DEF OneLoop, Checkpointing
    <3>3. Missing' \subseteq Missing \union {cur[l]}
      BY <1>3, <3>2 DEF Missing
    <3> QED
      BY <3>1, <3>3
  <2> QED
    BY <2>1, <2>2
<1>5. goalStatus' # "completed" =>
         Cardinality(Missing') + (IF phase' = "stopping" THEN 1 ELSE 0) <= faults'
  <2>1. faults' \in Nat /\ faults' >= faults
    BY <1>1
  <2> QED
    BY <1>1, <1>4, <2>1, CountKept
<1> QED
  BY <1>1, <1>2, <1>5 DEF KeepInv

LEMMA KeepStep ==
  ASSUME OneLoop, SafeInv, KeepInv, [Next]_vars
  PROVE  KeepInv'
<1>1. /\ pc \in [Loops -> Labels] /\ faults \in Nat /\ LoopsServe /\ ReadsHold
      /\ status \in [SubGoalIds -> Plan!SubGoalStatuses]
      /\ \A l \in Loops : ctx[l] \in Contexts
  BY DEF SafeInv, NoStaleRead, TypeOK, Plan!PlanTypeOK
<1>2. faults' \in Nat
  BY SafeType, TypeStep DEF TypeOK
<1> DEFINE Ckpt == {"ckptRead", "ckptWrite"}
<1>3. ASSUME NEW l \in Loops, pc[l] \notin Ckpt, pc'[l] \notin Ckpt \union {"clear"},
             UNCHANGED <<journal, phase>>, faults' >= faults,
             \A i \in SubGoalIds : status'[i] = "completed" => status[i] = "completed",
             goalStatus = "completed" => goalStatus' = "completed"
      PROVE  KeepInv'
  <2>1. Checkpointing = {} /\ Checkpointing' = {} /\ \A m \in Loops : pc'[m] # "clear"
    BY <1>3 DEF Checkpointing, OneLoop
  <2> QED
    BY <1>2, <1>3, <2>1, KeepQuiet
<1>4. ASSUME NEW l \in Loops,
             \/ Spawn(l) \/ EndCycle(l) \/ Top(l) \/ Check(l) \/ StartSubGoal(l)
             \/ TurnKilled(l) \/ Evaluate(l) \/ ReadReplanCount(l) \/ WriteReplanCount(l)
             \/ EscalatePause(l) \/ Survey(l) \/ Judge(l) \/ SkipPending(l)
             \/ PlanArrives(l) \/ PlanFails(l) \/ InsertRow(l) \/ ResolveDependencies(l)
             \/ CallFails(l)
      PROVE  KeepInv'
  <2>1. pc[l] \notin Ckpt
    BY <1>4 DEF Spawn, EndCycle, Top, Check, StartSubGoal, TurnKilled, Evaluate,
       ReadReplanCount, WriteReplanCount, EscalatePause, Survey, Judge, SkipPending,
       PlanArrives, PlanFails, InsertRow, ResolveDependencies, CallFails
  <2>2. UNCHANGED <<journal, phase>>
    BY <1>4 DEF Spawn, EndCycle, Top, Check, StartSubGoal, TurnKilled, Evaluate,
       ReadReplanCount, WriteReplanCount, EscalatePause, Survey, Judge, SkipPending,
       PlanArrives, PlanFails, InsertRow, ResolveDependencies, CallFails, logs, process
  <2>3. faults' >= faults
    <3>1. faults' \in {faults, faults + 1}
      BY <1>4 DEF Spawn, EndCycle, Top, Check, StartSubGoal, TurnKilled, Evaluate,
         ReadReplanCount, WriteReplanCount, EscalatePause, Survey, Judge, SkipPending,
         PlanArrives, PlanFails, InsertRow, ResolveDependencies, CallFails, Fault
    <3> QED
      BY <1>1, <3>1
  <2>4. goalStatus = "completed" => goalStatus' = "completed"
    <3>1. CASE EscalatePause(l)
      BY <1>1, <3>1 DEF EscalatePause, LoopsServe, Ending
    <3>2. CASE ~EscalatePause(l)
      BY <1>4, <3>2 DEF Spawn, EndCycle, Top, Check, StartSubGoal, TurnKilled, Evaluate,
         ReadReplanCount, WriteReplanCount, Survey, Judge, SkipPending,
         PlanArrives, PlanFails, InsertRow, ResolveDependencies, CallFails, goalRow
    <3> QED
      BY <3>1, <3>2
  <2>5. \A i \in SubGoalIds : status'[i] = "completed" => status[i] = "completed"
    <3>1. CASE \/ Spawn(l) \/ EndCycle(l) \/ Top(l) \/ Check(l) \/ TurnKilled(l) \/ Evaluate(l)
               \/ ReadReplanCount(l) \/ WriteReplanCount(l) \/ EscalatePause(l) \/ Survey(l)
               \/ PlanArrives(l) \/ PlanFails(l) \/ ResolveDependencies(l) \/ CallFails(l)
      BY <3>1 DEF Spawn, EndCycle, Top, Check, TurnKilled, Evaluate, ReadReplanCount,
         WriteReplanCount, EscalatePause, Survey, PlanArrives, PlanFails,
         ResolveDependencies, CallFails, planRows
    <3>2. ASSUME NEW i, NEW s \in {"in-progress", "skipped", "pending"}, SetStatus(i, s)
          PROVE  \A j \in SubGoalIds : status'[j] = "completed" => status[j] = "completed"
      BY <1>1, <3>2 DEF SetStatus
    <3>3. CASE StartSubGoal(l)
      BY <3>2, <3>3 DEF StartSubGoal
    <3>4. CASE Judge(l) \/ SkipPending(l)
      <4>1. UNCHANGED status \/ \E i : SetStatus(i, "skipped")
        BY <3>4 DEF Judge, SkipPending
      <4> QED
        BY <3>2, <4>1
    <3>5. CASE InsertRow(l)
      <4>1. \E i : SetStatus(i, "pending")
        BY <3>5 DEF InsertRow
      <4> QED
        BY <3>2, <4>1
    <3> QED
      BY <1>4, <3>1, <3>3, <3>4, <3>5
  <2>6. pc'[l] \notin Ckpt \union {"clear"}
    <3>1. \/ UNCHANGED pc /\ pc[l] \in {"judge", "skip", "insert", "resolve"}
          \/ \E a \in Labels : Goto(l, a) /\ a \notin Ckpt \union {"clear"}
      <4>1. CASE \/ Spawn(l) \/ EndCycle(l) \/ Top(l) \/ Check(l) \/ StartSubGoal(l)
                 \/ TurnKilled(l) \/ Evaluate(l) \/ ReadReplanCount(l) \/ WriteReplanCount(l)
        BY <4>1 DEF Spawn, EndCycle, Top, Check, StartSubGoal, TurnKilled, Evaluate,
           ReadReplanCount, WriteReplanCount, Labels
      <4>2. CASE \/ EscalatePause(l) \/ Survey(l) \/ Judge(l) \/ SkipPending(l)
                 \/ PlanArrives(l) \/ PlanFails(l) \/ InsertRow(l) \/ ResolveDependencies(l)
                 \/ CallFails(l)
        BY <4>2 DEF EscalatePause, Survey, Judge, SkipPending, PlanArrives, PlanFails,
           InsertRow, ResolveDependencies, CallFails, ReplanReturns, Labels
      <4> QED
        BY <1>4, <4>1, <4>2
    <3> QED
      BY <1>1, <3>1 DEF Goto
  <2> QED
    BY <1>3, <2>1, <2>2, <2>3, <2>4, <2>5, <2>6
<1>5. ASSUME NEW l \in Loops, CompleteGoal(l) \/ ClearJournal(l)
      PROVE  KeepInv'
  <2>1. goalStatus' = "completed"
    BY <1>5 DEF CompleteGoal, ClearJournal, KeepInv, goalRow
  <2>2. Checkpointing' = {}
    BY <1>1, <1>5 DEF CompleteGoal, ClearJournal, Goto, Checkpointing, OneLoop
  <2> QED
    BY <2>1, <2>2 DEF KeepInv
<1>6. CASE \/ Tick \/ Stop \/ Shutdown \/ Boot \/ NothingToRecover \/ InterruptCycles
           \/ RecoveryEnds \/ ToggleKillSwitch \/ SetGoalStatus \/ UNCHANGED vars
  <2>1. UNCHANGED <<pc, cur, ctx, status, journal>> /\ faults' >= faults
    BY <1>1, <1>6 DEF Tick, Stop, Shutdown, Boot, NothingToRecover, InterruptCycles,
       RecoveryEnds, ToggleKillSwitch, SetGoalStatus, Fault, vars, local, planRows, logs
  <2>2. phase' = phase \/ phase' # "stopping" \/ faults' = faults + 1
    BY <1>1, <1>6 DEF Tick, Stop, Shutdown, Boot, NothingToRecover, InterruptCycles,
       RecoveryEnds, ToggleKillSwitch, SetGoalStatus, Fault, vars, process
  <2>3. goalStatus = "completed" => goalStatus' = "completed"
    BY <1>6 DEF Tick, Stop, Shutdown, Boot, NothingToRecover, InterruptCycles,
       RecoveryEnds, ToggleKillSwitch, SetGoalStatus, vars, goalRow
  <2> QED
    BY <1>2, <2>1, <2>2, <2>3, KeepQuiet
<1>7. ASSUME NEW i \in SubGoalIds, ResetSubGoal(i) PROVE KeepInv'
  <2>1. /\ UNCHANGED <<pc, journal, phase, faults, goalStatus>>
        /\ status' = [status EXCEPT ![i] = "pending"] /\ phase = "reset"
    BY <1>7 DEF ResetSubGoal, SetStatus, local, logs, process, goalRow
  <2>2. \A l \in Loops : pc[l] = "idle"
    BY <1>1, <2>1 DEF LoopsServe, Serving
  <2>3. Checkpointing = {} /\ Checkpointing' = {} /\ \A l \in Loops : pc'[l] # "clear"
    BY <2>1, <2>2 DEF Checkpointing
  <2>4. \A j \in SubGoalIds : status'[j] = "completed" => status[j] = "completed"
    BY <1>1, <2>1
  <2> QED
    BY <1>1, <2>1, <2>3, <2>4, KeepQuiet
<1> QED
  BY <1>4, <1>5, <1>6, <1>7, KeepReport, KeepCheckpoint, KeepEnds
  DEF Next, LoopStep, ExecuteStep, ReplanStep, BootStep

(* RECOV-01: with one loop on the goal, a sub-goal is not begun before the *)
(* results of those before it are journalled; a completed row is missing   *)
(* from the journal only by a crash, a shutdown or a failed call           *)
(* (agent-loop.ts:329, journal.ts:36).                                     *)
THEOREM JournalKeepsUp == ASSUME OneLoop PROVE Spec => []CheckpointsKeepUp
<1> DEFINE Strong == SafeInv /\ KeepInv
<1>1. Init => Strong
  <2> SUFFICES ASSUME Init PROVE KeepInv
    BY SafeInit
  <2>1. Checkpointing = {} /\ \A l \in Loops : pc[l] # "clear"
    BY DEF Init, Checkpointing
  <2>2. Missing = {} /\ phase = "down" /\ faults = 0
    BY DEF Init, InitPlan, Missing, CompletedRows
  <2> QED
    BY <2>1, <2>2, FS_EmptySet DEF KeepInv
<1>2. Strong /\ [Next]_vars => Strong'
  BY SafeStep, KeepStep
<1>3. Strong => CheckpointsKeepUp
  <2> SUFFICES ASSUME SafeInv, KeepInv, goalStatus # "completed"
               PROVE  Cardinality(CompletedRows \ CompletedIds)
                        <= faults + Cardinality(Checkpointing)
    BY DEF CheckpointsKeepUp, CompletedRows, Checkpointing
  <2> DEFINE D == CompletedRows \ CompletedIds
  <2>1. Missing \in SUBSET SubGoalIds /\ D \in SUBSET SubGoalIds /\ faults \in Nat
    BY DEF Missing, CompletedRows, SafeInv, TypeOK
  <2>2. Cardinality(Missing) \in Nat /\ Cardinality(D) \in Nat
    BY <2>1, SubGoalsFinite
  <2>3. Cardinality(Missing) <= faults
    BY <2>1, <2>2 DEF KeepInv
  <2>4. CASE Checkpointing = {}
    <3>1. D \subseteq Missing
      BY <2>4 DEF Missing
    <3>2. Cardinality(D) <= Cardinality(Missing) /\ Cardinality(Checkpointing) = 0
      BY <2>1, <2>4, <3>1, Grows, FS_EmptySet
    <3> HIDE DEF D
    <3>3. Cardinality(D) <= faults + Cardinality(Checkpointing)
      BY <2>1, <2>2, <2>3, <3>2
    <3> QED
      BY <3>3 DEF D
  <2>5. ASSUME NEW l \in Checkpointing
        PROVE  Cardinality(D) <= faults + Cardinality(Checkpointing)
    <3>1. cur[l] \in SubGoalIds
      BY <2>5 DEF Checkpointing, SafeInv, NoStaleRead, HoldsSubGoal
    <3>2. Checkpointing = {l}
      BY DEF OneLoop, Checkpointing
    <3>3. D \subseteq Missing \union {cur[l]}
      BY <3>2 DEF Missing
    <3>4. Cardinality(D) <= Cardinality(Missing) + 1
      BY <2>1, <3>1, <3>3, Grows
    <3>5. Cardinality(Checkpointing) = 1
      BY <3>2, FS_Singleton
    <3> HIDE DEF D
    <3> QED
      BY <2>1, <2>2, <2>3, <3>4, <3>5
  <2> QED
    BY <2>4, <2>5
<1> QED
  BY <1>1, <1>2, <1>3, PTL DEF Spec

=============================================================================
