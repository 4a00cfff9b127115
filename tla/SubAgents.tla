----------------------------- MODULE SubAgents ------------------------------
(* Sub-agents: jobs on the agent-tasks queue, the worker that runs each as *)
(* a loop of LLM calls and tool calls (agent-worker.ts), the invocation of *)
(* a tool with its kill switch check, two log rows and timeout (invoke-    *)
(* safe.ts, invoke.ts, timeout.ts), the tools that spawn, await and cancel *)
(* a sub-agent (sub-agent-tool.ts) and the collector of results            *)
(* (result-collector.ts).  A sub-agent has all tools, spawn-agent and      *)
(* await-agent included, and runs in one of a few slots.  The queue is     *)
(* BullMQ's and external: it gives waiting jobs to free slots, keeps the   *)
(* value a job returned, and hands out again what a crash left active.     *)
EXTENDS KillSwitch

CONSTANTS
    Jobs,        \* job ids
    Concurrency, \* slots of the worker
    MaxTurns,    \* LLM calls of a job (15)
    MaxCalls,    \* bound: tool calls in one answer of the LLM
    MaxStalls,   \* how often BullMQ hands out a job again after a crash
    MaxFaults    \* bound: crashes, failing calls, log inserts that fail

ASSUME SubAgentsAssumption ==
    /\ Callers = Jobs /\ Guards = {"router", "tools"} /\ IsFiniteSet(Jobs)
    /\ Concurrency \in Nat /\ {MaxTurns, MaxCalls} \subseteq Nat \ {0}
    /\ MaxStalls \in Nat /\ MaxFaults \in Nat

VARIABLES
    job,     \* job -> its state and value in Redis
    work,    \* job -> the processor that runs it
    call,    \* job -> the tool call its processor awaits
    loose,   \* tool executions whose caller has stopped waiting for them
    open,    \* started rows of tool_calls without a closing row
    collect, \* collectResults
    after,   \* history: job -> tools begun TTL and more after the activation "of"
    faults   \* crashes and failures so far

queue == <<job>>
local == <<work, call, loose, open, after>>
jobVars == <<queue, local, collect, faults>>
vars == <<switchVars, jobVars>>

Tools   == {"effect", "spawn", "await", "cancel"}
Ended   == {"completed", "failed"}
Answers == {"none", "ok", "error"}

Job  == [state: {"none", "waiting", "active"} \cup Ended, value: Answers,
         stalls: 0 .. MaxStalls]
\* left: tool calls of the answer that come after the one under way
Work == [at: {"idle", "llm", "tool"}, turn: 0 .. MaxTurns - 1, left: 0 .. MaxCalls - 1]
Call == [at: {"idle", "check", "log", "running", "polled", "returned", "threw", "timedout"},
         tool: Tools, target: Jobs, snap: Answers, row: BOOLEAN]
Loose == [tool: Tools, target: Jobs]

NoJob  == [state |-> "none", value |-> "none", stalls |-> 0]
NoWork == [at |-> "idle", turn |-> 0, left |-> 0]
NoCall == [at |-> "idle", tool |-> "effect", target |-> CHOOSE j \in Jobs : TRUE,
           snap |-> "none", row |-> FALSE]
Nothing == [j \in Jobs |-> "none"]

Init ==
    /\ SwitchInit
    /\ job = [j \in Jobs |-> NoJob]
    /\ work = [j \in Jobs |-> NoWork]
    /\ call = [j \in Jobs |-> NoCall]
    /\ loose = {} /\ open = 0
    /\ collect = [at |-> "idle", got |-> Nothing]
    /\ after = [j \in Jobs |-> [of |-> 0, tools |-> 0]]
    /\ faults = 0

Fault == faults < MaxFaults /\ faults' = faults + 1

-----------------------------------------------------------------------------
(* BullMQ, as the code uses it. *)

\* queue.add: jobs spawned have one attempt, so a job that throws has failed.
Added(j) == job[j].state = "none" /\ job' = [job EXCEPT ![j].state = "waiting"]

\* The value of a job that is moved to completed or failed; a job that was
\* taken from the active ones meanwhile is left as it is.
Moved(j, s, v) ==
    job' = IF job[j].state = "active"
           THEN [job EXCEPT ![j].state = s, ![j].value = v] ELSE job

Slots == {j \in Jobs : work[j].at # "idle"}

TakeJob(j) ==
    /\ job[j].state = "waiting" /\ Cardinality(Slots) < Concurrency
    /\ work[j].at = "idle"
    /\ job' = [job EXCEPT ![j].state = "active"]
    /\ work' = [work EXCEPT ![j] = [NoWork EXCEPT !.at = "llm"]]
    /\ UNCHANGED <<switchVars, call, loose, open, after, collect, faults>>

\* A job left active by a crash waits again, or has failed when it stalled
\* too often.
StalledJob(j) ==
    /\ job[j].state = "active" /\ work[j].at = "idle"
    /\ job' = IF job[j].stalls < MaxStalls
              THEN [job EXCEPT ![j].state = "waiting", ![j].stalls = @ + 1]
              ELSE [job EXCEPT ![j].state = "failed"]
    /\ UNCHANGED <<switchVars, local, collect, faults>>

\* A main agent's loop calls spawn-agent.
MainSpawns(j) ==
    /\ Added(j)
    /\ UNCHANGED <<switchVars, local, collect, faults>>

-----------------------------------------------------------------------------
(* The processor of createAgentWorker. *)

AskDone(j) == ask' = [ask EXCEPT ![j] = NoAsk]
KeepSwitch == UNCHANGED <<switchRows, writer, cache, clock>>

\* The processor returns or throws: the slot is free.
Leave(j, s, v) ==
    /\ Moved(j, s, v)
    /\ work' = [work EXCEPT ![j] = NoWork]

\* completeWithTools first asks the router's guard.
AskRouter(j) ==
    /\ work[j].at = "llm" /\ AskGuard(j, "router")
    /\ UNCHANGED jobVars

RouterStops(j) ==
    /\ work[j].at = "llm" /\ Told(j) /\ ask[j].active
    /\ AskDone(j) /\ KeepSwitch
    /\ Leave(j, "failed", "none")
    /\ UNCHANGED <<call, loose, open, after, collect, faults>>

\* The LLM stops, is cut off or ends for an unknown reason; or the call or
\* the insert of its ai_calls row throws.
LlmEnds(j) ==
    /\ work[j].at = "llm" /\ Told(j) /\ ~ask[j].active
    /\ AskDone(j) /\ KeepSwitch
    /\ \/ Leave(j, "completed", "ok") /\ UNCHANGED faults
       \/ Leave(j, "completed", "error") /\ UNCHANGED faults
       \/ Leave(j, "failed", "none") /\ Fault
    /\ UNCHANGED <<call, loose, open, after, collect>>

\* A tool call of the answer begins with its check.
CallTool(j) ==
    \E t \in Tools, k \in Jobs :
        /\ (k = j) <=> (t = "effect")
        /\ call' = [call EXCEPT ![j] =
                   [NoCall EXCEPT !.at = "check", !.tool = t, !.target = k]]

\* The answer lists tool calls: the first of them begins.
LlmCallsTools(j) ==
    /\ work[j].at = "llm" /\ Told(j) /\ ~ask[j].active
    /\ AskDone(j) /\ KeepSwitch
    /\ CallTool(j)
    /\ \E n \in 1 .. MaxCalls :
         work' = [work EXCEPT ![j] = [at |-> "tool", turn |-> @.turn, left |-> n - 1]]
    /\ UNCHANGED <<queue, loose, open, after, collect, faults>>

TurnOf(j, n) == work' = [work EXCEPT ![j] = [at |-> "llm", turn |-> n, left |-> 0]]

\* Mutant: one turn too many.
BugNextTurn(j) ==
    /\ call' = [call EXCEPT ![j] = NoCall]
    /\ IF work[j].turn = MaxTurns
       THEN Leave(j, "completed", "error")
       ELSE TurnOf(j, work[j].turn + 1) /\ UNCHANGED job

\* The results of the whole list are pushed and the next turn begins, unless
\* it was the last.
NextTurn(j) ==
    /\ call' = [call EXCEPT ![j] = NoCall]
    /\ IF work[j].turn + 1 = MaxTurns
       THEN Leave(j, "completed", "error")
       ELSE TurnOf(j, work[j].turn + 1) /\ UNCHANGED job

OneCallLess(j) == work' = [work EXCEPT ![j].left = @ - 1]

\* Mutant: the switch is asked once for an answer, before its first tool.
BugNextCall(j) ==
    IF work[j].left > 0
    THEN /\ call' = [call EXCEPT ![j] = [NoCall EXCEPT !.at = "log"]]
         /\ OneCallLess(j) /\ UNCHANGED job
    ELSE NextTurn(j)

\* What comes after a tool call: the next of the same answer, which no LLM
\* call and no router's guard comes before, or the next turn.
NextCall(j) ==
    IF work[j].left > 0
    THEN CallTool(j) /\ OneCallLess(j) /\ UNCHANGED job
    ELSE NextTurn(j)

-----------------------------------------------------------------------------
(* invokeWithKillCheck and invokeWithLogging. *)

InCall(j, at) == work[j].at = "tool" /\ call[j].at = at

AskBeforeTool(j) ==
    /\ InCall(j, "check") /\ AskGuard(j, "tools")
    /\ UNCHANGED jobVars

\* Only the check throws; the job has failed.
CheckStops(j) ==
    /\ InCall(j, "check") /\ Told(j) /\ ask[j].active
    /\ AskDone(j) /\ KeepSwitch
    /\ Leave(j, "failed", "none")
    /\ call' = [call EXCEPT ![j] = NoCall]
    /\ UNCHANGED <<loose, open, after, collect, faults>>

\* An unknown tool or an input that does not parse is a result, and no row
\* is written.
CheckPasses(j) ==
    /\ InCall(j, "check") /\ Told(j) /\ ~ask[j].active
    /\ AskDone(j) /\ KeepSwitch
    /\ \/ NextCall(j)
       \/ /\ call' = [call EXCEPT ![j].at = "log"]
          /\ UNCHANGED <<queue, work>>
    /\ UNCHANGED <<loose, open, after, collect, faults>>

\* logToolStart, then execute: without a row when the insert fails.
BeginTool(j) ==
    /\ InCall(j, "log")
    /\ \/ /\ call' = [call EXCEPT ![j].at = "running", ![j].row = TRUE]
          /\ open' = open + 1
          /\ UNCHANGED faults
       \/ /\ call' = [call EXCEPT ![j].at = "running"]
          /\ Fault
          /\ UNCHANGED open
    /\ after' = IF IsOn /\ clock >= since + TTL
                THEN [after EXCEPT ![j] = [of |-> since,
                        tools |-> IF @.of = since THEN @.tools + 1 ELSE 1]]
                ELSE after
    /\ UNCHANGED <<switchVars, queue, work, loose, collect>>

\* What a tool does to the queue when it gets to do it.
Does(t, k) ==
    CASE t = "spawn"  -> Added(k)
      [] t = "cancel" -> \* moveToFailed, unless the job has ended
            job' = IF job[k].state \in {"waiting", "active"}
                   THEN [job EXCEPT ![k].state = "failed"] ELSE job
      [] OTHER -> UNCHANGED job

ToolReturns(j) ==
    /\ InCall(j, "running") /\ call[j].tool # "await"
    /\ Does(call[j].tool, call[j].target)
    /\ call' = [call EXCEPT ![j].at = "returned"]
    /\ UNCHANGED <<switchVars, work, loose, open, after, collect, faults>>

ToolThrows(j) ==
    /\ InCall(j, "running")
    /\ \/ call[j].tool # "await"
       \/ job[call[j].target].state = "none"   \* job not found
    /\ call' = [call EXCEPT ![j].at = "threw"]
    /\ UNCHANGED <<switchVars, queue, work, loose, open, after, collect, faults>>

\* await-agent reads the job with its value, ...
AwaitReadsJob(j) ==
    /\ InCall(j, "running") /\ call[j].tool = "await"
    /\ job[call[j].target].state # "none"
    /\ call' = [call EXCEPT ![j].at = "polled", ![j].snap = job[call[j].target].value]
    /\ UNCHANGED <<switchVars, queue, work, loose, open, after, collect, faults>>

\* ... then asks for its state, and returns the value it read before.
AwaitReadsState(j) ==
    /\ InCall(j, "polled")
    /\ call' = [call EXCEPT ![j].at =
         CASE job[call[j].target].state = "completed" -> "returned"
           [] job[call[j].target].state = "failed"    -> "threw"
           [] OTHER                                   -> "running"]
    /\ UNCHANGED <<switchVars, queue, work, loose, open, after, collect, faults>>

\* Mutant: the timer of an await-agent does not reject its promise.
BugTimerFires(j) ==
    /\ InCall(j, "running") /\ call[j].tool # "await"
    /\ call' = [call EXCEPT ![j].at = "timedout"]
    /\ loose' = loose \cup {[tool |-> call[j].tool, target |-> call[j].target]}
    /\ UNCHANGED <<switchVars, queue, work, open, after, collect, faults>>

\* The timer aborts the signal and rejects: the call is over.  await-agent
\* looks at the signal and stops; the other tools go on.
TimerFires(j) ==
    /\ InCall(j, "running") \/ InCall(j, "polled")
    /\ call' = [call EXCEPT ![j].at = "timedout"]
    /\ loose' = IF call[j].tool = "await" THEN loose
                ELSE loose \cup {[tool |-> call[j].tool, target |-> call[j].target]}
    /\ UNCHANGED <<switchVars, queue, work, open, after, collect, faults>>

\* An execution nobody waits for ends: with its effect, or without.
LooseToolEnds(l) ==
    /\ l \in loose
    /\ loose' = loose \ {l}
    /\ Does(l.tool, l.target) \/ UNCHANGED job
    /\ UNCHANGED <<switchVars, work, call, open, after, collect, faults>>

\* Mutant: the closing row is written for calls that returned only.
BugEndTool(j) ==
    /\ \E at \in {"returned", "threw", "timedout"} : InCall(j, at)
    /\ \/ /\ open' = IF call[j].row /\ call[j].at # "timedout" THEN open - 1 ELSE open
          /\ UNCHANGED faults
       \/ call[j].row /\ Fault /\ UNCHANGED open
    /\ NextCall(j)
    /\ UNCHANGED <<switchVars, loose, after, collect>>

\* logToolComplete or logToolFailure; an insert that fails is noted on
\* stderr and the result goes to the LLM all the same.
EndTool(j) ==
    /\ \E at \in {"returned", "threw", "timedout"} : InCall(j, at)
    /\ \/ /\ open' = IF call[j].row THEN open - 1 ELSE open
          /\ UNCHANGED faults
       \/ call[j].row /\ Fault /\ UNCHANGED open
    /\ NextCall(j)
    /\ UNCHANGED <<switchVars, loose, after, collect>>

-----------------------------------------------------------------------------
(* collectResults, for all the jobs there are. *)

Pending == {j \in Jobs : collect.got[j] = "pending"}

CollectBegins ==
    /\ collect.at = "idle"
    /\ collect' = [collect EXCEPT !.at = "poll",
         !.got = [j \in Jobs |-> IF job[j].state = "none" THEN "none" ELSE "pending"]]
    /\ UNCHANGED <<switchVars, queue, local, faults>>

\* getJobStatus of each pending job; those that have ended are collected.
CollectPolls ==
    /\ collect.at = "poll" /\ Pending # {}
    /\ collect' = [collect EXCEPT !.got = [j \in Jobs |->
            IF j \in Pending /\ job[j].state \in Ended
            THEN job[j].state ELSE collect.got[j]]]
    /\ UNCHANGED <<switchVars, queue, local, faults>>

\* Mutant: at the deadline every job asked for is reported as timed out.
BugCollectEnds ==
    /\ collect.at = "poll"
    /\ collect' = [collect EXCEPT !.at = "done",
         !.got = [j \in Jobs |-> IF Pending # {} /\ collect.got[j] # "none"
                                 THEN "timeout" ELSE collect.got[j]]]
    /\ UNCHANGED <<switchVars, queue, local, faults>>

\* Nothing is pending, or the deadline has passed.
CollectEnds ==
    /\ collect.at = "poll"
    /\ collect' = [collect EXCEPT !.at = "done",
         !.got = [j \in Jobs |-> IF j \in Pending THEN "timeout" ELSE collect.got[j]]]
    /\ UNCHANGED <<switchVars, queue, local, faults>>

-----------------------------------------------------------------------------
\* The agent process dies and comes back: the jobs stay in Redis.
Crash ==
    /\ Fault
    /\ work' = [j \in Jobs |-> NoWork]
    /\ call' = [j \in Jobs |-> NoCall]
    /\ loose' = {}
    /\ collect' = [at |-> "idle", got |-> Nothing]
    /\ ask' = [j \in Jobs |-> NoAsk]
    /\ cache' = [g \in Guards |-> NoEntry]
    /\ UNCHANGED <<switchRows, writer, clock, queue, open, after>>

SwitchStep == (WriterStep \/ GuardStep \/ TimePasses) /\ UNCHANGED jobVars

Process(j) ==
    \/ AskRouter(j) \/ RouterStops(j) \/ LlmEnds(j) \/ LlmCallsTools(j)
    \/ AskBeforeTool(j) \/ CheckStops(j) \/ CheckPasses(j) \/ BeginTool(j)
    \/ EndTool(j)

Executes(j) ==
    \/ ToolReturns(j) \/ ToolThrows(j) \/ AwaitReadsJob(j) \/ AwaitReadsState(j)

Collector == CollectBegins \/ CollectPolls \/ CollectEnds

Next ==
    \/ SwitchStep
    \/ \E j \in Jobs :
         \/ MainSpawns(j) \/ TakeJob(j) \/ StalledJob(j)
         \/ Process(j) \/ Executes(j) \/ TimerFires(j)
    \/ \E l \in loose : LooseToolEnds(l)
    \/ Collector
    \/ Crash

Spec == Init /\ [][Next]_vars

\* BullMQ gives jobs to free slots and takes up stalled ones; the event loop
\* runs every continuation, a database call is answered, and timers fire.
Fairness ==
    /\ \A j \in Jobs :
         /\ WF_vars(TakeJob(j)) /\ WF_vars(StalledJob(j))
         /\ WF_vars(Process(j)) /\ WF_vars(TimerFires(j))
         /\ WF_vars((ReadRow(j) \/ StoreAnswer(j)) /\ UNCHANGED jobVars)

FairSpec == Spec /\ Fairness

-----------------------------------------------------------------------------
(* Properties. *)

TypeOK ==
    /\ SwitchTypeOK
    /\ job \in [Jobs -> Job] /\ work \in [Jobs -> Work] /\ call \in [Jobs -> Call]
    /\ loose \in SUBSET Loose
    /\ open \in Nat /\ faults \in 0 .. MaxFaults
    /\ after \in [Jobs -> [of: 0 .. MaxTime, tools: Nat]]
    /\ collect \in [at: {"idle", "poll", "done"},
                    got: [Jobs -> {"none", "pending", "timeout"} \cup Ended]]

\* Once the switch has been active for TTL a sub-agent begins at most the
\* one tool whose check was under way.  The rest of the list that one answer
\* of the LLM calls for runs under the tools' guard alone, which must have
\* learnt of it before the next tool; the router's is asked between turns
\* (agent-worker.ts:127, invoke-safe.ts:46, kill-switch.ts:27).
KillStopsTools == \A j \in Jobs : after[j].tools <= 1

\* A started row of tool_calls stays open only while its call runs, or
\* because a crash or a failed insert left it so: tools that throw or time
\* out close theirs (invoke.ts:106, schema/tool-calls.ts:6).
OpenRowsExplained ==
    open <= Cardinality({j \in Jobs : call[j].row}) + Cardinality(Jobs) * faults

\* What was collected for a job is kept, whatever the deadline finds of the
\* others, and says how the job ended (result-collector.ts:45).
CollectedStands ==
    [][\A j \in Jobs :
         collect.got[j] \in Ended /\ collect'.at # "idle" =>
            collect'.got[j] = collect.got[j] /\ job'[j].state = collect.got[j]]_vars

\* Every job ends, although sub-agents wait for sub-agents that wait for
\* their slots (agent-worker.ts:83, sub-agent-tool.ts:58).
JobsEnd == \A j \in Jobs : job[j].state = "waiting" ~> job[j].state \in Ended
=============================================================================
