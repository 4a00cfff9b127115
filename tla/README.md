# A TLA+ model of the Jarvis agent (loom-bot)

The repository is a TypeScript monorepo: an agent process that works on goals
with LLM calls and tools, a dashboard process, a Postgres database both share,
and Redis queues. Everything the agent decides is kept in tables; what makes it
hard to get right is that these tables are read, then something is awaited, and
then they are written, by several actors of one Node process and by a process
that restarts.

This directory holds the specifications, the TLC configurations and the TLAPS
proofs. Paths below are relative to the repository, `agent/` stands for
`apps/agent/src/`.

    tlc -workers 2 -config MCAgentLoop_single.cfg MCAgentLoop
    tlapm AgentLoop_proofs.tla

## 1. The system

| part | state it keeps | operations | why it is hard |
|---|---|---|---|
| goal store (`agent/loop/goal-manager.ts`, `packages/db/src/schema/goals.ts`) | rows of `goals`, `sub_goals` | create, decompose, choose next, set status, count replans, is it complete | every operation is a statement of its own, decomposing is many |
| agent loop (`agent/loop/agent-loop.ts`) | locals of one cycle, `cancelled` | choose, execute turn by turn, journal, evaluate, replan, finish | ten awaits between the choice of a sub-goal and its result |
| evaluator, replanner, planner (`agent/loop/`) | none of their own | verdict on an outcome, new plan | LLM calls between a snapshot and its use; failure half way |
| journal (`agent/recovery/journal.ts`) | `agent_state["journal:<goal>"]` | append with three tries, clear | read-modify-write, retry of an applied write |
| startup recovery (`agent/recovery/startup-recovery.ts`) | none | close cycles, take back rows, restart loops | decides from what a crash left |
| cycle log (`packages/logging/src/cycle-logger.ts`) | `planning_cycles`, append-only | start row, closing row | who closes a cycle, and how often |
| supervisor (`agent/multi-agent/supervisor.ts`) | map `activeLoops`, a timer | tick: read goals, spawn, stop; staggered restart | ticks overlap; check, await, set; a cap |
| boot and shutdown (`agent/index.ts`, `agent/shutdown.ts`) | - | fixed sequences | what still runs between their steps |
| kill switch (`packages/ai/src/kill-switch.ts`) | `agent_state["kill_switch"]`, cache of 1 s | activate, deactivate, assert | read before a call that may take minutes |
| model router, cost monitor (`packages/ai/src/`) | `ai_calls` | route a call, log its cost, alert | fails anywhere in a sub-goal |
| promotion gate and control, rollback, health (`packages/tools/src/self-extension/`, `agent/recovery/self-extension-health.ts`) | one snapshot row per system, baseline row | pause, promote, observe, roll back | three actors write back the whole row they read |
| GitHub pipeline (`packages/tools/src/self-extension/github-pipeline.ts`) | branch, pull request, statuses, events | push, open, verify, merge | remote state, retries, stale heads |
| tool writer, loader, sandbox, stager | files, registry, queue message | write, compile, try, stage, load | roll back of a file after any failure |
| isolated verifier, worktrees, bounded commands | a worktree, a child process | create, run, cap, time out, clean up | clean-up on every path |
| chat relay (`agent/chat/operator-chat-relay.ts`, dashboard `chat.ts`) | one row per request | claim, answer, fail | crash after the claim; bounded batch |
| consolidation (`agent/memory-consolidation.ts`) | `memory_facts`, a time stamp | take a batch, write facts | rows between read and stamp |
| sub-agent worker, result collector, queues | BullMQ jobs | spawn, work, wait for | retries re-execute; late answers |
| tool invocation (`packages/tools/src/invoke*.ts`, `timeout.ts`, `registry.ts`) | `tool_calls` | check, log, run, time out | the tool goes on after its timeout |
| identities and credentials | `identities`, `identity_credentials`, audit | create, use, rotate, retire | several writes per operation |
| strategies (`agent/strategy/`) | `strategies` with a goal each | create, pause, kill | two rows that must agree |
| setup wizard, GitHub OAuth (dashboard) | `setup_state`, `oauth_state`, the token's row | save keys, start, call back | a state consumed once, two writers |
| feed (poller, broadcaster, SSE, client hooks) | last id seen, clients, client list | poll, send, reconnect | gap between snapshot and stream |
| browser, basic tools, CLI, landing page, scripts | - | I/O | not modelled |

They interact through the tables, and in the agent process by calls: the
supervisor creates loops and forgets them; a loop calls evaluator, replanner,
journal and router; recovery calls the supervisor; the shutdown calls the
supervisor; the operator writes the kill switch, and goals, from outside.

What makes each modelled part correct: no sub-goal starts before what it
depends on; nothing is executed twice without a fault; a goal is called
completed only when it is; what is read before an await still holds when it is
used; the journal never claims more than the table and misses little of it; what
the supervisor takes for a running loop is one; cycles end, ready
work starts, goals of high priority are served. Of self-modifications: only
verified heads are merged, row and baseline
agree, every health window is decided and every failed one rolled back to what was
known to be good. Once the kill switch is on, sub-agents stop after at most one
more tool; every job ends; a chat request is run once and answered unless the
batch is clogged; only tested code is loaded; rows of the setup never mix two
accounts.

## 2. Modules

| module | what it is |
|---|---|
| `GoalPlan` | abstract: the life of one goal's rows, as the comments of the tables promise it |
| `AgentLoop` | one goal: its loops, evaluator, replanner, journal, recovery, boot, shutdown, operator |
| `Supervisor` | all goals: ticks, map, cap, staggered restart, shutdown; a loop is only "runs, may set its goal's status, ends" |
| `Promotion` | self-modification: runs of the GitHub pipeline, the status row and the baseline, the health monitor, the automated rollback |
| `KillSwitch` | the row of the switch, its writers and audit rows, the guards with their cache |
| `SubAgents` | sub-agent jobs on BullMQ, worker slots, tool calls with log rows and timeouts, the collector; extends `KillSwitch`, whose guards every job asks |
| `Verifier` | a change of a built-in tool before the pipeline: compilation, worktree, builds under a timeout, clean-up, events; spells out in steps what `Promotion` takes as one step `Verify` |
| `ToolBuild` | tools the agent writes for itself: sandbox, files, two registries, reload jobs; schema migrations |
| `Mailbox` | abstract: the life of a chat request's row |
| `ChatRelay` | tabs, POST handlers, the rows of the chat, the relay's ticks; implements `Mailbox` |
| `Setup` | the handlers of the setup wizard, the OAuth callbacks, the agent's trusted context |
| `AgentLoop_proofs` (with `GoalPlan`'s), `Supervisor_proofs`, `Promotion_proofs`, `SubAgents_proofs`, `Verifier_proofs`, `ToolBuild_proofs`, `ChatRelay_proofs`, `Setup_proofs` | theorems |
| `MCAgentLoop`, `MCSupervisor`, `MCPromotion`, `MCSubAgents`, `MCVerifier`, `MCToolBuild`, `MCChatRelay`, `MCSetup` | the model values, plans, priorities and files of the instances |

Throughout, a label names the await at which an actor is, a step is what happens
up to the next one, and definitions named `Bug...` are wrong variants of the
definition after them, by which it was tried whether a property notices.

**AgentLoop.** `pc[l]` names the await loop `l` is at; a step is what the code
does from one await another actor can tell apart to the next. The labels follow
the source from top to bottom:

| labels | code |
|---|---|
| `top`, `check`, `finish`, `clear` | head of `runGoalCycle`: flag, `getNextSubGoal`, `isGoalComplete`, `updateGoalStatus`, `clearJournal` |
| `start`, `turn`, `call` | `executeSubGoal`: set in-progress; limit, flag and kill switch; the answer |
| `ckptRead`, `ckptWrite` | one attempt of `checkpoint` |
| `evaluate` | `evaluateOutcome` and `shouldReplan` |
| `replan`, `count`, `escalate`, `escalated` | `incrementReplanCount` (select, update), the limit, the two writes of `paused` |
| `survey`, `judge`, `skip` | the replanner's snapshot, the LLM's judgement of running rows, the skipping of pending ones |
| `plan`, `insert`, `resolve` | `decomposeGoal`: planner, first pass, second pass |
| `finally` | `logCycleComplete` and the then/catch of `spawnMainAgent` |

`phase` is the process: `down`, `detect` (kill switch activated, recovery reads),
`reset` (rows taken back), `up`, `stopping`. `tick` is the supervisor as this
goal sees it: what a tick read of the goal and has not acted on yet.

Abstractions: a plan is a sequence of descriptors with index dependencies
(1-based here, an index past the end is one the planner invented); an outcome is
`completed` or `failed`; messages and tool results are not kept, because no
control depends on them but the finish reason; an evaluation is its severity;
`planning_cycles` is kept as the set of the sets of closing rows its cycles have
(all that can be asked of an append-only log of anonymous cycles); a journal is a
set of entries. The kill switch is read from its row: the cache of one second,
which only moves the moment at which it is read, is the matter of `KillSwitch`.
The rows a goal has at first boot
come from outside `decomposeGoal`, since only the replanner calls it; the
operator's pause and activation of a goal are an UPDATE of the row, since no
route does it (`index.ts:352` expects the operator to). A cycle whose first
statements fail leaves no trace and is no step. A judgement of the replanner is
one step, taken when its call would be made.

**Supervisor.** A tick is `idle`, `spawn` (between goals), `build` (awaiting the
strategy of a goal that passed the has and size checks), `stop`, `health`. `Ticks`
is a set, because `setInterval` does not wait. The staggered restart runs the
same spawn loop under `phase = "stagger"`. `Reactivates` says whether the
operator may activate a goal again while a loop of it still runs; in the run it may.

**Promotion.** `run[r]` is one call of `tool_write` with `builtinModify`,
`tick[t]` one call of `tickSelfExtensionHealthMonitor`; again a label is an
await, and a step is what happens up to the next one.

| labels | code |
|---|---|
| `verify` | `stageBuiltinChange` before the pipeline: compilation and isolated verification, passed or not |
| `control`, `status` | the pause and the status row, read before the first GitHub call |
| `branch`, `commit`, `pull`, `evidence`, `gate` | ensure the branch, commit the file, upsert the pull request, publish and read back the status |
| `recontrol`, `merge`, `cleanup` | the pause again, merge with head guard, deletion of the branch |
| `baseline`, `record` | read of the baseline, write of the row that opens the window |
| `health`, `confirm`, `passed`, `rewrite`, `failed` | the monitor: heartbeat; baseline and row when healthy; row rewritten before the deadline; row failed after it |
| `rollback`, `start` | `runAutomatedRollback`: row read, idempotency, row written |
| `restore`, `merge`, `cleanup`, `restored`, `rolledback`, `giveup` | `runGitHubRollbackPipeline` and the writes that follow it |

GitHub is external: a branch is the tree it was made from, the new content of the
one file the change rewrites, its tip and whether its pull request is open; a
merge is a squash, so the default branch gets the content and never the commit;
it is refused when the tip is not the head the caller names, or on a conflict in
the file. Branches are named by what is changed and the execution context, so two
runs of one `Changes` member share one. Commits of runs are numbered; a baseline
is such a number, 0 for none. `RestoreFile` is one step for the calls that read
the old file and make branch, commit and pull request of a rollback, and a
rollback branch is named by the change it takes back. Time is
`DeadlinePasses`; the cooldown of five minutes is a choice. `good` is a history
variable. Events are left out; an insert that throws is a run or a tick that
fails. `SetPause` is the operator's: nothing in `apps/` calls
`setPromotionControlState`.

**KillSwitch and SubAgents.** A writer is `activateKillSwitch` or
`deactivateKillSwitch` at its `select`, `write` or `audit`; a guard is a
`KillSwitchGuard`, one in the router and one for tools; `ask` is an `isActive`
under way: the time is taken before the select, so that its answer expires `TTL`
after the question. `clock`, `since`, `made`, `lost` and `after` are history.

| labels | code |
|---|---|
| `job` (`waiting`, `active`, `completed`, `failed`) | the job in Redis. External: BullMQ gives waiting jobs to free slots, keeps returned values, hands a stalled job out again |
| `work` (`llm`, `tool`) | the processor of `createAgentWorker`: its turn, and the tool calls of the answer that are `left` after the one under way |
| `call` (`check`, `log`, `running`, `polled`, `returned`, `threw`, `timedout`) | `invokeWithKillCheck`, `logToolStart`, `withTimeout` around `execute`, the second row |
| `loose` | executions whose timer has fired: the tool goes on, and acts |
| `collect` | `collectResults` |

An answer of the LLM is a list of up to `MaxCalls` tool calls, run one after the
other with the tools' guard alone before each (`agent-worker.ts:127-170`);
`NextCall` begins the next of them, or the next turn, which the router's guard
precedes, when none is left.
Tools are told apart by what they do to the queue: `effect`, `spawn`, `await`,
`cancel`. Prompts and results are left out. A job that `Crash` left active is
taken up by the stalled check.

**Verifier.** `run[v]` is one `stageBuiltinChange`; `cmd[v]` is the bounded
command it awaits: the child, whether its timer has fired, whether a helper the
build started still holds its pipes. A worktree is its directory and git's entry,
which a failing or killed git may leave apart; its name is tool and millisecond
(`Stamp`). What git and the builds leave is external. `seen` is history: the stages
that exited with 0 in time, in a worktree that held this change.

**ToolBuild.** `disk`, and `registry` for the agent and the worker process;
a module is named by the call that wrote it, and may say a name that is not the
file's. A `tool_write` is `compile`, `sandbox`, `import`, `loaded`; the sandbox is
a process whose message, exit and timer come in any order; loaders are the boot
of both processes and the reload jobs. `check`, `ddl`, `insert`, `commit` are
`applyAgentMigration` in its transaction: what is not committed is not seen, and
the unique name makes an insert wait. Built-in tools are `Early` or `Late`, by
whether they are registered before or after the persisted ones
(`index.ts:286-335`).

**ChatRelay.** `post[r]` is the POST handler of a message: `load`, `save-look`,
`save`, `latest-look`, `latest`, `insert`, then `wait` while it polls, `final`,
`delete`. `tick[t]` is a tick of the relay: `select`, `take`, `run`, `complete` or
`fail`; `busy` is the flag that keeps ticks apart. `order` has the request rows by
`updated_at`. A row is `absent`, `pending`, `processing`, `completed` or `failed`.
A write may be applied and throw all the same (`PostWrites`, `TakeRequest`,
`WriteAnswer`): an insert leaves a row whose POST has failed, a take leaves the
row `processing` for ever, and a completed update that throws is followed by the
catch's failed one (`operator-chat-relay.ts:282-302`), before or after the POST has
read the answer. `Mailbox` therefore lets an answer be revised.
The refinement mapping sends an absent row to `new` before its POST has
answered and to `gone` after. Texts are left out: a message is known by its
request.

**Setup.** Each call of a handler is a frame with its label and what it has
read. `rows` are the rows of `setup_state`, read with `limit(1)` in no order;
`creds` is the GitHub token's row of the callback of a flow; whether an
OAuth app is configured is one bit; keys and tokens are not kept. `torn` is
history: a callback that was not alone or broke off ("token"), a bind that was
under way when an account was connected ("repo"). A connection that clears the
repository of the one row it writes takes "repo" back only when no other row is
bound: `setup_state` may have two.

## 3. Runs

Passing:

| run | instance | shows |
|---|---|---|
| `loop_single` | one loop; three rows; an initial plan whose first row depends on the second (priority against dependency); a replan of one row, whose index may be out of range; 2 turns, 1 replan, 1 fault; about 536,000 states | dependencies, no stale read (the journal's truth is a part of it), checkpoints keep up, no re-execution, refinement of `GoalPlan`; cycles end, no row stays ready for ever, an inactive goal's loop stops |
| `supervisor_ticks` | two goals, cap 1, two loops, two ticks that overlap, goals paused and activated at any time, one fault; about 740,000 states | an entry of the map is a loop that runs; the first goal, while active, is served again and again |
| `promotion_single` | two changes of one file, one run, one tick, 2 commits, 1 fault; about 70,000 states | row and baseline agree after every crash and failed tick; windows close; a rollback merges the file of the baseline its row named, and gives back the file of the last good state |
| `promotion_shared` | two runs of the same two changes, one tick, 2 commits; about 2,000,000 states | what is merged has published successful evidence, although a branch is shared |
| `agents_pool` | two jobs, one slot, 2 turns of one tool call, one stall, 1 fault (crash, failing call or failing log insert), the switch off; about 500,000 states | every job ends although one may await the other while it has the only slot; open log rows are explained; what was collected stands |
| `agents_kill` | one job of 2 turns of up to 2 tool calls, two writers, two guards, TTL 1, time to 2, 2 writes, 1 lost audit row; about 2,700,000 states | a cached answer is wrong for less than the TTL; each change has its audit row; at most one more tool begins |
| `verifier_pair` | two changes of one tool in different milliseconds, 1 fault | only what ran every stage well goes on, with its event; leftovers are reported; changes end |
| `tools_calls` | three calls, one name of its own and a built-in of either kind, one migration, 1 fault; symmetry of calls | only tested code is on disk or registered; the worker catches up; DDL and record agree |
| `chat_tabs` | two tabs, two messages, two ticks, a history of three, a batch of one, 2 turns, 1 fault | one run per request; refinement of `Mailbox`; replies follow their messages; a pending request is taken unless the batch is clogged |
| `setup_races` | two users with a repository each, two flows and callbacks, a key, a bind, the agent, a dashboard, 1 fault | rows never mix accounts; token usable and repository writable save after the overlaps named; the key comes to be shown |

Why the bounds are enough: three rows let a plan of two be followed by a row of
a replan, two rows let one be stranded while the other waits; one replan allowed
gives both a replan and the escalation that follows the next; two turns
distinguish the first call from a later one; two tries of a checkpoint give a
retry and a throw. One fault is a crash, a failed write or a failed call; what
takes two, like a crash during the recovery of a crash, is left to the theorems,
which bound nothing. A cap below the number of goals makes goals
wait, more loops than the cap makes cancelled loops outlive their entry, two
ticks are what it takes to overlap. Two
commits give a promotion with a baseline after one without, and a branch on which
a second commit overtakes the first.
One slot for two jobs is the least that makes a job wait for one that waits for
its slot; two calls of one answer put a tool behind the tools' guard alone, where
`agents_kill` counts it, and in `agents_pool` would only repeat what a second
turn does; time to `2 * TTL` lets a cached answer expire after a change of the row
and be asked for once more. Two changes make one verification prune while the
other has its worktree open. Three calls let a call
take the file from under a second one while a third has written it. A batch of one
is the batch with nothing behind it: one row left over clogs it; a history of three
is cut by two messages with replies. Two callbacks and two users let an account
be connected while a bind or another callback is under way. Symmetry is used in
`tools_calls` only, which has no temporal property.

Two runs check what a document says and find it violated.
`tools_persist` checks README.md:53, "Authored tools persist across
restarts and reload on boot". It is violated without any fault:
a `tool_delete` during the import of a `tool_write` takes the file of a tool that
is registered all the same, and an update that fails after its file was written
unlinks the file of the version in use (`tool-writer.ts:255-291`).
`promotion_overlap` has two runs and checks that new promotions are blocked while
one is unresolved (`.planning/STATE.md:52`, `OnePromotionAtATime`). Both runs read
the row before either merges (`github-pipeline.ts:921`), one is promoted, and the
other merges into its health window.

More were met while modelling. They follow from few lines, and are told here:

*Goals.*
- a restart resumes interrupted work (README:57, RECOV-02): recovery puts the row
  back to pending, but boot has activated the kill switch, so the loop sets the row
  in-progress, its first call throws, and the row is never chosen again
  (`agent-loop.ts:139`, `router.ts:77`);
- a plan whose second pass throws leaves rows without their dependencies, and the
  loop starts them (`goal-manager.ts:107` against `goals.ts:43`);
- a failed outcome does not trigger a replan (LOOP-03): no outcome carries the
  field the evaluator looks for (`evaluator.ts:90`);
- not one loop works on an active goal (`supervisor.ts:38`), but two: ticks that
  overlap pass the `has` check together (`:84`, `:119`), and the end of a
  cancelled loop deletes the map's entry of its successor, which then cannot be
  stopped (`:126`). With `OneLoopPerGoal` for `MapEntriesRun` in
  `MCSupervisor_ticks.cfg` TLC shows the first in eight states, and with
  `Ticks = {t1}` the second;
- the kill switch does not keep its state over a restart (`index.ts:150` against
  README:55, KILL-04), and a cycle sets a sub-goal in-progress before it first looks
  at it (`agent-loop.ts:139`, KILL-02);
- an orderly shutdown marks the sub-goal in flight failed (`agent-loop.ts:147`,
  RECOV-03);
- recovery adds an interrupted row to every cycle that ever was
  (`startup-recovery.ts:104`, `planning-cycles.ts:3`);
- nothing decomposes a new goal, and without sub-goals it counts as complete
  (`goal-manager.ts:262`, LOOP-01);
- more loops than the cap may run (`supervisor.ts:27`): ticks that overlap pass the
  size check together, which `MapWithinCap` in the same place shows, and
  `stopMainAgent` frees a slot while the loop still runs (`:153`);
- two loops of one goal may count one replan (`goal-manager.ts:244`), and use what
  the other has changed since they read it.

*Promotion.*
- a crash between the write of `health_failed` and the rollback, or during the
  rollback, leaves a row no tick acts on, and promotions blocked
  (`self-extension-health.ts:155`, `:235`, `rollback-controller.ts:121`);
- a branch left by an earlier run is reused; its tree lacks what was merged since,
  becomes the baseline, and a rollback of another file takes a good promotion back
  (`github-pipeline.ts:418`). `RollbackRestoresKnownGood` holds with changes of
  one file and one run and tick, which is what `promotion_single` has;
- a branch that cannot be deleted after the merge makes the run report a failed
  merge and opens no health window (`github-pipeline.ts:1148`);
- the first promotion has no baseline, so if its window fails the rollback fails
  and all promotions are blocked (`rollback-controller.ts:172`);
- monitor ticks may overlap, and one can write back a row the other has decided
  (`self-extension-health.ts:287`); the runs have one.

*Tools and sub-agents.*
- `await-agent` reads the job, then its state, and returns the value of the first
  read: a job that completes between them is returned without its value
  (`sub-agent-tool.ts:61-65` against `agent-worker.ts:70`), and `getJobStatus` has
  the same order;
- nothing adds to the tool-execution queue, whose worker never has work;
- the sandbox file is named by the millisecond, and so is a worktree: two changes
  of one tool in the same one would share it (`staging-deployer.ts:89`);
- the transaction of a migration runs the DDL as it was given, and a `COMMIT` in it
  would end the transaction before the record is inserted (`schema-extend.ts:82`);
  `MigratedOnce` is for DDL without one;
- a tool under test that calls `process.send` itself may pass for tested; the
  model's child sends its one message at its end (`sandbox-runner.ts`);
- the verifier's warnings of leftovers (`LeftoversReported`) go no further than its
  result, which `staging-deployer.ts` does not forward;
- nothing calls `collectResults`: what is shown of it is what a caller would get;
- the worker unregisters no deleted tool, and a persisted tool that says the name
  of a late built-in tool makes the next boot fail (`tool-loader.ts:43`,
  `registry.ts:18`).

*Dashboard.*
- an update to `completed` that is applied and throws is followed by `failed`
  (`operator-chat-relay.ts:282-302`): the operator reads an error for a message that
  was answered, or an answer whose row says failed; a take that is applied and
  throws leaves its row `processing` (`:260`), which nothing takes up again;
- POSTs that overlap write back the history they read before, and lose each
  other's messages (`chat.ts:236`);
- a POST that gives up leaves its row, and 50 such rows keep the relay from ever
  seeing another request (`operator-chat-relay.ts:232`);
- `setup_state` may get two rows, as look and insert are two statements, against
  "only one row ever exists" (`setup-state.ts:11`);
- a bind under way while another account is connected leaves the repository of
  the one with the token of the other (`setup.ts:472`); callbacks that overlap may
  leave the row naming a rotated token (`github-oauth-callback.ts:119`),
  and so may one that breaks off. The properties of `Setup` except both (`torn`).

Deadlock is checked in the runs of `AgentLoop`, `Supervisor` and `Promotion`, whose
timers never stop. A failed sub-goal is no deadlock: the goal
stays active, and every tick starts a cycle that finds nothing to do. The other
instances have a fixed number of jobs, changes, calls or messages and stop when
all are done, so there it is not; that nothing stays half done is what
`JobsEnd`, `ChangesEnd` and `ServedUnlessClogged` are for.

Fairness. `LoopStep`, `Spawn`, `Tick`, `Stop`, `BootStep` in `AgentLoop`, the
steps of a round, `LoopEnds`, `Boot` and `Exit` in `Supervisor` are weakly fair:
Node runs each continuation it has, provider and database calls end or time
out, `setInterval` fires again, the restart policy brings the process back.
In `Promotion` a tick's steps are weakly fair (the timer fires again, each call is
answered or fails: `RestoreFails` is always possible) and so is the passing of
time; runs and the operator need not do anything. A heartbeat may stay bad for
ever. Nothing is assumed of the operator, of the LLM's verdicts, or of faults, except
that there are at most `MaxFaults`. `LoopEnds` rests on `AgentLoop!CyclesEnd`.
In `SubAgents` BullMQ serves its queue, processors go on and timers fire; a tool
need never return. In `Verifier` the code goes on and both timers fire; a child or
a helper may hang for ever, which is why `ChangesEnd` excepts a helper that
outlives its build. In `ChatRelay` handlers and ticks go on, the two minutes pass,
and an agent that stopped is started again; tabs need not send. In `Setup` only
the dashboard is assumed to be looked at again and again: `useSetupState` has no
interval, it fetches when its page is mounted or gets the focus, so `KeyShown` is
for an operator who comes back.

## 4. Proofs

All theorems hold for every value of the constants that the named assumptions
allow: any number of sub-goals, plans, turns, replans, tries, faults, goals.

What the constants must satisfy is in the assumption of each module, which TLC
evaluates in its runs: bounds are naturals; callers, files and messages of
different kinds are apart; writers of the switch, jobs and calls are finite sets,
because properties count them; and where a record names a message, a tool or a
migration there is one.

*GoalPlan*, in `AgentLoop_proofs`, over the instance `Plan`. `PlanTypeCorrect`,
`PlanDependencySafety`, `PlanCompletionSound`, `PlanTerminalIsFinal`. Dependency
safety is inductive with the type invariant, since `Settled` rows stay settled
(`RowStep`) and `Link` changes only pending rows; completion needs that nothing is
added to a completed goal (`CompletionStep`).

*AgentLoop.* `TypeCorrect` holds with any number of loops. The others assume
`OneLoop`, at most one member of `Loops`: with two loops they are false, and
the end of a cancelled loop (section 3) is one way two come about.

- `ReadsAreFresh`: `[]NoStaleRead`. The inductive invariant `SafeInv` is
  `TypeOK /\ NoStaleRead /\ CompletionSound`. `NoStaleRead` says, per label, what
  the loop's locals still mean: the row chosen is still actionable at `start`, in
  progress at `turn` and `call`; `isGoalComplete` still holds at `finish`; the
  snapshot of the replanner still holds at `judge` and `skip`; the rows inserted
  are still pending at `resolve`; entries read from the journal are true of the
  table. It is needed because each write is guarded in the code only by a read
  several awaits earlier. Each action is one lemma step; actions of other actors
  are harmless because they touch either no row (operator, tick, kill switch) or
  only rows no loop holds (recovery runs when `Serving` is false, `LoopsServe`).
- `LoopImplementsPlan`: with `SafeInv`, every step is a step of `GoalPlan` or
  leaves its variables alone. The refinement mapping is the identity on
  `goalStatus`, `status`, `dependsOn`.
- `LoopKeepsDependencies`, `CompletedIsSettled`, `EndedStaysEnded`: through the
  refinement, from the theorems of `GoalPlan`. `JournalNeverAhead` is a conjunct of
  `NoStaleRead`.
- `JournalKeepsUp`: `[]CheckpointsKeepUp`. `KeepInv` counts the completed rows that
  are neither in the journal nor the one being checkpointed: at most `faults`, and
  one less while the process is stopping, since a shutdown is a fault that takes
  its row only when it exits. Needed with it: between the read and the write of a
  checkpoint the journal is what was read, and the row is still what the
  outcome says.
- `ExecutedOnce`: `runs[i] <= 1 + faults`, by `RunsBounded`: a row that is pending
  has been started at most `faults` times, since only recovery makes a started
  row pending and it needs a new fault each time.

*Supervisor.* `TypeCorrect`; `CapKept` assumes one tick at a time (`OneTick`):
`CapInv` adds that a tick at `build` has found room which no one else took;
nothing in the code keeps a tick within the interval of ten seconds, and it is false
otherwise (section 3), so that no run checks it. `EntriesKept` assumes nothing of
ticks and operator: an entry names a loop that runs and was not told to stop, since
an entry is set with the start of its loop, and each of the two ways a loop ends or
is told to stop takes the entry of its goal with it (`EntriesInv`, which adds that a
tick that waits for a strategy has a goal).

*Promotion.* `TypeCorrect` and `EvidencePublished` hold for any number of runs and
ticks. The type invariant needs `TypeInv`: a commit that is named has been made,
and a tick past `rollback` has a baseline to restore. `EvidenceInv` adds that a
run past `verify` has passed, and that at `gate`, `recontrol` and `merge` its
commit has a successful status; statuses never go back (`SuccessStays`), since
only a run that passed publishes one. With the head guard of the merge that gives
the theorem although another run may move the branch.
`BaselineCorrect` assumes `OneEach`, one run and one tick at a
time; it is false otherwise. `AloneInv`
says that a run past the check of the row finds no unresolved promotion, that the
row a tick holds is the row as it is, and which status and baseline each label of
a tick implies.
`RollbackGoesBack` is `RollbackMergesBaseline` for any number of runs and ticks, on
any files: `RestoreInv` says that the branch of a tick about to merge, as long as
it is the one that tick made, has the file as it was at the baseline the tick's row
named. Runs only add commits, and a tick that made the branch its own moves the
head, so that the head guard refuses the merge of the other. What the default
branch has afterwards in other files, or when the baseline itself was of a reused
branch, is not promised (section 3).

*SubAgents.* The theorems hold for any number of jobs, guards and writers and any
`TTL`. `KillIsHeard` rests on `Lasts`: an answer that is kept, or on its way, agrees
with the row now or expires less than `TTL` after the row last changed, because
the time is taken before the select. `KillStopsSubAgents` counts, per job, the tools
begun `TTL` and more after an activation: after the one whose check had passed, each
answer either guard has or gets is "on" (`Counted`, `AsksFirst`, `Knows`).
`OpenRowsAccounted` counts rows (`RowsInv`): a fault leaves at most one per job
open, and nothing else leaves any. `CollectedIsFinal` needs that what the
collector has got is how the job stands (`CollectInv`) and that no step changes a job
that ended. `AuditComplete` needs no more than `AuditAccounts` and the types: each
write makes one change and one writer that records it, and each record takes its
writer away.

*Verifier.* `TypeCorrect` holds for any changes; it needs `StagesInv`, which stages
a verification has at each of its commands, so that no name is appended twice.
`PipelineIsVerified` and `LeftoversAreReported` assume `StagedApart`, that no two
changes of a tool are staged in one millisecond: such two share a worktree, and
one may build what the other wrote (section 3). `VerifierInv` says per change that
a stage that passed ran to its end on the candidate (`StagesTrue`), that the
worktree holds the candidate while a stage runs and what a removal or a prune leaves of
it (`WorktreeHolds`), and which events were recorded (`EventsSo`). Another change can
only prune entries whose directory is gone, which takes nothing the invariant
speaks of.

*ToolBuild.* `UntestedIsNowhere`: a module that was not tested is in no file,
registry, loader or call that registers it, and its sandbox has not reported success
(`TestedInv`). `DDLMatchesRecord`:
at most one transaction has inserted a name not yet recorded (`MigInv`), because the
unique name makes a second insert wait. `WorkerHasTheFiles`: until a change is
missed, each file is registered in its version on disk and no loader is about to
register an older one, or something is still to come for it: a job that waits, a
name on the job's list, a loader that holds the newest version, or a call that will tell
the worker (`Covered`). `TypeCorrect` includes that reload jobs are at most as many
as calls that succeeded.

*ChatRelay.* `RequestRunsOnce`, `AnswerLeavesNoRow` and `RelayImplementsMailbox` follow
from one invariant about who owns a row: before its insert and after its deletion
the POST, while it is pending or processing the relay (`PostOwns`, `RelayOwns`).
That only one tick is past `idle` follows from `busy`, set and read without an
await between them. It covers crashes of both processes, since a row stays
`processing` when its tick is gone. `RepliesFollowTheirMessages`: in what is saved,
and in what each POST keeps in memory, a reply stands right behind its message
(`Paired`), and a POST that waits keeps its message last; so a cut at the front
takes a message only with what is before its reply. `TypeCorrect` needs that
`order` names each row that is there once (`OrderInv`). A row is taken out of `order`
by `Without`, the order with the row skipped, rather than by a filter.

*Setup.* `TypeCorrect`, `StateExchangedOnce`, `SetupConsistent`. A flow that was
consumed is owned by one callback (`OwnFlows`), because the update that looks for an
open state consumes it; what a callback holds of a flow is still so when it
writes (`CallbackFits`); and a bind or a view writes only fields that keep a row
consistent whatever the row has become (`RowFits`). `TokenStaysUsable`: unless
callbacks overlapped or one broke off, at most one is connecting, and its token and
that of the one row are active (`TokenInv`). `TrustIsJustified`: unless a bind was
overtaken by a connection, every repository of a row is one its user may push to
(`MayPush`), and what a bind or the agent has read of row, token and user still fits
together (`BindFits`, `TrustFits`). The first attempt at this proof failed for a
reason: a connection took back "repo" though another row of `setup_state` was still
bound to a repository of a former user, which TLC then showed with three flows.
`torn` was corrected accordingly.

Every safety property a passing run checks, invariant or of steps, and both
refinements are proved, but for `RollbackRestoresKnownGood`, which is true only of
one run, one tick and changes of one file, and is left to TLC. The type invariants of `AgentLoop`, `Supervisor`,
`Promotion` and `Setup` are proved, and no run checks them; nor do runs check what a
proved theorem or a refinement already gives (`CompletionSound`, `JournalTruthful`,
`AnsweredGone`, `StateUsedOnce`).

Only model-checked is liveness, which fairness puts out of the prover's reach:
`InactiveGoalStops`, `ReadyWorkStarts`, `CyclesEnd`, `TopGoalsServed`,
`WindowCloses`, `JobsEnd`, `ChangesEnd`, `ServedUnlessClogged` and `KeyShown`.
What `ensureRequiredStages` returns is written as three applications of `EnsureStage`, one
for each required stage, so that no induction over the list is needed; a fold over
any list of stages would be out of reach as well.

## 5. Not modelled, and the plan

Modelled in part: the calls that prepare a rollback one by one (in `RestoreFile`
they are one step), the trust guard's place in the pipeline (a call that may
fail; what it reads is in `Setup`), the closing of queues and pools in a shutdown,
the notices to Discord, costs and model names of calls, `planNextAction` (no caller).

Not modelled:
- memory consolidation: a timer that takes at most 100 rows and stamps the present
  time; rows beyond the batch or written meanwhile are skipped
  (`memory-consolidation.ts:133`, `:60`). It shares its rows only with writers that
  insert;
- strategies: only two reads are called, and nothing creates, pauses or ends one;
- identities and credentials: statements on rows of their own, with an audit row
  each; no other part reads them, but for the token in `Setup`;
- the feed (poller, broadcaster, event stream, its hooks) and the read routes:
  last ids and open connections, no row is written;
- the cost monitor: a balance is read and a message sent;
- tools that are one I/O call, package installation, the browser's page handling,
  the CLI (two calls, writers of `KillSwitch`), the landing page, installation
  scripts, table declarations without a writer of interest.

What is left of the plan is proof: a promise of `Promotion` of its own (a baseline is
a head that was observed healthy) that it implements; `Verifier` as what `Promotion`
takes as one step `Verify`; and how far the theorems of one run and one tick
reach when ticks overlap but runs do not.
