------------------------------ MODULE Verifier ------------------------------
(* A change to a built-in tool on its way to the pipeline of Promotion:    *)
(* stageBuiltinChange compiles it, runIsolatedVerification builds it in a  *)
(* git worktree of its own and removes the worktree, and each step is      *)
(* recorded as an event (staging-deployer.ts, isolated-verifier.ts,        *)
(* workspace-isolation.ts, verification-policy.ts, verification-           *)
(* diagnostics.ts).  git and the builds are child processes with a timeout *)
(* (bounded-command.ts); a build starts helpers of its own, which keep its *)
(* output pipes open for as long as they live.                             *)
EXTENDS Naturals, Sequences, FiniteSets

CONSTANTS
    Changes,   \* calls of stageBuiltinChange for one tool
    Stamp,     \* change -> Date.now() when it is staged
    MaxFaults  \* bound: inserts, file operations and spawns that fail, crashes

ASSUME VerifierAssumption ==
    Stamp \in [Changes -> Nat] /\ MaxFaults \in Nat

VARIABLES
    run,    \* change -> where stageBuiltinChange is and what it has
    cmd,    \* change -> the command it awaits and its processes
    tree,   \* run id -> the worktree's directory and git's entry for it
    events, \* change -> self_extension_events rows
    seen,   \* history: change -> stages that ended well, on the candidate
    faults  \* failures so far

vars == <<run, cmd, tree, events, seen, faults>>

Required == <<"compile", "targetedTests", "startupSmoke">>
Git      == {"add", "remove", "prune"}
Names    == {"setup", "cleanup"} \cup {Required[i] : i \in DOMAIN Required}
Statuses == {"pass", "fail", "timeout", "error"}
Over     == {"uncompiled", "blocked", "pipeline", "threw", "dead"}

\* runId, from which the worktree's path is made.
RunId(v) == Stamp[v]
RunIds   == {Stamp[v] : v \in Changes}

Stage == [name: Names, status: Statuses]
Run   == [at: {"new", "compile", "uncompiling", "verify", "command", "record", "refuse"} \cup Over,
          stages: Seq(Stage), made: BOOLEAN, warned: BOOLEAN, passed: BOOLEAN]
Cmd   == [what: Git \cup Names \cup {"none"}, child: {"up", "exited", "unborn"},
          ok: BOOLEAN, helper: BOOLEAN, timedOut: BOOLEAN, absent: BOOLEAN]
Tree  == [dir: BOOLEAN, entry: BOOLEAN, holds: Changes \cup {"base", "nothing"}]
Row   == {"proposed", "uncompiled", "tested-pass", "tested-not", "failed"}

NoTree == [dir |-> FALSE, entry |-> FALSE, holds |-> "nothing"]
NoCmd  == [what |-> "none", child |-> "exited", ok |-> TRUE, helper |-> FALSE,
           timedOut |-> FALSE, absent |-> FALSE]

Init ==
    /\ run = [v \in Changes |-> [at |-> "new", stages |-> <<>>, made |-> FALSE,
                                 warned |-> FALSE, passed |-> FALSE]]
    /\ cmd = [v \in Changes |-> NoCmd]
    /\ tree = [r \in RunIds |-> NoTree]
    /\ events = [v \in Changes |-> <<>>]
    /\ seen = [v \in Changes |-> {}]
    /\ faults = 0

Fault == faults < MaxFaults /\ faults' = faults + 1

-----------------------------------------------------------------------------
(* runBoundedCommand. *)

Spawned(what, helper) == [NoCmd EXCEPT !.what = what, !.child = "up", !.helper = helper]
Unborn(what)          == [NoCmd EXCEPT !.what = what, !.child = "unborn"]

\* spawn, or a spawn that fails; builds may have helpers.
Spawn(v, what) ==
    \/ /\ \E h \in (IF what \in Git THEN {FALSE} ELSE BOOLEAN) :
             cmd' = [cmd EXCEPT ![v] = Spawned(what, h)]
       /\ UNCHANGED faults
    \/ /\ cmd' = [cmd EXCEPT ![v] = Unborn(what)]
       /\ Fault

\* Mutant: the exit code is looked at first.
BugStatus(c) ==
    CASE c.child = "unborn" -> "error"
      [] c.child # "unborn" /\ c.ok -> "pass"
      [] OTHER -> IF c.timedOut THEN "timeout" ELSE "fail"

\* classifyStatus.
Status(c) ==
    CASE c.child = "unborn" -> "error"
      [] c.child # "unborn" /\ c.timedOut -> "timeout"
      [] OTHER -> IF c.ok THEN "pass" ELSE "fail"

InCommand(v) == run[v].at = "command"
Up(v)        == InCommand(v) /\ cmd[v].child = "up"

\* What a git command that ends leaves of the worktree: all of its work when
\* it succeeds, part of it when it is killed or fails.
GitLeaves(v, ok) ==
    LET r == RunId(v)
        Entryless == [q \in RunIds |-> [tree[q] EXCEPT !.entry = @ /\ tree[q].dir]]
        Added     == [dir |-> TRUE, entry |-> TRUE, holds |-> "base"]
        Part      == {[dir |-> d, entry |-> TRUE, holds |-> "base"] : d \in BOOLEAN}
    IN  CASE cmd[v].what = "add" ->
               \E t \in (IF ok THEN {Added} ELSE Part \cup {tree[r]}) :
                   tree' = [tree EXCEPT ![r] = t]
          [] cmd[v].what = "remove" ->
               \E t \in (IF ok THEN {NoTree} ELSE {tree[r], [NoTree EXCEPT !.entry = tree[r].entry]}) :
                   tree' = [tree EXCEPT ![r] = t]
          [] cmd[v].what = "prune" -> tree' = IF ok THEN Entryless ELSE tree
          [] OTHER -> tree' = tree

\* The child exits by itself, before its timer or after the first signal.
ChildExits(v) ==
    /\ Up(v)
    /\ \E ok \in BOOLEAN :
         /\ ok /\ cmd[v].what \in {"add"} => ~tree[RunId(v)].entry
         /\ ok /\ cmd[v].what = "remove" => tree[RunId(v)].entry
         /\ cmd' = [cmd EXCEPT ![v].child = "exited", ![v].ok = ok,
                               ![v].absent = cmd[v].what = "remove" /\ ~tree[RunId(v)].entry]
         /\ GitLeaves(v, ok)
    /\ UNCHANGED <<run, events, seen, faults>>

\* The timeout: SIGTERM, and a second timer.
TimerFires(v) ==
    /\ InCommand(v) /\ cmd[v].child # "unborn" /\ ~cmd[v].timedOut
    /\ cmd' = [cmd EXCEPT ![v].timedOut = TRUE]
    /\ UNCHANGED <<run, tree, events, seen, faults>>

\* Mutant: SIGTERM was all.
BugForceKill(v) == FALSE /\ UNCHANGED vars

ForceKill(v) ==
    /\ Up(v) /\ cmd[v].timedOut
    /\ cmd' = [cmd EXCEPT ![v].child = "exited", ![v].ok = FALSE]
    /\ GitLeaves(v, FALSE)
    /\ UNCHANGED <<run, events, seen, faults>>

HelperEnds(v) ==
    /\ InCommand(v) /\ cmd[v].helper
    /\ cmd' = [cmd EXCEPT ![v].helper = FALSE]
    /\ UNCHANGED <<run, tree, events, seen, faults>>

\* 'close' comes when the child has exited and nobody holds its pipes.
Closes(v, what) ==
    /\ InCommand(v) /\ cmd[v].what = what
    /\ cmd[v].child = "unborn" \/ (cmd[v].child = "exited" /\ ~cmd[v].helper)

-----------------------------------------------------------------------------
(* runIsolatedVerification. *)

With(stages, name, status) == Append(stages, [name |-> name, status |-> status])

\* deriveVerificationRunStatus says "pass".
Passes(stages) == \A i \in DOMAIN stages : stages[i].status = "pass"

\* Mutant: a stage counts as run when it passed.
BugEnsureStage(stages, n) ==
    IF \E i \in DOMAIN stages : stages[i] = [name |-> n, status |-> "pass"]
    THEN stages ELSE With(stages, n, "error")

\* A required stage that did not run is an error.
EnsureStage(stages, n) ==
    IF \E i \in DOMAIN stages : stages[i].name = n
    THEN stages ELSE With(stages, n, "error")

EnsureRequiredStages(stages) ==
    EnsureStage(EnsureStage(EnsureStage(stages, Required[1]), Required[2]), Required[3])

\* The verification is over; its diagnostics go to the "tested" event.
Verified(v, stages, warned) ==
    LET all == EnsureRequiredStages(stages)
    IN  /\ run' = [run EXCEPT ![v] = [@ EXCEPT !.at = "record", !.stages = all,
                                       !.warned = warned, !.passed = Passes(all)]]
        /\ cmd' = [cmd EXCEPT ![v] = NoCmd]

\* createIsolatedWorktree: the path is cleared, then git adds the worktree.
\* A directory that cannot be made or cleared is an error of the setup.
CreateWorktree(v) ==
    /\ run[v].at = "verify"
    /\ \/ /\ run' = [run EXCEPT ![v].at = "command"]
          /\ tree' = [tree EXCEPT ![RunId(v)].dir = FALSE, ![RunId(v)].holds = "nothing"]
          /\ Spawn(v, "add")
       \/ /\ Verified(v, With(<<>>, "setup", "error"), FALSE)
          /\ Fault
          /\ UNCHANGED tree
    /\ UNCHANGED <<events, seen>>

\* The candidate is written into the worktree, the stages are planned, the
\* repository's node_modules linked, the first stage starts.  Any of it may
\* throw, then the worktree is removed.  A worktree that could not be added
\* is not.
WorktreeAdded(v) ==
    /\ Closes(v, "add")
    /\ IF Status(cmd[v]) # "pass"
       THEN /\ Verified(v, With(<<>>, "setup", "error"), FALSE)
            /\ UNCHANGED <<tree, faults>>
       ELSE \/ /\ run' = [run EXCEPT ![v].made = TRUE]
               /\ tree' = [tree EXCEPT ![RunId(v)].holds = v, ![RunId(v)].dir = TRUE]
               /\ Spawn(v, Required[1])
            \/ /\ run' = [run EXCEPT ![v].made = TRUE, ![v].stages = With(@, "setup", "error")]
               /\ Fault
               /\ cmd' = [cmd EXCEPT ![v] = Spawned("remove", FALSE)]
               /\ UNCHANGED tree
    /\ UNCHANGED <<events, seen>>

\* The result of a stage; after the first that does not pass, and after the
\* last, the worktree is removed.
StageEnds(v) ==
    \E i \in DOMAIN Required :
        LET status == Status(cmd[v])
            done   == status # "pass" \/ i = Len(Required)
            c      == cmd[v]
        IN  /\ Closes(v, Required[i])
            /\ run' = [run EXCEPT ![v].stages = With(@, Required[i], status)]
            /\ Spawn(v, IF done THEN "remove" ELSE Required[i + 1])
            /\ seen' = IF c.child = "exited" /\ c.ok /\ ~c.timedOut
                            /\ tree[RunId(v)] = [dir |-> TRUE, entry |-> TRUE, holds |-> v]
                       THEN [seen EXCEPT ![v] = @ \cup {Required[i]}] ELSE seen
            /\ UNCHANGED <<tree, events>>

\* Mutant: a worktree that cannot be removed is a warning.
BugWorktreeRemoved(v) ==
    /\ Closes(v, "remove")
    /\ IF Status(cmd[v]) # "pass" /\ ~cmd[v].absent
       THEN /\ Verified(v, run[v].stages, FALSE)
            /\ UNCHANGED <<tree, faults>>
       ELSE \/ /\ run' = [run EXCEPT ![v].warned = Status(cmd[v]) # "pass"]
               /\ tree' = [tree EXCEPT ![RunId(v)].dir = FALSE, ![RunId(v)].holds = "nothing"]
               /\ Spawn(v, "prune")
            \/ /\ run' = [run EXCEPT ![v].warned = TRUE]
               /\ Fault
               /\ cmd' = [cmd EXCEPT ![v] = Spawned("prune", FALSE)]
               /\ UNCHANGED tree
    /\ UNCHANGED <<events, seen>>

\* cleanupIsolatedWorktree after `git worktree remove`: an error other than
\* an absent worktree is a failed stage; otherwise the directory is removed,
\* a failure of which is a warning, and git prunes its entries.
WorktreeRemoved(v) ==
    /\ Closes(v, "remove")
    /\ IF Status(cmd[v]) # "pass" /\ ~cmd[v].absent
       THEN /\ Verified(v, With(run[v].stages, "cleanup", "error"), FALSE)
            /\ UNCHANGED <<tree, faults>>
       ELSE \/ /\ run' = [run EXCEPT ![v].warned = Status(cmd[v]) # "pass"]
               /\ tree' = [tree EXCEPT ![RunId(v)].dir = FALSE, ![RunId(v)].holds = "nothing"]
               /\ Spawn(v, "prune")
            \/ /\ run' = [run EXCEPT ![v].warned = TRUE]
               /\ Fault
               /\ cmd' = [cmd EXCEPT ![v] = Spawned("prune", FALSE)]
               /\ UNCHANGED tree
    /\ UNCHANGED <<events, seen>>

WorktreesPruned(v) ==
    /\ Closes(v, "prune")
    /\ IF Status(cmd[v]) = "pass"
       THEN Verified(v, run[v].stages, run[v].warned)
       ELSE Verified(v, With(run[v].stages, "cleanup", "error"), FALSE)
    /\ UNCHANGED <<tree, events, seen, faults>>

-----------------------------------------------------------------------------
(* stageBuiltinChange. *)

\* An event is inserted and the change goes on; or the insert throws, and
\* with it stageBuiltinChange.
Record(v, row, to) ==
    /\ \/ /\ events' = [events EXCEPT ![v] = Append(@, row)]
          /\ run' = [run EXCEPT ![v].at = to]
          /\ UNCHANGED faults
       \/ /\ run' = [run EXCEPT ![v].at = "threw"]
          /\ Fault
          /\ UNCHANGED events
    /\ UNCHANGED <<cmd, tree, seen>>

Propose(v) == run[v].at = "new" /\ Record(v, "proposed", "compile")

Compile(v) ==
    /\ run[v].at = "compile"
    /\ \E at \in {"verify", "uncompiling"} : run' = [run EXCEPT ![v].at = at]
    /\ UNCHANGED <<cmd, tree, events, seen, faults>>

RecordUncompiled(v) == run[v].at = "uncompiling" /\ Record(v, "uncompiled", "uncompiled")

\* Then the change goes to runGitHubSelfExtensionPipeline, or is refused.
RecordTested(v) ==
    /\ run[v].at = "record"
    /\ IF run[v].passed THEN Record(v, "tested-pass", "pipeline")
                        ELSE Record(v, "tested-not", "refuse")

RecordRefused(v) == run[v].at = "refuse" /\ Record(v, "failed", "blocked")

\* The agent dies: nobody looks for worktrees when it comes back.
Crash ==
    /\ Fault
    /\ run' = [v \in Changes |-> IF run[v].at \in Over \cup {"new"} THEN run[v]
                                 ELSE [run[v] EXCEPT !.at = "dead"]]
    /\ cmd' = [v \in Changes |-> NoCmd]
    /\ UNCHANGED <<tree, events, seen>>

Code(v) ==
    \/ Propose(v) \/ Compile(v) \/ RecordUncompiled(v)
    \/ CreateWorktree(v) \/ WorktreeAdded(v) \/ StageEnds(v)
    \/ WorktreeRemoved(v) \/ WorktreesPruned(v)
    \/ RecordTested(v) \/ RecordRefused(v)

Next ==
    \/ \E v \in Changes :
         Code(v) \/ ChildExits(v) \/ TimerFires(v) \/ ForceKill(v) \/ HelperEnds(v)
    \/ Crash

Spec == Init /\ [][Next]_vars

\* Continuations run, timers fire; a child or a helper may hang for ever.
Fairness == \A v \in Changes :
    WF_vars(Code(v)) /\ WF_vars(TimerFires(v)) /\ WF_vars(ForceKill(v))

FairSpec == Spec /\ Fairness

-----------------------------------------------------------------------------
(* Properties. *)

TypeOK ==
    /\ run \in [Changes -> Run]
    /\ \A v \in Changes : \A i, j \in DOMAIN run[v].stages :
          run[v].stages[i].name = run[v].stages[j].name => i = j
    /\ cmd \in [Changes -> Cmd] /\ tree \in [RunIds -> Tree]
    /\ events \in [Changes -> Seq(Row)] /\ seen \in [Changes -> SUBSET Names]
    /\ faults \in 0 .. MaxFaults

\* A change reaches the pipeline only when each required stage exited with 0
\* before its timer fired, in a worktree that held this change, and the
\* record of it says so: whatever fails on the way is an error, a stage that
\* did not run too (isolated-verifier.ts:188, bounded-command.ts:77).
PipelineOnlyVerified ==
    \A v \in Changes :
        run[v].at = "pipeline" =>
            /\ seen[v] = {Required[i] : i \in DOMAIN Required}
            /\ events[v] = <<"proposed", "tested-pass">>

\* A verification that leaves its worktree or git's entry behind does not
\* pass, or has a warning (workspace-isolation.ts:228, isolated-
\* verifier.ts:275).
LeftoversReported ==
    \A v \in Changes :
        run[v].at \in {"record", "pipeline"} /\ (tree[RunId(v)].dir \/ tree[RunId(v)].entry)
            => ~run[v].passed \/ run[v].warned

\* Every change is dealt with, although commands hang, ignore SIGTERM or
\* fail; only a helper that outlives its build can hold one up
\* (bounded-command.ts:187).
ChangesEnd ==
    \A v \in Changes :
        run[v].at # "new" ~>
            \/ run[v].at \in Over
            \/ InCommand(v) /\ cmd[v].child = "exited" /\ cmd[v].helper
=============================================================================
