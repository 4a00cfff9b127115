----------------------------- MODULE Promotion ------------------------------
(* Self-modification of the built-in tools.  A run takes a change through  *)
(* verification, a branch, a commit, a pull request and the promotion gate *)
(* to a merge, and opens a health window in the pipeline status row        *)
(* (github-pipeline.ts).  The health monitor closes the window: it keeps   *)
(* the promoted head as the known-good baseline, or rolls the changed file *)
(* back to the previous one (self-extension-health.ts,                     *)
(* rollback-controller.ts).  Runs, monitor ticks and the operator's pause  *)
(* interleave at every await; the process may stop and start again.        *)
EXTENDS Naturals, Sequences, FiniteSets

CONSTANTS
    Slots,      \* runs that may be under way together
    Ticks,      \* monitor ticks that may be under way together
    Changes,    \* (file, content, execution context) of a tool_write call
    Files,      \* files of the repository
    FileOf,     \* the file a change rewrites
    Original,   \* the content every file starts with
    NoChange,   \* no change
    NoBranch,   \* the branch does not exist
    MaxCommits, \* bound: commits that runs may make
    MaxFaults   \* bound: process crashes and failed ticks

ASSUME PromotionAssumption ==
    /\ FileOf \in [Changes -> Files]
    /\ Original \notin Changes /\ NoChange \notin Changes
    /\ MaxCommits \in Nat /\ MaxFaults \in Nat

VARIABLES
    main,       \* file -> content on the default branch
    branches,   \* branch name -> its base, new content, tip and open pull request
    trees,      \* commits made by runs, numbered from 1: file -> content
    checks,     \* commit -> its jarvis/sandbox status
    row,        \* agent_state 'self_extension:pipeline_status'
    baseline,   \* agent_state 'self_extension:known_good_baseline', 0: none
    paused,     \* agent_state 'self_extension:promotion_control'
    overdue,    \* heads whose health window has expired
    run,        \* slot -> the pipeline call it executes
    tick,       \* tick -> the monitor call it executes
    faults,     \* crashes and failed ticks so far
    good        \* history: main when a health window last passed

git  == <<main, branches, trees, checks>>
db   == <<row, baseline, paused>>
vars == <<git, db, overdue, run, tick, faults, good>>

Contents == Changes \cup {Original}
Tree     == [Files -> Contents]
Names    == {"change", "rollback"} \X Changes
Commits  == 0 .. MaxCommits
Branch   == [base: Tree, content: Contents, tip: Commits \cup Ticks, open: BOOLEAN]
States   == {"missing", "success", "failure"}

Blocking == {"promoted_pending_health", "health_failed",
             "rollback_in_progress", "rollback_failed"}
Row == [status: Blocking \cup {"none", "health_passed", "rolled_back"},
        change: Changes \cup {NoChange}, head: Commits, prev: Commits,
        rollback: {"none", "in_progress", "failed", "succeeded"}]
NoRow == [status |-> "none", change |-> NoChange, head |-> 0, prev |-> 0,
          rollback |-> "none"]

Run == [at: {"idle", "verify", "control", "status", "branch", "commit", "pull",
             "evidence", "gate", "recontrol", "merge", "cleanup", "baseline",
             "record"},
        change: Changes \cup {NoChange}, passed: BOOLEAN, head: Commits,
        prev: Commits]
Idle == [at |-> "idle", change |-> NoChange, passed |-> FALSE, head |-> 0,
         prev |-> 0]

Tick == [at: {"off", "health", "confirm", "passed", "rewrite", "failed",
              "rollback", "start", "restore", "merge", "cleanup", "restored",
              "rolledback", "giveup"},
         row: Row, late: BOOLEAN]
Off == [at |-> "off", row |-> NoRow, late |-> FALSE]

Init ==
    /\ main = [f \in Files |-> Original]
    /\ branches = [n \in Names |-> NoBranch]
    /\ trees = <<>> /\ checks = <<>>
    /\ row = NoRow /\ baseline = 0 /\ paused = FALSE
    /\ overdue = {}
    /\ run = [r \in Slots |-> Idle]
    /\ tick = [t \in Ticks |-> Off]
    /\ faults = 0
    /\ good = [f \in Files |-> Original]

-----------------------------------------------------------------------------
(* GitHub, as both pipelines use it. *)

TargetFile(n) == FileOf[n[2]]

\* The branch is reused when it exists, whatever it was branched from.
EnsuredBranch(n) ==
    IF branches[n] # NoBranch THEN branches[n]
    ELSE [base |-> main, content |-> main[TargetFile(n)], tip |-> 0, open |-> FALSE]
\* Mutant: the merge does not say which head it expects.
BugNoHeadGuard(n, head) ==
    /\ branches[n] # NoBranch
    /\ branches[n].open
    /\ main[TargetFile(n)] \in {branches[n].base[TargetFile(n)], branches[n].content}

\* The merge takes the expected head only, and fails on a conflict.
CanMerge(n, head) ==
    /\ branches[n] # NoBranch
    /\ branches[n].open
    /\ branches[n].tip = head
    /\ main[TargetFile(n)] \in {branches[n].base[TargetFile(n)], branches[n].content}

MergePull(n) ==
    /\ main' = [main EXCEPT ![TargetFile(n)] = branches[n].content]
    /\ branches' = [branches EXCEPT ![n].open = FALSE]

-----------------------------------------------------------------------------
(* A run: stageBuiltinChange, then runGitHubSelfExtensionPipeline. *)

BranchOf(r) == <<"change", run[r].change>>
Goto(r, l)  == run' = [run EXCEPT ![r].at = l]
Return(r)   == run' = [run EXCEPT ![r] = Idle]

\* tool_write is called with builtinModify.
Stage(r, c) ==
    /\ run[r].at = "idle"
    /\ run' = [run EXCEPT ![r] = [Idle EXCEPT !.at = "verify", !.change = c]]
    /\ UNCHANGED <<git, db, overdue, tick, faults, good>>

\* A candidate that fails verification returns before the pipeline.
Verify(r) ==
    /\ run[r].at = "verify"
    /\ \E passed \in BOOLEAN :
         IF passed
         THEN run' = [run EXCEPT ![r].at = "control", ![r].passed = passed]
         ELSE Return(r)
    /\ UNCHANGED <<git, db, overdue, tick, faults, good>>

ReadControl(r) ==
    /\ run[r].at = "control"
    /\ IF paused THEN Return(r) ELSE Goto(r, "status")
    /\ UNCHANGED <<git, db, overdue, tick, faults, good>>
ReadStatus(r) ==
    /\ run[r].at = "status"
    /\ IF row.status \in Blocking THEN Return(r) ELSE Goto(r, "branch")
    /\ UNCHANGED <<git, db, overdue, tick, faults, good>>

EnsureBranch(r) ==
    /\ run[r].at = "branch"
    /\ branches' = [branches EXCEPT ![BranchOf(r)] = EnsuredBranch(BranchOf(r))]
    /\ Goto(r, "commit")
    /\ UNCHANGED <<main, trees, checks, db, overdue, tick, faults, good>>

CommitFile(r) ==
    LET n == BranchOf(r)
        c == run[r].change
        h == Len(trees) + 1
    IN  /\ run[r].at = "commit"
        /\ Len(trees) < MaxCommits
        /\ branches[n] # NoBranch
        /\ trees' = Append(trees, [branches[n].base EXCEPT ![FileOf[c]] = c])
        /\ checks' = Append(checks, "missing")
        /\ branches' = [branches EXCEPT ![n].content = c, ![n].tip = h]
        /\ run' = [run EXCEPT ![r].at = "pull", ![r].head = h]
        /\ UNCHANGED <<main, db, overdue, tick, faults, good>>

\* The branch's open pull request is updated, or a new one is opened.
UpsertPull(r) ==
    /\ run[r].at = "pull"
    /\ branches[BranchOf(r)] # NoBranch
    /\ branches' = [branches EXCEPT ![BranchOf(r)].open = TRUE]
    /\ Goto(r, "evidence")
    /\ UNCHANGED <<main, trees, checks, db, overdue, tick, faults, good>>

Evidence(r) == IF run[r].passed THEN "success" ELSE "failure"

SetSandboxStatus(r) ==
    /\ run[r].at = "evidence"
    /\ checks' = [checks EXCEPT ![run[r].head] = Evidence(r)]
    /\ Goto(r, "gate")
    /\ UNCHANGED <<main, branches, trees, db, overdue, tick, faults, good>>

\* The state the gate sees: a read that lags the write shows no status, and
\* the run's own evidence stands in for it.
SeenStates(r) == {checks[run[r].head], "missing"}
Filled(r, s)  == IF s = "missing" THEN Evidence(r) ELSE s

\* Only success opens the gate: missing, pending, failing and unknown block.
GateOpen(s) == s = "success"

Gate(r) ==
    /\ run[r].at = "gate"
    /\ \E s \in SeenStates(r) :
         IF GateOpen(Filled(r, s)) THEN Goto(r, "recontrol") ELSE Return(r)
    /\ UNCHANGED <<git, db, overdue, tick, faults, good>>

ReadControlAgain(r) ==
    /\ run[r].at = "recontrol"
    /\ IF paused THEN Return(r) ELSE Goto(r, "merge")
    /\ UNCHANGED <<git, db, overdue, tick, faults, good>>

Merge(r) ==
    /\ run[r].at = "merge"
    /\ CanMerge(BranchOf(r), run[r].head)
    /\ MergePull(BranchOf(r))
    /\ Goto(r, "cleanup")
    /\ UNCHANGED <<trees, checks, db, overdue, tick, faults, good>>

DeleteBranch(r) ==
    /\ run[r].at = "cleanup"
    /\ branches' = [branches EXCEPT ![BranchOf(r)] = NoBranch]
    /\ Goto(r, "baseline")
    /\ UNCHANGED <<main, trees, checks, db, overdue, tick, faults, good>>

ReadBaseline(r) ==
    /\ run[r].at = "baseline"
    /\ run' = [run EXCEPT ![r].at = "record", ![r].prev = baseline]
    /\ UNCHANGED <<git, db, overdue, tick, faults, good>>

\* The whole row is replaced: the health window opens.
RecordPromotion(r) ==
    /\ run[r].at = "record"
    /\ row' = [status |-> "promoted_pending_health", change |-> run[r].change,
               head |-> run[r].head, prev |-> run[r].prev, rollback |-> "none"]
    /\ Return(r)
    /\ UNCHANGED <<git, baseline, paused, overdue, tick, faults, good>>

\* A GitHub or database call of the run throws; the caller gets a failure.
\* After the merge that includes a branch that could not be deleted.
RunFails(r) ==
    /\ run[r].at \notin {"idle", "verify"}
    /\ Return(r)
    /\ UNCHANGED <<git, db, overdue, tick, faults, good>>

RunStep(r) ==
    \/ \E c \in Changes : Stage(r, c)
    \/ Verify(r) \/ ReadControl(r) \/ ReadStatus(r)
    \/ EnsureBranch(r) \/ CommitFile(r) \/ UpsertPull(r)
    \/ SetSandboxStatus(r) \/ Gate(r) \/ ReadControlAgain(r)
    \/ Merge(r) \/ DeleteBranch(r) \/ ReadBaseline(r) \/ RecordPromotion(r)
    \/ RunFails(r)

-----------------------------------------------------------------------------
(* A monitor tick: tickSelfExtensionHealthMonitor, then, when the window   *)
(* failed, runAutomatedRollback.                                           *)

RollbackOf(t)  == <<"rollback", tick[t].row.change>>
GotoTick(t, l) == tick' = [tick EXCEPT ![t].at = l]
EndTick(t)     == tick' = [tick EXCEPT ![t] = Off]
Written(t, s)  == [tick[t].row EXCEPT !.status = s]
WrittenRollback(t, s, k) == [tick[t].row EXCEPT !.status = s, !.rollback = k]
\* Mutant: the deadline of the row is not read.
BugNoDeadline(t) ==
    /\ tick[t].at = "off"
    /\ row.status = "promoted_pending_health"
    /\ tick' = [tick EXCEPT ![t] = [at |-> "health", row |-> row, late |-> FALSE]]
    /\ UNCHANGED <<git, db, overdue, run, faults, good>>

TickReads(t) ==
    /\ tick[t].at = "off"
    /\ row.status = "promoted_pending_health"
    /\ tick' = [tick EXCEPT ![t] = [at |-> "health", row |-> row,
                                    late |-> row.head \in overdue]]
    /\ UNCHANGED <<git, db, overdue, run, faults, good>>

\* The supervisor's heartbeat is fresh and ok, or it is not.
ReadHealth(t) ==
    /\ tick[t].at = "health"
    /\ \E healthy \in BOOLEAN :
         GotoTick(t, IF healthy THEN "confirm"
                     ELSE IF tick[t].late THEN "failed" ELSE "rewrite")
    /\ UNCHANGED <<git, db, overdue, run, faults, good>>

ConfirmBaseline(t) ==
    /\ tick[t].at = "confirm"
    /\ baseline' = tick[t].row.head
    /\ GotoTick(t, "passed")
    /\ UNCHANGED <<git, row, paused, overdue, run, faults, good>>

WindowPasses(t) ==
    /\ tick[t].at = "passed"
    /\ row' = Written(t, "health_passed")
    /\ good' = main
    /\ EndTick(t)
    /\ UNCHANGED <<git, baseline, paused, overdue, run, faults>>

WindowStaysOpen(t) ==
    /\ tick[t].at = "rewrite"
    /\ row' = Written(t, "promoted_pending_health")
    /\ EndTick(t)
    /\ UNCHANGED <<git, baseline, paused, overdue, run, faults, good>>

WindowFails(t) ==
    /\ tick[t].at = "failed"
    /\ row' = Written(t, "health_failed")
    /\ GotoTick(t, "rollback")
    /\ UNCHANGED <<git, baseline, paused, overdue, run, faults, good>>

\* A rollback of the same target in progress, or attempted less than the
\* cooldown ago, makes this one return; without a baseline it gives up.
RollbackReads(t) ==
    /\ tick[t].at = "rollback"
    /\ \E cooling \in BOOLEAN :
         tick' = IF row.prev = 0
                 THEN [tick EXCEPT ![t].at = "giveup", ![t].row = row]
                 ELSE IF \/ row.rollback = "in_progress"
                         \/ row.rollback \in {"failed", "succeeded"} /\ cooling
                 THEN [tick EXCEPT ![t] = Off]
                 ELSE [tick EXCEPT ![t].at = "start", ![t].row = row]
    /\ UNCHANGED <<git, db, overdue, run, faults, good>>

StartRollback(t) ==
    /\ tick[t].at = "start"
    /\ row' = WrittenRollback(t, "rollback_in_progress", "in_progress")
    /\ GotoTick(t, "restore")
    /\ UNCHANGED <<git, baseline, paused, overdue, run, faults, good>>

\* Mutant: the file is read at the head that failed.
BugRestoreFile(t) ==
    LET n == RollbackOf(t)
    IN  /\ tick[t].at = "restore"
        /\ branches' = [branches EXCEPT ![n] =
             [base |-> EnsuredBranch(n).base, tip |-> t, open |-> TRUE,
              content |-> trees[tick[t].row.head][TargetFile(n)]]]
        /\ GotoTick(t, "merge")
        /\ UNCHANGED <<main, trees, checks, db, overdue, run, faults, good>>

\* Mutant: the file is read at the baseline there is by now, which is the
\* promotion itself when a tick has confirmed it and died.
BugRestoreCurrent(t) ==
    LET n == RollbackOf(t)
    IN  /\ tick[t].at = "restore"
        /\ branches' = [branches EXCEPT ![n] =
             [base |-> EnsuredBranch(n).base, tip |-> t, open |-> TRUE,
              content |-> trees[baseline][TargetFile(n)]]]
        /\ GotoTick(t, "merge")
        /\ UNCHANGED <<main, trees, checks, db, overdue, run, faults, good>>

\* Branch, commit and pull request with the file as it was at the baseline.
\* The commit is identified by the tick that makes it, the branch by the change
\* it takes back.
RestoreFile(t) ==
    LET n == RollbackOf(t)
    IN  /\ tick[t].at = "restore"
        /\ branches' = [branches EXCEPT ![n] =
             [base |-> EnsuredBranch(n).base, tip |-> t, open |-> TRUE,
              content |-> trees[tick[t].row.prev][TargetFile(n)]]]
        /\ GotoTick(t, "merge")
        /\ UNCHANGED <<main, trees, checks, db, overdue, run, faults, good>>

RestoreMerge(t) ==
    /\ tick[t].at = "merge"
    /\ CanMerge(RollbackOf(t), t)
    /\ MergePull(RollbackOf(t))
    /\ GotoTick(t, "cleanup")
    /\ UNCHANGED <<trees, checks, db, overdue, run, faults, good>>

RestoreCleanup(t) ==
    /\ tick[t].at = "cleanup"
    /\ branches' = [branches EXCEPT ![RollbackOf(t)] = NoBranch]
    /\ GotoTick(t, "restored")
    /\ UNCHANGED <<main, trees, checks, db, overdue, run, faults, good>>

\* runGitHubRollbackPipeline catches every error, after the merge as well.
RestoreFails(t) ==
    /\ tick[t].at \in {"restore", "merge", "cleanup"}
    /\ GotoTick(t, "giveup")
    /\ UNCHANGED <<git, db, overdue, run, faults, good>>
GiveUp(t) ==
    /\ tick[t].at = "giveup"
    /\ row' = WrittenRollback(t, "rollback_failed", "failed")
    /\ EndTick(t)
    /\ UNCHANGED <<git, baseline, paused, overdue, run, faults, good>>
\* Mutant: the baseline is taken to be the one the row names already.
BugBaselineKept(t) ==
    /\ tick[t].at = "restored"
    /\ GotoTick(t, "rolledback")
    /\ UNCHANGED <<git, db, overdue, run, faults, good>>

RestoreBaseline(t) ==
    /\ tick[t].at = "restored"
    /\ baseline' = tick[t].row.prev
    /\ GotoTick(t, "rolledback")
    /\ UNCHANGED <<git, row, paused, overdue, run, faults, good>>

RolledBack(t) ==
    /\ tick[t].at = "rolledback"
    /\ row' = WrittenRollback(t, "rolled_back", "succeeded")
    /\ EndTick(t)
    /\ UNCHANGED <<git, baseline, paused, overdue, run, faults, good>>

TickStep(t) ==
    \/ TickReads(t) \/ ReadHealth(t) \/ ConfirmBaseline(t)
    \/ WindowPasses(t) \/ WindowStaysOpen(t) \/ WindowFails(t)
    \/ RollbackReads(t) \/ StartRollback(t) \/ RestoreFile(t)
    \/ RestoreMerge(t) \/ RestoreCleanup(t) \/ RestoreFails(t)
    \/ GiveUp(t) \/ RestoreBaseline(t) \/ RolledBack(t)

-----------------------------------------------------------------------------
(* The environment. *)

\* A database call of the tick, or the event it appends, throws: the timer
\* callback logs it and the tick is over.
TickFails(t) ==
    /\ tick[t].at # "off"
    /\ faults < MaxFaults
    /\ faults' = faults + 1
    /\ EndTick(t)
    /\ UNCHANGED <<git, db, overdue, run, good>>

\* The process dies and is started again: what it had in memory is gone.
Crash ==
    /\ faults < MaxFaults
    /\ faults' = faults + 1
    /\ run' = [r \in Slots |-> Idle]
    /\ tick' = [t \in Ticks |-> Off]
    /\ UNCHANGED <<git, db, overdue, good>>

DeadlinePasses ==
    /\ row.status = "promoted_pending_health"
    /\ row.head \notin overdue
    /\ overdue' = overdue \cup {row.head}
    /\ UNCHANGED <<git, db, run, tick, faults, good>>

SetPause ==
    /\ paused' = ~paused
    /\ UNCHANGED <<git, row, baseline, overdue, run, tick, faults, good>>

Next ==
    \/ \E r \in Slots : RunStep(r)
    \/ \E t \in Ticks : TickStep(t) \/ TickFails(t)
    \/ Crash \/ DeadlinePasses \/ SetPause

Spec == Init /\ [][Next]_vars

\* The timer keeps firing, calls are answered or fail, and time passes.
Fairness == WF_vars(DeadlinePasses) /\ \A t \in Ticks : WF_vars(TickStep(t))
FairSpec == Spec /\ Fairness

-----------------------------------------------------------------------------
(* Properties. *)

\* Every variable keeps its shape, and runs and ticks their labels.
TypeOK ==
    /\ main \in Tree /\ good \in Tree
    /\ branches \in [Names -> Branch \cup {NoBranch}]
    /\ trees \in Seq(Tree) /\ Len(trees) \in Commits
    /\ checks \in Seq(States) /\ Len(checks) = Len(trees)
    /\ row \in Row /\ baseline \in Commits /\ paused \in BOOLEAN
    /\ overdue \subseteq Commits
    /\ run \in [Slots -> Run] /\ tick \in [Ticks -> Tick]
    /\ faults \in 0 .. MaxFaults

\* The status row and the known-good baseline are two rows written one after
\* the other: after any crash between the writes they still agree.  A passed
\* window's head is the baseline, a rolled back one's previous baseline is, and
\* until then the baseline is one of the two.
BaselineAgrees ==
    /\ row.status = "health_passed" => baseline = row.head
    /\ row.status = "rolled_back" => baseline = row.prev
    /\ row.status \in Blocking => baseline \in {row.head, row.prev}

\* While a promotion waits for its health window, or its rollback is not done,
\* nothing but the rollback changes the default branch (.planning/STATE.md:52).
\* The code reads the row once, before the branch is made, and merges many
\* calls later: two runs pass together (github-pipeline.ts:921).
OnePromotionAtATime ==
    [][main' # main /\ row.status \in Blocking
         => row.status = "rollback_in_progress"]_vars

\* Whatever a run merges is the commit it published successful evidence for,
\* though runs of the same change share a branch.
EvidenceBeforeMerge ==
    [][\A n \in Names : n[1] = "change" /\ branches[n] # NoBranch
           /\ branches'[n] # NoBranch /\ branches[n].open /\ ~branches'[n].open
         => checks[branches[n].tip] = "success"]_vars

\* A health window does not stay open for ever, crashes and failed ticks
\* included: the monitor works from the persisted row.
WindowCloses ==
    (row.status = "promoted_pending_health")
        ~> (row.status # "promoted_pending_health")

\* Whatever a rollback merges is the file as it was at the baseline that the
\* row named when the rollback began, although the baseline may have moved
\* since, the rollback branch is reused and ticks overlap
\* (rollback-controller.ts:165, github-pipeline.ts:764).
RollbackMergesBaseline ==
    [][\A c \in Changes :
         LET n == <<"rollback", c>>
         IN  branches[n] # NoBranch /\ branches'[n] # NoBranch
             /\ branches[n].open /\ ~branches'[n].open
             => \E t \in Ticks :
                   /\ tick[t].at = "merge" /\ tick[t].row.change = c
                   /\ main'[FileOf[c]] = trees[tick[t].row.prev][FileOf[c]]]_vars

\* A rollback leaves the file as it was when a health window last passed,
\* although the baseline it goes back to is the head of a branch and not the
\* commit that was squashed (self-extension-health.ts:181).  So it is when
\* all changes are to one file; a branch made before another file was
\* promoted takes that file back as well.
RollbackRestoresKnownGood ==
    [][row.status # "rolled_back" /\ row'.status = "rolled_back"
         => LET f == FileOf[row'.change] IN main[f] = good[f]]_vars
=============================================================================
