-------------------------- MODULE Promotion_proofs --------------------------
(***************************************************************************)
(* Theorems about Promotion, for any changes, files and bounds.  Types and *)
(* what runs and rollbacks merge hold for any number of runs and ticks     *)
(* that overlap; that row and baseline agree needs one run and one tick at *)
(* a time.                                                                 *)
(***************************************************************************)
EXTENDS Promotion, SequenceTheorems, TLAPS

\* Labels of a run that has made its commit, of one past the check of the
\* status row, and of a tick that has chosen the baseline to restore.
Committed == {"pull", "evidence", "gate", "recontrol", "merge", "cleanup",
              "baseline", "record"}
Admitted  == {"branch", "commit"} \cup Committed
Restoring == {"start", "restore", "merge", "cleanup", "restored", "rolledback"}

RowOK(w) == /\ w.status # "none" => w.change \in Changes
            /\ w.head <= Len(trees) /\ w.prev <= Len(trees)
RunOK(r) == /\ run[r].at # "idle" => run[r].change \in Changes
            /\ run[r].at \in Committed => run[r].head \in 1 .. Len(trees)
            /\ run[r].head <= Len(trees) /\ run[r].prev <= Len(trees)
TickOK(t) == /\ RowOK(tick[t].row)
             /\ tick[t].at # "off"
                  => row.status # "none" /\ tick[t].row.status # "none"
             /\ tick[t].at \in Restoring => tick[t].row.prev # 0

\* What the type invariant needs to be inductive: every commit that is named
\* has been made, and whatever is under way names a change.
TypeInv == /\ TypeOK
           /\ baseline <= Len(trees)
           /\ RowOK(row)
           /\ \A r \in Slots : RunOK(r)
           /\ \A t \in Ticks : TickOK(t)

LEMMA Resting == NoRow \in Row /\ Idle \in Run /\ Off \in Tick
BY PromotionAssumption DEF NoRow, Row, Idle, Run, Off, Tick, Commits, Blocking

LEMMA TypeInit == Init => TypeInv
<1> SUFFICES ASSUME Init PROVE TypeInv
  OBVIOUS
<1>1. Original \in Contents
  BY DEF Contents
<1>2. main \in Tree /\ good \in Tree
  BY <1>1 DEF Init, Tree
<1>3. branches \in [Names -> Branch \cup {NoBranch}]
  BY DEF Init
<1>4. /\ trees \in Seq(Tree) /\ Len(trees) = 0
      /\ checks \in Seq(States) /\ Len(checks) = 0
  BY EmptySeq DEF Init
<1>5. 0 \in Commits /\ faults \in 0 .. MaxFaults
  BY PromotionAssumption DEF Init, Commits
<1>6. TypeOK
  BY <1>2, <1>3, <1>4, <1>5, Resting DEF Init, TypeOK
<1>7. RowOK(NoRow)
  BY <1>4 DEF RowOK, NoRow
<1> QED
  BY <1>4, <1>6, <1>7 DEF Init, TypeInv, RunOK, TickOK, Idle, Off, Committed, Restoring

\* What a step leaves of the repository and of the row.
GitOK == /\ main \in Tree
         /\ branches \in [Names -> Branch \cup {NoBranch}]
         /\ trees \in Seq(Tree) /\ Len(trees) \in Commits
         /\ checks \in Seq(States) /\ Len(checks) = Len(trees)

\* A step of a run: the run itself, the repository and the row may change.
LEMMA RunMoves ==
  ASSUME TypeInv, NEW r \in Slots, NEW v \in Run,
         run' = [run EXCEPT ![r] = v],
         v.at # "idle" => v.change \in Changes,
         v.at \in Committed => v.head \in 1 .. Len(trees'),
         v.head <= Len(trees'), v.prev <= Len(trees'),
         GitOK', Len(trees) <= Len(trees'),
         row' \in Row, RowOK(row)', row'.status = "none" => row' = row,
         UNCHANGED <<baseline, paused, overdue, tick, faults, good>>
  PROVE  TypeInv'
<1> USE DEF TypeInv, TypeOK, GitOK
<1>1. TypeOK'
  OBVIOUS
<1>2. ASSUME NEW q \in Slots PROVE RunOK(q)'
  BY DEF RunOK, Run, Commits
<1>3. ASSUME NEW t \in Ticks PROVE TickOK(t)'
  BY DEF TickOK, RowOK, Tick, Row, Commits
<1>4. (baseline <= Len(trees))'
  BY DEF Commits
<1> QED
  BY <1>1, <1>2, <1>3, <1>4

\* A step of a tick: the tick itself, the repository, the row, the baseline
\* and the history may change.
LEMMA TickMoves ==
  ASSUME TypeInv, NEW t \in Ticks, NEW v \in Tick,
         tick' = [tick EXCEPT ![t] = v],
         RowOK(v.row),
         v.at # "off" => v.row.status # "none" /\ row'.status # "none",
         v.at \in Restoring => v.row.prev # 0,
         GitOK', trees' = trees,
         row' \in Row, RowOK(row)', row'.status = "none" => row' = row,
         baseline' \in Commits, baseline' <= Len(trees), good' \in Tree,
         UNCHANGED <<paused, overdue, run, faults>>
  PROVE  TypeInv'
BY DEF TypeInv, TypeOK, GitOK, RowOK, RunOK, TickOK

\* A branch that is found or made has the shape of one.
LEMMA BranchKinds ==
  ASSUME TypeInv, NEW n \in Names
  PROVE  /\ EnsuredBranch(n) \in Branch
         /\ TargetFile(n) \in Files
         /\ branches[n] # NoBranch => branches[n] \in Branch
<1>1. TargetFile(n) \in Files
  BY PromotionAssumption DEF TargetFile, Names
<1>2. branches[n] # NoBranch => branches[n] \in Branch
  BY DEF TypeInv, TypeOK
<1>3. main \in Tree /\ 0 \in Commits /\ main[TargetFile(n)] \in Contents
  BY <1>1, PromotionAssumption DEF TypeInv, TypeOK, Tree, Commits
<1> QED
  BY <1>1, <1>2, <1>3 DEF EnsuredBranch, Branch

\* A merge leaves a repository of the same shape.
LEMMA MergeKinds ==
  ASSUME TypeInv, NEW n \in Names, branches[n] # NoBranch, MergePull(n),
         UNCHANGED <<trees, checks>>
  PROVE  GitOK'
<1>1. branches[n] \in Branch /\ TargetFile(n) \in Files
  BY BranchKinds
<1>2. branches[n].content \in Contents
  BY <1>1 DEF Branch
<1>3. main' \in Tree
  BY <1>1, <1>2 DEF TypeInv, TypeOK, MergePull, Tree
<1>4. [branches[n] EXCEPT !.open = FALSE] \in Branch
  BY <1>1 DEF Branch
<1>5. branches' = [branches EXCEPT ![n] = [branches[n] EXCEPT !.open = FALSE]]
  BY DEF MergePull
<1> QED
  BY <1>3, <1>4, <1>5 DEF TypeInv, TypeOK, GitOK

\* A step of a run that leaves the commits and the rows alone.
LEMMA RunMovesOn ==
  ASSUME TypeInv, NEW r \in Slots, NEW v \in Run,
         run' = [run EXCEPT ![r] = v],
         v.at # "idle" => v.change \in Changes,
         v.at \in Committed => v.head \in 1 .. Len(trees),
         v.head <= Len(trees), v.prev <= Len(trees),
         GitOK', trees' = trees, UNCHANGED <<db, overdue, tick, faults, good>>
  PROVE  TypeInv'
<1>1. Len(trees) <= Len(trees') /\ row' \in Row /\ row' = row
  BY DEF TypeInv, TypeOK, db, Commits
<1>2. RowOK(row)'
  BY DEF TypeInv, RowOK, db
<1>3. UNCHANGED <<baseline, paused, overdue, tick, faults, good>>
  BY DEF db
<1> QED
  BY <1>1, <1>2, <1>3, RunMoves

\* Every step of a run keeps the types.
LEMMA RunKeepsTypes ==
  ASSUME TypeInv, NEW r \in Slots, RunStep(r)
  PROVE  TypeInv'
<1> DEFINE n == BranchOf(r)
<1> DEFINE Frame == UNCHANGED <<git, db, overdue, tick, faults, good>>
<1>1. /\ run[r] \in Run /\ RunOK(r) /\ GitOK /\ Len(trees) \in Nat
      /\ Idle \in Run /\ row \in Row /\ RowOK(row) /\ baseline \in Commits
      /\ baseline <= Len(trees)
  BY Resting DEF TypeInv, TypeOK, GitOK, Commits
<1>0. ASSUME Frame PROVE GitOK' /\ trees' = trees
  BY <1>0, <1>1 DEF git, GitOK
<1>2. ASSUME NEW l \in {"control", "status", "branch", "recontrol", "merge"},
             run[r].at # "idle", l \in Committed => run[r].at \in Committed,
             Goto(r, l), Frame
      PROVE  TypeInv'
  <2> DEFINE v == [run[r] EXCEPT !.at = l]
  <2>1. v \in Run /\ v.at = l /\ v.change = run[r].change
        /\ v.head = run[r].head /\ v.prev = run[r].prev
    BY <1>1 DEF Run
  <2>2. run' = [run EXCEPT ![r] = v]
    BY <1>2 DEF Goto
  <2> QED
    BY <1>0, <1>1, <1>2, <2>1, <2>2, RunMovesOn DEF RunOK
<1>3. ASSUME Return(r), Frame
      PROVE  TypeInv'
  <2>1. /\ Idle.at = "idle" /\ Idle.at \notin Committed
        /\ Idle.head <= Len(trees) /\ Idle.prev <= Len(trees)
    BY <1>1 DEF Idle, Committed
  <2> QED
    BY <1>0, <1>1, <1>3, <2>1, RunMovesOn DEF Return
<1>4. ASSUME NEW c \in Changes, Stage(r, c)
      PROVE  TypeInv'
  <2> DEFINE v == [Idle EXCEPT !.at = "verify", !.change = c]
  <2>1. v \in Run /\ v.at = "verify" /\ v.change = c /\ v.head = 0 /\ v.prev = 0
    BY <1>1 DEF Run, Idle
  <2>2. v.at \notin Committed /\ v.head <= Len(trees) /\ v.prev <= Len(trees)
    BY <1>1, <2>1 DEF Committed
  <2> QED
    BY <1>0, <1>1, <1>4, <2>1, <2>2, RunMovesOn DEF Stage
<1>5. ASSUME Verify(r) PROVE TypeInv'
  <2>1. CASE Return(r)
    BY <1>3, <1>5, <2>1 DEF Verify
  <2>2. CASE run' = [run EXCEPT ![r].at = "control", ![r].passed = TRUE]
    <3> DEFINE v == [run[r] EXCEPT !.at = "control", !.passed = TRUE]
    <3>1. v \in Run /\ v.at = "control" /\ v.change = run[r].change
          /\ v.head = run[r].head /\ v.prev = run[r].prev
      BY <1>1 DEF Run
    <3>2. run' = [run EXCEPT ![r] = v]
      BY <2>2
    <3> QED
      BY <1>0, <1>1, <1>5, <3>1, <3>2, RunMovesOn DEF Verify, RunOK, Committed
  <2> QED
    BY <1>5, <2>1, <2>2 DEF Verify
<1>6. CASE ReadControl(r)
  BY <1>2, <1>3, <1>6 DEF ReadControl, Committed
<1>7. CASE ReadStatus(r)
  BY <1>2, <1>3, <1>7 DEF ReadStatus, Committed
<1>8. CASE Gate(r)
  BY <1>2, <1>3, <1>8 DEF Gate, Committed
<1>9. CASE ReadControlAgain(r)
  BY <1>2, <1>3, <1>9 DEF ReadControlAgain, Committed
<1>10. CASE RunFails(r)
  BY <1>3, <1>10 DEF RunFails
<1>11. run[r].at # "idle" => n \in Names /\ run[r].change \in Changes
  BY <1>1 DEF RunOK, BranchOf, Names
<1>12. ASSUME NEW l \in {"commit", "evidence", "gate", "cleanup", "baseline"},
              run[r].at # "idle", l \in Committed => run[r].at \in Committed,
              Goto(r, l), GitOK', trees' = trees,
              UNCHANGED <<db, overdue, tick, faults, good>>
       PROVE  TypeInv'
  <2> DEFINE v == [run[r] EXCEPT !.at = l]
  <2>1. v \in Run /\ v.at = l /\ v.change = run[r].change
        /\ v.head = run[r].head /\ v.prev = run[r].prev
    BY <1>1 DEF Run
  <2>2. run' = [run EXCEPT ![r] = v]
    BY <1>12 DEF Goto
  <2> QED
    BY <1>1, <1>12, <2>1, <2>2, RunMovesOn DEF RunOK
<1>13. CASE EnsureBranch(r)
  <2>1. EnsuredBranch(n) \in Branch
    BY <1>11, <1>13, BranchKinds DEF EnsureBranch
  <2>2. GitOK'
    BY <1>1, <1>13, <2>1 DEF EnsureBranch, GitOK
  <2> QED
    BY <1>12, <1>13, <2>2 DEF EnsureBranch, Committed
<1>14. CASE CommitFile(r)
  <2> DEFINE h == Len(trees) + 1
  <2> DEFINE c == run[r].change
  <2> DEFINE v == [run[r] EXCEPT !.at = "pull", !.head = h]
  <2>1. branches[n] \in Branch /\ c \in Changes /\ FileOf[c] \in Files /\ h \in Commits
    BY <1>1, <1>11, <1>14, BranchKinds, PromotionAssumption DEF CommitFile, Commits
  <2>2. [branches[n].base EXCEPT ![FileOf[c]] = c] \in Tree
    BY <2>1 DEF Branch, Tree, Contents
  <2>3. trees' \in Seq(Tree) /\ Len(trees') = h
    BY <1>1, <1>14, <2>2, AppendProperties DEF CommitFile, GitOK
  <2>4. checks' \in Seq(States) /\ Len(checks') = h
    BY <1>1, <1>14, AppendProperties DEF CommitFile, GitOK, States
  <2>5. [branches[n] EXCEPT !.content = c, !.tip = h] \in Branch
    BY <2>1 DEF Branch, Contents
  <2>6. branches' = [branches EXCEPT ![n] =
                       [branches[n] EXCEPT !.content = c, !.tip = h]]
    BY <1>14 DEF CommitFile
  <2>7. GitOK'
    BY <1>1, <1>14, <2>1, <2>3, <2>4, <2>5, <2>6 DEF CommitFile, GitOK
  <2>8. v \in Run /\ v.at = "pull" /\ v.change = c /\ v.head = h
        /\ v.prev = run[r].prev
    BY <1>1, <2>1 DEF Run
  <2>9. run' = [run EXCEPT ![r] = v]
    BY <1>14 DEF CommitFile
  <2>10. v.prev <= h /\ Len(trees) <= h /\ h \in 1 .. h /\ h <= h /\ RowOK(row)'
         /\ row' = row
    BY <1>1, <1>14, <2>3, <2>8 DEF RunOK, RowOK, Run, Row, Commits, CommitFile, db
  <2> QED
    BY <1>1, <1>14, <2>1, <2>3, <2>7, <2>8, <2>9, <2>10, RunMoves DEF CommitFile, db
<1>15. CASE UpsertPull(r)
  <2>1. branches[n] \in Branch
    BY <1>11, <1>15, BranchKinds DEF UpsertPull
  <2>2. [branches[n] EXCEPT !.open = TRUE] \in Branch
    BY <2>1 DEF Branch
  <2>3. branches' = [branches EXCEPT ![n] = [branches[n] EXCEPT !.open = TRUE]]
    BY <1>15 DEF UpsertPull
  <2>4. GitOK'
    BY <1>1, <1>15, <2>2, <2>3 DEF UpsertPull, GitOK
  <2> QED
    BY <1>12, <1>15, <2>4 DEF UpsertPull, Committed
<1>16. CASE SetSandboxStatus(r)
  <2>1. run[r].head \in 1 .. Len(trees) /\ Evidence(r) \in States
    BY <1>1, <1>16 DEF SetSandboxStatus, RunOK, Committed, Evidence, States
  <2>2. checks' \in Seq(States) /\ Len(checks') = Len(checks)
    BY <1>1, <1>16, <2>1, ExceptSeq DEF SetSandboxStatus, GitOK
  <2>3. GitOK'
    BY <1>1, <1>16, <2>2 DEF SetSandboxStatus, GitOK
  <2> QED
    BY <1>12, <1>16, <2>3 DEF SetSandboxStatus, Committed
<1>17. CASE Merge(r)
  <2>1. GitOK'
    BY <1>11, <1>17, MergeKinds DEF Merge, CanMerge
  <2> QED
    BY <1>12, <1>17, <2>1 DEF Merge, Committed
<1>18. CASE DeleteBranch(r)
  <2>1. GitOK'
    BY <1>1, <1>18 DEF DeleteBranch, GitOK
  <2> QED
    BY <1>12, <1>18, <2>1 DEF DeleteBranch, Committed
<1>19. CASE ReadBaseline(r)
  <2> DEFINE v == [run[r] EXCEPT !.at = "record", !.prev = baseline]
  <2>1. v \in Run /\ v.at = "record" /\ v.change = run[r].change
        /\ v.head = run[r].head /\ v.prev = baseline
    BY <1>1 DEF Run
  <2>2. run' = [run EXCEPT ![r] = v]
    BY <1>19 DEF ReadBaseline
  <2> QED
    BY <1>0, <1>1, <1>19, <2>1, <2>2, RunMovesOn DEF ReadBaseline, RunOK, Committed
<1>20. CASE RecordPromotion(r)
  <2>1. row' \in Row /\ RowOK(row)' /\ row'.status # "none"
    BY <1>1, <1>20 DEF RecordPromotion, RunOK, RowOK, Row, Run, Blocking, git, Committed
  <2>2. GitOK' /\ Len(trees) <= Len(trees') /\ trees' = trees
    BY <1>1, <1>20 DEF RecordPromotion, git, GitOK
  <2>3. /\ Idle.at = "idle" /\ Idle.at \notin Committed
        /\ Idle.head <= Len(trees) /\ Idle.prev <= Len(trees)
    BY <1>1 DEF Idle, Committed
  <2> QED
    BY <1>1, <1>20, <2>1, <2>2, <2>3, RunMoves DEF RecordPromotion, Return
<1> QED
  BY <1>4, <1>5, <1>6, <1>7, <1>8, <1>9, <1>10, <1>13, <1>14, <1>15, <1>16,
     <1>17, <1>18, <1>19, <1>20 DEF RunStep

\* A step of a tick that leaves the commits, the rows and the history alone.
LEMMA TickMovesOn ==
  ASSUME TypeInv, NEW t \in Ticks, NEW v \in Tick,
         tick' = [tick EXCEPT ![t] = v],
         RowOK(v.row),
         v.at # "off" => v.row.status # "none" /\ row.status # "none",
         v.at \in Restoring => v.row.prev # 0,
         GitOK', trees' = trees, UNCHANGED <<db, overdue, run, faults, good>>
  PROVE  TypeInv'
<1>1. row' \in Row /\ row' = row /\ baseline' \in Commits /\ baseline' <= Len(trees)
      /\ good' \in Tree
  BY DEF TypeInv, TypeOK, db
<1>2. RowOK(row)'
  BY DEF TypeInv, RowOK, db
<1>3. UNCHANGED <<paused, overdue, run, faults>>
  BY DEF db
<1> QED
  BY <1>1, <1>2, <1>3, TickMoves

\* Every step of a monitor tick keeps the types.
LEMMA TickKeepsTypes ==
  ASSUME TypeInv, NEW t \in Ticks, TickStep(t)
  PROVE  TypeInv'
<1> DEFINE n == RollbackOf(t)
<1> DEFINE w == tick[t].row
<1> DEFINE Same == UNCHANGED <<db, overdue, run, faults, good>>
<1> DEFINE Rest == UNCHANGED <<git, paused, overdue, run, faults>>
<1>1. /\ tick[t] \in Tick /\ TickOK(t) /\ GitOK /\ Len(trees) \in Nat
      /\ Off \in Tick /\ row \in Row /\ RowOK(row) /\ baseline \in Commits
      /\ baseline <= Len(trees) /\ good \in Tree /\ main \in Tree
  BY Resting DEF TypeInv, TypeOK, GitOK, Commits
<1>2. w \in Row /\ RowOK(w)
  BY <1>1 DEF TickOK, Tick
<1>3. tick[t].at # "off" => /\ w.change \in Changes /\ n \in Names
                            /\ row.status # "none" /\ w.status # "none"
  BY <1>1, <1>2 DEF TickOK, RowOK, RollbackOf, Names
<1>4. RowOK(Off.row) /\ Off.at = "off" /\ Off.at \notin Restoring
  BY <1>1 DEF Off, NoRow, RowOK, Restoring
<1>5. UNCHANGED git => GitOK' /\ trees' = trees
  BY <1>1 DEF git, GitOK
<1>6. ASSUME NEW l \in {"health", "confirm", "rewrite", "failed", "rollback", "passed",
                        "giveup", "restore", "merge", "cleanup", "restored",
                        "rolledback"}
      PROVE  LET v == [tick[t] EXCEPT !.at = l]
             IN  v \in Tick /\ v.at = l /\ v.row = w
  BY <1>1 DEF Tick
<1>7. ASSUME NEW l \in {"confirm", "rewrite", "failed", "giveup", "merge", "cleanup",
                        "restored"},
             tick[t].at # "off", l \in Restoring => tick[t].at \in Restoring,
             GotoTick(t, l), GitOK', trees' = trees, Same
      PROVE  TypeInv'
  <2> DEFINE v == [tick[t] EXCEPT !.at = l]
  <2>1. v \in Tick /\ v.at = l /\ v.row = w
    BY <1>6
  <2>2. tick' = [tick EXCEPT ![t] = v]
    BY <1>7 DEF GotoTick
  <2>3. v.at \in Restoring => v.row.prev # 0
    BY <1>1, <1>7, <2>1 DEF TickOK
  <2> QED
    BY <1>2, <1>3, <1>7, <2>1, <2>2, <2>3, TickMovesOn
\* The row the tick has read, under another status.
<1>8. ASSUME NEW s \in Blocking \cup {"health_passed", "rolled_back"},
             tick[t].at # "off"
      PROVE  Written(t, s) \in Row /\ RowOK(Written(t, s)) /\ Written(t, s).status # "none"
  <2>1. s # "none"
    BY DEF Blocking
  <2>2. /\ Written(t, s).status = s /\ Written(t, s).change = w.change
        /\ Written(t, s).head = w.head /\ Written(t, s).prev = w.prev
        /\ Written(t, s) \in Row
    BY <1>2 DEF Written, Row
  <2>3. w.change \in Changes /\ w.head <= Len(trees) /\ w.prev <= Len(trees)
    BY <1>2, <1>3, <1>8 DEF RowOK
  <2> QED
    BY <2>1, <2>2, <2>3 DEF RowOK
<1>9. ASSUME NEW s \in Blocking \cup {"rolled_back"},
             NEW k \in {"in_progress", "failed", "succeeded"},
             tick[t].at # "off"
      PROVE  /\ WrittenRollback(t, s, k) \in Row /\ RowOK(WrittenRollback(t, s, k))
             /\ WrittenRollback(t, s, k).status # "none"
  <2> DEFINE u == WrittenRollback(t, s, k)
  <2>1. s # "none"
    BY DEF Blocking
  <2>2. u.status = s /\ u.change = w.change /\ u.head = w.head /\ u.prev = w.prev
        /\ u \in Row
    BY <1>2 DEF WrittenRollback, Row
  <2>3. w.change \in Changes /\ w.head <= Len(trees) /\ w.prev <= Len(trees)
    BY <1>2, <1>3, <1>9 DEF RowOK
  <2> QED
    BY <2>1, <2>2, <2>3 DEF RowOK
\* A write of the row that is followed by the end of the tick, or by a label.
<1>10. ASSUME NEW u \in Row, RowOK(u), u.status # "none", row' = u,
              EndTick(t), Rest, baseline' = baseline, good' \in Tree
       PROVE  TypeInv'
  <2>1. GitOK' /\ trees' = trees /\ row' \in Row /\ row'.status # "none" /\ RowOK(row)'
    BY <1>5, <1>10 DEF RowOK
  <2> QED
    BY <1>1, <1>4, <1>10, <2>1, TickMoves DEF EndTick
<1>11. ASSUME NEW u \in Row, RowOK(u), u.status # "none", row' = u,
              NEW l \in {"rollback", "restore"}, tick[t].at # "off",
              l \in Restoring => tick[t].at \in Restoring,
              GotoTick(t, l), Rest, baseline' = baseline, good' = good
       PROVE  TypeInv'
  <2> DEFINE v == [tick[t] EXCEPT !.at = l]
  <2>1. v \in Tick /\ v.at = l /\ v.row = w
    BY <1>6
  <2>2. tick' = [tick EXCEPT ![t] = v]
    BY <1>11 DEF GotoTick
  <2>3. v.at \in Restoring => v.row.prev # 0
    BY <1>1, <1>11, <2>1 DEF TickOK
  <2>4. GitOK' /\ trees' = trees /\ row' \in Row /\ row'.status # "none" /\ RowOK(row)'
    BY <1>5, <1>11 DEF RowOK
  <2> QED
    BY <1>1, <1>2, <1>3, <1>11, <2>1, <2>2, <2>3, <2>4, TickMoves
\* A write of the baseline.
<1>12. ASSUME NEW b \in {w.head, w.prev}, baseline' = b, tick[t].at # "off",
              NEW l \in {"passed", "rolledback"},
              l \in Restoring => tick[t].at \in Restoring,
              GotoTick(t, l), Rest, row' = row, good' = good
       PROVE  TypeInv'
  <2> DEFINE v == [tick[t] EXCEPT !.at = l]
  <2>1. v \in Tick /\ v.at = l /\ v.row = w
    BY <1>6
  <2>2. tick' = [tick EXCEPT ![t] = v]
    BY <1>12 DEF GotoTick
  <2>3. v.at \in Restoring => v.row.prev # 0
    BY <1>1, <1>12, <2>1 DEF TickOK
  <2>4. GitOK' /\ trees' = trees /\ row' \in Row /\ RowOK(row)'
    BY <1>1, <1>5, <1>12 DEF RowOK
  <2>5. baseline' \in Commits /\ baseline' <= Len(trees)
    BY <1>2, <1>12 DEF Row, RowOK
  <2> QED
    BY <1>1, <1>2, <1>3, <1>12, <2>1, <2>2, <2>3, <2>4, <2>5, TickMoves
<1>13. CASE TickReads(t)
  <2> DEFINE v == [at |-> "health", row |-> row, late |-> row.head \in overdue]
  <2>1. v \in Tick /\ v.row = row /\ v.at = "health"
    BY <1>1 DEF Tick
  <2>2. v.at \notin Restoring
    BY <2>1 DEF Restoring
  <2> QED
    BY <1>1, <1>5, <1>13, <2>1, <2>2, TickMovesOn DEF TickReads
<1>14. CASE ReadHealth(t)
  <2>1. PICK healthy \in BOOLEAN :
          GotoTick(t, IF healthy THEN "confirm"
                      ELSE IF tick[t].late THEN "failed" ELSE "rewrite")
    BY <1>14 DEF ReadHealth
  <2> QED
    BY <1>5, <1>7, <1>14, <2>1 DEF ReadHealth, Restoring
<1>15. CASE ConfirmBaseline(t)
  BY <1>12, <1>15 DEF ConfirmBaseline, git, Restoring
<1>16. CASE WindowPasses(t)
  BY <1>1, <1>8, <1>10, <1>16 DEF WindowPasses
<1>17. CASE WindowStaysOpen(t)
  BY <1>1, <1>8, <1>10, <1>17 DEF WindowStaysOpen, Blocking
<1>18. CASE WindowFails(t)
  BY <1>8, <1>11, <1>18 DEF WindowFails, Blocking, Restoring
<1>19. CASE RollbackReads(t)
  <2>0. row.status # "none" /\ GitOK' /\ trees' = trees /\ Same
    BY <1>3, <1>5, <1>19 DEF RollbackReads
  <2> DEFINE Goes(l) == tick' = [tick EXCEPT ![t].at = l, ![t].row = row]
  <2>1. ASSUME NEW l \in {"giveup", "start"}, Goes(l), l = "start" => row.prev # 0
        PROVE  TypeInv'
    <3> DEFINE v == [tick[t] EXCEPT !.at = l, !.row = row]
    <3>1. v \in Tick /\ v.at = l /\ v.row = row
      BY <1>1 DEF Tick
    <3>2. tick' = [tick EXCEPT ![t] = v]
      BY <2>1
    <3>3. v.at \in Restoring => v.row.prev # 0
      BY <2>1, <3>1 DEF Restoring
    <3> QED
      BY <1>1, <2>0, <3>1, <3>2, <3>3, TickMovesOn
  <2>2. ASSUME EndTick(t) PROVE TypeInv'
    BY <1>1, <1>4, <2>0, <2>2, TickMovesOn DEF EndTick
  <2> QED
    BY <1>19, <2>1, <2>2 DEF RollbackReads, EndTick
<1>20. CASE StartRollback(t)
  BY <1>9, <1>11, <1>20 DEF StartRollback, Blocking, Restoring
<1>21. CASE RestoreFile(t)
  <2>1. tick[t].at \in Restoring /\ w.prev \in 1 .. Len(trees)
    BY <1>1, <1>2, <1>21 DEF RestoreFile, Restoring, TickOK, Row, RowOK, Commits
  <2>2. n \in Names /\ EnsuredBranch(n) \in Branch /\ TargetFile(n) \in Files
    BY <1>3, <1>21, BranchKinds DEF RestoreFile
  <2>3. trees[w.prev] \in Tree
    BY <1>1, <2>1 DEF GitOK
  <2> DEFINE b == [base |-> EnsuredBranch(n).base, tip |-> t, open |-> TRUE,
                   content |-> trees[w.prev][TargetFile(n)]]
  <2>4. b \in Branch
    BY <2>2, <2>3 DEF Branch, Tree
  <2>5. branches' = [branches EXCEPT ![n] = b]
    BY <1>21 DEF RestoreFile
  <2>6. GitOK' /\ trees' = trees
    BY <1>1, <1>21, <2>4, <2>5 DEF RestoreFile, GitOK
  <2> QED
    BY <1>7, <1>21, <2>1, <2>6 DEF RestoreFile
<1>22. CASE RestoreMerge(t)
  <2>1. n \in Names /\ branches[n] # NoBranch
    BY <1>3, <1>22 DEF RestoreMerge, CanMerge
  <2>2. GitOK' /\ trees' = trees
    BY <1>22, <2>1, MergeKinds DEF RestoreMerge
  <2> QED
    BY <1>7, <1>22, <2>2 DEF RestoreMerge, Restoring
<1>23. CASE RestoreCleanup(t)
  <2>1. GitOK' /\ trees' = trees
    BY <1>1, <1>23 DEF RestoreCleanup, GitOK
  <2> QED
    BY <1>7, <1>23, <2>1 DEF RestoreCleanup, Restoring
<1>24. CASE RestoreFails(t)
  BY <1>5, <1>7, <1>24 DEF RestoreFails, Restoring
<1>25. CASE GiveUp(t)
  BY <1>1, <1>9, <1>10, <1>25 DEF GiveUp, Blocking
<1>26. CASE RestoreBaseline(t)
  BY <1>12, <1>26 DEF RestoreBaseline, git, Restoring
<1>27. CASE RolledBack(t)
  BY <1>1, <1>9, <1>10, <1>27 DEF RolledBack
<1> QED
  BY <1>13, <1>14, <1>15, <1>16, <1>17, <1>18, <1>19, <1>20, <1>21, <1>22, <1>23,
     <1>24, <1>25, <1>26, <1>27 DEF TickStep

LEMMA TypeStep == TypeInv /\ [Next]_vars => TypeInv'
<1> SUFFICES ASSUME TypeInv, [Next]_vars PROVE TypeInv'
  OBVIOUS
<1>0. Len(trees) \in Nat
  BY DEF TypeInv, TypeOK, Commits
<1>1. CASE \E r \in Slots : RunStep(r)
  BY <1>1, RunKeepsTypes
<1>2. CASE \E t \in Ticks : TickStep(t)
  BY <1>2, TickKeepsTypes
<1>3. ASSUME faults < MaxFaults PROVE faults + 1 \in 0 .. MaxFaults
  BY <1>3, PromotionAssumption DEF TypeInv, TypeOK
<1>4. CASE \E t \in Ticks : TickFails(t)
  <2> PICK t \in Ticks : TickFails(t)
    BY <1>4
  <2>1. tick' = [tick EXCEPT ![t] = Off] /\ UNCHANGED <<git, db, overdue, run, good>>
    BY DEF TickFails, EndTick
  <2>2. faults' \in 0 .. MaxFaults
    BY <1>3 DEF TickFails
  <2>3. TypeOK'
    BY <2>1, <2>2, Resting DEF TypeInv, TypeOK, git, db
  <2>4. /\ RowOK(row)' /\ RowOK(Off.row)' /\ Off.at = "off" /\ "off" \notin Restoring
        /\ (baseline <= Len(trees))'
    BY <1>0, <2>1 DEF TypeInv, RowOK, Off, NoRow, Restoring, git, db
  <2>5. ASSUME NEW q \in Ticks PROVE TickOK(q)'
    BY <2>1, <2>4 DEF TypeInv, TypeOK, RowOK, TickOK, git, db
  <2>6. ASSUME NEW q \in Slots PROVE RunOK(q)'
    BY <2>1 DEF TypeInv, RunOK, git
  <2> QED
    BY <2>3, <2>4, <2>5, <2>6 DEF TypeInv
<1>5. CASE Crash
  <2>1. /\ run' = [r \in Slots |-> Idle] /\ tick' = [t \in Ticks |-> Off]
        /\ UNCHANGED <<git, db, overdue, good>> /\ faults' \in 0 .. MaxFaults
    BY <1>3, <1>5 DEF Crash
  <2>2. TypeOK'
    BY <2>1, Resting DEF TypeInv, TypeOK, git, db
  <2>3. (baseline <= Len(trees))' /\ RowOK(row)'
    BY <2>1 DEF TypeInv, RowOK, git, db
  <2>4. ASSUME NEW r \in Slots PROVE RunOK(r)'
    BY <1>0, <2>1 DEF RunOK, Idle, Committed, git
  <2>5. ASSUME NEW t \in Ticks PROVE TickOK(t)'
    BY <1>0, <2>1 DEF TickOK, RowOK, Off, NoRow, Restoring, git
  <2> QED
    BY <2>2, <2>3, <2>4, <2>5 DEF TypeInv
<1>6. CASE DeadlinePasses
  BY <1>6 DEF DeadlinePasses, TypeInv, TypeOK, RowOK, RunOK, TickOK, Row, git, db
<1>7. CASE SetPause
  BY <1>7 DEF SetPause, TypeInv, TypeOK, RowOK, RunOK, TickOK, git
<1>8. CASE UNCHANGED vars
  BY <1>8 DEF vars, TypeInv, TypeOK, RowOK, RunOK, TickOK, git, db
<1> QED
  BY <1>1, <1>2, <1>4, <1>5, <1>6, <1>7, <1>8 DEF Next

\* Every variable keeps its shape, however many runs and ticks overlap.
THEOREM TypeCorrect == Spec => []TypeOK
<1>1. TypeInv => TypeOK
  BY DEF TypeInv
<1> QED
  BY <1>1, TypeInit, TypeStep, PTL DEF Spec

-----------------------------------------------------------------------------
(* EvidenceBeforeMerge, for any number of runs and ticks.                  *)

\* A run goes past the verification only when it passed, and past the
\* publication of its evidence only with a successful status on its commit.
Published == {"gate", "recontrol", "merge"}
EvidenceOK(r) ==
    /\ run[r].at \notin {"idle", "verify"} => run[r].passed = TRUE
    /\ run[r].at \in Published => checks[run[r].head] = "success"
EvidenceInv == TypeInv /\ \A r \in Slots : EvidenceOK(r)

\* No step of a run takes the success of a commit away.
LEMMA SuccessStays ==
  ASSUME EvidenceInv, NEW r \in Slots, RunStep(r), NEW i \in 1 .. Len(trees),
         checks[i] = "success"
  PROVE  checks'[i] = "success"
<1>1. checks \in Seq(States) /\ Len(checks) = Len(trees) /\ Len(trees) \in Nat
  BY DEF EvidenceInv, TypeInv, TypeOK, Commits
<1>2. CASE CommitFile(r)
  BY <1>1, <1>2, AppendProperties DEF CommitFile, States
<1>3. CASE SetSandboxStatus(r)
  <2>1. run[r].passed = TRUE
    BY <1>3 DEF SetSandboxStatus, EvidenceInv, EvidenceOK
  <2>2. Evidence(r) = "success"
    BY <2>1 DEF Evidence
  <2> QED
    BY <1>1, <1>3, <2>2, ExceptSeq DEF SetSandboxStatus
<1> QED
  BY <1>2, <1>3
     DEF RunStep, Stage, Verify, ReadControl, ReadStatus, EnsureBranch, UpsertPull,
         Gate, ReadControlAgain, Merge, DeleteBranch, ReadBaseline, RecordPromotion,
         RunFails, git

LEMMA RunKeepsEvidence ==
  ASSUME EvidenceInv, NEW r \in Slots, RunStep(r), NEW q \in Slots
  PROVE  EvidenceOK(q)'
<1>1. run[q] \in Run /\ run[r] \in Run /\ RunOK(q) /\ RunOK(r) /\ EvidenceOK(q)
      /\ run \in [Slots -> Run]
  BY DEF EvidenceInv, TypeInv, TypeOK
<1>2. ASSUME run'[q] = run[q] PROVE EvidenceOK(q)'
  <2>1. run[q].at \in Published => run[q].head \in 1 .. Len(trees)
    BY <1>1 DEF RunOK, Published, Committed
  <2> QED
    BY <1>1, <1>2, <2>1, SuccessStays DEF EvidenceOK
<1>3. ASSUME q # r PROVE run'[q] = run[q]
  BY <1>1, <1>3
     DEF RunStep, Stage, Verify, ReadControl, ReadStatus, EnsureBranch, CommitFile,
         UpsertPull, SetSandboxStatus, Gate, ReadControlAgain, Merge, DeleteBranch,
         ReadBaseline, RecordPromotion, RunFails, Goto, Return
<1>4. ASSUME q = r, NEW l \in {"status", "branch", "commit", "evidence", "cleanup",
                               "baseline", "recontrol", "merge"},
             run[r].at \notin {"idle", "verify"}, Goto(r, l),
             l \in Published => run[r].at \in Published /\ checks' = checks
      PROVE  EvidenceOK(q)'
  <2>1. run'[q].at = l /\ run'[q].passed = run[q].passed /\ run'[q].head = run[q].head
    BY <1>1, <1>4 DEF Goto, Run
  <2> QED
    BY <1>1, <1>4, <2>1 DEF EvidenceOK
<1>5. ASSUME q = r, Return(r) PROVE EvidenceOK(q)'
  BY <1>1, <1>5 DEF Return, EvidenceOK, Idle, Published
<1>6. ASSUME q = r, \E c \in Changes : Stage(r, c) PROVE EvidenceOK(q)'
  <2>1. run'[q].at = "verify"
    BY <1>1, <1>6 DEF Stage, Idle
  <2> QED
    BY <2>1 DEF EvidenceOK, Published
<1>7. ASSUME q = r, Verify(r) PROVE EvidenceOK(q)'
  <2>1. CASE Return(r)
    BY <1>5, <1>7, <2>1
  <2>2. CASE run' = [run EXCEPT ![r].at = "control", ![r].passed = TRUE]
    <3>1. run'[q].at = "control" /\ run'[q].passed = TRUE
      BY <1>1, <1>7, <2>2 DEF Run
    <3> QED
      BY <3>1 DEF EvidenceOK, Published
  <2> QED
    BY <1>7, <2>1, <2>2 DEF Verify
<1>8. ASSUME q = r, CommitFile(r) PROVE EvidenceOK(q)'
  <2>1. run'[q].at = "pull" /\ run'[q].passed = run[q].passed
    BY <1>1, <1>8 DEF CommitFile, Run
  <2> QED
    BY <1>1, <1>8, <2>1 DEF EvidenceOK, Published, CommitFile
<1>9. ASSUME q = r, SetSandboxStatus(r) PROVE EvidenceOK(q)'
  <2>1. run'[q].at = "gate" /\ run'[q].passed = run[q].passed
        /\ run'[q].head = run[q].head
    BY <1>1, <1>9 DEF SetSandboxStatus, Goto, Run
  <2>2. run[q].passed = TRUE /\ Evidence(r) = "success"
    BY <1>1, <1>9 DEF SetSandboxStatus, EvidenceOK, Evidence
  <2>3. run[q].head \in 1 .. Len(checks)
    BY <1>1, <1>9 DEF SetSandboxStatus, RunOK, Committed, EvidenceInv, TypeInv, TypeOK
  <2>4. checks'[run[q].head] = "success"
    BY <1>9, <2>2, <2>3, ExceptSeq
       DEF SetSandboxStatus, EvidenceInv, TypeInv, TypeOK
  <2> QED
    BY <2>1, <2>2, <2>4 DEF EvidenceOK
<1>10. ASSUME q = r, ReadBaseline(r) PROVE EvidenceOK(q)'
  <2>1. run'[q].at = "record" /\ run'[q].passed = run[q].passed
    BY <1>1, <1>10 DEF ReadBaseline, Run
  <2> QED
    BY <1>1, <1>10, <2>1 DEF EvidenceOK, Published, ReadBaseline
<1>11. CASE q # r
  BY <1>2, <1>3, <1>11
<1>12. CASE q = r
  <2>1. CASE ReadControl(r)
    BY <1>4, <1>5, <1>12, <2>1 DEF ReadControl, Published
  <2>2. CASE ReadStatus(r)
    BY <1>4, <1>5, <1>12, <2>2 DEF ReadStatus, Published
  <2>3. CASE EnsureBranch(r)
    BY <1>4, <1>12, <2>3 DEF EnsureBranch, Published
  <2>4. CASE UpsertPull(r)
    BY <1>4, <1>12, <2>4 DEF UpsertPull, Published
  <2>5. CASE Gate(r)
    BY <1>4, <1>5, <1>12, <2>5 DEF Gate, Published, git
  <2>6. CASE ReadControlAgain(r)
    BY <1>4, <1>5, <1>12, <2>6 DEF ReadControlAgain, Published, git
  <2>7. CASE Merge(r)
    BY <1>4, <1>12, <2>7 DEF Merge, Published
  <2>8. CASE DeleteBranch(r)
    BY <1>4, <1>12, <2>8 DEF DeleteBranch, Published
  <2>9. CASE RecordPromotion(r) \/ RunFails(r)
    BY <1>5, <1>12, <2>9 DEF RecordPromotion, RunFails
  <2> QED
    BY <1>6, <1>7, <1>8, <1>9, <1>10, <1>12, <2>1, <2>2, <2>3, <2>4, <2>5, <2>6, <2>7,
       <2>8, <2>9 DEF RunStep
<1> QED
  BY <1>11, <1>12

LEMMA EvidenceStep == EvidenceInv /\ [Next]_vars => EvidenceInv'
<1> SUFFICES ASSUME EvidenceInv, [Next]_vars PROVE EvidenceInv'
  OBVIOUS
<1>1. TypeInv'
  BY TypeStep DEF EvidenceInv
<1>2. CASE \E r \in Slots : RunStep(r)
  BY <1>1, <1>2, RunKeepsEvidence DEF EvidenceInv
<1>3. CASE Crash
  BY <1>1, <1>3 DEF Crash, EvidenceInv, EvidenceOK, Idle, Published
<1>4. ASSUME UNCHANGED <<run, checks>> PROVE EvidenceInv'
  BY <1>1, <1>4 DEF EvidenceInv, EvidenceOK
<1>5. CASE \/ \E t \in Ticks : TickStep(t) \/ TickFails(t)
           \/ DeadlinePasses \/ SetPause \/ UNCHANGED vars
  BY <1>4, <1>5
     DEF TickStep, TickReads, ReadHealth, ConfirmBaseline, WindowPasses,
         WindowStaysOpen, WindowFails, RollbackReads, StartRollback, RestoreFile,
         RestoreMerge, RestoreCleanup, RestoreFails, GiveUp, RestoreBaseline,
         RolledBack, TickFails, DeadlinePasses, SetPause, vars, git
<1> QED
  BY <1>2, <1>3, <1>5 DEF Next

\* The pull request that a step closes with its branch kept has its evidence.
LEMMA MergedHasEvidence ==
  ASSUME EvidenceInv, [Next]_vars, NEW n \in Names, n[1] = "change",
         branches[n] # NoBranch, branches'[n] # NoBranch,
         branches[n].open, ~branches'[n].open
  PROVE  checks[branches[n].tip] = "success"
<1>1. branches \in [Names -> Branch \cup {NoBranch}] /\ branches[n] \in Branch
  BY DEF EvidenceInv, TypeInv, TypeOK
<1>2. branches'[n] # branches[n]
  OBVIOUS
<1>3. ASSUME NEW r \in Slots, EnsureBranch(r) PROVE FALSE
  BY <1>1, <1>2, <1>3 DEF EnsureBranch, EnsuredBranch
<1>4. ASSUME NEW r \in Slots, CommitFile(r) PROVE FALSE
  <2> DEFINE m == BranchOf(r)
  <2>1. branches' = [branches EXCEPT ![m] = [branches[m] EXCEPT !.content = run[r].change,
                                                  !.tip = Len(trees) + 1]]
    BY <1>4 DEF CommitFile
  <2>2. n = m
    BY <1>1, <1>2, <2>1
  <2>3. branches'[n] = [branches[n] EXCEPT !.content = run[r].change,
                                           !.tip = Len(trees) + 1]
    BY <1>1, <2>1, <2>2
  <2>4. branches'[n].open = branches[n].open
    BY <1>1, <2>3 DEF Branch
  <2> QED
    BY <2>4
<1>5. ASSUME NEW r \in Slots, UpsertPull(r) PROVE FALSE
  <2> DEFINE m == BranchOf(r)
  <2>1. branches' = [branches EXCEPT ![m] = [branches[m] EXCEPT !.open = TRUE]]
    BY <1>5 DEF UpsertPull
  <2>2. n = m
    BY <1>1, <1>2, <2>1
  <2>3. branches'[n].open = TRUE
    BY <1>1, <2>1, <2>2 DEF Branch
  <2> QED
    BY <2>3
<1>6. ASSUME NEW r \in Slots, Merge(r) PROVE checks[branches[n].tip] = "success"
  <2>1. n = BranchOf(r)
    BY <1>1, <1>2, <1>6 DEF Merge, MergePull
  <2>2. branches[n].tip = run[r].head
    BY <1>6, <2>1 DEF Merge, CanMerge
  <2>3. checks[run[r].head] = "success"
    BY <1>6 DEF Merge, EvidenceInv, EvidenceOK, Published
  <2> QED
    BY <2>2, <2>3
<1>7. ASSUME NEW r \in Slots, DeleteBranch(r) PROVE FALSE
  BY <1>1, <1>2, <1>7 DEF DeleteBranch
<1>8. ASSUME NEW t \in Ticks, RestoreFile(t) \/ RestoreMerge(t) \/ RestoreCleanup(t)
      PROVE  FALSE
  <2>1. n # RollbackOf(t)
    BY DEF RollbackOf
  <2> QED
    BY <1>1, <1>2, <1>8, <2>1 DEF RestoreFile, RestoreMerge, RestoreCleanup, MergePull
<1>9. CASE UNCHANGED branches
  BY <1>2, <1>9
<1>10. ASSUME NEW r \in Slots, RunStep(r)
       PROVE  checks[branches[n].tip] = "success"
  BY <1>3, <1>4, <1>5, <1>6, <1>7, <1>9, <1>10
     DEF RunStep, Stage, Verify, ReadControl, ReadStatus, SetSandboxStatus, Gate,
         ReadControlAgain, ReadBaseline, RecordPromotion, RunFails, git
<1>11. ASSUME NEW t \in Ticks, TickStep(t) \/ TickFails(t)
       PROVE  checks[branches[n].tip] = "success"
  BY <1>8, <1>9, <1>11
     DEF TickStep, TickReads, ReadHealth, ConfirmBaseline, WindowPasses,
         WindowStaysOpen, WindowFails, RollbackReads, StartRollback, RestoreFails,
         GiveUp, RestoreBaseline, RolledBack, TickFails, git
<1>12. CASE Crash \/ DeadlinePasses \/ SetPause \/ UNCHANGED vars
  BY <1>9, <1>12 DEF Crash, DeadlinePasses, SetPause, vars, git
<1> QED
  BY <1>10, <1>11, <1>12 DEF Next

\* A run merges only what it has published successful evidence for, however
\* many runs share the branch and whatever the monitor does meanwhile.
THEOREM EvidencePublished == Spec => EvidenceBeforeMerge
<1>1. Init => EvidenceInv
  BY TypeInit DEF Init, EvidenceInv, EvidenceOK, Idle, Published
<1>2. EvidenceInv /\ [Next]_vars =>
        [\A n \in Names : n[1] = "change" /\ branches[n] # NoBranch
           /\ branches'[n] # NoBranch /\ branches[n].open /\ ~branches'[n].open
         => checks[branches[n].tip] = "success"]_vars
  BY MergedHasEvidence
<1> QED
  BY <1>1, <1>2, EvidenceStep, PTL DEF Spec, EvidenceBeforeMerge

-----------------------------------------------------------------------------
(* The promises of the status row, for one run and one tick at a time.     *)

OneEach == (\A r, q \in Slots : r = q) /\ (\A t, u \in Ticks : t = u)

\* Labels of a tick before the window is decided, and while it restores.
Watching  == {"health", "confirm", "passed", "rewrite", "failed"}
Replacing == {"restore", "merge", "cleanup", "restored", "rolledback"}

\* A run past the check of the row finds no promotion unresolved until it
\* opens its own window, with the baseline it has read.
RunAlone(r) ==
    /\ run[r].at \in Admitted => row.status \notin Blocking
    /\ run[r].at = "record" => run[r].prev = baseline

\* The row a tick works from is the row as it is, and its status follows from
\* how far the tick has come.
TickAlone(t) ==
    /\ tick[t].at # "off" => /\ row.status \in Blocking
                             /\ tick[t].row.head = row.head
                             /\ tick[t].row.prev = row.prev
    /\ tick[t].at \in Watching => row.status = "promoted_pending_health"
    /\ tick[t].at \in Replacing => row.status = "rollback_in_progress"
    /\ tick[t].at = "passed" => baseline = row.head
    /\ tick[t].at = "rolledback" => baseline = row.prev

AloneInv == /\ TypeInv /\ BaselineAgrees
            /\ \A r \in Slots : RunAlone(r)
            /\ \A t \in Ticks : TickAlone(t)

LEMMA RunKeepsAlone ==
  ASSUME AloneInv, OneEach, NEW r \in Slots, RunStep(r)
  PROVE  BaselineAgrees' /\ RunAlone(r)' /\ \A t \in Ticks : TickAlone(t)'
<1> DEFINE Goal == BaselineAgrees' /\ RunAlone(r)' /\ \A t \in Ticks : TickAlone(t)'
<1>1. run \in [Slots -> Run] /\ run[r] \in Run /\ RunAlone(r) /\ BaselineAgrees
      /\ \A t \in Ticks : TickAlone(t)
  BY DEF AloneInv, TypeInv, TypeOK
<1>2. ASSUME UNCHANGED <<row, baseline, tick>>, RunAlone(r)' PROVE Goal
  <2>1. BaselineAgrees'
    BY <1>1, <1>2 DEF BaselineAgrees
  <2>2. ASSUME NEW t \in Ticks PROVE TickAlone(t)'
    BY <1>1, <1>2 DEF TickAlone
  <2> QED
    BY <1>2, <2>1, <2>2
<1>3. ASSUME UNCHANGED <<row, baseline, tick>>,
             NEW l \in {"control", "status", "branch", "commit", "pull", "evidence",
                        "gate", "recontrol", "merge", "cleanup", "baseline"},
             run'[r].at = l,
             l \in Admitted => run[r].at \in Admitted \/ row.status \notin Blocking
      PROVE  Goal
  <2>1. RunAlone(r)'
    BY <1>1, <1>3 DEF RunAlone
  <2> QED
    BY <1>2, <1>3, <2>1
<1>4. ASSUME UNCHANGED <<row, baseline, tick>>, Return(r) PROVE Goal
  <2>1. run'[r].at = "idle"
    BY <1>1, <1>4 DEF Return, Idle
  <2>2. RunAlone(r)'
    BY <2>1 DEF RunAlone, Admitted, Committed
  <2> QED
    BY <1>2, <1>4, <2>2
<1>5. ASSUME NEW l \in {"status", "branch", "commit", "evidence", "gate", "recontrol",
                        "merge", "cleanup", "baseline"}, Goto(r, l)
      PROVE  run'[r].at = l
  BY <1>1, <1>5 DEF Goto, Run
<1>6. CASE \E c \in Changes : Stage(r, c)
  <2>1. run'[r].at = "verify" /\ UNCHANGED <<row, baseline, tick>>
    BY <1>1, <1>6 DEF Stage, Idle, db
  <2>2. RunAlone(r)'
    BY <2>1 DEF RunAlone, Admitted, Committed
  <2> QED
    BY <1>2, <2>1, <2>2
<1>7. CASE Verify(r)
  <2>1. UNCHANGED <<row, baseline, tick>>
    BY <1>7 DEF Verify, db
  <2>2. CASE run' = [run EXCEPT ![r].at = "control", ![r].passed = TRUE]
    <3>1. run'[r].at = "control"
      BY <1>1, <2>2 DEF Run
    <3> QED
      BY <1>3, <2>1, <3>1 DEF Admitted, Committed
  <2> QED
    BY <1>4, <1>7, <2>1, <2>2 DEF Verify
<1>8. CASE ReadControl(r)
  BY <1>3, <1>4, <1>5, <1>8 DEF ReadControl, Admitted, Committed, db
<1>9. CASE ReadStatus(r)
  BY <1>3, <1>4, <1>5, <1>9 DEF ReadStatus, db
<1>10. CASE EnsureBranch(r)
  BY <1>3, <1>5, <1>10 DEF EnsureBranch, Admitted, db
<1>11. CASE CommitFile(r)
  <2>1. run'[r].at = "pull" /\ UNCHANGED <<row, baseline, tick>>
    BY <1>1, <1>11 DEF CommitFile, Run, db
  <2> QED
    BY <1>3, <1>11, <2>1 DEF CommitFile, Admitted
<1>12. CASE UpsertPull(r)
  BY <1>3, <1>5, <1>12 DEF UpsertPull, Admitted, Committed, db
<1>13. CASE SetSandboxStatus(r)
  BY <1>3, <1>5, <1>13 DEF SetSandboxStatus, Admitted, Committed, db
<1>14. CASE Gate(r)
  BY <1>3, <1>4, <1>5, <1>14 DEF Gate, Admitted, Committed, db
<1>15. CASE ReadControlAgain(r)
  BY <1>3, <1>4, <1>5, <1>15 DEF ReadControlAgain, Admitted, Committed, db
<1>16. CASE Merge(r)
  BY <1>3, <1>5, <1>16 DEF Merge, Admitted, Committed, db
<1>17. CASE DeleteBranch(r)
  BY <1>3, <1>5, <1>17 DEF DeleteBranch, Admitted, Committed, db
<1>18. CASE ReadBaseline(r)
  <2>1. /\ run'[r].at = "record" /\ run'[r].prev = baseline
        /\ UNCHANGED <<row, baseline, tick>>
    BY <1>1, <1>18 DEF ReadBaseline, Run, db
  <2>2. row.status \notin Blocking
    BY <1>1, <1>18 DEF ReadBaseline, RunAlone, Admitted, Committed
  <2>3. RunAlone(r)'
    BY <2>1, <2>2 DEF RunAlone
  <2> QED
    BY <1>2, <2>1, <2>3
<1>19. CASE RecordPromotion(r)
  <2>1. row.status \notin Blocking /\ run[r].prev = baseline
    BY <1>1, <1>19 DEF RecordPromotion, RunAlone, Admitted, Committed
  <2>2. /\ row'.status = "promoted_pending_health" /\ row'.prev = baseline
        /\ baseline' = baseline /\ tick' = tick /\ run'[r].at = "idle"
    BY <1>1, <1>19, <2>1 DEF RecordPromotion, Return, Idle
  <2>3. BaselineAgrees'
    BY <2>2 DEF BaselineAgrees, Blocking
  <2>4. RunAlone(r)'
    BY <2>2 DEF RunAlone, Admitted, Committed
  <2>5. ASSUME NEW t \in Ticks PROVE tick[t].at = "off"
    BY <1>1, <2>1 DEF TickAlone
  <2>6. ASSUME NEW t \in Ticks PROVE TickAlone(t)'
    BY <2>2, <2>5 DEF TickAlone, Watching, Replacing
  <2> QED
    BY <2>3, <2>4, <2>6
<1>20. CASE RunFails(r)
  BY <1>4, <1>20 DEF RunFails, db
<1> QED
  BY <1>6, <1>7, <1>8, <1>9, <1>10, <1>11, <1>12, <1>13, <1>14, <1>15, <1>16, <1>17,
     <1>18, <1>19, <1>20 DEF RunStep

LEMMA TickKeepsAlone ==
  ASSUME AloneInv, OneEach, NEW t \in Ticks, TickStep(t)
  PROVE  BaselineAgrees' /\ TickAlone(t)' /\ \A r \in Slots : RunAlone(r)'
<1> DEFINE Goal == BaselineAgrees' /\ TickAlone(t)' /\ \A r \in Slots : RunAlone(r)'
<1> DEFINE w == tick[t].row
<1>1. /\ tick \in [Ticks -> Tick] /\ tick[t] \in Tick /\ w \in Row
      /\ TickAlone(t) /\ BaselineAgrees /\ \A r \in Slots : RunAlone(r)
  BY DEF AloneInv, TypeInv, TypeOK, Tick
\* While a tick works, no run is past the check of the row.
<1>2. tick[t].at # "off" \/ row.status \in Blocking
        => \A r \in Slots : run[r].at \notin Admitted /\ run[r].at # "record"
  BY <1>1 DEF TickAlone, RunAlone, Admitted, Committed
<1>3. tick[t].at # "off" \/ row.status \in Blocking
        => (run' = run => \A r \in Slots : RunAlone(r)')
  BY <1>2 DEF RunAlone
<1>4. ASSUME UNCHANGED <<row, baseline, run>>, TickAlone(t)' PROVE Goal
  BY <1>1, <1>4 DEF BaselineAgrees, RunAlone
<1>5. ASSUME UNCHANGED <<row, baseline, run>>, EndTick(t) PROVE Goal
  <2>1. tick'[t].at = "off"
    BY <1>1, <1>5 DEF EndTick, Off
  <2>2. TickAlone(t)'
    BY <2>1 DEF TickAlone, Watching, Replacing
  <2> QED
    BY <1>4, <1>5, <2>2
<1>6. ASSUME NEW l \in {"confirm", "passed", "rewrite", "failed", "rollback", "restore",
                        "merge", "cleanup", "restored", "rolledback", "giveup"},
             GotoTick(t, l)
      PROVE  tick'[t].at = l /\ tick'[t].row = w
  BY <1>1, <1>6 DEF GotoTick, Tick
<1>7. ASSUME NEW l \in {"confirm", "rewrite", "failed", "merge", "cleanup", "restored",
                        "giveup"},
             UNCHANGED <<row, baseline, run>>, tick[t].at # "off", GotoTick(t, l),
             l \in Watching => tick[t].at \in Watching,
             l \in Replacing => tick[t].at \in Replacing
      PROVE  Goal
  <2>1. tick'[t].at = l /\ tick'[t].row = w
    BY <1>6, <1>7
  <2>2. TickAlone(t)'
    BY <1>1, <1>7, <2>1 DEF TickAlone
  <2> QED
    BY <1>4, <1>7, <2>2
\* What the tick writes has the head and the baseline of the row.
<1>8. ASSUME NEW s, tick[t].at # "off"
      PROVE  /\ Written(t, s).status = s
             /\ Written(t, s).head = row.head /\ Written(t, s).prev = row.prev
  BY <1>1, <1>8 DEF Written, Row, TickAlone
<1>9. ASSUME NEW s, NEW k, tick[t].at # "off"
      PROVE  /\ WrittenRollback(t, s, k).status = s
             /\ WrittenRollback(t, s, k).head = row.head
             /\ WrittenRollback(t, s, k).prev = row.prev
  BY <1>1, <1>9 DEF WrittenRollback, Row, TickAlone
<1>10. tick[t].at # "off" => row.status \in Blocking /\ baseline \in {row.head, row.prev}
  BY <1>1 DEF TickAlone, BaselineAgrees
\* The row gets another unresolved status, or a resolved one that agrees.
<1>11. ASSUME NEW s, tick[t].at # "off", baseline' = baseline, run' = run,
              row'.status = s, row'.head = row.head, row'.prev = row.prev,
              \/ s \in Blocking
              \/ s = "health_passed" /\ baseline = row.head
              \/ s = "rolled_back" /\ baseline = row.prev
       PROVE  BaselineAgrees' /\ \A r \in Slots : RunAlone(r)'
  <2>1. BaselineAgrees'
    BY <1>10, <1>11 DEF BaselineAgrees, Blocking
  <2> QED
    BY <1>3, <1>11, <2>1
<1>12. CASE TickReads(t)
  <2>1. tick'[t].at = "health" /\ tick'[t].row = row
        /\ UNCHANGED <<row, baseline, run>> /\ row.status = "promoted_pending_health"
    BY <1>1, <1>12 DEF TickReads, db
  <2>2. TickAlone(t)'
    BY <2>1 DEF TickAlone, Watching, Replacing, Blocking
  <2> QED
    BY <1>4, <2>1, <2>2
<1>13. CASE ReadHealth(t)
  <2>1. PICK healthy \in BOOLEAN :
          GotoTick(t, IF healthy THEN "confirm"
                      ELSE IF tick[t].late THEN "failed" ELSE "rewrite")
    BY <1>13 DEF ReadHealth
  <2> QED
    BY <1>7, <1>13, <2>1 DEF ReadHealth, Watching, Replacing, db
<1>14. CASE ConfirmBaseline(t)
  <2>1. /\ tick'[t].at = "passed" /\ tick'[t].row = w /\ baseline' = row.head
        /\ row' = row /\ run' = run /\ tick[t].at = "confirm"
    BY <1>1, <1>6, <1>14 DEF ConfirmBaseline, TickAlone
  <2>2. row.status = "promoted_pending_health"
    BY <1>1, <2>1 DEF TickAlone, Watching
  <2>3. TickAlone(t)'
    BY <1>1, <2>1, <2>2 DEF TickAlone, Watching, Replacing
  <2>4. BaselineAgrees'
    BY <2>1, <2>2 DEF BaselineAgrees
  <2> QED
    BY <1>3, <2>1, <2>3, <2>4
<1>15. ASSUME EndTick(t) PROVE TickAlone(t)'
  <2>1. tick'[t].at = "off"
    BY <1>1, <1>15 DEF EndTick, Off
  <2> QED
    BY <2>1 DEF TickAlone, Watching, Replacing
<1>16. CASE WindowPasses(t)
  <2>1. baseline = row.head /\ tick[t].at # "off"
    BY <1>1, <1>16 DEF WindowPasses, TickAlone
  <2> QED
    BY <1>8, <1>11, <1>15, <1>16, <2>1 DEF WindowPasses
<1>17. CASE WindowStaysOpen(t)
  BY <1>8, <1>11, <1>15, <1>17 DEF WindowStaysOpen, Blocking
<1>18. CASE WindowFails(t)
  <2>1. /\ tick'[t].at = "rollback" /\ tick'[t].row = w /\ tick[t].at # "off"
        /\ row'.status = "health_failed" /\ row'.head = row.head /\ row'.prev = row.prev
        /\ baseline' = baseline /\ run' = run
    BY <1>6, <1>8, <1>18 DEF WindowFails
  <2>2. TickAlone(t)'
    BY <1>1, <2>1 DEF TickAlone, Watching, Replacing, Blocking
  <2> QED
    BY <1>11, <2>1, <2>2 DEF Blocking
<1>19. CASE RollbackReads(t)
  <2>1. UNCHANGED <<row, baseline, run>> /\ tick[t].at = "rollback"
    BY <1>19 DEF RollbackReads, db
  <2>2. ASSUME NEW l \in {"giveup", "start"},
               tick' = [tick EXCEPT ![t].at = l, ![t].row = row]
        PROVE  Goal
    <3>1. tick'[t].at = l /\ tick'[t].row = row
      BY <1>1, <2>2 DEF Tick
    <3>2. TickAlone(t)'
      BY <1>10, <2>1, <3>1 DEF TickAlone, Watching, Replacing
    <3> QED
      BY <1>4, <2>1, <3>2
  <2> QED
    BY <1>5, <1>19, <2>1, <2>2 DEF RollbackReads, EndTick
<1>20. CASE StartRollback(t)
  <2>1. /\ tick'[t].at = "restore" /\ tick'[t].row = w /\ tick[t].at # "off"
        /\ row'.status = "rollback_in_progress" /\ row'.head = row.head
        /\ row'.prev = row.prev /\ baseline' = baseline /\ run' = run
    BY <1>6, <1>9, <1>20 DEF StartRollback
  <2>2. TickAlone(t)'
    BY <1>1, <2>1 DEF TickAlone, Watching, Replacing, Blocking
  <2> QED
    BY <1>11, <2>1, <2>2 DEF Blocking
<1>21. CASE RestoreFile(t)
  BY <1>7, <1>21 DEF RestoreFile, Watching, Replacing, db
<1>22. CASE RestoreMerge(t)
  BY <1>7, <1>22 DEF RestoreMerge, Watching, Replacing, db
<1>23. CASE RestoreCleanup(t)
  BY <1>7, <1>23 DEF RestoreCleanup, Watching, Replacing, db
<1>24. CASE RestoreFails(t)
  BY <1>7, <1>24 DEF RestoreFails, Watching, Replacing, db
<1>25. CASE GiveUp(t)
  BY <1>9, <1>11, <1>15, <1>25 DEF GiveUp, Blocking
<1>26. CASE RestoreBaseline(t)
  <2>1. /\ tick'[t].at = "rolledback" /\ tick'[t].row = w /\ baseline' = row.prev
        /\ row' = row /\ run' = run /\ tick[t].at = "restored"
    BY <1>1, <1>6, <1>26 DEF RestoreBaseline, TickAlone
  <2>2. row.status = "rollback_in_progress"
    BY <1>1, <2>1 DEF TickAlone, Replacing
  <2>3. TickAlone(t)'
    BY <1>1, <2>1, <2>2 DEF TickAlone, Watching, Replacing
  <2>4. BaselineAgrees'
    BY <2>1, <2>2 DEF BaselineAgrees
  <2> QED
    BY <1>3, <2>1, <2>3, <2>4
<1>27. CASE RolledBack(t)
  <2>1. baseline = row.prev /\ tick[t].at # "off"
    BY <1>1, <1>27 DEF RolledBack, TickAlone
  <2> QED
    BY <1>9, <1>11, <1>15, <1>27, <2>1 DEF RolledBack
<1> QED
  BY <1>12, <1>13, <1>14, <1>16, <1>17, <1>18, <1>19, <1>20, <1>21, <1>22, <1>23,
     <1>24, <1>25, <1>26, <1>27 DEF TickStep

LEMMA AloneStep == AloneInv /\ OneEach /\ [Next]_vars => AloneInv'
<1> SUFFICES ASSUME AloneInv, OneEach, [Next]_vars PROVE AloneInv'
  OBVIOUS
<1>1. TypeInv'
  BY TypeStep DEF AloneInv
<1>2. CASE \E r \in Slots : RunStep(r)
  <2> PICK r \in Slots : RunStep(r)
    BY <1>2
  <2>1. \A q \in Slots : q = r
    BY DEF OneEach
  <2> QED
    BY <1>1, <2>1, RunKeepsAlone DEF AloneInv
<1>3. CASE \E t \in Ticks : TickStep(t)
  <2> PICK t \in Ticks : TickStep(t)
    BY <1>3
  <2>1. \A u \in Ticks : u = t
    BY DEF OneEach
  <2> QED
    BY <1>1, <2>1, TickKeepsAlone DEF AloneInv
<1>4. ASSUME UNCHANGED <<row, baseline>> PROVE BaselineAgrees'
  BY <1>4 DEF AloneInv, BaselineAgrees
<1>5. CASE \E t \in Ticks : TickFails(t)
  <2> PICK t \in Ticks : TickFails(t)
    BY <1>5
  <2>1. tick' = [tick EXCEPT ![t] = Off] /\ UNCHANGED <<row, baseline, run>>
    BY DEF TickFails, EndTick, db
  <2>2. ASSUME NEW u \in Ticks PROVE TickAlone(u)'
    BY <2>1 DEF AloneInv, TypeInv, TypeOK, TickAlone, Off, Watching, Replacing
  <2>3. ASSUME NEW r \in Slots PROVE RunAlone(r)'
    BY <2>1 DEF AloneInv, RunAlone
  <2> QED
    BY <1>1, <1>4, <2>1, <2>2, <2>3 DEF AloneInv
<1>6. CASE Crash
  <2>1. UNCHANGED <<row, baseline>>
    BY <1>6 DEF Crash, db
  <2>2. ASSUME NEW u \in Ticks PROVE TickAlone(u)'
    BY <1>6 DEF Crash, TickAlone, Off, Watching, Replacing
  <2>3. ASSUME NEW r \in Slots PROVE RunAlone(r)'
    BY <1>6 DEF Crash, RunAlone, Idle, Admitted, Committed
  <2> QED
    BY <1>1, <1>4, <2>1, <2>2, <2>3 DEF AloneInv
<1>7. CASE DeadlinePasses \/ SetPause \/ UNCHANGED vars
  <2>1. UNCHANGED <<row, baseline, run, tick>>
    BY <1>7 DEF DeadlinePasses, SetPause, vars, db
  <2> QED
    BY <1>1, <1>4, <2>1 DEF AloneInv, RunAlone, TickAlone
<1> QED
  BY <1>2, <1>3, <1>5, <1>6, <1>7 DEF Next

LEMMA AloneInit == Init => AloneInv
BY TypeInit
   DEF Init, AloneInv, BaselineAgrees, RunAlone, TickAlone, NoRow, Idle, Off, Blocking,
       Admitted, Committed, Watching, Replacing

\* The row and the baseline agree after every crash, if runs and ticks do not
\* overlap.
THEOREM BaselineCorrect ==
  ASSUME OneEach
  PROVE  Spec => []BaselineAgrees
<1>1. AloneInv => BaselineAgrees
  BY DEF AloneInv
<1>2. AloneInv /\ [Next]_vars => AloneInv'
  BY AloneStep
<1> QED
  BY <1>1, <1>2, AloneInit, PTL DEF Spec

-----------------------------------------------------------------------------
(* What a rollback merges, for any number of runs and ticks.               *)

\* As long as the rollback branch of a tick about to merge is the tick's, it
\* has the file as it was at the baseline the tick goes back to.
RestoreOK(t) ==
    LET n == RollbackOf(t)
    IN  tick[t].at = "merge" /\ branches[n] # NoBranch /\ branches[n].tip = t
        => branches[n].content = trees[tick[t].row.prev][TargetFile(n)]
RestoreInv == TypeInv /\ \A t \in Ticks : RestoreOK(t)

\* A tick that restores names a change and a commit.
LEMMA RestoringNames ==
  ASSUME TypeInv, NEW t \in Ticks, tick[t].at \in Restoring
  PROVE  /\ tick[t].row.change \in Changes
         /\ RollbackOf(t) \in Names /\ RollbackOf(t)[1] = "rollback"
         /\ tick[t].row.prev \in 1 .. Len(trees)
<1>1. /\ tick[t] \in Tick /\ TickOK(t) /\ tick[t].at # "off" /\ Len(trees) \in Nat
  BY DEF TypeInv, TypeOK, Restoring, Commits
<1>2. tick[t].row \in Row
  BY <1>1 DEF Tick
<1>3. tick[t].row.prev \in Nat /\ tick[t].row.prev # 0 /\ tick[t].row.prev <= Len(trees)
  BY <1>1, <1>2 DEF Row, Commits, TickOK, RowOK
<1>4. tick[t].row.change \in Changes
  BY <1>1 DEF TickOK, RowOK
<1> QED
  BY <1>1, <1>3, <1>4 DEF RollbackOf, Names

\* A run leaves the branches of rollbacks alone.
LEMMA RunKeepsRollbacks ==
  ASSUME TypeInv, NEW r \in Slots, RunStep(r), NEW n \in Names, n[1] = "rollback"
  PROVE  branches'[n] = branches[n]
<1>1. branches \in [Names -> Branch \cup {NoBranch}] /\ n # BranchOf(r)
  BY DEF TypeInv, TypeOK, BranchOf
<1> QED
  BY <1>1
     DEF RunStep, Stage, Verify, ReadControl, ReadStatus, EnsureBranch, CommitFile,
         UpsertPull, SetSandboxStatus, Gate, ReadControlAgain, Merge, MergePull,
         DeleteBranch, ReadBaseline, RecordPromotion, RunFails, git

\* Commits that have been made stay as they are.
LEMMA RunKeepsTrees ==
  ASSUME TypeInv, NEW r \in Slots, RunStep(r), NEW i \in 1 .. Len(trees)
  PROVE  trees'[i] = trees[i]
<1>1. trees \in Seq(Tree)
  BY DEF TypeInv, TypeOK
<1>2. CASE CommitFile(r)
  <2> DEFINE new == [branches[BranchOf(r)].base EXCEPT ![FileOf[run[r].change]] = run[r].change]
  <2>1. trees' = Append(trees, new)
    BY <1>2 DEF CommitFile
  <2> HIDE DEF new
  <2> QED
    BY <1>1, <2>1
<1> QED
  BY <1>2
     DEF RunStep, Stage, Verify, ReadControl, ReadStatus, EnsureBranch, UpsertPull,
         SetSandboxStatus, Gate, ReadControlAgain, Merge, DeleteBranch, ReadBaseline,
         RecordPromotion, RunFails, git

\* Where the tick, its branch and the commits are as they were.
LEMMA RestoreAside ==
  ASSUME TypeInv, NEW t \in Ticks, RestoreOK(t), tick'[t] = tick[t],
         tick[t].at = "merge" =>
            /\ \/ branches'[RollbackOf(t)] = branches[RollbackOf(t)]
               \/ branches'[RollbackOf(t)] = NoBranch
               \/ branches'[RollbackOf(t)].tip # t
               \/ /\ branches[RollbackOf(t)] # NoBranch
                  /\ branches'[RollbackOf(t)].tip = branches[RollbackOf(t)].tip
                  /\ branches'[RollbackOf(t)].content = branches[RollbackOf(t)].content
            /\ trees'[tick[t].row.prev] = trees[tick[t].row.prev]
  PROVE  RestoreOK(t)'
BY DEF RestoreOK, RollbackOf

LEMMA TickKeepsRestore ==
  ASSUME RestoreInv, NEW u \in Ticks, TickStep(u), NEW t \in Ticks
  PROVE  RestoreOK(t)'
<1>1. /\ tick \in [Ticks -> Tick] /\ branches \in [Names -> Branch \cup {NoBranch}]
      /\ TypeInv /\ RestoreOK(t)
  BY DEF RestoreInv, TypeInv, TypeOK
<1>2. trees' = trees
  BY DEF TickStep, TickReads, ReadHealth, ConfirmBaseline, WindowPasses, WindowStaysOpen,
     WindowFails, RollbackReads, StartRollback, RestoreFile, RestoreMerge, RestoreCleanup,
     RestoreFails, GiveUp, RestoreBaseline, RolledBack, git
<1>3. CASE u # t
  <2>1. tick'[t] = tick[t]
    BY <1>1, <1>3 DEF TickStep, TickReads, ReadHealth, ConfirmBaseline, WindowPasses,
       WindowStaysOpen, WindowFails, RollbackReads, StartRollback, RestoreFile, RestoreMerge,
       RestoreCleanup, RestoreFails, GiveUp, RestoreBaseline, RolledBack, GotoTick, EndTick
  <2>2. ASSUME NEW n \in Names
        PROVE  \/ branches'[n] = branches[n] \/ branches'[n] = NoBranch
               \/ branches'[n].tip # t
               \/ /\ branches[n] # NoBranch /\ branches'[n].tip = branches[n].tip
                  /\ branches'[n].content = branches[n].content
    <3>1. CASE RestoreFile(u)
      <4> DEFINE m == RollbackOf(u)
                 b == [base |-> EnsuredBranch(m).base, tip |-> u, open |-> TRUE,
                       content |-> trees[tick[u].row.prev][TargetFile(m)]]
      <4>1. branches' = [branches EXCEPT ![m] = b] /\ b.tip = u
        BY <3>1 DEF RestoreFile
      <4> HIDE DEF b
      <4> QED
        BY <1>1, <1>3, <4>1
    <3>2. CASE RestoreMerge(u)
      <4> DEFINE m == RollbackOf(u)
      <4>1. branches[m] # NoBranch /\ branches' = [branches EXCEPT ![m] = [branches[m] EXCEPT !.open = FALSE]]
        BY <3>2 DEF RestoreMerge, CanMerge, MergePull
      <4>2. CASE n = m
        <5>1. branches[m] \in Branch
          BY <1>1, <4>1, <4>2
        <5>2. branches'[n] = [branches[m] EXCEPT !.open = FALSE]
          BY <1>1, <4>1, <4>2
        <5> QED
          BY <4>1, <4>2, <5>1, <5>2 DEF Branch
      <4>3. CASE n # m
        BY <1>1, <4>1, <4>3
      <4> QED
        BY <4>2, <4>3
    <3>3. CASE RestoreCleanup(u)
      BY <1>1, <3>3 DEF RestoreCleanup
    <3>4. CASE UNCHANGED branches
      BY <3>4
    <3> QED
      BY <3>1, <3>2, <3>3, <3>4 DEF TickStep, TickReads, ReadHealth, ConfirmBaseline,
         WindowPasses, WindowStaysOpen, WindowFails, RollbackReads, StartRollback,
         RestoreFails, GiveUp, RestoreBaseline, RolledBack, git
  <2>3. tick[t].at = "merge" => RollbackOf(t) \in Names
    BY <1>1, RestoringNames DEF Restoring
  <2> QED
    BY <1>1, <1>2, <2>1, <2>2, <2>3, RestoreAside
<1>4. CASE u = t /\ RestoreFile(t)
  <2> DEFINE n == RollbackOf(t)
             b == [base |-> EnsuredBranch(n).base, tip |-> t, open |-> TRUE,
                   content |-> trees[tick[t].row.prev][TargetFile(n)]]
  <2>1. /\ branches' = [branches EXCEPT ![n] = b]
        /\ b.content = trees[tick[t].row.prev][TargetFile(n)]
    BY <1>4 DEF RestoreFile
  <2>2. n \in Names
    BY <1>1, <1>4, RestoringNames DEF RestoreFile, Restoring
  <2>3. tick'[t].row = tick[t].row
    BY <1>1, <1>4 DEF RestoreFile, GotoTick, Tick
  <2> HIDE DEF b
  <2>4. branches'[n] = b
    BY <1>1, <2>1, <2>2
  <2> QED
    BY <1>2, <2>1, <2>3, <2>4 DEF RestoreOK, RollbackOf, TargetFile
<1>5. CASE u = t /\ ~RestoreFile(t)
  <2>1. tick'[t].at # "merge"
    BY <1>1, <1>5 DEF TickStep, TickReads, ReadHealth, ConfirmBaseline, WindowPasses,
       WindowStaysOpen, WindowFails, RollbackReads, StartRollback, RestoreMerge,
       RestoreCleanup, RestoreFails, GiveUp, RestoreBaseline, RolledBack, GotoTick, EndTick,
       Off, Tick
  <2> QED
    BY <2>1 DEF RestoreOK
<1> QED
  BY <1>3, <1>4, <1>5

LEMMA RestoreStep == RestoreInv /\ [Next]_vars => RestoreInv'
<1> SUFFICES ASSUME RestoreInv, [Next]_vars PROVE RestoreInv'
  OBVIOUS
<1>1. TypeInv'
  BY TypeStep DEF RestoreInv
<1>2. ASSUME NEW r \in Slots, RunStep(r), NEW t \in Ticks PROVE RestoreOK(t)'
  <2>1. tick' = tick
    BY <1>2 DEF RunStep, Stage, Verify, ReadControl, ReadStatus, EnsureBranch, CommitFile,
       UpsertPull, SetSandboxStatus, Gate, ReadControlAgain, Merge, DeleteBranch,
       ReadBaseline, RecordPromotion, RunFails
  <2>2. tick[t].at = "merge" => /\ RollbackOf(t) \in Names /\ RollbackOf(t)[1] = "rollback"
                                /\ tick[t].row.prev \in 1 .. Len(trees)
    BY RestoringNames DEF RestoreInv, Restoring
  <2> QED
    BY <1>2, <2>1, <2>2, RunKeepsRollbacks, RunKeepsTrees, RestoreAside DEF RestoreInv
<1>3. CASE \E t \in Ticks : TickStep(t)
  BY <1>1, <1>3, TickKeepsRestore DEF RestoreInv
<1>4. ASSUME NEW t \in Ticks, NEW u \in Ticks, TickFails(u) PROVE RestoreOK(t)'
  <2>1. /\ tick \in [Ticks -> Tick] /\ tick' = [tick EXCEPT ![u] = Off]
        /\ UNCHANGED <<branches, trees>>
    BY <1>4 DEF TickFails, EndTick, git, RestoreInv, TypeInv, TypeOK
  <2>2. CASE u = t
    <3>1. tick'[t].at = "off"
      BY <2>1, <2>2 DEF Off
    <3> QED
      BY <3>1 DEF RestoreOK
  <2>3. CASE u # t
    BY <2>1, <2>3, RestoreAside DEF RestoreInv
  <2> QED
    BY <2>2, <2>3
<1>5. CASE Crash
  BY <1>1, <1>5 DEF Crash, RestoreInv, RestoreOK, Off
<1>6. CASE DeadlinePasses \/ SetPause \/ UNCHANGED vars
  <2>1. UNCHANGED <<tick, branches, trees>>
    BY <1>6 DEF DeadlinePasses, SetPause, vars, git
  <2> QED
    BY <1>1, <2>1, RestoreAside DEF RestoreInv
<1> QED
  BY <1>1, <1>2, <1>3, <1>4, <1>5, <1>6 DEF Next, RestoreInv

\* The pull request of a rollback that a step closes with its branch kept is
\* merged by the tick that has made the branch what it is.
LEMMA MergedIsBaseline ==
  ASSUME RestoreInv, [Next]_vars, NEW c \in Changes, NEW n, n = <<"rollback", c>>,
         branches[n] # NoBranch, branches'[n] # NoBranch,
         branches[n].open, ~branches'[n].open
  PROVE  \E t \in Ticks : /\ tick[t].at = "merge" /\ tick[t].row.change = c
                           /\ main'[FileOf[c]] = trees[tick[t].row.prev][FileOf[c]]
<1>1. /\ n \in Names /\ n[1] = "rollback" /\ n[2] = c
      /\ branches \in [Names -> Branch \cup {NoBranch}] /\ branches'[n] # branches[n]
  BY DEF RestoreInv, TypeInv, TypeOK, Names
<1>2. ASSUME NEW r \in Slots, RunStep(r) PROVE FALSE
  BY <1>1, <1>2, RunKeepsRollbacks DEF RestoreInv
<1>3. ~UNCHANGED branches
  BY <1>1
<1>4. PICK t \in Ticks : RestoreFile(t) \/ RestoreMerge(t) \/ RestoreCleanup(t)
  BY <1>2, <1>3 DEF Next, TickStep, TickReads, ReadHealth, ConfirmBaseline, WindowPasses,
     WindowStaysOpen, WindowFails, RollbackReads, StartRollback, RestoreFails, GiveUp,
     RestoreBaseline, RolledBack, TickFails, Crash, DeadlinePasses, SetPause, vars, git
<1>5. n = RollbackOf(t)
  BY <1>1, <1>4 DEF RestoreFile, RestoreMerge, RestoreCleanup, MergePull
<1>6. ~RestoreCleanup(t)
  BY <1>1, <1>5 DEF RestoreCleanup
<1>7. ~RestoreFile(t)
  <2> SUFFICES ASSUME RestoreFile(t) PROVE FALSE
    OBVIOUS
  <2> DEFINE b == [base |-> EnsuredBranch(n).base, tip |-> t, open |-> TRUE,
                   content |-> trees[tick[t].row.prev][TargetFile(n)]]
  <2>1. branches' = [branches EXCEPT ![n] = b] /\ b.open = TRUE
    BY <1>5 DEF RestoreFile
  <2> HIDE DEF b
  <2>2. branches'[n].open = TRUE
    BY <1>1, <2>1
  <2> QED
    BY <2>2
<1>8. RestoreMerge(t)
  BY <1>4, <1>6, <1>7
<1>9. /\ tick[t].at = "merge" /\ branches[n].tip = t
      /\ main' = [main EXCEPT ![TargetFile(n)] = branches[n].content]
  BY <1>5, <1>8 DEF RestoreMerge, CanMerge, MergePull
<1>10. branches[n].content = trees[tick[t].row.prev][TargetFile(n)]
  BY <1>5, <1>9 DEF RestoreInv, RestoreOK
<1>11. TargetFile(n) = FileOf[c] /\ FileOf[c] \in Files /\ main \in Tree
  BY <1>1, PromotionAssumption DEF TargetFile, RestoreInv, TypeInv, TypeOK
<1>12. main'[FileOf[c]] = trees[tick[t].row.prev][FileOf[c]]
  BY <1>9, <1>10, <1>11 DEF Tree
<1>13. tick[t].row.change = c
  BY <1>5 DEF RollbackOf
<1> QED
  BY <1>9, <1>12, <1>13

\* What a rollback merges is the file as it was at the baseline that the row
\* named, with any number of runs, overlapping ticks, failed rollbacks and
\* crashes (rollback-controller.ts:165, github-pipeline.ts:764).
THEOREM RollbackGoesBack == Spec => RollbackMergesBaseline
<1>1. Init => RestoreInv
  BY TypeInit DEF Init, RestoreInv, RestoreOK, Off
<1>2. RestoreInv /\ [Next]_vars =>
        [\A c \in Changes :
           LET n == <<"rollback", c>>
           IN  branches[n] # NoBranch /\ branches'[n] # NoBranch
               /\ branches[n].open /\ ~branches'[n].open
               => \E t \in Ticks :
                     /\ tick[t].at = "merge" /\ tick[t].row.change = c
                     /\ main'[FileOf[c]] = trees[tick[t].row.prev][FileOf[c]]]_vars
  BY MergedIsBaseline
<1> QED
  BY <1>1, <1>2, RestoreStep, PTL DEF Spec, RollbackMergesBaseline
=============================================================================
