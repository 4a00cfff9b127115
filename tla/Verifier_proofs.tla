--------------------------- MODULE Verifier_proofs ---------------------------
(***************************************************************************)
(* Theorems about Verifier, for any number of changes of a tool.  The      *)
(* types need no assumption.  What a change is told of its worktree needs  *)
(* one: that no two changes were staged in one millisecond, which would    *)
(* share the worktree (StagedApart).  Then VerifierInv is inductive: while *)
(* a stage runs, the worktree holds the change and the stages before it    *)
(* have passed there; another change can only prune entries whose          *)
(* directory is gone.                                                      *)
(***************************************************************************)
EXTENDS Verifier, TLAPS

-----------------------------------------------------------------------------
(* The inductive invariant                                                 *)

StagedApart == \A u, v \in Changes : RunId(u) = RunId(v) => u = v

RequiredNames == {"compile", "targetedTests", "startupSmoke"}
Early         == {"new", "compile", "uncompiling", "verify"}

Awaits(v, what) == InCommand(v) /\ cmd[v].what = what
Ready(v)        == [dir |-> TRUE, entry |-> TRUE, holds |-> v]

\* The stages so far are those before the one that runs; "cleanup" is not
\* among them before the worktree is removed.
StagesInOrder(v) ==
    /\ run[v].at \in Early \/ Awaits(v, "add") => run[v].stages = <<>>
    /\ \A i \in 1 .. 3 : Awaits(v, Required[i]) =>
         /\ Len(run[v].stages) = i - 1
         /\ \A j \in 1 .. i - 1 : run[v].stages[j].name = Required[j]
    /\ Awaits(v, "remove") \/ Awaits(v, "prune") =>
         \A i \in DOMAIN run[v].stages : run[v].stages[i].name # "cleanup"

StagesInv == \A v \in Changes : StagesInOrder(v)
TypeInv   == TypeOK /\ StagesInv

\* A stage that passed ran to its end, on the candidate.
StagesTrue(v) ==
    /\ seen[v] \subseteq RequiredNames
    /\ \A i \in DOMAIN run[v].stages :
         run[v].stages[i].status = "pass" => run[v].stages[i].name \in seen[v]
    /\ run[v].at = "pipeline" \/ (run[v].at = "record" /\ run[v].passed)
         => RequiredNames \subseteq seen[v]

WorktreeHolds(v) ==
    /\ Awaits(v, "add") /\ cmd[v].child = "exited" /\ cmd[v].ok
         => tree[RunId(v)].dir /\ tree[RunId(v)].entry
    /\ \A n \in RequiredNames : Awaits(v, n) => tree[RunId(v)] = Ready(v)
    /\ Awaits(v, "prune") /\ ~run[v].warned => ~tree[RunId(v)].dir
    /\ Awaits(v, "prune") /\ cmd[v].child = "exited" /\ cmd[v].ok
         => tree[RunId(v)].dir \/ ~tree[RunId(v)].entry
    /\ run[v].at \in {"record", "pipeline"} /\ (tree[RunId(v)].dir \/ tree[RunId(v)].entry)
         => ~run[v].passed \/ run[v].warned

EventsSo(v) ==
    /\ run[v].at = "new" => events[v] = <<>>
    /\ run[v].at \in {"compile", "uncompiling", "verify", "command", "record"}
         => events[v] = <<"proposed">>
    /\ run[v].at = "pipeline" => events[v] = <<"proposed", "tested-pass">>

ChangeInv(v) == StagesTrue(v) /\ WorktreeHolds(v) /\ EventsSo(v)

VerifierInv == TypeInv /\ \A v \in Changes : ChangeInv(v)
-----------------------------------------------------------------------------
(* The stages of a verification                                            *)

Distinct(s) == \A i, j \in DOMAIN s : s[i].name = s[j].name => i = j

LEMMA NamesAre ==
  /\ RequiredNames \subseteq Names /\ {"setup", "cleanup"} \subseteq Names
  /\ \A i \in 1 .. 3 : Required[i] \in RequiredNames
  /\ DOMAIN Required = 1 .. 3 /\ Len(Required) = 3
  /\ Required[1] = "compile" /\ Required[2] = "targetedTests"
  /\ Required[3] = "startupSmoke"
  /\ \A i \in DOMAIN Required : Required[i] \in Names \ Git
<1>1. Required[1] = "compile" /\ Required[2] = "targetedTests" /\ Required[3] = "startupSmoke"
      /\ DOMAIN Required = 1 .. 3 /\ Len(Required) = 3
  BY DEF Required
<1>2. \A i \in 1 .. 3 : i = 1 \/ i = 2 \/ i = 3
  OBVIOUS
<1>3. Names = {"setup", "cleanup"} \cup RequiredNames
  BY <1>1, <1>2 DEF Names, RequiredNames
<1> QED
  BY <1>1, <1>2, <1>3 DEF RequiredNames, Git

(* Another stage is appended.                                              *)
LEMMA WithDoes ==
  ASSUME NEW s \in Seq(Stage), Distinct(s), NEW n \in Names, NEW st \in Statuses,
         \A i \in DOMAIN s : s[i].name # n
  PROVE  /\ With(s, n, st) \in Seq(Stage) /\ Distinct(With(s, n, st))
         /\ Len(With(s, n, st)) = Len(s) + 1
         /\ \A i \in DOMAIN s : i \in DOMAIN With(s, n, st) /\ With(s, n, st)[i] = s[i]
         /\ With(s, n, st)[Len(s) + 1] = [name |-> n, status |-> st]
         /\ \A i \in DOMAIN With(s, n, st) : i \in DOMAIN s \/ i = Len(s) + 1
<1> DEFINE e == [name |-> n, status |-> st]
           t == Append(s, e)
<1>1. e \in Stage /\ e.name = n
  BY DEF Stage
<1>2. t \in Seq(Stage) /\ Len(t) = Len(s) + 1 /\ DOMAIN t = 1 .. Len(s) + 1
      /\ DOMAIN s = 1 .. Len(s) /\ t[Len(s) + 1] = e /\ \A i \in DOMAIN s : t[i] = s[i]
      /\ Len(s) \in Nat
  BY <1>1
<1> HIDE DEF e
<1>3. \A i \in DOMAIN t : i \in DOMAIN s \/ i = Len(s) + 1
  BY <1>2
<1>4. Distinct(t)
  BY <1>1, <1>2, <1>3 DEF Distinct
<1> QED
  BY <1>2, <1>3, <1>4 DEF With, e

(* A stage that is missing is put in as an error: the others stay, and it  *)
(* passes only when none was missing.                                      *)
LEMMA EnsureStageDoes ==
  ASSUME NEW s \in Seq(Stage), Distinct(s), NEW n \in Names
  PROVE  LET t == EnsureStage(s, n) IN
         /\ t \in Seq(Stage) /\ Distinct(t)
         /\ \A i \in DOMAIN s : i \in DOMAIN t /\ t[i] = s[i]
         /\ \A i \in DOMAIN t : (i \in DOMAIN s) \/ t[i].status = "error"
         /\ Passes(t) => t = s /\ \E i \in DOMAIN s : s[i].name = n
<1>1. CASE \E i \in DOMAIN s : s[i].name = n
  BY <1>1 DEF EnsureStage
<1>2. CASE ~ \E i \in DOMAIN s : s[i].name = n
  <2> DEFINE t == With(s, n, "error")
  <2>1. EnsureStage(s, n) = t
    BY <1>2 DEF EnsureStage
  <2>2. /\ t \in Seq(Stage) /\ Distinct(t)
        /\ \A i \in DOMAIN s : i \in DOMAIN t /\ t[i] = s[i]
        /\ t[Len(s) + 1] = [name |-> n, status |-> "error"]
        /\ \A i \in DOMAIN t : i \in DOMAIN s \/ i = Len(s) + 1
        /\ Len(t) = Len(s) + 1
    BY <1>2, WithDoes DEF Statuses
  <2> HIDE DEF t
  <2>3. Len(s) + 1 \in DOMAIN t
    BY <2>2
  <2>4. ~Passes(t)
    BY <2>2, <2>3 DEF Passes
  <2> QED
    BY <2>1, <2>2, <2>4
<1> QED
  BY <1>1, <1>2

LEMMA EnsureDoes ==
  ASSUME NEW s \in Seq(Stage), Distinct(s)
  PROVE  LET t == EnsureRequiredStages(s) IN
         /\ t \in Seq(Stage) /\ Distinct(t)
         /\ \A i \in DOMAIN s : i \in DOMAIN t /\ t[i] = s[i]
         /\ \A i \in DOMAIN t : (i \in DOMAIN s) \/ t[i].status = "error"
         /\ Passes(t) => t = s /\ \A n \in RequiredNames : \E i \in DOMAIN s : s[i].name = n
<1> DEFINE a == EnsureStage(s, Required[1])
           b == EnsureStage(a, Required[2])
           c == EnsureStage(b, Required[3])
<1>0. Required[1] \in Names /\ Required[2] \in Names /\ Required[3] \in Names
  BY NamesAre
<1>1. /\ a \in Seq(Stage) /\ Distinct(a)
      /\ \A i \in DOMAIN s : i \in DOMAIN a /\ a[i] = s[i]
      /\ \A i \in DOMAIN a : (i \in DOMAIN s) \/ a[i].status = "error"
      /\ Passes(a) => a = s /\ \E i \in DOMAIN s : s[i].name = Required[1]
  BY <1>0, EnsureStageDoes
<1> HIDE DEF a
<1>2. /\ b \in Seq(Stage) /\ Distinct(b)
      /\ \A i \in DOMAIN a : i \in DOMAIN b /\ b[i] = a[i]
      /\ \A i \in DOMAIN b : (i \in DOMAIN a) \/ b[i].status = "error"
      /\ Passes(b) => b = a /\ \E i \in DOMAIN a : a[i].name = Required[2]
  BY <1>0, <1>1, EnsureStageDoes
<1> HIDE DEF b
<1>3. /\ c \in Seq(Stage) /\ Distinct(c)
      /\ \A i \in DOMAIN b : i \in DOMAIN c /\ c[i] = b[i]
      /\ \A i \in DOMAIN c : (i \in DOMAIN b) \/ c[i].status = "error"
      /\ Passes(c) => c = b /\ \E i \in DOMAIN b : b[i].name = Required[3]
  BY <1>0, <1>2, EnsureStageDoes
<1> HIDE DEF c
<1>4. Passes(c) => c = s /\ \A n \in RequiredNames : \E i \in DOMAIN s : s[i].name = n
  BY <1>1, <1>2, <1>3, NamesAre DEF RequiredNames
<1>5. \A i \in DOMAIN s : i \in DOMAIN c /\ c[i] = s[i]
  BY <1>1, <1>2, <1>3
<1>6. \A i \in DOMAIN c : (i \in DOMAIN s) \/ c[i].status = "error"
  BY <1>1, <1>2, <1>3
<1>7. c = EnsureRequiredStages(s)
  BY DEF a, b, c, EnsureRequiredStages
<1> QED
  BY <1>3, <1>4, <1>5, <1>6, <1>7
-----------------------------------------------------------------------------
(* Types and the order of the stages                                       *)

\* Only the locals of v change.
Alone(v) == \A u \in Changes \ {v} : run'[u] = run[u] /\ cmd'[u] = cmd[u]

RestTyped ==
  tree \in [RunIds -> Tree] /\ events \in [Changes -> Seq(Row)]
    /\ seen \in [Changes -> SUBSET Names] /\ faults \in 0 .. MaxFaults

LEMMA AloneDoes ==
  ASSUME TypeInv, NEW v \in Changes, Alone(v), RestTyped',
         run' \in [Changes -> Run], cmd' \in [Changes -> Cmd],
         Distinct(run'[v].stages), StagesInOrder(v)'
  PROVE  TypeInv'
<1>1. \A u \in Changes : Distinct(run'[u].stages)
  BY DEF TypeInv, TypeOK, Distinct, Alone
<1>2. ASSUME NEW u \in Changes \ {v} PROVE StagesInOrder(u)'
  <2>1. run'[u] = run[u] /\ cmd'[u] = cmd[u] /\ StagesInOrder(u)
    BY DEF Alone, TypeInv, StagesInv
  <2> QED
    BY <2>1 DEF StagesInOrder, Awaits, InCommand
<1> QED
  BY <1>1, <1>2 DEF TypeInv, TypeOK, StagesInv, RestTyped, Distinct

LEMMA FaultTyped == ASSUME faults \in 0 .. MaxFaults, Fault PROVE faults' \in 0 .. MaxFaults
BY VerifierAssumption DEF Fault

LEMMA SpawnDoes ==
  ASSUME cmd \in [Changes -> Cmd], faults \in 0 .. MaxFaults, NEW v \in Changes,
         NEW what \in Git \cup Names, Spawn(v, what)
  PROVE  /\ cmd' \in [Changes -> Cmd] /\ faults' \in 0 .. MaxFaults
         /\ \A u \in Changes \ {v} : cmd'[u] = cmd[u]
         /\ cmd'[v].what = what /\ cmd'[v].child \in {"up", "unborn"}
<1>1. CASE \E h \in BOOLEAN : cmd' = [cmd EXCEPT ![v] = Spawned(what, h)]
             /\ UNCHANGED faults
  <2>1. PICK h \in BOOLEAN : cmd' = [cmd EXCEPT ![v] = Spawned(what, h)]
    BY <1>1
  <2>2. Spawned(what, h) \in Cmd /\ Spawned(what, h).what = what
        /\ Spawned(what, h).child = "up"
    BY DEF Spawned, NoCmd, Cmd
  <2> QED
    BY <1>1, <2>1, <2>2
<1>2. CASE cmd' = [cmd EXCEPT ![v] = Unborn(what)] /\ Fault
  <2>1. Unborn(what) \in Cmd /\ Unborn(what).what = what /\ Unborn(what).child = "unborn"
    BY DEF Unborn, NoCmd, Cmd
  <2> QED
    BY <1>2, <2>1, FaultTyped
<1> QED
  BY <1>1, <1>2 DEF Spawn

LEMMA VerifiedDoes ==
  ASSUME run \in [Changes -> Run], cmd \in [Changes -> Cmd], NEW v \in Changes,
         NEW s \in Seq(Stage), Distinct(s), NEW w \in BOOLEAN, Verified(v, s, w)
  PROVE  /\ run' \in [Changes -> Run] /\ cmd' \in [Changes -> Cmd] /\ Alone(v)
         /\ run'[v].at = "record" /\ run'[v].stages = EnsureRequiredStages(s)
         /\ run'[v].warned = w /\ run'[v].passed = Passes(EnsureRequiredStages(s))
         /\ Distinct(run'[v].stages) /\ StagesInOrder(v)'
<1> DEFINE all == EnsureRequiredStages(s)
           r == [run[v] EXCEPT !.at = "record", !.stages = all,
                               !.warned = w, !.passed = Passes(all)]
<1>1. all \in Seq(Stage) /\ Distinct(all)
  BY EnsureDoes
<1>2. Passes(all) \in BOOLEAN
  BY DEF Passes
<1>3. run' = [run EXCEPT ![v] = r] /\ cmd' = [cmd EXCEPT ![v] = NoCmd]
  BY DEF Verified
<1> HIDE DEF all
<1>4. r \in Run /\ r.at = "record" /\ r.stages = all /\ r.warned = w
      /\ r.passed = Passes(all)
  <2> DEFINE p == Passes(all)
  <2>1. p \in BOOLEAN
    BY <1>2
  <2> HIDE DEF p
  <2>2. LET q == [run[v] EXCEPT !.at = "record", !.stages = all,
                                !.warned = w, !.passed = p]
        IN q \in Run /\ q.at = "record" /\ q.stages = all /\ q.warned = w /\ q.passed = p
    BY <1>1, <2>1 DEF Run
  <2> QED
    BY <2>2 DEF p
<1>5. NoCmd \in Cmd
  BY DEF NoCmd, Cmd
<1> HIDE DEF r
<1>6. run' \in [Changes -> Run] /\ cmd' \in [Changes -> Cmd] /\ run'[v] = r /\ Alone(v)
  BY <1>3, <1>4, <1>5 DEF Alone
<1>7. StagesInOrder(v)'
  BY <1>4, <1>6 DEF StagesInOrder, Awaits, InCommand, Early
<1> QED
  BY <1>1, <1>4, <1>6, <1>7 DEF all
Places == {"new", "compile", "uncompiling", "verify", "command", "record", "refuse"} \cup Over

LEMMA AtDoes ==
  ASSUME run \in [Changes -> Run], NEW v \in Changes, NEW at \in Places,
         run' = [run EXCEPT ![v].at = at]
  PROVE  /\ run' \in [Changes -> Run] /\ \A u \in Changes \ {v} : run'[u] = run[u]
         /\ run'[v].at = at /\ run'[v].stages = run[v].stages
         /\ run'[v].warned = run[v].warned /\ run'[v].passed = run[v].passed
<1> DEFINE r == [run[v] EXCEPT !.at = at]
<1>1. r \in Run /\ r.at = at /\ r.stages = run[v].stages /\ r.warned = run[v].warned
      /\ r.passed = run[v].passed
  BY DEF Run, Places
<1>2. run' = [run EXCEPT ![v] = r]
  OBVIOUS
<1> HIDE DEF r
<1> QED
  BY <1>1, <1>2

(* The other fields of a run.                                              *)
LEMMA StagesDoes ==
  ASSUME run \in [Changes -> Run], NEW v \in Changes, NEW m \in BOOLEAN, NEW s \in Seq(Stage),
         run' = [run EXCEPT ![v] = [@ EXCEPT !.made = m, !.stages = s]]
  PROVE  /\ run' \in [Changes -> Run] /\ \A u \in Changes \ {v} : run'[u] = run[u]
         /\ run'[v].at = run[v].at /\ run'[v].stages = s
         /\ run'[v].warned = run[v].warned /\ run'[v].passed = run[v].passed
<1> DEFINE r == [run[v] EXCEPT !.made = m, !.stages = s]
<1>1. r \in Run /\ r.at = run[v].at /\ r.stages = s /\ r.warned = run[v].warned
      /\ r.passed = run[v].passed
  BY DEF Run
<1>2. run' = [run EXCEPT ![v] = r]
  OBVIOUS
<1> HIDE DEF r
<1> QED
  BY <1>1, <1>2

LEMMA WarnedDoes ==
  ASSUME run \in [Changes -> Run], NEW v \in Changes, NEW w \in BOOLEAN,
         run' = [run EXCEPT ![v].warned = w]
  PROVE  /\ run' \in [Changes -> Run] /\ \A u \in Changes \ {v} : run'[u] = run[u]
         /\ run'[v].at = run[v].at /\ run'[v].stages = run[v].stages
         /\ run'[v].warned = w /\ run'[v].passed = run[v].passed
<1> DEFINE r == [run[v] EXCEPT !.warned = w]
<1>1. r \in Run /\ r.at = run[v].at /\ r.stages = run[v].stages /\ r.warned = w
      /\ r.passed = run[v].passed
  BY DEF Run
<1>2. run' = [run EXCEPT ![v] = r]
  OBVIOUS
<1> HIDE DEF r
<1> QED
  BY <1>1, <1>2

(* An event is inserted, or the insert throws.                             *)
LEMMA RecordDoes ==
  ASSUME TypeInv, NEW v \in Changes, NEW row \in Row, NEW to \in Places, Record(v, row, to)
  PROVE  /\ run' \in [Changes -> Run] /\ Alone(v) /\ RestTyped'
         /\ run'[v].stages = run[v].stages
         /\ run'[v].warned = run[v].warned /\ run'[v].passed = run[v].passed
         /\ \A u \in Changes \ {v} : events'[u] = events[u]
         /\ \/ run'[v].at = to /\ events'[v] = Append(events[v], row)
            \/ run'[v].at = "threw"
<1>0. run \in [Changes -> Run] /\ cmd' = cmd /\ tree' = tree /\ seen' = seen /\ RestTyped
      /\ events \in [Changes -> Seq(Row)]
  BY DEF TypeInv, TypeOK, Record, RestTyped
<1>1. CASE events' = [events EXCEPT ![v] = Append(@, row)]
           /\ run' = [run EXCEPT ![v].at = to] /\ UNCHANGED faults
  <2>1. events' \in [Changes -> Seq(Row)] /\ events'[v] = Append(events[v], row)
        /\ \A u \in Changes \ {v} : events'[u] = events[u]
    BY <1>0, <1>1
  <2> QED
    BY <1>0, <1>1, <2>1, AtDoes DEF RestTyped, Alone
<1>2. CASE run' = [run EXCEPT ![v].at = "threw"] /\ Fault /\ UNCHANGED events
  <2>1. "threw" \in Places
    BY DEF Places, Over
  <2> QED
    BY <1>0, <1>2, <2>1, AtDoes, FaultTyped DEF RestTyped, Alone
<1> QED
  BY <1>1, <1>2 DEF Record

LEMMA StatusIs == ASSUME NEW c \in Cmd PROVE
  /\ Status(c) \in Statuses
  /\ Status(c) = "pass" <=> c.child # "unborn" /\ ~c.timedOut /\ c.ok
BY DEF Status, Statuses, Cmd

(* The steps of stageBuiltinChange.                                        *)
LEMMA StagingType ==
  ASSUME TypeInv, NEW v \in Changes,
         \/ Propose(v) \/ Compile(v) \/ RecordUncompiled(v)
         \/ RecordTested(v) \/ RecordRefused(v)
  PROVE  TypeInv'
<1>0. run \in [Changes -> Run] /\ cmd \in [Changes -> Cmd] /\ RestTyped
      /\ Distinct(run[v].stages) /\ StagesInOrder(v)
  BY DEF TypeInv, TypeOK, StagesInv, RestTyped, Distinct
<1>1. ASSUME NEW row \in Row, NEW to \in Places, Record(v, row, to),
             to \in Early => run[v].at \in Early, to # "command"
      PROVE  TypeInv'
  <2>1. /\ run' \in [Changes -> Run] /\ Alone(v) /\ RestTyped'
        /\ run'[v].stages = run[v].stages /\ run'[v].at \in {to, "threw"}
    BY <1>1, RecordDoes
  <2>2. cmd' = cmd
    BY <1>1 DEF Record
  <2>3. StagesInOrder(v)'
    BY <1>0, <1>1, <2>1 DEF StagesInOrder, Awaits, InCommand, Early
  <2> QED
    BY <1>0, <2>1, <2>2, <2>3, AloneDoes
<1>2. CASE Compile(v)
  <2>1. PICK at \in {"verify", "uncompiling"} : run' = [run EXCEPT ![v].at = at]
    BY <1>2 DEF Compile
  <2>2. at \in Places /\ run[v].at = "compile" /\ cmd' = cmd /\ RestTyped'
    BY <1>0, <1>2 DEF Compile, Places, RestTyped
  <2>3. run' \in [Changes -> Run] /\ Alone(v) /\ run'[v].stages = run[v].stages
        /\ run'[v].at = at
    BY <1>0, <2>1, <2>2, AtDoes DEF Alone
  <2>4. StagesInOrder(v)'
    BY <1>0, <2>2, <2>3 DEF StagesInOrder, Awaits, InCommand, Early
  <2> QED
    BY <1>0, <2>2, <2>3, <2>4, AloneDoes
<1>3. CASE Propose(v)
  <2>1. "compile" \in Places /\ "proposed" \in Row /\ run[v].at \in Early
    BY <1>3 DEF Propose, Places, Row, Early
  <2> QED
    BY <1>1, <1>3, <2>1 DEF Propose
<1>4. CASE RecordUncompiled(v)
  <2>1. "uncompiled" \in Places /\ "uncompiled" \in Row /\ "uncompiled" \notin Early
    BY DEF Places, Over, Row, Early
  <2> QED
    BY <1>1, <1>4, <2>1 DEF RecordUncompiled
<1>5. CASE RecordTested(v)
  <2>1. {"pipeline", "refuse"} \subseteq Places /\ {"tested-pass", "tested-not"} \subseteq Row
        /\ {"pipeline", "refuse"} \cap Early = {}
    BY DEF Places, Over, Row, Early
  <2> QED
    BY <1>1, <1>5, <2>1 DEF RecordTested
<1>6. CASE RecordRefused(v)
  <2>1. "blocked" \in Places /\ "failed" \in Row /\ "blocked" \notin Early
    BY DEF Places, Over, Row, Early
  <2> QED
    BY <1>1, <1>6, <2>1 DEF RecordRefused
<1> QED
  BY <1>2, <1>3, <1>4, <1>5, <1>6
-----------------------------------------------------------------------------
(* The commands                                                            *)

\* What another change may do to a worktree: prune its entry when its
\* directory is gone.
Keeps(q) ==
    /\ tree'[q].dir = tree[q].dir /\ tree'[q].holds = tree[q].holds
    /\ tree[q].dir => tree'[q].entry = tree[q].entry
    /\ tree'[q].entry => tree[q].entry

LEMMA RunIdIs == ASSUME NEW v \in Changes PROVE RunId(v) \in RunIds
BY DEF RunId, RunIds

LEMMA GitLeavesDoes ==
  ASSUME TypeOK, NEW v \in Changes, NEW ok \in BOOLEAN, GitLeaves(v, ok)
  PROVE  /\ tree' \in [RunIds -> Tree]
         /\ \A q \in RunIds \ {RunId(v)} : Keeps(q)
         /\ cmd[v].what = "add" /\ ok => tree'[RunId(v)].dir /\ tree'[RunId(v)].entry
         /\ cmd[v].what \notin Git => tree' = tree
         /\ cmd[v].what = "prune" =>
              /\ tree'[RunId(v)].dir = tree[RunId(v)].dir
              /\ ok /\ tree'[RunId(v)].entry => tree[RunId(v)].dir
<1> DEFINE r == RunId(v)
           part == {[dir |-> d, entry |-> TRUE, holds |-> "base"] : d \in BOOLEAN}
           added == [dir |-> TRUE, entry |-> TRUE, holds |-> "base"]
           gone == [NoTree EXCEPT !.entry = tree[r].entry]
<1>0. tree \in [RunIds -> Tree] /\ r \in RunIds /\ tree[r] \in Tree
  BY RunIdIs DEF TypeOK
<1>1. added \in Tree /\ part \subseteq Tree /\ NoTree \in Tree /\ gone \in Tree
  <2>1. added \in Tree /\ NoTree \in Tree
    BY DEF Tree, NoTree
  <2>2. ASSUME NEW d \in BOOLEAN PROVE [dir |-> d, entry |-> TRUE, holds |-> "base"] \in Tree
    BY DEF Tree
  <2>3. ASSUME NEW b \in BOOLEAN PROVE [NoTree EXCEPT !.entry = b] \in Tree
    BY DEF Tree, NoTree
  <2>4. tree[r].entry \in BOOLEAN
    BY <1>0 DEF Tree
  <2> QED
    BY <2>1, <2>2, <2>3, <2>4
<1>2. CASE cmd[v].what = "add"
  <2>1. PICK t \in (IF ok THEN {added} ELSE part \cup {tree[r]}) :
           tree' = [tree EXCEPT ![r] = t]
    BY <1>2 DEF GitLeaves
  <2>2. t \in Tree /\ (ok => t.dir /\ t.entry)
    <3>1. CASE ok
      <4>1. t = added
        BY <2>1, <3>1
      <4>2. added.dir /\ added.entry
        OBVIOUS
      <4> HIDE DEF added
      <4> QED
        BY <1>1, <4>1, <4>2
    <3>2. CASE ~ok
      <4> HIDE DEF part
      <4>1. t \in part \cup {tree[r]}
        BY <2>1, <3>2
      <4> QED
        BY <1>0, <1>1, <3>2, <4>1
    <3> QED
      BY <3>1, <3>2
  <2> HIDE DEF r
  <2>3. tree' \in [RunIds -> Tree] /\ tree'[r] = t /\ \A q \in RunIds \ {r} : tree'[q] = tree[q]
    BY <1>0, <2>1, <2>2
  <2> QED
    BY <1>2, <2>2, <2>3 DEF r, Git, Keeps
<1>3. CASE cmd[v].what = "remove"
  <2>1. PICK t \in (IF ok THEN {NoTree} ELSE {tree[r], gone}) :
           tree' = [tree EXCEPT ![r] = t]
    BY <1>3 DEF GitLeaves
  <2>2. t \in Tree
    BY <1>0, <1>1, <2>1
  <2> HIDE DEF r
  <2>3. tree' \in [RunIds -> Tree] /\ tree'[r] = t /\ \A q \in RunIds \ {r} : tree'[q] = tree[q]
    BY <1>0, <2>1, <2>2
  <2> QED
    BY <1>3, <2>2, <2>3 DEF r, Git, Keeps
<1>4. CASE cmd[v].what = "prune"
  <2>1. CASE ok
    <3> DEFINE p(q) == [tree[q] EXCEPT !.entry = tree[q].entry /\ tree[q].dir]
    <3>1. tree' = [q \in RunIds |-> p(q)]
      BY <1>4, <2>1 DEF GitLeaves
    <3>2. ASSUME NEW q \in RunIds
          PROVE  /\ p(q) \in Tree /\ p(q).dir = tree[q].dir /\ p(q).holds = tree[q].holds
                 /\ p(q).entry <=> tree[q].entry /\ tree[q].dir
      <4> DEFINE b == tree[q].entry /\ tree[q].dir
      <4>1. tree[q] \in Tree /\ b \in BOOLEAN
        BY <1>0
      <4> HIDE DEF b
      <4>2. LET x == [tree[q] EXCEPT !.entry = b] IN
              x \in Tree /\ x.dir = tree[q].dir /\ x.holds = tree[q].holds /\ x.entry = b
        BY <4>1 DEF Tree
      <4> QED
        BY <4>2 DEF b
    <3> HIDE DEF p
    <3>3. \A q \in RunIds : tree'[q] = p(q)
      BY <3>1
    <3>4. tree' \in [RunIds -> Tree]
      BY <3>1, <3>2
    <3>5. \A q \in RunIds : tree[q].entry \in BOOLEAN /\ tree'[q].entry \in BOOLEAN
                             /\ tree[q].dir \in BOOLEAN
      BY <1>0, <3>4 DEF Tree
    <3>6. \A q \in RunIds : Keeps(q)
      BY <3>2, <3>3, <3>5 DEF Keeps
    <3> HIDE DEF r
    <3>7. tree'[r].dir = tree[r].dir /\ (tree'[r].entry => tree[r].dir)
      BY <1>0, <3>2, <3>3
    <3> QED
      BY <1>4, <3>4, <3>6, <3>7 DEF r, Git
  <2>2. CASE ~ok
    <3>1. tree' = tree
      BY <1>4, <2>2 DEF GitLeaves
    <3> QED
      BY <1>0, <1>4, <2>2, <3>1 DEF Keeps, Git
  <2> QED
    BY <2>1, <2>2
<1>5. CASE cmd[v].what \notin Git
  <2>1. tree' = tree
    BY <1>5 DEF GitLeaves, Git
  <2> QED
    BY <1>0, <1>5, <2>1 DEF Keeps, Git
<1> QED
  BY <1>2, <1>3, <1>4, <1>5 DEF Git

(* What becomes of the processes of a command changes neither the command  *)
(* nor the run that awaits it.                                             *)
LEMMA ProcessDoes ==
  ASSUME TypeInv, NEW v \in Changes,
         ChildExits(v) \/ TimerFires(v) \/ ForceKill(v) \/ HelperEnds(v)
  PROVE  /\ run' = run /\ events' = events /\ seen' = seen /\ faults' = faults
         /\ cmd' \in [Changes -> Cmd] /\ \A u \in Changes \ {v} : cmd'[u] = cmd[u]
         /\ cmd'[v].what = cmd[v].what
         /\ \/ /\ \E ok \in BOOLEAN : GitLeaves(v, ok) /\ cmd'[v].ok = ok
               /\ cmd[v].child = "up"
            \/ /\ tree' = tree /\ cmd'[v].child = cmd[v].child /\ cmd'[v].ok = cmd[v].ok
<1>0. cmd \in [Changes -> Cmd] /\ cmd[v] \in Cmd /\ tree \in [RunIds -> Tree]
  BY DEF TypeInv, TypeOK
<1>1. CASE ChildExits(v)
  <2> DEFINE a == cmd[v].what = "remove" /\ ~tree[RunId(v)].entry
  <2>1. PICK ok \in BOOLEAN :
           /\ cmd' = [cmd EXCEPT ![v].child = "exited", ![v].ok = ok, ![v].absent = a]
           /\ GitLeaves(v, ok)
    BY <1>1 DEF ChildExits
  <2> DEFINE c == [cmd[v] EXCEPT !.child = "exited", !.ok = ok, !.absent = a]
  <2>2. a \in BOOLEAN
    OBVIOUS
  <2> HIDE DEF a
  <2>3. c \in Cmd /\ c.what = cmd[v].what /\ c.ok = ok
    BY <1>0, <2>2 DEF Cmd
  <2>4. cmd' = [cmd EXCEPT ![v] = c]
    BY <1>0, <2>1
  <2> HIDE DEF c
  <2>5. cmd' \in [Changes -> Cmd] /\ cmd'[v] = c /\ \A u \in Changes \ {v} : cmd'[u] = cmd[u]
    BY <1>0, <2>3, <2>4
  <2> QED
    BY <1>1, <2>1, <2>3, <2>5 DEF ChildExits, Up
<1>2. CASE ForceKill(v)
  <2> DEFINE c == [cmd[v] EXCEPT !.child = "exited", !.ok = FALSE]
  <2>1. cmd' = [cmd EXCEPT ![v] = c] /\ GitLeaves(v, FALSE)
    BY <1>0, <1>2 DEF ForceKill
  <2>2. c \in Cmd /\ c.what = cmd[v].what /\ c.ok = FALSE
    BY <1>0 DEF Cmd
  <2> HIDE DEF c
  <2>3. cmd' \in [Changes -> Cmd] /\ cmd'[v] = c /\ \A u \in Changes \ {v} : cmd'[u] = cmd[u]
    BY <1>0, <2>1, <2>2
  <2> QED
    BY <1>2, <2>1, <2>2, <2>3 DEF ForceKill, Up
<1>3. CASE TimerFires(v)
  <2> DEFINE c == [cmd[v] EXCEPT !.timedOut = TRUE]
  <2>1. cmd' = [cmd EXCEPT ![v] = c]
    BY <1>0, <1>3 DEF TimerFires
  <2>2. c \in Cmd /\ c.what = cmd[v].what /\ c.ok = cmd[v].ok /\ c.child = cmd[v].child
    BY <1>0 DEF Cmd
  <2> HIDE DEF c
  <2> QED
    BY <1>0, <1>3, <2>1, <2>2 DEF TimerFires
<1>4. CASE HelperEnds(v)
  <2> DEFINE c == [cmd[v] EXCEPT !.helper = FALSE]
  <2>1. cmd' = [cmd EXCEPT ![v] = c]
    BY <1>0, <1>4 DEF HelperEnds
  <2>2. c \in Cmd /\ c.what = cmd[v].what /\ c.ok = cmd[v].ok /\ c.child = cmd[v].child
    BY <1>0 DEF Cmd
  <2> HIDE DEF c
  <2> QED
    BY <1>0, <1>4, <2>1, <2>2 DEF HelperEnds
<1> QED
  BY <1>1, <1>2, <1>3, <1>4

LEMMA ProcessType ==
  ASSUME TypeInv, NEW v \in Changes,
         ChildExits(v) \/ TimerFires(v) \/ ForceKill(v) \/ HelperEnds(v)
  PROVE  TypeInv'
<1>1. /\ run' = run /\ events' = events /\ seen' = seen /\ faults' = faults
      /\ cmd' \in [Changes -> Cmd] /\ \A u \in Changes \ {v} : cmd'[u] = cmd[u]
      /\ cmd'[v].what = cmd[v].what
  BY ProcessDoes
<1>2. tree' \in [RunIds -> Tree]
  BY ProcessDoes, GitLeavesDoes DEF TypeInv, TypeOK
<1>3. RestTyped' /\ run' \in [Changes -> Run] /\ Distinct(run'[v].stages) /\ Alone(v)
  BY <1>1, <1>2 DEF TypeInv, TypeOK, RestTyped, Distinct, Alone
<1>4. StagesInOrder(v)'
  <2>1. StagesInOrder(v)
    BY DEF TypeInv, StagesInv
  <2> QED
    BY <1>1, <2>1 DEF StagesInOrder, Awaits, InCommand
<1> QED
  BY <1>1, <1>3, <1>4, AloneDoes
-----------------------------------------------------------------------------
(* The steps of runIsolatedVerification                                    *)

\* v awaits its next command.
Goes(v, what) ==
    /\ run' \in [Changes -> Run] /\ cmd' \in [Changes -> Cmd] /\ Alone(v)
    /\ run'[v].at = "command" /\ cmd'[v].what = what /\ cmd'[v].child \in {"up", "unborn"}

\* The verification of v is over, with these stages.
Ends(v, s, w) == s \in Seq(Stage) /\ Distinct(s) /\ w \in BOOLEAN /\ Verified(v, s, w)

SetupFailed == <<[name |-> "setup", status |-> "error"]>>

LEMMA SetupFailedIs ==
  /\ With(<<>>, "setup", "error") = SetupFailed
  /\ SetupFailed \in Seq(Stage) /\ Distinct(SetupFailed)
  /\ DOMAIN SetupFailed = {1}
  /\ SetupFailed[1] = [name |-> "setup", status |-> "error"]
  /\ ~Passes(SetupFailed)
<1>1. [name |-> "setup", status |-> "error"] \in Stage
  BY NamesAre DEF Stage, Statuses
<1>2. /\ SetupFailed \in Seq(Stage) /\ DOMAIN SetupFailed = {1}
      /\ SetupFailed[1] = [name |-> "setup", status |-> "error"]
  BY <1>1 DEF SetupFailed
<1>3. With(<<>>, "setup", "error") = SetupFailed
  BY DEF With, SetupFailed
<1> QED
  BY <1>2, <1>3 DEF Distinct, Passes

LEMMA EndsType ==
  ASSUME TypeInv, NEW v \in Changes, NEW s, NEW w, Ends(v, s, w), RestTyped'
  PROVE  TypeInv'
<1>1. run \in [Changes -> Run] /\ cmd \in [Changes -> Cmd]
  BY DEF TypeInv, TypeOK
<1> QED
  BY <1>1, VerifiedDoes, AloneDoes DEF Ends

LEMMA GoesType ==
  ASSUME TypeInv, NEW v \in Changes, NEW what \in Git \cup Names, Goes(v, what), RestTyped',
         Distinct(run'[v].stages), StagesInOrder(v)'
  PROVE  TypeInv'
BY AloneDoes DEF Goes

LEMMA CreateWorktreeDoes ==
  ASSUME TypeInv, NEW v \in Changes, CreateWorktree(v)
  PROVE  /\ run[v].at = "verify" /\ run[v].stages = <<>>
         /\ RestTyped' /\ events' = events /\ seen' = seen
         /\ \A q \in RunIds \ {RunId(v)} : tree'[q] = tree[q]
         /\ \/ Goes(v, "add") /\ run'[v].stages = <<>>
            \/ Ends(v, SetupFailed, FALSE)
<1>0. /\ run \in [Changes -> Run] /\ cmd \in [Changes -> Cmd] /\ RestTyped
      /\ tree \in [RunIds -> Tree] /\ RunId(v) \in RunIds
      /\ faults \in 0 .. MaxFaults
  BY RunIdIs DEF TypeInv, TypeOK, RestTyped
<1>1. run[v].at = "verify" /\ run[v].stages = <<>> /\ events' = events /\ seen' = seen
  BY DEF CreateWorktree, TypeInv, StagesInv, StagesInOrder, Early
<1>2. CASE /\ run' = [run EXCEPT ![v].at = "command"]
           /\ tree' = [tree EXCEPT ![RunId(v)].dir = FALSE, ![RunId(v)].holds = "nothing"]
           /\ Spawn(v, "add")
  <2>1. "command" \in Places /\ "add" \in Git \cup Names
    BY DEF Places, Git
  <2>2. run' \in [Changes -> Run] /\ run'[v].at = "command" /\ run'[v].stages = <<>>
        /\ \A u \in Changes \ {v} : run'[u] = run[u]
    BY <1>0, <1>1, <1>2, <2>1, AtDoes
  <2>3. /\ cmd' \in [Changes -> Cmd] /\ faults' \in 0 .. MaxFaults
        /\ \A u \in Changes \ {v} : cmd'[u] = cmd[u]
        /\ cmd'[v].what = "add" /\ cmd'[v].child \in {"up", "unborn"}
    BY <1>0, <1>2, <2>1, SpawnDoes
  <2> DEFINE t == [tree[RunId(v)] EXCEPT !.dir = FALSE, !.holds = "nothing"]
  <2>4. t \in Tree
    BY <1>0 DEF Tree
  <2>5. tree' = [tree EXCEPT ![RunId(v)] = t]
    BY <1>0, <1>2
  <2> HIDE DEF t
  <2>6. tree' \in [RunIds -> Tree] /\ \A q \in RunIds \ {RunId(v)} : tree'[q] = tree[q]
    BY <1>0, <2>4, <2>5
  <2> QED
    BY <1>0, <1>1, <2>2, <2>3, <2>6 DEF Goes, Alone, RestTyped
<1>3. CASE /\ Verified(v, With(<<>>, "setup", "error"), FALSE)
           /\ Fault
           /\ UNCHANGED tree
  <2>1. faults' \in 0 .. MaxFaults
    BY <1>0, <1>3, FaultTyped
  <2> QED
    BY <1>0, <1>1, <1>3, <2>1, SetupFailedIs DEF Ends, RestTyped
<1> QED
  BY <1>2, <1>3 DEF CreateWorktree

LEMMA WorktreeAddedDoes ==
  ASSUME TypeInv, NEW v \in Changes, WorktreeAdded(v)
  PROVE  /\ Awaits(v, "add") /\ run[v].stages = <<>>
         /\ RestTyped' /\ events' = events /\ seen' = seen
         /\ \A q \in RunIds \ {RunId(v)} : tree'[q] = tree[q]
         /\ \/ Ends(v, SetupFailed, FALSE)
            \/ /\ Goes(v, "compile") /\ run'[v].stages = <<>>
               /\ cmd[v].child = "exited" /\ cmd[v].ok
               /\ tree'[RunId(v)] = [tree[RunId(v)] EXCEPT !.holds = v, !.dir = TRUE]
            \/ Goes(v, "remove") /\ run'[v].stages = SetupFailed
<1>0. /\ run \in [Changes -> Run] /\ cmd \in [Changes -> Cmd] /\ RestTyped
      /\ tree \in [RunIds -> Tree] /\ RunId(v) \in RunIds /\ cmd[v] \in Cmd
      /\ faults \in 0 .. MaxFaults
  BY RunIdIs DEF TypeInv, TypeOK, RestTyped
<1>1. Awaits(v, "add") /\ run[v].stages = <<>> /\ run[v].at = "command"
      /\ events' = events /\ seen' = seen
  BY DEF WorktreeAdded, TypeInv, StagesInv, StagesInOrder, Awaits, Closes, InCommand
<1>2. CASE Status(cmd[v]) # "pass"
  <2>1. Verified(v, SetupFailed, FALSE) /\ UNCHANGED <<tree, faults>>
    BY <1>2, SetupFailedIs DEF WorktreeAdded
  <2> QED
    BY <1>0, <1>1, <2>1, SetupFailedIs DEF Ends, RestTyped
<1>3. CASE /\ Status(cmd[v]) = "pass"
           /\ run' = [run EXCEPT ![v].made = TRUE]
           /\ tree' = [tree EXCEPT ![RunId(v)].holds = v, ![RunId(v)].dir = TRUE]
           /\ Spawn(v, Required[1])
  <2>1. run' = [run EXCEPT ![v] = [@ EXCEPT !.made = TRUE, !.stages = <<>>]]
    <3> DEFINE a == [run[v] EXCEPT !.made = TRUE]
               b == [run[v] EXCEPT !.made = TRUE, !.stages = <<>>]
    <3>1. a = b
      BY <1>0, <1>1 DEF Run
    <3>2. run' = [run EXCEPT ![v] = a]
      BY <1>3
    <3> QED
      BY <3>1, <3>2
  <2>2. run' \in [Changes -> Run] /\ run'[v].at = "command" /\ run'[v].stages = <<>>
        /\ \A u \in Changes \ {v} : run'[u] = run[u]
    <3>1. <<>> \in Seq(Stage)
      OBVIOUS
    <3> QED
      BY <1>0, <1>1, <2>1, <3>1, StagesDoes
  <2>3. /\ cmd' \in [Changes -> Cmd] /\ faults' \in 0 .. MaxFaults
        /\ \A u \in Changes \ {v} : cmd'[u] = cmd[u]
        /\ cmd'[v].what = "compile" /\ cmd'[v].child \in {"up", "unborn"}
    <3>1. Required[1] \in Git \cup Names /\ Required[1] = "compile"
      BY NamesAre
    <3> QED
      BY <1>0, <1>3, <3>1, SpawnDoes
  <2> DEFINE t == [tree[RunId(v)] EXCEPT !.holds = v, !.dir = TRUE]
  <2>4. t \in Tree
    BY <1>0 DEF Tree
  <2>5. tree' = [tree EXCEPT ![RunId(v)] = t]
    BY <1>0, <1>3
  <2> HIDE DEF t
  <2>6. tree' \in [RunIds -> Tree] /\ tree'[RunId(v)] = t
        /\ \A q \in RunIds \ {RunId(v)} : tree'[q] = tree[q]
    BY <1>0, <2>4, <2>5
  <2>7. cmd[v].child = "exited" /\ cmd[v].ok
    BY <1>0, <1>3, StatusIs DEF WorktreeAdded, Closes
  <2> QED
    BY <1>0, <1>1, <2>2, <2>3, <2>6, <2>7 DEF Goes, Alone, RestTyped, t
<1>4. CASE /\ run' = [run EXCEPT ![v].made = TRUE, ![v].stages = With(@, "setup", "error")]
           /\ Fault
           /\ cmd' = [cmd EXCEPT ![v] = Spawned("remove", FALSE)]
           /\ UNCHANGED tree
  <2>1. run' = [run EXCEPT ![v] = [@ EXCEPT !.made = TRUE, !.stages = SetupFailed]]
    BY <1>0, <1>1, <1>4, SetupFailedIs
  <2>2. run' \in [Changes -> Run] /\ run'[v].at = "command" /\ run'[v].stages = SetupFailed
        /\ \A u \in Changes \ {v} : run'[u] = run[u]
    BY <1>0, <1>1, <2>1, StagesDoes, SetupFailedIs
  <2>3. Spawned("remove", FALSE) \in Cmd /\ Spawned("remove", FALSE).what = "remove"
        /\ Spawned("remove", FALSE).child = "up"
    BY DEF Spawned, NoCmd, Cmd, Git
  <2>4. faults' \in 0 .. MaxFaults
    BY <1>0, <1>4, FaultTyped
  <2> QED
    BY <1>0, <1>1, <1>4, <2>2, <2>3, <2>4 DEF Goes, Alone, RestTyped
<1> QED
  BY <1>2, <1>3, <1>4 DEF WorktreeAdded
(* What is appended to the stages while a command is awaited.              *)
LEMMA StageAppended ==
  ASSUME TypeInv, NEW v \in Changes, NEW n \in Names, NEW st \in Statuses,
         \A i \in DOMAIN run[v].stages : run[v].stages[i].name # n
  PROVE  LET s == run[v].stages
             t == With(s, n, st)
         IN  /\ s \in Seq(Stage) /\ Distinct(s) /\ t \in Seq(Stage) /\ Distinct(t)
             /\ Len(t) = Len(s) + 1
             /\ \A i \in DOMAIN s : i \in DOMAIN t /\ t[i] = s[i]
             /\ t[Len(s) + 1] = [name |-> n, status |-> st]
             /\ \A i \in DOMAIN t : i \in DOMAIN s \/ i = Len(s) + 1
<1>1. run[v].stages \in Seq(Stage) /\ Distinct(run[v].stages)
  BY DEF TypeInv, TypeOK, Run, Distinct
<1> QED
  BY <1>1, WithDoes

LEMMA StageEndsDoes ==
  ASSUME TypeInv, NEW v \in Changes, StageEnds(v)
  PROVE  \E i \in 1 .. 3 : LET status == Status(cmd[v]) IN
         /\ Awaits(v, Required[i]) /\ RestTyped' /\ events' = events /\ tree' = tree
         /\ \A j \in DOMAIN run[v].stages : run[v].stages[j].name # Required[i]
         /\ Len(run[v].stages) = i - 1
         /\ run'[v].stages = With(run[v].stages, Required[i], status)
         /\ \/ (status # "pass" \/ i = 3) /\ Goes(v, "remove")
            \/ status = "pass" /\ i < 3 /\ Goes(v, Required[i + 1])
         /\ seen' = IF cmd[v].child = "exited" /\ cmd[v].ok /\ ~cmd[v].timedOut
                         /\ tree[RunId(v)] = Ready(v)
                    THEN [seen EXCEPT ![v] = @ \cup {Required[i]}] ELSE seen
         /\ cmd[v].child # "unborn" => cmd[v].child = "exited"
<1>0. /\ run \in [Changes -> Run] /\ cmd \in [Changes -> Cmd] /\ RestTyped
      /\ cmd[v] \in Cmd /\ faults \in 0 .. MaxFaults
  BY DEF TypeInv, TypeOK, RestTyped
<1> DEFINE status == Status(cmd[v])
           next(i) == IF status # "pass" \/ i = 3 THEN "remove" ELSE Required[i + 1]
<1>1. PICK i \in 1 .. 3 :
        /\ Closes(v, Required[i])
        /\ run' = [run EXCEPT ![v].stages = With(@, Required[i], status)]
        /\ Spawn(v, next(i))
        /\ seen' = IF cmd[v].child = "exited" /\ cmd[v].ok /\ ~cmd[v].timedOut
                        /\ tree[RunId(v)] = Ready(v)
                   THEN [seen EXCEPT ![v] = @ \cup {Required[i]}] ELSE seen
        /\ UNCHANGED <<tree, events>>
  <2>1. PICK i \in DOMAIN Required :
          /\ Closes(v, Required[i])
          /\ run' = [run EXCEPT ![v].stages = With(@, Required[i], status)]
          /\ Spawn(v, IF status # "pass" \/ i = Len(Required) THEN "remove" ELSE Required[i + 1])
          /\ seen' = IF cmd[v].child = "exited" /\ cmd[v].ok /\ ~cmd[v].timedOut
                          /\ tree[RunId(v)] = Ready(v)
                     THEN [seen EXCEPT ![v] = @ \cup {Required[i]}] ELSE seen
          /\ UNCHANGED <<tree, events>>
    BY DEF StageEnds, Ready
  <2>2. i \in 1 .. 3
        /\ (IF status # "pass" \/ i = Len(Required) THEN "remove" ELSE Required[i + 1]) = next(i)
    BY NamesAre
  <2> HIDE DEF next
  <2> QED
    BY <2>1, <2>2
<1>2. Awaits(v, Required[i]) /\ run[v].at = "command"
      /\ (cmd[v].child # "unborn" => cmd[v].child = "exited")
  BY <1>1 DEF Closes, Awaits, InCommand
<1>3. status \in Statuses
  BY <1>0, StatusIs
<1> HIDE DEF status
<1>4. Len(run[v].stages) = i - 1
      /\ \A j \in 1 .. i - 1 : run[v].stages[j].name = Required[j]
  BY <1>2 DEF TypeInv, StagesInv, StagesInOrder
<1>5. \A j \in 1 .. i - 1 : Required[j] # Required[i]
  BY NamesAre
<1>6. run[v].stages \in Seq(Stage) /\ DOMAIN run[v].stages = 1 .. i - 1
  BY <1>0, <1>4 DEF Run
<1>7. \A j \in DOMAIN run[v].stages : run[v].stages[j].name # Required[i]
  BY <1>4, <1>5, <1>6
<1>8. Required[i] \in Names
  BY NamesAre
<1> DEFINE t == With(run[v].stages, Required[i], status)
           r == [run[v] EXCEPT !.stages = t]
<1>9. t \in Seq(Stage)
  BY <1>3, <1>7, <1>8, StageAppended
<1>10. run' = [run EXCEPT ![v] = r]
  BY <1>0, <1>1
<1> HIDE DEF t
<1>11. r \in Run /\ r.at = "command" /\ r.stages = t
  BY <1>0, <1>2, <1>9 DEF Run
<1> HIDE DEF r
<1>12. run' \in [Changes -> Run] /\ run'[v] = r /\ \A u \in Changes \ {v} : run'[u] = run[u]
  BY <1>0, <1>10, <1>11
<1>13. next(i) \in Git \cup Names /\ (i # 3 => i < 3)
  BY NamesAre DEF Git
<1> HIDE DEF next
<1>14. /\ cmd' \in [Changes -> Cmd] /\ faults' \in 0 .. MaxFaults
       /\ \A u \in Changes \ {v} : cmd'[u] = cmd[u]
       /\ cmd'[v].what = next(i) /\ cmd'[v].child \in {"up", "unborn"}
  BY <1>0, <1>1, <1>13, SpawnDoes
<1>15. Goes(v, next(i))
  BY <1>11, <1>12, <1>14 DEF Goes, Alone
<1>16. seen' \in [Changes -> SUBSET Names]
  BY <1>0, <1>1, <1>8 DEF RestTyped
<1>17. RestTyped'
  BY <1>0, <1>1, <1>14, <1>16 DEF RestTyped
<1> QED
  BY <1>1, <1>2, <1>4, <1>7, <1>11, <1>12, <1>13, <1>15, <1>17 DEF t, next, status

LEMMA CleanupFailed ==
  ASSUME TypeInv, NEW v \in Changes, Awaits(v, "remove") \/ Awaits(v, "prune")
  PROVE  LET s == run[v].stages
             t == With(s, "cleanup", "error")
         IN  /\ t \in Seq(Stage) /\ Distinct(t) /\ ~Passes(t)
             /\ \A i \in DOMAIN t : t[i].status = "pass" => i \in DOMAIN s /\ t[i] = s[i]
             /\ s \in Seq(Stage) /\ Distinct(s)
<1>1. \A i \in DOMAIN run[v].stages : run[v].stages[i].name # "cleanup"
  BY DEF TypeInv, StagesInv, StagesInOrder
<1>2. "cleanup" \in Names /\ "error" \in Statuses
  BY NamesAre DEF Statuses
<1> DEFINE s == run[v].stages
           t == With(s, "cleanup", "error")
<1>3. /\ s \in Seq(Stage) /\ Distinct(s) /\ t \in Seq(Stage) /\ Distinct(t)
      /\ Len(t) = Len(s) + 1
      /\ \A i \in DOMAIN s : i \in DOMAIN t /\ t[i] = s[i]
      /\ t[Len(s) + 1] = [name |-> "cleanup", status |-> "error"]
      /\ \A i \in DOMAIN t : i \in DOMAIN s \/ i = Len(s) + 1
  BY <1>1, <1>2, StageAppended
<1> HIDE DEF s, t
<1>4. Len(s) + 1 \in DOMAIN t
  BY <1>3
<1>5. ~Passes(t)
  BY <1>3, <1>4 DEF Passes
<1>6. \A i \in DOMAIN t : t[i].status = "pass" => i \in DOMAIN s /\ t[i] = s[i]
  BY <1>3
<1> QED
  BY <1>3, <1>5, <1>6 DEF s, t

LEMMA WorktreeRemovedDoes ==
  ASSUME TypeInv, NEW v \in Changes, WorktreeRemoved(v)
  PROVE  /\ Awaits(v, "remove") /\ RestTyped' /\ events' = events /\ seen' = seen
         /\ \A q \in RunIds \ {RunId(v)} : tree'[q] = tree[q]
         /\ \/ Ends(v, With(run[v].stages, "cleanup", "error"), FALSE)
            \/ /\ Goes(v, "prune") /\ run'[v].stages = run[v].stages
               /\ run'[v].warned \/ ~tree'[RunId(v)].dir
<1>0. /\ run \in [Changes -> Run] /\ cmd \in [Changes -> Cmd] /\ RestTyped
      /\ tree \in [RunIds -> Tree] /\ RunId(v) \in RunIds /\ cmd[v] \in Cmd
      /\ faults \in 0 .. MaxFaults
  BY RunIdIs DEF TypeInv, TypeOK, RestTyped
<1>1. Awaits(v, "remove") /\ run[v].at = "command" /\ events' = events /\ seen' = seen
  BY DEF WorktreeRemoved, Awaits, Closes, InCommand
<1>2. CASE /\ Verified(v, With(run[v].stages, "cleanup", "error"), FALSE)
           /\ UNCHANGED <<tree, faults>>
  BY <1>0, <1>1, <1>2, CleanupFailed DEF Ends, RestTyped
<1>3. CASE /\ run' = [run EXCEPT ![v].warned = Status(cmd[v]) # "pass"]
           /\ tree' = [tree EXCEPT ![RunId(v)].dir = FALSE, ![RunId(v)].holds = "nothing"]
           /\ Spawn(v, "prune")
  <2>1. run' \in [Changes -> Run] /\ run'[v].at = "command" /\ run'[v].stages = run[v].stages
        /\ \A u \in Changes \ {v} : run'[u] = run[u]
    BY <1>0, <1>1, <1>3, WarnedDoes
  <2>2. "prune" \in Git \cup Names
    BY DEF Git
  <2>3. /\ cmd' \in [Changes -> Cmd] /\ faults' \in 0 .. MaxFaults
        /\ \A u \in Changes \ {v} : cmd'[u] = cmd[u]
        /\ cmd'[v].what = "prune" /\ cmd'[v].child \in {"up", "unborn"}
    BY <1>0, <1>3, <2>2, SpawnDoes
  <2> DEFINE t == [tree[RunId(v)] EXCEPT !.dir = FALSE, !.holds = "nothing"]
  <2>4. t \in Tree /\ ~t.dir
    BY <1>0 DEF Tree
  <2>5. tree' = [tree EXCEPT ![RunId(v)] = t]
    BY <1>0, <1>3
  <2> HIDE DEF t
  <2>6. tree' \in [RunIds -> Tree] /\ tree'[RunId(v)] = t
        /\ \A q \in RunIds \ {RunId(v)} : tree'[q] = tree[q]
    BY <1>0, <2>4, <2>5
  <2> QED
    BY <1>0, <1>1, <2>1, <2>3, <2>4, <2>6 DEF Goes, Alone, RestTyped
<1>4. CASE /\ run' = [run EXCEPT ![v].warned = TRUE]
           /\ Fault
           /\ cmd' = [cmd EXCEPT ![v] = Spawned("prune", FALSE)]
           /\ UNCHANGED tree
  <2>1. run' \in [Changes -> Run] /\ run'[v].at = "command" /\ run'[v].stages = run[v].stages
        /\ run'[v].warned /\ \A u \in Changes \ {v} : run'[u] = run[u]
    BY <1>0, <1>1, <1>4, WarnedDoes
  <2>2. Spawned("prune", FALSE) \in Cmd /\ Spawned("prune", FALSE).what = "prune"
        /\ Spawned("prune", FALSE).child = "up"
    BY DEF Spawned, NoCmd, Cmd, Git
  <2>3. faults' \in 0 .. MaxFaults
    BY <1>0, <1>4, FaultTyped
  <2> QED
    BY <1>0, <1>1, <1>4, <2>1, <2>2, <2>3 DEF Goes, Alone, RestTyped
<1> QED
  BY <1>2, <1>3, <1>4 DEF WorktreeRemoved

LEMMA WorktreesPrunedDoes ==
  ASSUME TypeInv, NEW v \in Changes, WorktreesPruned(v)
  PROVE  /\ Awaits(v, "prune") /\ RestTyped' /\ events' = events /\ seen' = seen
         /\ tree' = tree
         /\ \/ /\ Ends(v, run[v].stages, run[v].warned)
               /\ cmd[v].child = "exited" /\ cmd[v].ok
            \/ Ends(v, With(run[v].stages, "cleanup", "error"), FALSE)
<1>0. run \in [Changes -> Run] /\ cmd[v] \in Cmd /\ RestTyped /\ run[v].warned \in BOOLEAN
  BY DEF TypeInv, TypeOK, RestTyped, Run
<1>1. Awaits(v, "prune") /\ events' = events /\ seen' = seen /\ tree' = tree
      /\ faults' = faults
  BY DEF WorktreesPruned, Awaits, Closes
<1>2. RestTyped'
  BY <1>0, <1>1 DEF RestTyped
<1>3. CASE Status(cmd[v]) = "pass"
  <2>1. cmd[v].child = "exited" /\ cmd[v].ok
    BY <1>0, <1>3, StatusIs DEF WorktreesPruned, Closes
  <2>2. Verified(v, run[v].stages, run[v].warned)
    BY <1>3 DEF WorktreesPruned
  <2> QED
    BY <1>0, <1>1, <1>2, <2>1, <2>2, CleanupFailed DEF Ends
<1>4. CASE Status(cmd[v]) # "pass"
  <2>1. Verified(v, With(run[v].stages, "cleanup", "error"), FALSE)
    BY <1>4 DEF WorktreesPruned
  <2> QED
    BY <1>1, <1>2, <2>1, CleanupFailed DEF Ends
<1> QED
  BY <1>3, <1>4
(* The agent dies.                                                         *)
LEMMA CrashDoes ==
  ASSUME TypeInv, Crash
  PROVE  /\ run' \in [Changes -> Run] /\ cmd' \in [Changes -> Cmd] /\ RestTyped'
         /\ UNCHANGED <<tree, events, seen>>
         /\ \A v \in Changes :
              /\ run'[v].stages = run[v].stages
              /\ \/ run'[v] = run[v] /\ run[v].at \in Over \cup {"new"}
                 \/ run'[v].at = "dead"
<1>0. run \in [Changes -> Run] /\ RestTyped /\ faults \in 0 .. MaxFaults
  BY DEF TypeInv, TypeOK, RestTyped
<1> DEFINE d(v) == [run[v] EXCEPT !.at = "dead"]
<1>1. ASSUME NEW v \in Changes
      PROVE  d(v) \in Run /\ d(v).at = "dead" /\ d(v).stages = run[v].stages /\ run[v] \in Run
  BY <1>0 DEF Run, Over
<1>2. run' = [v \in Changes |-> IF run[v].at \in Over \cup {"new"} THEN run[v] ELSE d(v)]
      /\ cmd' = [v \in Changes |-> NoCmd] /\ UNCHANGED <<tree, events, seen>> /\ Fault
  BY DEF Crash
<1> HIDE DEF d
<1>3. NoCmd \in Cmd
  BY DEF NoCmd, Cmd
<1>4. run' \in [Changes -> Run] /\ cmd' \in [Changes -> Cmd]
  BY <1>1, <1>2, <1>3
<1>5. faults' \in 0 .. MaxFaults
  BY <1>0, <1>2, FaultTyped
<1> QED
  BY <1>0, <1>1, <1>2, <1>4, <1>5 DEF RestTyped

LEMMA TypeStep == ASSUME TypeInv, [Next]_vars PROVE TypeInv'
<1>1. ASSUME NEW v \in Changes,
             \/ Propose(v) \/ Compile(v) \/ RecordUncompiled(v)
             \/ RecordTested(v) \/ RecordRefused(v)
      PROVE  TypeInv'
  BY <1>1, StagingType
<1>2. ASSUME NEW v \in Changes,
             ChildExits(v) \/ TimerFires(v) \/ ForceKill(v) \/ HelperEnds(v)
      PROVE  TypeInv'
  BY <1>2, ProcessType
<1>3. "add" \in Git \cup Names /\ "remove" \in Git \cup Names /\ "prune" \in Git \cup Names
      /\ RequiredNames \subseteq Git \cup Names /\ RequiredNames \cap Git = {}
      /\ Required[1] = "compile" /\ Required[2] = "targetedTests" /\ Required[3] = "startupSmoke"
  BY NamesAre DEF Git, RequiredNames
<1>4. ASSUME NEW v \in Changes, CreateWorktree(v) PROVE TypeInv'
  <2>1. CASE Goes(v, "add") /\ run'[v].stages = <<>>
    <3>1. Distinct(run'[v].stages) /\ StagesInOrder(v)'
      BY <1>3, <2>1 DEF Goes, Distinct, StagesInOrder, Awaits, InCommand, Early
    <3> QED
      BY <1>3, <1>4, <2>1, <3>1, CreateWorktreeDoes, GoesType
  <2>2. CASE Ends(v, SetupFailed, FALSE)
    BY <1>4, <2>2, CreateWorktreeDoes, EndsType
  <2> QED
    BY <1>4, <2>1, <2>2, CreateWorktreeDoes
<1>5. ASSUME NEW v \in Changes, WorktreeAdded(v) PROVE TypeInv'
  <2>1. CASE Goes(v, "compile") /\ run'[v].stages = <<>>
    <3>1. Distinct(run'[v].stages) /\ StagesInOrder(v)'
      <4>1. \A i \in 1 .. 3 : Required[i] = "compile" => i = 1
        BY <1>3
      <4> QED
        BY <1>3, <2>1, <4>1 DEF Goes, Distinct, StagesInOrder, Awaits, InCommand, Early
    <3>2. "compile" \in Git \cup Names
      BY <1>3 DEF RequiredNames
    <3> QED
      BY <1>5, <2>1, <3>1, <3>2, WorktreeAddedDoes, GoesType
  <2>2. CASE Ends(v, SetupFailed, FALSE)
    BY <1>5, <2>2, WorktreeAddedDoes, EndsType
  <2>3. CASE Goes(v, "remove") /\ run'[v].stages = SetupFailed
    <3>1. Distinct(run'[v].stages) /\ StagesInOrder(v)'
      BY <1>3, <2>3, SetupFailedIs DEF Goes, StagesInOrder, Awaits, InCommand, Early
    <3> QED
      BY <1>3, <1>5, <2>3, <3>1, WorktreeAddedDoes, GoesType
  <2> QED
    BY <1>5, <2>1, <2>2, <2>3, WorktreeAddedDoes
<1>6. ASSUME NEW v \in Changes, StageEnds(v) PROVE TypeInv'
  <2> DEFINE status == Status(cmd[v])
             s == run[v].stages
  <2>1. PICK i \in 1 .. 3 :
         /\ Awaits(v, Required[i]) /\ RestTyped'
         /\ \A j \in DOMAIN s : s[j].name # Required[i]
         /\ Len(s) = i - 1
         /\ run'[v].stages = With(s, Required[i], status)
         /\ \/ Goes(v, "remove")
            \/ i < 3 /\ Goes(v, Required[i + 1])
    BY <1>6, StageEndsDoes
  <2>2. status \in Statuses
    BY StatusIs DEF TypeInv, TypeOK
  <2> DEFINE t == With(s, Required[i], status)
  <2> HIDE DEF status
  <2>3. Required[i] \in Names /\ Required[i] \in RequiredNames
    BY NamesAre
  <2>4. /\ t \in Seq(Stage) /\ Distinct(t) /\ Len(t) = i
        /\ \A j \in DOMAIN s : j \in DOMAIN t /\ t[j] = s[j]
        /\ t[i].name = Required[i]
        /\ \A j \in DOMAIN t : j \in DOMAIN s \/ j = i
    <3>1. /\ t \in Seq(Stage) /\ Distinct(t) /\ Len(t) = Len(s) + 1
          /\ \A j \in DOMAIN s : j \in DOMAIN t /\ t[j] = s[j]
          /\ t[Len(s) + 1] = [name |-> Required[i], status |-> status]
          /\ \A j \in DOMAIN t : j \in DOMAIN s \/ j = Len(s) + 1
      BY <2>1, <2>2, <2>3, StageAppended
    <3> HIDE DEF t, s
    <3>2. Len(s) + 1 = i
      BY <2>1
    <3> QED
      BY <3>1, <3>2
  <2>5. \A j \in DOMAIN s : s[j].name = Required[j] /\ j \in 1 .. i - 1
    <3>1. \A j \in 1 .. i - 1 : s[j].name = Required[j]
      BY <2>1 DEF TypeInv, StagesInv, StagesInOrder
    <3>2. s \in Seq(Stage)
      BY DEF TypeInv, TypeOK, Run
    <3> QED
      BY <2>1, <3>1, <3>2
  <2> HIDE DEF t, s
  <2>6. \A j \in DOMAIN t : t[j].name = Required[j] /\ j \in 1 .. 3
    BY <2>4, <2>5
  <2>7. run'[v].stages = t
    BY <2>1 DEF t
  <2>8. CASE Goes(v, "remove")
    <3>1. \A j \in DOMAIN t : t[j].name # "cleanup"
      BY <2>6, NamesAre DEF RequiredNames
    <3>2. StagesInOrder(v)'
      BY <1>3, <2>7, <2>8, <3>1, NamesAre
         DEF Goes, StagesInOrder, Awaits, InCommand, Early, Git
    <3> QED
      BY <1>3, <2>1, <2>4, <2>7, <2>8, <3>2, GoesType
  <2>9. CASE i < 3 /\ Goes(v, Required[i + 1])
    <3>1. i + 1 \in 1 .. 3 /\ Required[i + 1] \in RequiredNames
          /\ Required[i + 1] \in Git \cup Names
      BY <1>3, <2>9, NamesAre
    <3>2. \A j \in 1 .. 3 : Required[j] = Required[i + 1] => j = i + 1
      BY <1>3, <3>1
    <3>3. \A j \in 1 .. i : t[j].name = Required[j]
      BY <2>4, <2>6
    <3>4. run'[v].at = "command" /\ cmd'[v].what = Required[i + 1]
      BY <2>9 DEF Goes
    <3>5. Required[i + 1] \notin Git
      BY <1>3, <3>1
    <3>6. StagesInOrder(v)'
      <4>1. ~(run'[v].at \in Early) /\ ~Awaits(v, "add")' /\ ~Awaits(v, "remove")'
            /\ ~Awaits(v, "prune")'
        BY <3>4, <3>5 DEF Early, Awaits, Git
      <4>2. ASSUME NEW j \in 1 .. 3, Awaits(v, Required[j])' PROVE j = i + 1
        BY <3>2, <3>4, <4>2 DEF Awaits
      <4>3. Len(t) = i + 1 - 1 /\ \A k \in 1 .. i + 1 - 1 : t[k].name = Required[k]
        BY <2>4, <3>3
      <4> QED
        BY <2>7, <4>1, <4>2, <4>3 DEF StagesInOrder
    <3> QED
      BY <2>1, <2>4, <2>7, <2>9, <3>1, <3>6, GoesType
  <2> QED
    BY <2>1, <2>8, <2>9
<1>7. ASSUME NEW v \in Changes, WorktreeRemoved(v) PROVE TypeInv'
  <2>1. CASE Goes(v, "prune") /\ run'[v].stages = run[v].stages
    <3>1. Awaits(v, "remove")
      BY <1>7, WorktreeRemovedDoes
    <3>2. Distinct(run'[v].stages)
      BY <2>1, <3>1, CleanupFailed
    <3>3. StagesInOrder(v)'
      <4>1. \A i \in DOMAIN run[v].stages : run[v].stages[i].name # "cleanup"
        BY <3>1 DEF TypeInv, StagesInv, StagesInOrder
      <4> QED
        BY <1>3, <2>1, <4>1, NamesAre DEF Goes, StagesInOrder, Awaits, InCommand, Early, Git
    <3> QED
      BY <1>3, <1>7, <2>1, <3>2, <3>3, WorktreeRemovedDoes, GoesType
  <2>2. CASE Ends(v, With(run[v].stages, "cleanup", "error"), FALSE)
    BY <1>7, <2>2, WorktreeRemovedDoes, EndsType
  <2> QED
    BY <1>7, <2>1, <2>2, WorktreeRemovedDoes
<1>8. ASSUME NEW v \in Changes, WorktreesPruned(v) PROVE TypeInv'
  BY <1>8, WorktreesPrunedDoes, EndsType
<1>9. CASE Crash
  <2>1. \A v \in Changes : Distinct(run'[v].stages)
    BY <1>9, CrashDoes DEF TypeInv, TypeOK, Distinct
  <2>2. ASSUME NEW v \in Changes PROVE StagesInOrder(v)'
    <3>1. StagesInOrder(v)
      BY DEF TypeInv, StagesInv
    <3>2. run'[v].at \in Over \cup {"new"} /\ run'[v].stages = run[v].stages
          /\ (run'[v].at = "new" => run[v].at = "new")
      BY <1>9, CrashDoes DEF Over
    <3> QED
      BY <3>1, <3>2 DEF StagesInOrder, Awaits, InCommand, Early, Over
  <2> QED
    BY <1>9, <2>1, <2>2, CrashDoes DEF TypeInv, TypeOK, StagesInv, RestTyped, Distinct
<1>10. CASE UNCHANGED vars
  BY <1>10 DEF TypeInv, TypeOK, StagesInv, StagesInOrder, Awaits, InCommand, vars
<1> QED
  BY <1>1, <1>2, <1>4, <1>5, <1>6, <1>7, <1>8, <1>9, <1>10 DEF Next, Code

LEMMA TypeInit == Init => TypeInv
<1> SUFFICES ASSUME Init PROVE TypeInv
  OBVIOUS
<1> DEFINE r == [at |-> "new", stages |-> <<>>, made |-> FALSE, warned |-> FALSE, passed |-> FALSE]
<1>1. r \in Run /\ r.at = "new" /\ r.stages = <<>>
  BY DEF Run
<1>2. NoCmd \in Cmd /\ NoTree \in Tree
  BY DEF NoCmd, Cmd, NoTree, Tree
<1>3. run = [v \in Changes |-> r]
  BY DEF Init
<1> HIDE DEF r
<1>4. faults \in 0 .. MaxFaults
  BY VerifierAssumption DEF Init
<1>5. TypeOK
  <2>1. run \in [Changes -> Run] /\ \A v \in Changes : run[v].stages = <<>>
    BY <1>1, <1>3
  <2>2. cmd \in [Changes -> Cmd] /\ tree \in [RunIds -> Tree]
    BY <1>2 DEF Init
  <2>3. events \in [Changes -> Seq(Row)] /\ seen \in [Changes -> SUBSET Names]
    BY DEF Init
  <2> QED
    BY <1>4, <2>1, <2>2, <2>3 DEF TypeOK
<1>6. StagesInv
  BY <1>1, <1>3 DEF StagesInv, StagesInOrder, Awaits, InCommand
<1> QED
  BY <1>5, <1>6 DEF TypeInv

(* Type correctness of a verification and its worktree, and no stage is    *)
(* reported twice: for any changes, also of one millisecond.               *)
THEOREM TypeCorrect == Spec => []TypeOK
<1>1. TypeInv => TypeOK
  BY DEF TypeInv
<1> QED
  BY <1>1, TypeInit, TypeStep, PTL DEF Spec
-----------------------------------------------------------------------------
(* What a change is told is true                                           *)

(* A step of one change keeps what is true of another: of its worktree it  *)
(* may take an entry whose directory is gone, no more.                     *)
LEMMA OthersSafe ==
  ASSUME VerifierInv, TypeInv', NEW u \in Changes, run'[u] = run[u], cmd'[u] = cmd[u],
         events'[u] = events[u], seen'[u] = seen[u], Keeps(RunId(u))
  PROVE  ChangeInv(u)'
<1> DEFINE r == RunId(u)
<1>0. StagesTrue(u) /\ WorktreeHolds(u) /\ EventsSo(u)
  BY DEF VerifierInv, ChangeInv
<1>1. StagesTrue(u)' /\ EventsSo(u)'
  BY <1>0 DEF StagesTrue, EventsSo
<1>2. tree[r] \in Tree /\ tree'[r] \in Tree
  BY RunIdIs DEF VerifierInv, TypeInv, TypeOK
<1>3. ASSUME tree[r] = Ready(u) PROVE tree'[r] = Ready(u)
  <2>1. tree[r].dir = TRUE /\ tree[r].entry = TRUE /\ tree[r].holds = u
    BY <1>3 DEF Ready
  <2>2. tree'[r].dir = TRUE /\ tree'[r].entry = TRUE /\ tree'[r].holds = u
    BY <2>1 DEF Keeps
  <2>3. \A t \in Tree : t = [dir |-> t.dir, entry |-> t.entry, holds |-> t.holds]
    BY DEF Tree
  <2>4. tree'[r] = [dir |-> tree'[r].dir, entry |-> tree'[r].entry, holds |-> tree'[r].holds]
    BY <1>2, <2>3
  <2> QED
    BY <2>2, <2>4 DEF Ready
<1>4. WorktreeHolds(u)'
  <2>1. \A what : Awaits(u, what)' <=> Awaits(u, what)
    BY DEF Awaits, InCommand
  <2>2. \A n \in RequiredNames : Awaits(u, n)' => tree'[RunId(u)] = Ready(u)
    BY <1>0, <1>3, <2>1 DEF WorktreeHolds
  <2>3. Awaits(u, "add")' /\ cmd'[u].child = "exited" /\ cmd'[u].ok
          => tree'[RunId(u)].dir /\ tree'[RunId(u)].entry
    BY <1>0, <2>1 DEF WorktreeHolds, Keeps
  <2>4. Awaits(u, "prune")' /\ ~run'[u].warned => ~tree'[RunId(u)].dir
    BY <1>0, <2>1 DEF WorktreeHolds, Keeps
  <2>5. Awaits(u, "prune")' /\ cmd'[u].child = "exited" /\ cmd'[u].ok
          => tree'[RunId(u)].dir \/ ~tree'[RunId(u)].entry
    BY <1>0, <2>1 DEF WorktreeHolds, Keeps
  <2>6. run'[u].at \in {"record", "pipeline"} /\ (tree'[RunId(u)].dir \/ tree'[RunId(u)].entry)
          => ~run'[u].passed \/ run'[u].warned
    BY <1>0 DEF WorktreeHolds, Keeps
  <2>7. Ready(u)' = Ready(u) /\ RunId(u)' = RunId(u)
    BY DEF Ready, RunId
  <2> QED
    BY <2>2, <2>3, <2>4, <2>5, <2>6, <2>7 DEF WorktreeHolds
<1> QED
  BY <1>1, <1>4 DEF ChangeInv

\* Nothing of another change moves, its worktree keeps what it needs.
OthersKeep(v) ==
    \A u \in Changes \ {v} :
       run'[u] = run[u] /\ cmd'[u] = cmd[u] /\ events'[u] = events[u] /\ seen'[u] = seen[u]

LEMMA OneSafe ==
  ASSUME StagedApart, VerifierInv, TypeInv', NEW v \in Changes, OthersKeep(v),
         \A q \in RunIds \ {RunId(v)} : Keeps(q), ChangeInv(v)'
  PROVE  VerifierInv'
<1>1. ASSUME NEW u \in Changes \ {v} PROVE ChangeInv(u)'
  <2>1. RunId(u) \in RunIds \ {RunId(v)}
    BY RunIdIs DEF StagedApart
  <2> QED
    BY <2>1, OthersSafe DEF OthersKeep
<1> QED
  BY <1>1 DEF VerifierInv

LEMMA EndsSafe ==
  ASSUME VerifierInv, NEW v \in Changes, NEW s, NEW w, Ends(v, s, w),
         run[v].at \in {"verify", "command"}, seen'[v] = seen[v], events'[v] = events[v],
         \A i \in DOMAIN s : s[i].status = "pass" => s[i].name \in seen[v],
         Passes(s) /\ (tree'[RunId(v)].dir \/ tree'[RunId(v)].entry) => w
  PROVE  ChangeInv(v)'
<1> DEFINE E == EnsureRequiredStages(s)
<1>0. run \in [Changes -> Run] /\ cmd \in [Changes -> Cmd] /\ seen[v] \subseteq RequiredNames
      /\ events[v] = <<"proposed">>
  BY DEF VerifierInv, TypeInv, TypeOK, ChangeInv, StagesTrue, EventsSo
<1>1. run'[v].at = "record" /\ run'[v].stages = E /\ run'[v].warned = w
      /\ run'[v].passed = Passes(E)
  BY <1>0, VerifiedDoes DEF Ends
<1>2. /\ \A i \in DOMAIN s : i \in DOMAIN E /\ E[i] = s[i]
      /\ \A i \in DOMAIN E : (i \in DOMAIN s) \/ E[i].status = "error"
      /\ Passes(E) => E = s /\ \A n \in RequiredNames : \E i \in DOMAIN s : s[i].name = n
  BY EnsureDoes DEF Ends
<1> HIDE DEF E
<1>3. \A i \in DOMAIN E : E[i].status = "pass" => E[i].name \in seen[v]
  BY <1>2
<1>4. Passes(E) => RequiredNames \subseteq seen[v]
  BY <1>2 DEF Passes
<1>5. StagesTrue(v)'
  BY <1>0, <1>1, <1>3, <1>4 DEF StagesTrue
<1>6. WorktreeHolds(v)'
  <2>1. ~InCommand(v)' /\ RunId(v)' = RunId(v)
    BY <1>1 DEF InCommand, RunId
  <2>2. Passes(E) => Passes(s)
    BY <1>2
  <2> QED
    BY <1>1, <2>1, <2>2 DEF WorktreeHolds, Awaits
<1>7. EventsSo(v)'
  BY <1>0, <1>1 DEF EventsSo
<1> QED
  BY <1>5, <1>6, <1>7 DEF ChangeInv
LEMMA TwoRows ==
  ASSUME NEW S, NEW a \in S, NEW b \in S
  PROVE  Append(<<a>>, b) = <<a, b>>
<1> DEFINE q == <<a>>
           t == Append(q, b)
<1>1. q \in Seq(S)
  OBVIOUS
<1>2. Len(q) = 1
  OBVIOUS
<1>3. q[1] = a
  OBVIOUS
<1> HIDE DEF q
<1>4. /\ t \in Seq(S) /\ Len(t) = Len(q) + 1 /\ t[Len(q) + 1] = b
      /\ \A i \in 1 .. Len(q) : t[i] = q[i]
  BY <1>1
<1>5. t \in Seq(S) /\ Len(t) = 2 /\ t[1] = a /\ t[2] = b
  BY <1>2, <1>3, <1>4
<1> HIDE DEF t
<1>6. t = <<a, b>>
  BY <1>5
<1> QED
  BY <1>6 DEF t, q

LEMMA StagingSafe ==
  ASSUME StagedApart, VerifierInv, TypeInv', NEW v \in Changes,
         \/ Propose(v) \/ Compile(v) \/ RecordUncompiled(v)
         \/ RecordTested(v) \/ RecordRefused(v)
  PROVE  VerifierInv'
<1>0. TypeInv /\ run \in [Changes -> Run] /\ ChangeInv(v) /\ run[v].passed \in BOOLEAN
  BY DEF VerifierInv, TypeInv, TypeOK, Run
<1>1. cmd' = cmd /\ tree' = tree /\ seen' = seen
  BY DEF Propose, Compile, RecordUncompiled, RecordTested, RecordRefused, Record
<1>2. \A q \in RunIds : Keeps(q)
  BY <1>1 DEF Keeps
<1>3. ASSUME NEW row \in Row, NEW to \in Places, Record(v, row, to),
             to \notin {"new", "command", "record"},
             to = "pipeline" => row = "tested-pass" /\ run[v].at = "record" /\ run[v].passed,
             to \in {"compile", "uncompiling", "verify"} => run[v].at = "new" /\ row = "proposed"
      PROVE  VerifierInv'
  <2>1. /\ Alone(v) /\ run'[v].stages = run[v].stages
        /\ run'[v].warned = run[v].warned /\ run'[v].passed = run[v].passed
        /\ \A u \in Changes \ {v} : events'[u] = events[u]
        /\ \/ run'[v].at = to /\ events'[v] = Append(events[v], row)
           \/ run'[v].at = "threw"
    BY <1>0, <1>3, RecordDoes
  <2>2. OthersKeep(v)
    BY <1>1, <2>1 DEF OthersKeep, Alone
  <2>3. StagesTrue(v)'
    BY <1>0, <1>1, <1>3, <2>1 DEF ChangeInv, StagesTrue
  <2>4. WorktreeHolds(v)'
    <3>1. ~InCommand(v)' /\ RunId(v)' = RunId(v)
      BY <1>3, <2>1 DEF InCommand, RunId
    <3>2. run'[v].at \in {"record", "pipeline"} => run[v].at = "record"
      BY <1>3, <2>1
    <3> QED
      BY <1>0, <1>1, <2>1, <3>1, <3>2 DEF ChangeInv, WorktreeHolds, Awaits
  <2>5. EventsSo(v)'
    <3>1. CASE run'[v].at = "threw"
      BY <3>1 DEF EventsSo
    <3>2. CASE to = "pipeline" /\ run'[v].at = to
      <4>1. events'[v] = Append(<<"proposed">>, "tested-pass")
        BY <1>0, <1>3, <2>1, <3>2 DEF ChangeInv, EventsSo
      <4>2. Append(<<"proposed">>, "tested-pass") = <<"proposed", "tested-pass">>
        <5>1. "proposed" \in Row /\ "tested-pass" \in Row
          BY DEF Row
        <5> QED
          BY <5>1, TwoRows
      <4>3. events'[v] = <<"proposed", "tested-pass">>
        BY <4>1, <4>2
      <4> QED
        BY <3>2, <4>3 DEF EventsSo
    <3>3. CASE to \in {"compile", "uncompiling", "verify"} /\ run'[v].at = to
      <4>1. events'[v] = Append(<<>>, "proposed")
        BY <1>0, <1>3, <2>1, <3>3 DEF ChangeInv, EventsSo
      <4> QED
        BY <3>3, <4>1 DEF EventsSo
    <3> QED
      BY <1>3, <2>1, <3>1, <3>2, <3>3 DEF EventsSo
  <2> QED
    BY <1>2, <2>2, <2>3, <2>4, <2>5, OneSafe DEF ChangeInv
<1>4. CASE Compile(v)
  <2>1. PICK at \in {"verify", "uncompiling"} : run' = [run EXCEPT ![v].at = at]
    BY <1>4 DEF Compile
  <2>2. at \in Places /\ run[v].at = "compile" /\ events' = events
    BY <1>4 DEF Compile, Places
  <2>3. /\ \A u \in Changes \ {v} : run'[u] = run[u]
        /\ run'[v].at = at /\ run'[v].stages = run[v].stages
    BY <1>0, <2>1, <2>2, AtDoes
  <2>4. OthersKeep(v)
    BY <1>1, <2>2, <2>3 DEF OthersKeep
  <2>5. StagesTrue(v)' /\ EventsSo(v)'
    BY <1>0, <1>1, <2>2, <2>3 DEF ChangeInv, StagesTrue, EventsSo
  <2>6. WorktreeHolds(v)'
    BY <2>3 DEF WorktreeHolds, Awaits, InCommand
  <2> QED
    BY <1>2, <2>4, <2>5, <2>6, OneSafe DEF ChangeInv
<1>5. CASE Propose(v)
  <2>1. "compile" \in Places /\ "proposed" \in Row
    BY DEF Places, Row
  <2> QED
    BY <1>3, <1>5, <2>1 DEF Propose
<1>6. CASE RecordUncompiled(v)
  <2>1. "uncompiled" \in Places /\ "uncompiled" \in Row
    BY DEF Places, Over, Row
  <2> QED
    BY <1>3, <1>6, <2>1 DEF RecordUncompiled
<1>7. CASE RecordTested(v)
  <2>1. {"pipeline", "refuse"} \subseteq Places /\ {"tested-pass", "tested-not"} \subseteq Row
    BY DEF Places, Over, Row
  <2>2. CASE run[v].passed
    BY <1>3, <1>7, <2>1, <2>2 DEF RecordTested
  <2>3. CASE ~run[v].passed
    BY <1>3, <1>7, <2>1, <2>3 DEF RecordTested
  <2> QED
    BY <2>2, <2>3
<1>8. CASE RecordRefused(v)
  <2>1. "blocked" \in Places /\ "failed" \in Row
    BY DEF Places, Over, Row
  <2> QED
    BY <1>3, <1>8, <2>1 DEF RecordRefused
<1> QED
  BY <1>4, <1>5, <1>6, <1>7, <1>8

LEMMA ProcessSafe ==
  ASSUME StagedApart, VerifierInv, TypeInv', NEW v \in Changes,
         ChildExits(v) \/ TimerFires(v) \/ ForceKill(v) \/ HelperEnds(v)
  PROVE  VerifierInv'
<1> DEFINE r == RunId(v)
<1>0. TypeInv /\ TypeOK /\ ChangeInv(v)
  BY DEF VerifierInv, TypeInv
<1>1. /\ run' = run /\ events' = events /\ seen' = seen
      /\ \A u \in Changes \ {v} : cmd'[u] = cmd[u]
      /\ cmd'[v].what = cmd[v].what
  BY <1>0, ProcessDoes
<1>2. OthersKeep(v) /\ StagesTrue(v)' /\ EventsSo(v)'
  BY <1>0, <1>1 DEF OthersKeep, ChangeInv, StagesTrue, EventsSo
<1>3. \A what : Awaits(v, what)' <=> Awaits(v, what)
  BY <1>1 DEF Awaits, InCommand
<1>4. InCommand(v)
  BY DEF ChildExits, TimerFires, ForceKill, HelperEnds, Up
<1>5. CASE tree' = tree /\ cmd'[v].child = cmd[v].child /\ cmd'[v].ok = cmd[v].ok
  <2>1. \A q \in RunIds : Keeps(q)
    BY <1>5 DEF Keeps
  <2>2. WorktreeHolds(v)'
    BY <1>0, <1>1, <1>3, <1>5 DEF ChangeInv, WorktreeHolds, Ready, RunId
  <2> QED
    BY <1>2, <2>1, <2>2, OneSafe DEF ChangeInv
<1>6. CASE \E ok \in BOOLEAN : GitLeaves(v, ok) /\ cmd'[v].ok = ok
  <2>1. PICK ok \in BOOLEAN : GitLeaves(v, ok) /\ cmd'[v].ok = ok
    BY <1>6
  <2>2. /\ \A q \in RunIds \ {r} : Keeps(q)
        /\ cmd[v].what = "add" /\ ok => tree'[r].dir /\ tree'[r].entry
        /\ cmd[v].what \notin Git => tree' = tree
        /\ cmd[v].what = "prune" =>
             /\ tree'[r].dir = tree[r].dir
             /\ ok /\ tree'[r].entry => tree[r].dir
    BY <1>0, <2>1, GitLeavesDoes
  <2>3. WorktreeHolds(v)'
    <3> HIDE DEF r
    <3>1. Awaits(v, "add") /\ cmd'[v].ok => tree'[r].dir /\ tree'[r].entry
      BY <2>1, <2>2 DEF Awaits
    <3>2. \A n \in RequiredNames : Awaits(v, n) => tree'[r] = Ready(v)
      <4>1. \A n \in RequiredNames : Awaits(v, n) => cmd[v].what \notin Git
        BY NamesAre DEF Awaits, RequiredNames, Git
      <4> QED
        BY <1>0, <2>2, <4>1 DEF ChangeInv, WorktreeHolds, r
    <3>3. Awaits(v, "prune") /\ ~run[v].warned => ~tree'[r].dir
      BY <1>0, <2>2 DEF ChangeInv, WorktreeHolds, Awaits, r
    <3>4. Awaits(v, "prune") /\ cmd'[v].ok => tree'[r].dir \/ ~tree'[r].entry
      BY <2>1, <2>2 DEF Awaits
    <3>5. run[v].at \notin {"record", "pipeline"}
      BY <1>4 DEF InCommand
    <3>6. Ready(v)' = Ready(v) /\ RunId(v)' = r
      BY DEF Ready, RunId, r
    <3> QED
      BY <1>1, <1>3, <3>1, <3>2, <3>3, <3>4, <3>5, <3>6 DEF WorktreeHolds
  <2> QED
    BY <1>2, <2>2, <2>3, OneSafe DEF ChangeInv
<1> QED
  BY <1>0, <1>5, <1>6, ProcessDoes

LEMMA CreateWorktreeSafe ==
  ASSUME StagedApart, VerifierInv, TypeInv', NEW v \in Changes, CreateWorktree(v)
  PROVE  VerifierInv'
<1>0. TypeInv /\ run \in [Changes -> Run] /\ cmd \in [Changes -> Cmd] /\ ChangeInv(v)
  BY DEF VerifierInv, TypeInv, TypeOK
<1>1. /\ run[v].at = "verify" /\ run[v].stages = <<>>
      /\ events' = events /\ seen' = seen
      /\ \A q \in RunIds \ {RunId(v)} : tree'[q] = tree[q]
      /\ \/ Goes(v, "add") /\ run'[v].stages = <<>>
         \/ Ends(v, SetupFailed, FALSE)
  BY <1>0, CreateWorktreeDoes
<1>2. \A q \in RunIds \ {RunId(v)} : Keeps(q)
  BY <1>1 DEF Keeps
<1>3. CASE Goes(v, "add") /\ run'[v].stages = <<>>
  <2>1. OthersKeep(v)
    BY <1>1, <1>3 DEF OthersKeep, Goes, Alone
  <2>2. StagesTrue(v)' /\ EventsSo(v)'
    BY <1>0, <1>1, <1>3 DEF Goes, ChangeInv, StagesTrue, EventsSo
  <2>3. WorktreeHolds(v)'
    BY <1>3 DEF Goes, WorktreeHolds, Awaits, InCommand, RequiredNames
  <2> QED
    BY <1>2, <2>1, <2>2, <2>3, OneSafe DEF ChangeInv
<1>4. CASE Ends(v, SetupFailed, FALSE)
  <2>1. OthersKeep(v)
    BY <1>0, <1>1, <1>4, VerifiedDoes DEF OthersKeep, Ends, Alone
  <2>2. ChangeInv(v)'
    <3>1. \A i \in DOMAIN SetupFailed : SetupFailed[i].status # "pass"
      BY SetupFailedIs
    <3>2. ~Passes(SetupFailed) /\ run[v].at \in {"verify", "command"}
      BY <1>1, SetupFailedIs
    <3> QED
      BY <1>1, <1>4, <3>1, <3>2, EndsSafe
  <2> QED
    BY <1>2, <2>1, <2>2, OneSafe
<1> QED
  BY <1>1, <1>3, <1>4
LEMMA WorktreeAddedSafe ==
  ASSUME StagedApart, VerifierInv, TypeInv', NEW v \in Changes, WorktreeAdded(v)
  PROVE  VerifierInv'
<1> DEFINE r == RunId(v)
<1>0. TypeInv /\ run \in [Changes -> Run] /\ cmd \in [Changes -> Cmd] /\ ChangeInv(v)
      /\ tree[r] \in Tree
  BY RunIdIs DEF VerifierInv, TypeInv, TypeOK
<1>1. /\ Awaits(v, "add") /\ run[v].stages = <<>>
      /\ events' = events /\ seen' = seen
      /\ \A q \in RunIds \ {RunId(v)} : tree'[q] = tree[q]
      /\ \/ Ends(v, SetupFailed, FALSE)
         \/ /\ Goes(v, "compile") /\ run'[v].stages = <<>>
            /\ cmd[v].child = "exited" /\ cmd[v].ok
            /\ tree'[RunId(v)] = [tree[RunId(v)] EXCEPT !.holds = v, !.dir = TRUE]
         \/ Goes(v, "remove") /\ run'[v].stages = SetupFailed
  BY <1>0, WorktreeAddedDoes
<1>2. \A q \in RunIds \ {RunId(v)} : Keeps(q)
  BY <1>1 DEF Keeps
<1>3. \A i \in DOMAIN SetupFailed : SetupFailed[i].status # "pass"
  BY SetupFailedIs
<1>4. run[v].at = "command" /\ Ready(v)' = Ready(v) /\ RunId(v)' = RunId(v)
  BY <1>1 DEF Awaits, InCommand, Ready, RunId
<1>5. CASE Ends(v, SetupFailed, FALSE)
  <2>1. OthersKeep(v)
    BY <1>0, <1>1, <1>5, VerifiedDoes DEF OthersKeep, Ends, Alone
  <2>2. ~Passes(SetupFailed)
    BY SetupFailedIs
  <2>3. ChangeInv(v)'
    BY <1>1, <1>3, <1>4, <1>5, <2>2, EndsSafe
  <2> QED
    BY <1>2, <2>1, <2>3, OneSafe
<1>6. CASE /\ Goes(v, "compile") /\ run'[v].stages = <<>>
           /\ cmd[v].child = "exited" /\ cmd[v].ok
           /\ tree'[RunId(v)] = [tree[RunId(v)] EXCEPT !.holds = v, !.dir = TRUE]
  <2>1. OthersKeep(v)
    BY <1>1, <1>6 DEF OthersKeep, Goes, Alone
  <2>2. StagesTrue(v)' /\ EventsSo(v)'
    BY <1>0, <1>1, <1>4, <1>6 DEF Goes, ChangeInv, StagesTrue, EventsSo
  <2>3. tree[r].entry = TRUE
    <3>1. tree[r].entry /\ tree[r].entry \in BOOLEAN
      BY <1>0, <1>1, <1>6 DEF ChangeInv, WorktreeHolds, Tree
    <3> QED
      BY <3>1
  <2>4. tree'[r] = Ready(v)
    <3> DEFINE t == [tree[r] EXCEPT !.holds = v, !.dir = TRUE]
    <3>1. t \in Tree /\ t.holds = v /\ t.dir = TRUE /\ t.entry = tree[r].entry
      BY <1>0 DEF Tree
    <3>2. t = [dir |-> t.dir, entry |-> t.entry, holds |-> t.holds]
      <4> HIDE DEF t
      <4> QED
        BY <3>1 DEF Tree
    <3>3. tree'[r] = t
      BY <1>6
    <3> HIDE DEF t
    <3> QED
      BY <2>3, <3>1, <3>2, <3>3 DEF Ready
  <2>5. run'[v].at = "command" /\ cmd'[v].what = "compile"
    BY <1>6 DEF Goes
  <2>6. WorktreeHolds(v)'
    BY <1>4, <2>4, <2>5 DEF WorktreeHolds, Awaits
  <2> QED
    BY <1>2, <2>1, <2>2, <2>6, OneSafe DEF ChangeInv
<1>7. CASE Goes(v, "remove") /\ run'[v].stages = SetupFailed
  <2>1. OthersKeep(v)
    BY <1>1, <1>7 DEF OthersKeep, Goes, Alone
  <2>2. StagesTrue(v)' /\ EventsSo(v)'
    BY <1>0, <1>1, <1>3, <1>4, <1>7 DEF Goes, ChangeInv, StagesTrue, EventsSo
  <2>3. WorktreeHolds(v)'
    BY <1>7 DEF Goes, WorktreeHolds, Awaits, RequiredNames
  <2> QED
    BY <1>2, <2>1, <2>2, <2>3, OneSafe DEF ChangeInv
<1> QED
  BY <1>1, <1>5, <1>6, <1>7

LEMMA StageEndsSafe ==
  ASSUME StagedApart, VerifierInv, TypeInv', NEW v \in Changes, StageEnds(v)
  PROVE  VerifierInv'
<1> DEFINE status == Status(cmd[v])
           s == run[v].stages
           well == cmd[v].child = "exited" /\ cmd[v].ok /\ ~cmd[v].timedOut
                     /\ tree[RunId(v)] = Ready(v)
<1>0. TypeInv /\ cmd[v] \in Cmd /\ ChangeInv(v) /\ seen \in [Changes -> SUBSET Names]
  BY DEF VerifierInv, TypeInv, TypeOK
<1>1. PICK i \in 1 .. 3 :
         /\ Awaits(v, Required[i]) /\ events' = events /\ tree' = tree
         /\ \A j \in DOMAIN s : s[j].name # Required[i]
         /\ run'[v].stages = With(s, Required[i], status)
         /\ \/ Goes(v, "remove")
            \/ i < 3 /\ Goes(v, Required[i + 1])
         /\ seen' = IF well THEN [seen EXCEPT ![v] = @ \cup {Required[i]}] ELSE seen
         /\ cmd[v].child # "unborn" => cmd[v].child = "exited"
  BY <1>0, StageEndsDoes
<1>2. Required[i] \in RequiredNames /\ Required[i] \in Names
      /\ RequiredNames \cap {"add", "remove", "prune"} = {}
      /\ (i < 3 => Required[i + 1] \in RequiredNames)
  BY NamesAre DEF RequiredNames
<1>3. status \in Statuses /\ (status = "pass" => well)
  <2>1. tree[RunId(v)] = Ready(v)
    BY <1>0, <1>1, <1>2 DEF ChangeInv, WorktreeHolds
  <2> QED
    BY <1>0, <1>1, <2>1, StatusIs
<1> DEFINE t == With(s, Required[i], status)
<1> HIDE DEF status, well
<1>4. /\ \A j \in DOMAIN s : j \in DOMAIN t /\ t[j] = s[j]
      /\ t[Len(s) + 1] = [name |-> Required[i], status |-> status]
      /\ \A j \in DOMAIN t : j \in DOMAIN s \/ j = Len(s) + 1
  BY <1>0, <1>1, <1>2, <1>3, StageAppended
<1>5. run'[v].stages = t
  BY <1>1
<1> HIDE DEF t, s
<1>6. /\ seen[v] \subseteq seen'[v] /\ seen'[v] \subseteq seen[v] \cup {Required[i]}
      /\ (well => Required[i] \in seen'[v])
      /\ \A u \in Changes \ {v} : seen'[u] = seen[u]
  BY <1>0, <1>1
<1>7. run'[v].at = "command" /\ Alone(v) /\ run[v].at = "command"
  BY <1>1 DEF Goes, Awaits, InCommand
<1>8. OthersKeep(v)
  BY <1>1, <1>6, <1>7 DEF OthersKeep, Alone
<1>9. StagesTrue(v)'
  <2>1. \A j \in DOMAIN t : t[j].status = "pass" => t[j].name \in seen'[v]
    <3>1. \A j \in DOMAIN s : s[j].status = "pass" => s[j].name \in seen[v]
      BY <1>0 DEF ChangeInv, StagesTrue, s
    <3> QED
      BY <1>3, <1>4, <1>6, <3>1
  <2>2. seen'[v] \subseteq RequiredNames
    BY <1>0, <1>2, <1>6 DEF ChangeInv, StagesTrue
  <2> QED
    BY <1>5, <1>7, <2>1, <2>2 DEF StagesTrue
<1>10. EventsSo(v)'
  BY <1>0, <1>1, <1>7 DEF ChangeInv, EventsSo
<1>11. tree'[RunId(v)] = Ready(v)
  BY <1>0, <1>1, <1>2 DEF ChangeInv, WorktreeHolds
<1>12. WorktreeHolds(v)'
  <2>1. cmd'[v].what \in RequiredNames \cup {"remove"}
    BY <1>1, <1>2 DEF Goes
  <2>2. ~Awaits(v, "add")' /\ ~Awaits(v, "prune")'
    BY <1>2, <2>1 DEF Awaits
  <2>3. Ready(v)' = Ready(v) /\ RunId(v)' = RunId(v)
    BY DEF Ready, RunId
  <2> QED
    BY <1>7, <1>11, <2>2, <2>3 DEF WorktreeHolds
<1> QED
  BY <1>1, <1>8, <1>9, <1>10, <1>12, OneSafe DEF ChangeInv, Keeps

LEMMA WorktreeRemovedSafe ==
  ASSUME StagedApart, VerifierInv, TypeInv', NEW v \in Changes, WorktreeRemoved(v)
  PROVE  VerifierInv'
<1>0. TypeInv /\ run \in [Changes -> Run] /\ cmd \in [Changes -> Cmd] /\ ChangeInv(v)
  BY DEF VerifierInv, TypeInv, TypeOK
<1> DEFINE t == With(run[v].stages, "cleanup", "error")
<1>1. /\ Awaits(v, "remove") /\ events' = events /\ seen' = seen
      /\ \A q \in RunIds \ {RunId(v)} : tree'[q] = tree[q]
      /\ \/ Ends(v, t, FALSE)
         \/ /\ Goes(v, "prune") /\ run'[v].stages = run[v].stages
            /\ run'[v].warned \/ ~tree'[RunId(v)].dir
  BY <1>0, WorktreeRemovedDoes
<1>2. \A q \in RunIds \ {RunId(v)} : Keeps(q)
  BY <1>1 DEF Keeps
<1>3. run[v].at = "command" /\ RunId(v)' = RunId(v)
  BY <1>1 DEF Awaits, InCommand, RunId
<1>4. CASE Ends(v, t, FALSE)
  <2>1. OthersKeep(v)
    BY <1>0, <1>1, <1>4, VerifiedDoes DEF OthersKeep, Ends, Alone
  <2>2. ~Passes(t) /\ \A i \in DOMAIN t : t[i].status = "pass" => t[i].name \in seen[v]
    <3>1. \A i \in DOMAIN run[v].stages :
             run[v].stages[i].status = "pass" => run[v].stages[i].name \in seen[v]
      BY <1>0 DEF ChangeInv, StagesTrue
    <3>2. ~Passes(t) /\ \A i \in DOMAIN t : t[i].status = "pass" =>
                            i \in DOMAIN run[v].stages /\ t[i] = run[v].stages[i]
      BY <1>0, <1>1, CleanupFailed
    <3> HIDE DEF t
    <3> QED
      BY <3>1, <3>2
  <2> HIDE DEF t
  <2>3. ChangeInv(v)'
    BY <1>1, <1>3, <1>4, <2>2, EndsSafe
  <2> QED
    BY <1>2, <2>1, <2>3, OneSafe
<1>5. CASE /\ Goes(v, "prune") /\ run'[v].stages = run[v].stages
           /\ run'[v].warned \/ ~tree'[RunId(v)].dir
  <2>1. OthersKeep(v)
    BY <1>1, <1>5 DEF OthersKeep, Goes, Alone
  <2>2. StagesTrue(v)' /\ EventsSo(v)'
    BY <1>0, <1>1, <1>3, <1>5 DEF Goes, ChangeInv, StagesTrue, EventsSo
  <2>3. WorktreeHolds(v)'
    BY <1>3, <1>5 DEF Goes, WorktreeHolds, Awaits, RequiredNames
  <2> QED
    BY <1>2, <2>1, <2>2, <2>3, OneSafe DEF ChangeInv
<1> QED
  BY <1>1, <1>4, <1>5

LEMMA WorktreesPrunedSafe ==
  ASSUME StagedApart, VerifierInv, TypeInv', NEW v \in Changes, WorktreesPruned(v)
  PROVE  VerifierInv'
<1>0. TypeInv /\ run \in [Changes -> Run] /\ cmd \in [Changes -> Cmd] /\ ChangeInv(v)
  BY DEF VerifierInv, TypeInv, TypeOK
<1> DEFINE s == run[v].stages
           t == With(s, "cleanup", "error")
<1>1. /\ Awaits(v, "prune") /\ events' = events /\ seen' = seen /\ tree' = tree
      /\ \/ /\ Ends(v, s, run[v].warned)
            /\ cmd[v].child = "exited" /\ cmd[v].ok
         \/ Ends(v, t, FALSE)
  BY <1>0, WorktreesPrunedDoes
<1>2. \A q \in RunIds \ {RunId(v)} : Keeps(q)
  BY <1>1 DEF Keeps
<1>3. run[v].at = "command"
  BY <1>1 DEF Awaits, InCommand
<1>4. \A i \in DOMAIN s : s[i].status = "pass" => s[i].name \in seen[v]
  BY <1>0 DEF ChangeInv, StagesTrue
<1>5. OthersKeep(v)
  BY <1>0, <1>1, VerifiedDoes DEF OthersKeep, Ends, Alone
<1>6. CASE Ends(v, s, run[v].warned) /\ cmd[v].child = "exited" /\ cmd[v].ok
  <2>1. tree'[RunId(v)].dir \/ tree'[RunId(v)].entry => run[v].warned
    BY <1>0, <1>1, <1>6 DEF ChangeInv, WorktreeHolds
  <2> HIDE DEF s
  <2>2. ChangeInv(v)'
    BY <1>1, <1>3, <1>4, <1>6, <2>1, EndsSafe
  <2> QED
    BY <1>2, <1>5, <2>2, OneSafe
<1>7. CASE Ends(v, t, FALSE)
  <2>1. ~Passes(t) /\ \A i \in DOMAIN t : t[i].status = "pass" => i \in DOMAIN s /\ t[i] = s[i]
    BY <1>0, <1>1, CleanupFailed
  <2> HIDE DEF t
  <2>2. \A i \in DOMAIN t : t[i].status = "pass" => t[i].name \in seen[v]
    BY <1>4, <2>1
  <2>3. ChangeInv(v)'
    BY <1>1, <1>3, <1>7, <2>1, <2>2, EndsSafe
  <2> QED
    BY <1>2, <1>5, <2>3, OneSafe
<1> QED
  BY <1>1, <1>6, <1>7
LEMMA CrashSafe ==
  ASSUME VerifierInv, TypeInv', Crash
  PROVE  VerifierInv'
<1>0. TypeInv
  BY DEF VerifierInv
<1>1. ASSUME NEW v \in Changes PROVE ChangeInv(v)'
  <2>1. /\ UNCHANGED <<tree, events, seen>> /\ run'[v].stages = run[v].stages
        /\ \/ run'[v] = run[v] /\ run[v].at \in Over \cup {"new"}
           \/ run'[v].at = "dead"
    BY <1>0, CrashDoes
  <2>2. StagesTrue(v) /\ WorktreeHolds(v) /\ EventsSo(v)
    BY DEF VerifierInv, ChangeInv
  <2>3. StagesTrue(v)' /\ EventsSo(v)'
    BY <2>1, <2>2 DEF StagesTrue, EventsSo
  <2>4. ~InCommand(v)' /\ RunId(v)' = RunId(v)
    BY <2>1 DEF InCommand, Over, RunId
  <2>5. WorktreeHolds(v)'
    BY <2>1, <2>2, <2>4 DEF WorktreeHolds, Awaits
  <2> QED
    BY <2>3, <2>5 DEF ChangeInv
<1> QED
  BY <1>1 DEF VerifierInv

LEMMA VerifierStep == ASSUME StagedApart, VerifierInv, [Next]_vars PROVE VerifierInv'
<1>1. TypeInv'
  BY TypeStep DEF VerifierInv
<1>2. ASSUME NEW v \in Changes, Code(v) PROVE VerifierInv'
  BY <1>1, <1>2, StagingSafe, CreateWorktreeSafe, WorktreeAddedSafe, StageEndsSafe,
     WorktreeRemovedSafe, WorktreesPrunedSafe DEF Code
<1>3. ASSUME NEW v \in Changes,
             ChildExits(v) \/ TimerFires(v) \/ ForceKill(v) \/ HelperEnds(v)
      PROVE  VerifierInv'
  BY <1>1, <1>3, ProcessSafe
<1>4. CASE Crash
  BY <1>1, <1>4, CrashSafe
<1>5. CASE UNCHANGED vars
  BY <1>1, <1>5 DEF vars, VerifierInv, ChangeInv, StagesTrue, WorktreeHolds, EventsSo,
     Awaits, InCommand, Ready, RunId
<1> QED
  BY <1>2, <1>3, <1>4, <1>5 DEF Next

LEMMA VerifierInit == Init => VerifierInv
<1> SUFFICES ASSUME Init, NEW v \in Changes PROVE ChangeInv(v)
  BY TypeInit DEF VerifierInv
<1>1. run[v].at = "new" /\ run[v].stages = <<>> /\ seen[v] = {} /\ events[v] = <<>>
  BY DEF Init
<1> QED
  BY <1>1 DEF ChangeInv, StagesTrue, WorktreeHolds, EventsSo, Awaits, InCommand

(* Of changes staged in different milliseconds, one reaches the pipeline   *)
(* only when compile, tests and smoke test each exited with 0 before their *)
(* timer fired, in a worktree that held that change, and its events say    *)
(* so: whatever fails, hangs or crashes, of this change or of another      *)
(* (isolated-verifier.ts, bounded-command.ts).                             *)
THEOREM PipelineIsVerified == ASSUME StagedApart PROVE Spec => []PipelineOnlyVerified
<1>1. VerifierInv => PipelineOnlyVerified
  <2> SUFFICES ASSUME VerifierInv, NEW v \in Changes, run[v].at = "pipeline"
               PROVE  /\ seen[v] = {Required[i] : i \in DOMAIN Required}
                      /\ events[v] = <<"proposed", "tested-pass">>
    BY DEF PipelineOnlyVerified
  <2>1. seen[v] = RequiredNames /\ events[v] = <<"proposed", "tested-pass">>
    BY DEF VerifierInv, ChangeInv, StagesTrue, EventsSo
  <2>2. {Required[i] : i \in DOMAIN Required} = RequiredNames
    <3>1. 1 \in DOMAIN Required /\ 2 \in DOMAIN Required /\ 3 \in DOMAIN Required
          /\ \A i \in DOMAIN Required : Required[i] \in RequiredNames
      BY NamesAre
    <3>2. Required[1] = "compile" /\ Required[2] = "targetedTests"
          /\ Required[3] = "startupSmoke"
      BY NamesAre
    <3> QED
      BY <3>1, <3>2 DEF RequiredNames
  <2> QED
    BY <2>1, <2>2
<1> QED
  BY <1>1, VerifierInit, VerifierStep, PTL DEF Spec

(* Of changes staged in different milliseconds, a verification that leaves *)
(* its worktree's directory, or git's entry for it, does not pass, or says *)
(* so in a warning: also when git fails half way and when another change   *)
(* prunes meanwhile (workspace-isolation.ts).                              *)
THEOREM LeftoversAreReported == ASSUME StagedApart PROVE Spec => []LeftoversReported
<1>1. VerifierInv => LeftoversReported
  BY DEF VerifierInv, ChangeInv, WorktreeHolds, LeftoversReported
<1> QED
  BY <1>1, VerifierInit, VerifierStep, PTL DEF Spec
=============================================================================
