--------------------------- MODULE SubAgents_proofs ---------------------------
(***************************************************************************)
(* Theorems about SubAgents and the KillSwitch it extends, for any jobs,   *)
(* slots, writers and times.  A guard's answer from its cache is wrong for *)
(* less than TTL: a guard takes the time before it selects the row, so     *)
(* what it keeps, or is about to keep, cannot outlive the change that      *)
(* makes it wrong by more than TTL.  So a job begins one more tool at      *)
(* most, however many one answer calls for.  Then the log rows that stay   *)
(* open, what was collected of a job, the types, and the audit rows of the *)
(* switch.                                                                 *)
(***************************************************************************)
EXTENDS SubAgents, FiniteSetTheorems, TLAPS

\* What is kept expires TTL after some moment before now; what differs from
\* the row expires TTL after the row's change.
Lasts(active, expires) ==
    /\ expires <= clock + TTL
    /\ active # IsOn => expires <= since + TTL

CacheLasts == \A g \in Guards : cache[g].known => Lasts(cache[g].active, cache[g].expires)
AskLasts ==
    \A c \in Callers :
        /\ ask[c].at = "select" => ask[c].expires <= clock + TTL
        /\ ask[c].at = "store" => Lasts(ask[c].active, ask[c].expires)

Inv == SwitchTypeOK /\ since <= clock /\ CacheLasts /\ AskLasts

LEMMA NoAskTyped == NoAsk \in Ask /\ NoAsk.at = "idle"
<1>1. (CHOOSE g \in Guards : TRUE) \in Guards
  BY SubAgentsAssumption
<1>2. 0 \in Times
  BY KillSwitchAssumption DEF Times
<1> QED
  BY <1>1, <1>2 DEF NoAsk, Ask

LEMMA NoEntryTyped == NoEntry \in Entry /\ ~NoEntry.known
BY KillSwitchAssumption DEF NoEntry, Entry, Times

LEMMA InvInit == Init => Inv
<1> SUFFICES ASSUME SwitchInit PROVE Inv
  BY DEF Init
<1>1. /\ cache \in [Guards -> Entry] /\ \A g \in Guards : ~cache[g].known
      /\ ask \in [Callers -> Ask] /\ \A c \in Callers : ask[c].at = "idle"
  BY NoAskTyped, NoEntryTyped DEF SwitchInit
<1>2. writer \in [Writers -> Writer]
  BY DEF SwitchInit, NoWriter, Writer, Actions
<1>3. SwitchTypeOK
  BY <1>1, <1>2, KillSwitchAssumption DEF SwitchInit, SwitchTypeOK, Actions
<1> QED
  BY <1>1, <1>3 DEF SwitchInit, Inv, CacheLasts, AskLasts

-----------------------------------------------------------------------------
(* The writers change the row, or leave what the guards read. *)

LEMMA WriterKeeps == ASSUME Inv, WriterStep PROVE Inv'
<1> USE DEF Inv, SwitchTypeOK
<1>1. CASE \E w \in Writers, a \in Actions : Begin(w, a)
  <2>1. PICK w \in Writers, a \in Actions : Begin(w, a)
    BY <1>1
  <2>2. writer' \in [Writers -> Writer]
    BY <2>1 DEF Begin, Writer
  <2> QED
    BY <2>1, <2>2 DEF Begin, switchRows, CacheLasts, AskLasts, Lasts, IsOn
<1>2. CASE \E w \in Writers : EnforceStartupStopped(w)
  BY <1>1, <1>2 DEF EnforceStartupStopped, Actions
<1>3. CASE \E w \in Writers : LookForRow(w)
  <2>1. PICK w \in Writers : LookForRow(w)
    BY <1>3
  <2>2. writer' \in [Writers -> Writer]
    BY <2>1 DEF LookForRow, Writer
  <2> QED
    BY <2>1, <2>2 DEF LookForRow, switchRows, CacheLasts, AskLasts, Lasts, IsOn
<1>4. CASE \E w \in Writers : WriteRow(w)
  <2>1. PICK w \in Writers : WriteRow(w)
    BY <1>4
  <2>2. writer' \in [Writers -> Writer] /\ writer[w].set \in Actions
    BY <2>1 DEF WriteRow, Writer
  <2>3. made' \in [Actions -> Nat] /\ switch' \in Actions \cup {"none"} /\ since' \in 0 .. MaxTime
    BY <2>1, <2>2 DEF WriteRow
  <2>4. /\ UNCHANGED <<cache, ask, clock, audit, lost>>
        /\ \/ since' = clock
           \/ since' = since /\ IsOn' = IsOn
    BY <2>1 DEF WriteRow, IsOn
  <2>5. CacheLasts' /\ AskLasts' /\ since' <= clock'
    BY <2>4 DEF CacheLasts, AskLasts, Lasts
  <2> QED
    BY <2>2, <2>3, <2>4, <2>5
<1>5. CASE \E w \in Writers : RecordWrite(w)
  <2>1. PICK w \in Writers : RecordWrite(w)
    BY <1>5
  <2>2. writer' \in [Writers -> Writer]
    BY <2>1 DEF RecordWrite, Writer
  <2>3. audit' \in [Actions -> Nat] /\ lost' \in 0 .. MaxLost
    BY <2>1, KillSwitchAssumption DEF RecordWrite
  <2> QED
    BY <2>1, <2>2, <2>3 DEF RecordWrite, CacheLasts, AskLasts, Lasts, IsOn
<1> QED
  BY <1>1, <1>2, <1>3, <1>4, <1>5 DEF WriterStep

-----------------------------------------------------------------------------
(* The guards. *)

\* A caller's question moves, and nothing else.
LEMMA AskMoves ==
    ASSUME Inv, NEW c \in Callers, NEW k \in Ask, ask' = [ask EXCEPT ![c] = k],
           UNCHANGED <<switchRows, writer, cache, clock>>,
           k.at = "select" => k.expires <= clock + TTL,
           k.at = "store" => Lasts(k.active, k.expires)
    PROVE  Inv'
BY DEF Inv, SwitchTypeOK, CacheLasts, AskLasts, Lasts, IsOn, switchRows

LEMMA AskGuardKeeps ==
    ASSUME Inv, NEW c \in Callers, NEW g \in Guards, AskGuard(c, g)
    PROVE  Inv'
<1> DEFINE told == [at |-> "told", guard |-> g, active |-> cache[g].active, expires |-> 0]
           asks == [at |-> "select", guard |-> g, active |-> FALSE, expires |-> clock + TTL]
<1>1. told \in Ask /\ asks \in Ask /\ asks.expires = clock + TTL
  BY KillSwitchAssumption DEF Inv, SwitchTypeOK, Ask, Entry, Times
<1>2. PICK k \in {told, asks} : ask' = [ask EXCEPT ![c] = k]
  BY DEF AskGuard
<1>3. UNCHANGED <<switchRows, writer, cache, clock>>
  BY DEF AskGuard
<1>4. told.at = "told" /\ asks.at = "select"
  OBVIOUS
<1>5. clock + TTL <= clock + TTL
  BY KillSwitchAssumption DEF Inv, SwitchTypeOK
<1> HIDE DEF told, asks
<1> QED
  BY <1>1, <1>2, <1>3, <1>4, <1>5, AskMoves

\* The question once the row is read.
Read(c) == [at |-> "store", guard |-> ask[c].guard, active |-> IsOn, expires |-> ask[c].expires]

LEMMA ReadRowSets ==
    ASSUME ask \in [Callers -> Ask], NEW c \in Callers, ReadRow(c)
    PROVE  ask' = [ask EXCEPT ![c] = Read(c)]
<1> DEFINE k == [at |-> "store", guard |-> ask[c].guard, active |-> ask[c].active,
                 expires |-> ask[c].expires]
<1>1. ask' = [ask EXCEPT ![c] = [[ask[c] EXCEPT !.at = "store"] EXCEPT !.active = IsOn]]
  BY Zenon DEF ReadRow
<1>2. [ask[c] EXCEPT !.at = "store"] = k
  BY DEF Ask
<1>3. [k EXCEPT !.active = IsOn] = Read(c)
  BY DEF Read
<1> HIDE DEF k
<1> QED
  BY <1>1, <1>2, <1>3, Zenon

LEMMA GuardKeeps == ASSUME Inv, GuardStep PROVE Inv'
<1>1. PICK c \in Callers : ReadRow(c) \/ StoreAnswer(c)
  BY DEF GuardStep
<1>2. ask[c] \in Ask
  BY DEF Inv, SwitchTypeOK
<1>3. CASE ReadRow(c)
  <2>1. ask' = [ask EXCEPT ![c] = Read(c)]
    BY <1>3, ReadRowSets DEF Inv, SwitchTypeOK
  <2>2. /\ Read(c) \in Ask /\ ask[c].expires <= clock + TTL
        /\ Read(c).at = "store" /\ Read(c).active = IsOn /\ Read(c).expires = ask[c].expires
    BY <1>2, <1>3 DEF ReadRow, Ask, IsOn, Inv, AskLasts, Read
  <2> QED
    BY <1>3, <2>1, <2>2, AskMoves DEF ReadRow, Lasts
<1>4. CASE StoreAnswer(c)
  <2> DEFINE e == [known |-> TRUE, active |-> ask[c].active, expires |-> ask[c].expires]
  <2>1. e \in Entry /\ ask[c].guard \in Guards /\ Lasts(ask[c].active, ask[c].expires)
    BY <1>2, <1>4 DEF StoreAnswer, Ask, Entry, Inv, AskLasts
  <2>2. cache' = [cache EXCEPT ![ask[c].guard] = e]
        /\ ask' = [ask EXCEPT ![c].at = "told"] /\ UNCHANGED <<switchRows, writer, clock>>
    BY <1>4 DEF StoreAnswer
  <2>3. ask' \in [Callers -> Ask] /\ cache' \in [Guards -> Entry]
    BY <2>1, <2>2 DEF Inv, SwitchTypeOK, Ask
  <2>4. CacheLasts'
    BY <2>1, <2>2 DEF Inv, SwitchTypeOK, CacheLasts, Lasts, IsOn, switchRows
  <2>5. AskLasts'
    BY <2>2 DEF Inv, SwitchTypeOK, AskLasts, Lasts, IsOn, switchRows, Ask
  <2> QED
    BY <2>2, <2>3, <2>4, <2>5 DEF Inv, SwitchTypeOK, switchRows
<1> QED
  BY <1>1, <1>3, <1>4

LEMMA TimeKeeps == ASSUME Inv, TimePasses PROVE Inv'
BY KillSwitchAssumption DEF TimePasses, Inv, SwitchTypeOK, CacheLasts, AskLasts, Lasts, IsOn,
   switchRows, Ask, Entry, Times

-----------------------------------------------------------------------------
(* The processor of a job asks a guard and takes its answer. *)

LEMMA Answered ==
    ASSUME Inv, NEW j \in Jobs, AskDone(j), UNCHANGED <<switchRows, writer, cache, clock>>
    PROVE  Inv'
BY NoAskTyped, AskMoves, SubAgentsAssumption DEF AskDone

LEMMA SameSwitch == ASSUME Inv, UNCHANGED switchVars PROVE Inv'
BY DEF switchVars, switchRows, Inv, SwitchTypeOK, CacheLasts, AskLasts, Lasts, IsOn

LEMMA ProcessKeeps == ASSUME Inv, NEW j \in Jobs, Process(j) PROVE Inv'
<1>1. CASE AskRouter(j) \/ AskBeforeTool(j)
  BY <1>1, AskGuardKeeps, SubAgentsAssumption DEF AskRouter, AskBeforeTool
<1>2. CASE RouterStops(j) \/ LlmEnds(j) \/ LlmCallsTools(j) \/ CheckStops(j) \/ CheckPasses(j)
  BY <1>2, Answered DEF RouterStops, LlmEnds, LlmCallsTools, CheckStops, CheckPasses, KeepSwitch
<1>3. CASE BeginTool(j) \/ EndTool(j)
  BY <1>3, SameSwitch DEF BeginTool, EndTool
<1> QED
  BY <1>1, <1>2, <1>3 DEF Process

LEMMA CrashKeeps == ASSUME Inv, Crash PROVE Inv'
<1>1. /\ cache' \in [Guards -> Entry] /\ \A g \in Guards : ~cache'[g].known
      /\ ask' \in [Callers -> Ask] /\ \A c \in Callers : ask'[c].at = "idle"
      /\ UNCHANGED <<switchRows, writer, clock>>
  BY NoAskTyped, NoEntryTyped, SubAgentsAssumption DEF Crash
<1> QED
  BY <1>1 DEF Inv, SwitchTypeOK, CacheLasts, AskLasts, switchRows

LEMMA InvStep == Inv /\ [Next]_vars => Inv'
<1> SUFFICES ASSUME Inv, [Next]_vars PROVE Inv'
  OBVIOUS
<1>1. CASE SwitchStep
  BY <1>1, WriterKeeps, GuardKeeps, TimeKeeps DEF SwitchStep
<1>2. CASE \E j \in Jobs : Process(j)
  BY <1>2, ProcessKeeps
<1>3. CASE Crash
  BY <1>3, CrashKeeps
<1>4. CASE UNCHANGED switchVars
  BY <1>4, SameSwitch
<1>5. CASE \E j \in Jobs : MainSpawns(j) \/ TakeJob(j) \/ StalledJob(j) \/ Executes(j) \/ TimerFires(j)
  BY <1>5, <1>4 DEF MainSpawns, TakeJob, StalledJob, Executes, TimerFires, ToolReturns,
     ToolThrows, AwaitReadsJob, AwaitReadsState
<1>6. CASE (\E l \in loose : LooseToolEnds(l)) \/ Collector
  BY <1>6, <1>4 DEF LooseToolEnds, Collector, CollectBegins, CollectPolls, CollectEnds
<1> QED
  BY <1>1, <1>2, <1>3, <1>4, <1>5, <1>6 DEF Next, vars

-----------------------------------------------------------------------------
\* After an operator has stopped the agent, every guard that answers from
\* its cache says so once TTL has passed, whatever selects were under way
\* and whatever else happened (kill-switch.ts:27-45).
THEOREM KillIsHeard == Spec => []KillTakesEffect
<1>1. Inv => KillTakesEffect
  BY KillSwitchAssumption DEF Inv, SwitchTypeOK, CacheLasts, Lasts, KillTakesEffect, Fresh, Entry, Times
<1> QED
  BY <1>1, InvInit, InvStep, PTL DEF Spec

-----------------------------------------------------------------------------
(* What a sub-agent begins.  Once one of its tools has begun TTL after the  *)
(* activation, an answer it gets from either guard is that the switch is    *)
(* on: it passes no other check.                                            *)

After == [of: 0 .. MaxTime, tools: Nat]

Typed ==
    /\ job \in [Jobs -> Job] /\ work \in [Jobs -> Work] /\ call \in [Jobs -> Call]
    /\ loose \in SUBSET Loose /\ after \in [Jobs -> After]

Counted(j) == after[j].tools = 1 => /\ after[j].of + TTL <= clock /\ after[j].of <= since
                                    /\ IsOn \/ after[j].of < since
AsksFirst(j) == work[j].at = "tool" /\ call[j].at # "check" => ask[j].at = "idle"
Knows(j) == after[j].tools = 1 /\ after[j].of = since =>
               /\ ask[j].at \in {"store", "told"} => ask[j].active
               /\ ~InCall(j, "log")

Stopped == \A j \in Jobs : after[j].tools <= 1 /\ Counted(j) /\ AsksFirst(j) /\ Knows(j)

KillInv == Inv /\ Typed /\ Stopped

LEMMA NoneTyped ==
    /\ NoJob \in Job /\ NoWork \in Work /\ NoWork.at = "idle"
    /\ \A j \in Jobs : NoCall \in Call
BY SubAgentsAssumption DEF NoJob, Job, Answers, Ended, NoWork, Work, NoCall, Call, Tools

LEMMA KillInvInit == Init => KillInv
<1> SUFFICES ASSUME Init PROVE Typed /\ Stopped
  BY InvInit DEF KillInv
<1>1. Typed
  BY NoneTyped, KillSwitchAssumption DEF Init, Typed, After
<1>2. \A j \in Jobs : after[j].tools = 0 /\ work[j].at = "idle"
  BY NoneTyped DEF Init
<1> QED
  BY <1>1, <1>2 DEF Stopped, Counted, AsksFirst, Knows, InCall

-----------------------------------------------------------------------------
\* One job moves; the switch, the clock and what was counted stay.
LEMMA JobMoves ==
    ASSUME KillInv, NEW j \in Jobs, UNCHANGED <<switchRows, clock, after>>,
           \A k \in Jobs : k # j => /\ work'[k] = work[k] /\ call'[k] = call[k]
                                    /\ ask'[k] = ask[k],
           AsksFirst(j)', Knows(j)'
    PROVE  Stopped'
<1>1. \A k \in Jobs : after'[k].tools <= 1 /\ Counted(k)'
  BY DEF KillInv, Stopped, Counted, IsOn, switchRows
<1>2. \A k \in Jobs : k # j => AsksFirst(k)' /\ Knows(k)'
  BY DEF KillInv, Stopped, AsksFirst, Knows, InCall, switchRows
<1> QED
  BY <1>1, <1>2 DEF Stopped

\* A job whose question, work and call stay as they are.
LEMMA JobStays ==
    ASSUME KillInv, UNCHANGED <<switchRows, ask, clock, work, call, after>>
    PROVE  Stopped'
BY DEF KillInv, Stopped, Counted, AsksFirst, Knows, InCall, IsOn, switchRows

LEMMA SwitchStops ==
    ASSUME KillInv, SwitchStep
    PROVE  Stopped'
<1>0. UNCHANGED <<work, call, after>>
  BY DEF SwitchStep, jobVars, local
<1>1. CASE UNCHANGED <<switchRows, ask, clock>>
  BY <1>0, <1>1, JobStays
<1>2. CASE \E w \in Writers : LookForRow(w) \/ RecordWrite(w) \/ WriteRow(w)
  <2>1. UNCHANGED <<ask, clock>>
    BY <1>2 DEF LookForRow, RecordWrite, WriteRow
  <2>2. \/ since' = clock
        \/ since' = since /\ IsOn' = IsOn
    BY <1>2 DEF LookForRow, RecordWrite, WriteRow, switchRows, IsOn
  <2>3. \A j \in Jobs : after[j].tools = 1 => after[j].of < clock
    BY KillSwitchAssumption DEF KillInv, Typed, After, Stopped, Counted, Inv, SwitchTypeOK
  <2>4. since \in Nat /\ clock \in Nat /\ since <= clock
    BY DEF KillInv, Inv, SwitchTypeOK
  <2> QED
    BY <1>0, <2>1, <2>2, <2>3, <2>4
       DEF KillInv, Typed, After, Stopped, Counted, AsksFirst, Knows, InCall
<1>3. CASE GuardStep
  <2>1. PICK j \in Jobs : ReadRow(j) \/ StoreAnswer(j)
    BY <1>3, SubAgentsAssumption DEF GuardStep
  <2>2. ask[j] \in Ask /\ ask \in [Callers -> Ask] /\ j \in Callers
    BY SubAgentsAssumption DEF KillInv, Inv, SwitchTypeOK
  <2>3. \/ ask'[j].at = "store" /\ ask'[j].active = IsOn
        \/ ask'[j].at = "told" /\ ask'[j].active = ask[j].active /\ ask[j].at = "store"
    <3>1. CASE ReadRow(j)
      <4>1. ask'[j] = Read(j)
        BY <2>2, <3>1, ReadRowSets
      <4> QED
        BY <4>1 DEF Read
    <3>2. CASE StoreAnswer(j)
      BY <2>2, <3>2 DEF StoreAnswer, Ask
    <3> QED
      BY <2>1, <3>1, <3>2
  <2>4. ask[j].at # "idle" /\ UNCHANGED <<switchRows, clock>>
    BY <2>1 DEF ReadRow, StoreAnswer
  <2>5. \A k \in Jobs : k # j => ask'[k] = ask[k]
    BY <2>1, <2>2, SubAgentsAssumption DEF ReadRow, StoreAnswer
  <2>6. AsksFirst(j)'
    BY <1>0, <2>4 DEF KillInv, Stopped, AsksFirst
  <2>7. Knows(j)'
    <3>1. ~InCall(j, "log")' = ~InCall(j, "log")
      BY <1>0 DEF InCall
    <3>2. after[j].tools = 1 /\ after[j].of = since => IsOn
      BY KillSwitchAssumption DEF KillInv, Inv, SwitchTypeOK, Typed, After, Stopped, Counted
    <3>3. Knows(j)
      BY DEF KillInv, Stopped
    <3> QED
      BY <1>0, <2>3, <2>4, <3>1, <3>2, <3>3 DEF Knows, switchRows
  <2> QED
    BY <1>0, <2>4, <2>5, <2>6, <2>7, JobMoves
<1>4. CASE TimePasses
  BY <1>0, <1>4, KillSwitchAssumption
     DEF TimePasses, switchRows, KillInv, Typed, After, Inv, SwitchTypeOK, Stopped, Counted,
         AsksFirst, Knows, InCall, IsOn
<1>5. CASE \E w \in Writers : \/ EnforceStartupStopped(w) \/ \E a \in Actions : Begin(w, a)
  BY <1>1, <1>5 DEF EnforceStartupStopped, Begin
<1> QED
  BY <1>2, <1>3, <1>4, <1>5 DEF SwitchStep, WriterStep

-----------------------------------------------------------------------------
\* The processor asks: the cache cannot say that the switch is off.
LEMMA AskStops ==
    ASSUME KillInv, NEW j \in Jobs, AskRouter(j) \/ AskBeforeTool(j)
    PROVE  Stopped'
<1>1. PICK g \in Guards : AskGuard(j, g)
  BY SubAgentsAssumption DEF AskRouter, AskBeforeTool
<1>2. /\ UNCHANGED <<switchRows, clock, after, work, call>> /\ ask[j].at = "idle"
      /\ ~(work[j].at = "tool" /\ call[j].at # "check")
  BY <1>1 DEF AskRouter, AskBeforeTool, AskGuard, jobVars, local, InCall
<1>3. j \in Callers /\ ask \in [Callers -> Ask] /\ Callers = Jobs
  BY SubAgentsAssumption DEF KillInv, Inv, SwitchTypeOK
<1>4. \/ Fresh(g) /\ ask'[j].at = "told" /\ ask'[j].active = cache[g].active
      \/ ask'[j].at = "select"
  BY <1>1, <1>3 DEF AskGuard
<1>5. \A k \in Jobs : k # j => ask'[k] = ask[k]
  BY <1>1, <1>3 DEF AskGuard
<1>6. after[j].tools = 1 /\ after[j].of = since /\ Fresh(g) => cache[g].active
  <2> SUFFICES ASSUME after[j].tools = 1, after[j].of = since, Fresh(g), ~cache[g].active
               PROVE  FALSE
    OBVIOUS
  <2>1. IsOn /\ since + TTL <= clock
    BY KillSwitchAssumption DEF KillInv, Inv, SwitchTypeOK, Typed, After, Stopped, Counted
  <2>2. cache[g].expires <= since + TTL /\ clock < cache[g].expires
    BY <2>1 DEF KillInv, Inv, CacheLasts, Lasts, Fresh
  <2>3. cache[g].expires \in Nat /\ since \in Nat /\ clock \in Nat
    BY KillSwitchAssumption DEF KillInv, Inv, SwitchTypeOK, Entry, Times
  <2> QED
    BY <2>1, <2>2, <2>3, KillSwitchAssumption
<1>7. AsksFirst(j)'
  BY <1>2 DEF AsksFirst
<1>8. Knows(j)'
  BY <1>2, <1>4, <1>6 DEF Knows, InCall, switchRows
<1> QED
  BY <1>2, <1>5, <1>7, <1>8, JobMoves

\* The answer is taken: either nothing more comes of it, or it was that the
\* switch is off, and no tool has begun too late.
LEMMA AnswerStops ==
    ASSUME KillInv, NEW j \in Jobs, AskDone(j), KeepSwitch, UNCHANGED after,
           work' \in [Jobs -> Work], call' \in [Jobs -> Call],
           \A k \in Jobs : k # j => work'[k] = work[k] /\ call'[k] = call[k],
           InCall(j, "log")' => Told(j) /\ ~ask[j].active
    PROVE  Stopped'
<1>1. /\ \A k \in Jobs : k # j => ask'[k] = ask[k]
      /\ ask'[j].at = "idle"
  BY NoAskTyped, SubAgentsAssumption DEF AskDone, KillInv, Inv, SwitchTypeOK
<1>2. AsksFirst(j)'
  BY <1>1 DEF AsksFirst
<1>3. Knows(j)'
  BY <1>1 DEF Knows, KillInv, Stopped, KeepSwitch, switchRows, Told
<1> QED
  BY <1>1, <1>2, <1>3, JobMoves DEF KeepSwitch

LEMMA LeaveTyped ==
    ASSUME Typed, NEW j \in Jobs, NEW s \in Ended, NEW v \in Answers, Leave(j, s, v)
    PROVE  /\ job' \in [Jobs -> Job] /\ work' \in [Jobs -> Work]
           /\ work' = [work EXCEPT ![j] = NoWork]
<1>1. CASE job[j].state = "active"
  <2> DEFINE k == [state |-> s, value |-> job[j].value, stalls |-> job[j].stalls]
  <2>1. job' = [job EXCEPT ![j] = [[job[j] EXCEPT !.state = s] EXCEPT !.value = v]]
    BY <1>1, Zenon DEF Leave, Moved
  <2>2. [job[j] EXCEPT !.state = s] = k
    BY DEF Typed, Job
  <2>3. [k EXCEPT !.value = v] \in Job
    BY DEF Typed, Job, Ended
  <2> HIDE DEF k
  <2>4. job' \in [Jobs -> Job]
    BY <2>1, <2>2, <2>3 DEF Typed
  <2> QED
    BY <2>4, NoneTyped DEF Leave, Typed
<1>2. CASE job[j].state # "active"
  BY <1>2, NoneTyped DEF Leave, Moved, Typed
<1> QED
  BY <1>1, <1>2

LEMMA CallSets ==
    ASSUME NEW c \in Call, NEW t \in Tools, NEW q \in Jobs
    PROVE  /\ [c EXCEPT !.at = "check"] \in Call /\ [c EXCEPT !.at = "check"].at = "check"
           /\ [c EXCEPT !.tool = t] \in Call /\ [c EXCEPT !.tool = t].at = c.at
           /\ [c EXCEPT !.target = q] \in Call /\ [c EXCEPT !.target = q].at = c.at
           /\ [c EXCEPT !.at = "check"].row = c.row /\ [c EXCEPT !.tool = t].row = c.row
           /\ [c EXCEPT !.target = q].row = c.row
BY DEF Call

\* A tool call begins, at its check and without a row.
LEMMA CallToolSets ==
    ASSUME Typed, NEW j \in Jobs, CallTool(j)
    PROVE  /\ call' \in [Jobs -> Call] /\ call'[j].at = "check" /\ ~call'[j].row
           /\ \A i \in Jobs : i # j => call'[i] = call[i]
<1>1. PICK t \in Tools, q \in Jobs : call' = [call EXCEPT ![j] =
         [NoCall EXCEPT !.at = "check", !.tool = t, !.target = q]]
  BY DEF CallTool
<1> DEFINE a == [NoCall EXCEPT !.at = "check"]
           b == [a EXCEPT !.tool = t]
           k == [b EXCEPT !.target = q]
<1>2. [NoCall EXCEPT !.at = "check", !.tool = t, !.target = q] = k
  BY Zenon
<1>3. ~NoCall.row
  BY DEF NoCall
<1>4. a \in Call /\ a.at = "check" /\ ~a.row
  BY <1>3, CallSets, NoneTyped
<1> HIDE DEF a
<1>5. b \in Call /\ b.at = "check" /\ ~b.row
  BY <1>4, CallSets
<1> HIDE DEF b
<1>6. k \in Call /\ k.at = "check" /\ ~k.row
  BY <1>5, CallSets
<1> HIDE DEF k
<1> QED
  BY <1>1, <1>2, <1>6 DEF Typed

LEMMA NextTurnTyped ==
    ASSUME Typed, NEW j \in Jobs, NextTurn(j)
    PROVE  /\ job' \in [Jobs -> Job] /\ work' \in [Jobs -> Work] /\ call' \in [Jobs -> Call]
           /\ \A k \in Jobs : k # j => work'[k] = work[k] /\ call'[k] = call[k]
           /\ ~call'[j].row /\ work'[j].at # "tool"
<1>1. call' = [call EXCEPT ![j] = NoCall] /\ call' \in [Jobs -> Call] /\ ~call'[j].row
  BY NoneTyped DEF NextTurn, Typed, NoCall
<1>2. CASE Leave(j, "completed", "error")
  BY <1>1, <1>2, LeaveTyped, NoneTyped DEF Ended, Answers, Typed
<1>3. CASE work[j].turn + 1 # MaxTurns /\ UNCHANGED job /\ TurnOf(j, work[j].turn + 1)
  <2>1. [at |-> "llm", turn |-> work[j].turn + 1, left |-> 0] \in Work
    <3>1. work[j].turn \in 0 .. MaxTurns - 1 /\ work[j].turn + 1 # MaxTurns
      BY <1>3 DEF Typed, Work
    <3>2. MaxTurns \in Nat /\ 0 \in 0 .. MaxCalls - 1
      BY SubAgentsAssumption
    <3> QED
      BY <3>1, <3>2 DEF Work
  <2> QED
    BY <1>1, <1>3, <2>1 DEF Typed, TurnOf
<1> QED
  BY <1>2, <1>3 DEF NextTurn

\* What comes after a tool call is another at its check, or no tool call.
LEMMA NextCallTyped ==
    ASSUME Typed, NEW j \in Jobs, NextCall(j)
    PROVE  /\ job' \in [Jobs -> Job] /\ work' \in [Jobs -> Work] /\ call' \in [Jobs -> Call]
           /\ \A k \in Jobs : k # j => work'[k] = work[k] /\ call'[k] = call[k]
           /\ ~call'[j].row /\ (work'[j].at = "tool" => call'[j].at = "check")
<1>1. CASE work[j].left > 0
  <2>1. CallTool(j) /\ OneCallLess(j) /\ UNCHANGED job
    BY <1>1 DEF NextCall
  <2>2. /\ work' \in [Jobs -> Work]
        /\ \A k \in Jobs : k # j => work'[k] = work[k]
    BY <1>1, <2>1, SubAgentsAssumption DEF OneCallLess, Typed, Work
  <2> QED
    BY <2>1, <2>2, CallToolSets DEF Typed
<1>2. CASE ~(work[j].left > 0)
  BY <1>2, NextTurnTyped DEF NextCall
<1> QED
  BY <1>1, <1>2

\* A call at another label.
LEMMA Recall ==
    ASSUME Typed, NEW j \in Jobs, NEW a \in {"check", "log", "running", "polled", "returned",
                                             "threw", "timedout"}
    PROVE  /\ [call EXCEPT ![j].at = a] \in [Jobs -> Call]
           /\ [call EXCEPT ![j].at = a][j].at = a
           /\ \A k \in Jobs : k # j => [call EXCEPT ![j].at = a][k] = call[k]
BY DEF Typed, Call

\* A call runs on: it asks nothing, and does not go back to its check.
LEMMA CallStops ==
    ASSUME KillInv, NEW j \in Jobs, UNCHANGED <<switchVars, work, after>>, call[j].at # "check",
           \A k \in Jobs : k # j => call'[k] = call[k],
           work[j].at = "tool", call'[j].at # "log"
    PROVE  Stopped'
<1>1. AsksFirst(j)'
  BY DEF KillInv, Stopped, AsksFirst, switchVars
<1>2. Knows(j)'
  BY DEF KillInv, Stopped, AsksFirst, Knows, InCall, switchVars, switchRows
<1> QED
  BY <1>1, <1>2, JobMoves DEF switchVars

LEMMA DoesTyped ==
    ASSUME Typed, NEW t \in Tools, NEW k \in Jobs, Does(t, k)
    PROVE  job' \in [Jobs -> Job]
<1>1. CASE t = "spawn"
  BY <1>1 DEF Does, Added, Typed, Job
<1>2. CASE t = "cancel"
  BY <1>2 DEF Does, Typed, Job, Ended
<1>3. CASE t \in {"effect", "await"}
  BY <1>3 DEF Does, Typed
<1> QED
  BY <1>1, <1>2, <1>3 DEF Tools

\* A tool begins.  TTL after the activation it is the first: the answer its
\* check had was not that the switch is on.
LEMMA BeginStops ==
    ASSUME KillInv, NEW j \in Jobs, BeginTool(j)
    PROVE  Typed' /\ Stopped'
<1>1. /\ UNCHANGED <<switchVars, job, work, loose>> /\ InCall(j, "log")
      /\ after' = IF IsOn /\ clock >= since + TTL
                  THEN [after EXCEPT ![j] = [of |-> since,
                          tools |-> IF @.of = since THEN @.tools + 1 ELSE 1]]
                  ELSE after
  BY DEF BeginTool, queue
<1>2. /\ call' \in [Jobs -> Call] /\ call'[j].at = "running"
      /\ \A k \in Jobs : k # j => call'[k] = call[k]
  <2> DEFINE q == [at |-> "running", tool |-> call[j].tool, target |-> call[j].target,
                   snap |-> call[j].snap, row |-> call[j].row]
  <2>1. [call[j] EXCEPT !.at = "running"] = q
    BY DEF KillInv, Typed, Call
  <2>2. [q EXCEPT !.row = TRUE] \in Call /\ q \in Call
        /\ [q EXCEPT !.row = TRUE].at = "running" /\ q.at = "running"
    BY DEF KillInv, Typed, Call
  <2>3. \/ call' = [call EXCEPT ![j] = [[call[j] EXCEPT !.at = "running"] EXCEPT !.row = TRUE]]
        \/ call' = [call EXCEPT ![j] = [call[j] EXCEPT !.at = "running"]]
    BY Zenon DEF BeginTool
  <2> HIDE DEF q
  <2> QED
    BY <2>1, <2>2, <2>3 DEF KillInv, Typed
<1>3. since \in 0 .. MaxTime /\ since \in Nat /\ clock \in Nat /\ TTL \in Nat
  BY KillSwitchAssumption DEF KillInv, Inv, SwitchTypeOK
<1>4. /\ after[j].of = since => after[j].tools = 0
      /\ after[j] \in After /\ ask[j].at = "idle"
  <2>1. after[j] \in After /\ after[j].tools \in Nat /\ after[j].tools <= 1
    BY DEF KillInv, Typed, After, Stopped
  <2>2. Knows(j) /\ AsksFirst(j)
    BY DEF KillInv, Stopped
  <2> QED
    BY <1>1, <2>1, <2>2 DEF Knows, AsksFirst, InCall
<1>5. /\ \A k \in Jobs : k # j => after'[k] = after[k]
      /\ \/ after'[j] = after[j] /\ after' = after
         \/ after'[j] = [of |-> since, tools |-> 1] /\ IsOn /\ clock >= since + TTL
            /\ after' = [after EXCEPT ![j] = [of |-> since, tools |-> 1]]
  <2>1. CASE IsOn /\ clock >= since + TTL
    <3>1. PICK n : /\ n = IF after[j].of = since THEN after[j].tools + 1 ELSE 1
                   /\ after' = [after EXCEPT ![j] = [of |-> since, tools |-> n]]
      BY <1>1, <2>1
    <3>2. n = 1
      BY <1>4, <3>1
    <3> QED
      BY <2>1, <3>1, <3>2 DEF KillInv, Typed
  <2>2. CASE ~(IsOn /\ clock >= since + TTL)
    BY <1>1, <2>2
  <2> QED
    BY <2>1, <2>2
<1>6. after' \in [Jobs -> After]
  BY <1>3, <1>5 DEF KillInv, Typed, After
<1>7. \A k \in Jobs : after'[k].tools <= 1 /\ Counted(k)'
  BY <1>1, <1>3, <1>5 DEF KillInv, Stopped, Counted, IsOn, switchVars, switchRows
<1>8. \A k \in Jobs : AsksFirst(k)'
  BY <1>1, <1>2, <1>4 DEF KillInv, Stopped, AsksFirst, switchVars
<1>9. \A k \in Jobs : Knows(k)'
  BY <1>1, <1>2, <1>4, <1>5 DEF KillInv, Stopped, Knows, InCall, switchVars, switchRows
<1> QED
  BY <1>1, <1>2, <1>6, <1>7, <1>8, <1>9 DEF Typed, KillInv, Stopped

LEMMA ProcessStops ==
    ASSUME KillInv, NEW j \in Jobs, Process(j)
    PROVE  Typed' /\ Stopped'
<1> USE DEF KillInv
<1>1. CASE AskRouter(j) \/ AskBeforeTool(j)
  BY <1>1, AskStops DEF AskRouter, AskBeforeTool, jobVars, queue, local, Typed
<1>2. CASE RouterStops(j) \/ LlmEnds(j) \/ CheckStops(j)
  <2>1. /\ \E s \in Ended, v \in Answers : Leave(j, s, v)
        /\ AskDone(j) /\ KeepSwitch /\ UNCHANGED <<loose, after>>
        /\ \/ UNCHANGED call
           \/ call' = [call EXCEPT ![j] = NoCall]
    BY <1>2 DEF RouterStops, LlmEnds, CheckStops, Ended, Answers
  <2>2. /\ job' \in [Jobs -> Job] /\ work' \in [Jobs -> Work] /\ work' = [work EXCEPT ![j] = NoWork]
    BY <2>1, LeaveTyped
  <2>3. call' \in [Jobs -> Call] /\ \A k \in Jobs : k # j => call'[k] = call[k]
    BY <2>1, NoneTyped DEF Typed
  <2>4. ~InCall(j, "log")' /\ \A k \in Jobs : k # j => work'[k] = work[k]
    BY <2>2, NoneTyped DEF InCall, Typed
  <2> QED
    BY <2>1, <2>2, <2>3, <2>4, AnswerStops DEF Typed
<1>3. CASE LlmCallsTools(j)
  <2>1. PICK n \in 1 .. MaxCalls :
          work' = [work EXCEPT ![j] = [at |-> "tool", turn |-> work[j].turn, left |-> n - 1]]
    BY <1>3 DEF LlmCallsTools
  <2>2. [at |-> "tool", turn |-> work[j].turn, left |-> n - 1] \in Work
    BY SubAgentsAssumption DEF Typed, Work
  <2>3. work' \in [Jobs -> Work] /\ \A i \in Jobs : i # j => work'[i] = work[i]
    BY <2>1, <2>2 DEF Typed
  <2>4. /\ CallTool(j) /\ AskDone(j) /\ KeepSwitch /\ UNCHANGED <<job, loose, after>>
    BY <1>3 DEF LlmCallsTools, queue
  <2>5. /\ call' \in [Jobs -> Call] /\ call'[j].at = "check"
        /\ \A i \in Jobs : i # j => call'[i] = call[i]
    BY <2>4, CallToolSets
  <2>6. ~InCall(j, "log")'
    BY <2>5 DEF InCall
  <2>7. Stopped'
    BY <2>3, <2>4, <2>5, <2>6, AnswerStops
  <2> QED
    BY <2>3, <2>4, <2>5, <2>7 DEF Typed
<1>4. CASE CheckPasses(j)
  <2>1. AskDone(j) /\ KeepSwitch /\ UNCHANGED <<loose, after>> /\ Told(j) /\ ~ask[j].active
    BY <1>4 DEF CheckPasses
  <2>2. /\ job' \in [Jobs -> Job] /\ work' \in [Jobs -> Work] /\ call' \in [Jobs -> Call]
        /\ \A k \in Jobs : k # j => work'[k] = work[k] /\ call'[k] = call[k]
    <3>1. CASE NextCall(j)
      BY <3>1, NextCallTyped
    <3>2. CASE call' = [call EXCEPT ![j].at = "log"] /\ UNCHANGED <<queue, work>>
      BY <3>2, Recall DEF queue, Typed
    <3> QED
      BY <1>4, <3>1, <3>2 DEF CheckPasses
  <2>3. Stopped'
    BY <2>1, <2>2, AnswerStops
  <2> QED
    BY <2>1, <2>2, <2>3 DEF Typed
<1>5. CASE BeginTool(j)
  BY <1>5, BeginStops
<1>6. CASE EndTool(j)
  <2>1. NextCall(j) /\ UNCHANGED <<switchVars, loose, after>>
    BY <1>6 DEF EndTool
  <2>2. /\ job' \in [Jobs -> Job] /\ work' \in [Jobs -> Work] /\ call' \in [Jobs -> Call]
        /\ \A k \in Jobs : k # j => work'[k] = work[k] /\ call'[k] = call[k]
        /\ (work'[j].at = "tool" => call'[j].at = "check")
    BY <2>1, NextCallTyped
  <2>3. AsksFirst(j)'
    BY <2>2 DEF AsksFirst
  <2>4. Knows(j)'
    BY <2>1, <2>2 DEF Stopped, Knows, InCall, switchVars, switchRows
  <2>5. Stopped'
    BY <2>1, <2>2, <2>3, <2>4, JobMoves DEF switchVars
  <2> QED
    BY <2>1, <2>2, <2>5 DEF Typed
<1> QED
  BY <1>1, <1>2, <1>3, <1>4, <1>5, <1>6 DEF Process

LEMMA OtherSteps ==
    ASSUME KillInv,
           \/ \E j \in Jobs : MainSpawns(j) \/ TakeJob(j) \/ StalledJob(j) \/ Executes(j) \/ TimerFires(j)
           \/ \E l \in loose : LooseToolEnds(l)
           \/ Collector
    PROVE  Typed' /\ Stopped'
<1> USE DEF KillInv
<1>1. CASE Collector
  BY <1>1, JobStays DEF Collector, CollectBegins, CollectPolls, CollectEnds, switchVars, queue,
     local, Typed
<1>2. CASE \E j \in Jobs : MainSpawns(j) \/ StalledJob(j)
  <2>1. PICK j \in Jobs : MainSpawns(j) \/ StalledJob(j)
    BY <1>2
  <2>2. UNCHANGED <<switchVars, local>>
    BY <2>1 DEF MainSpawns, StalledJob
  <2>3. job' \in [Jobs -> Job]
    <3>1. CASE MainSpawns(j)
      BY <3>1 DEF MainSpawns, Added, Typed, Job
    <3>2. CASE StalledJob(j) /\ job[j].stalls < MaxStalls
      <4> DEFINE k == [state |-> "waiting", value |-> job[j].value, stalls |-> job[j].stalls]
      <4>1. job' = [job EXCEPT ![j] = [[job[j] EXCEPT !.state = "waiting"] EXCEPT !.stalls = job[j].stalls + 1]]
        BY <3>2, Zenon DEF StalledJob
      <4>2. [job[j] EXCEPT !.state = "waiting"] = k
        BY DEF Typed, Job
      <4>3. [k EXCEPT !.stalls = job[j].stalls + 1] \in Job
        BY <3>2, SubAgentsAssumption DEF Typed, Job
      <4> HIDE DEF k
      <4> QED
        BY <4>1, <4>2, <4>3 DEF Typed
    <3>3. CASE StalledJob(j) /\ ~(job[j].stalls < MaxStalls)
      BY <3>3 DEF StalledJob, Typed, Job, Ended
    <3> QED
      BY <2>1, <3>1, <3>2, <3>3
  <2> QED
    BY <2>2, <2>3, JobStays DEF switchVars, local, Typed
<1>3. CASE \E j \in Jobs : TakeJob(j)
  <2>1. PICK j \in Jobs : TakeJob(j)
    BY <1>3
  <2>2. [NoWork EXCEPT !.at = "llm"] \in Work /\ [NoWork EXCEPT !.at = "llm"].at = "llm"
    BY NoneTyped DEF Work
  <2>3. /\ job' \in [Jobs -> Job] /\ work' \in [Jobs -> Work] /\ UNCHANGED <<switchVars, call, loose, after>>
        /\ work'[j].at = "llm" /\ \A k \in Jobs : k # j => work'[k] = work[k]
    BY <2>1, <2>2 DEF TakeJob, Typed, Job
  <2>4. AsksFirst(j)' /\ Knows(j)'
    BY <2>3 DEF Stopped, AsksFirst, Knows, InCall, switchVars, switchRows
  <2>5. Stopped'
    BY <2>3, <2>4, JobMoves DEF switchVars
  <2> QED
    BY <2>3, <2>5 DEF Typed
<1>4. CASE \E j \in Jobs : Executes(j)
  <2>1. PICK j \in Jobs : Executes(j)
    BY <1>4
  <2>2. CASE ToolReturns(j)
    BY <2>2, Recall, DoesTyped, CallStops DEF ToolReturns, InCall, Typed, Call
  <2>3. CASE ToolThrows(j)
    BY <2>3, Recall, CallStops DEF ToolThrows, InCall, queue, Typed
  <2>4. CASE AwaitReadsJob(j)
    <3> DEFINE v == job[call[j].target].value
               k == [at |-> "polled", tool |-> call[j].tool, target |-> call[j].target,
                     snap |-> call[j].snap, row |-> call[j].row]
    <3>1. call' = [call EXCEPT ![j] = [[call[j] EXCEPT !.at = "polled"] EXCEPT !.snap = v]]
      BY <2>4, Zenon DEF AwaitReadsJob
    <3>2. [call[j] EXCEPT !.at = "polled"] = k
      BY DEF Typed, Call
    <3>3. v \in Answers
      BY DEF Typed, Call, Job
    <3> HIDE DEF v
    <3>4. [k EXCEPT !.snap = v] \in Call /\ [k EXCEPT !.snap = v].at = "polled"
      BY <3>3 DEF Typed, Call
    <3> HIDE DEF k
    <3>5. /\ call' \in [Jobs -> Call] /\ call'[j].at = "polled"
          /\ \A i \in Jobs : i # j => call'[i] = call[i]
      BY <3>1, <3>2, <3>4 DEF Typed
    <3> QED
      BY <2>4, <3>5, CallStops DEF AwaitReadsJob, InCall, queue, Typed
  <2>5. CASE AwaitReadsState(j)
    <3>1. PICK a \in {"returned", "threw", "running"} : call' = [call EXCEPT ![j].at = a]
      BY <2>5 DEF AwaitReadsState
    <3>2. /\ call' \in [Jobs -> Call] /\ call'[j].at # "log"
          /\ \A i \in Jobs : i # j => call'[i] = call[i]
      BY <3>1, Recall
    <3>3. /\ work[j].at = "tool" /\ call[j].at # "check"
          /\ UNCHANGED <<switchVars, job, work, loose, after>>
      BY <2>5 DEF AwaitReadsState, InCall, queue
    <3> QED
      BY <3>2, <3>3, CallStops DEF Typed
  <2> QED
    BY <2>1, <2>2, <2>3, <2>4, <2>5 DEF Executes
<1>5. CASE \E j \in Jobs : TimerFires(j)
  <2>1. PICK j \in Jobs : TimerFires(j)
    BY <1>5
  <2>2. loose' \in SUBSET Loose
    BY <2>1 DEF TimerFires, Typed, Call, Loose
  <2> QED
    BY <2>1, <2>2, Recall, CallStops DEF TimerFires, InCall, queue, Typed
<1>6. CASE \E l \in loose : LooseToolEnds(l)
  <2>1. PICK l \in loose : LooseToolEnds(l)
    BY <1>6
  <2>2. l.tool \in Tools /\ l.target \in Jobs
    BY DEF Typed, Loose
  <2>3. job' \in [Jobs -> Job]
    BY <2>1, <2>2, DoesTyped DEF LooseToolEnds, Typed
  <2> QED
    BY <2>1, <2>3, JobStays DEF LooseToolEnds, switchVars, Typed
<1> QED
  BY <1>1, <1>2, <1>3, <1>4, <1>5, <1>6

LEMMA CrashStops == ASSUME KillInv, Crash PROVE Typed' /\ Stopped'
<1>1. /\ UNCHANGED <<switchRows, clock, job, after>> /\ loose' = {}
      /\ \A j \in Jobs : work'[j] = NoWork /\ call'[j] = NoCall /\ ask'[j] = NoAsk
      /\ work' = [j \in Jobs |-> NoWork] /\ call' = [j \in Jobs |-> NoCall]
  BY DEF Crash, queue
<1>2. Typed'
  BY <1>1, NoneTyped DEF KillInv, Typed
<1> QED
  BY <1>1, <1>2, NoneTyped, NoAskTyped
     DEF KillInv, Stopped, Counted, AsksFirst, Knows, InCall, IsOn, switchRows

LEMMA KillInvStep == KillInv /\ [Next]_vars => KillInv'
<1> SUFFICES ASSUME KillInv, [Next]_vars PROVE Typed' /\ Stopped'
  BY InvStep DEF KillInv
<1>1. CASE SwitchStep
  BY <1>1, SwitchStops DEF SwitchStep, jobVars, queue, local, KillInv, Typed
<1>2. CASE UNCHANGED vars
  BY <1>2, JobStays DEF vars, switchVars, jobVars, queue, local, KillInv, Typed
<1> QED
  BY <1>1, <1>2, ProcessStops, OtherSteps, CrashStops DEF Next

-----------------------------------------------------------------------------
\* Once the switch has been on for TTL, a sub-agent begins at most the one
\* tool whose check had passed, also when one answer of the LLM calls for a
\* list of them (agent-worker.ts:127, invoke-safe.ts:46, kill-switch.ts:27).
THEOREM KillStopsSubAgents == Spec => []KillStopsTools
<1>1. KillInv => KillStopsTools
  BY DEF KillInv, Stopped, KillStopsTools
<1> QED
  BY <1>1, KillInvInit, KillInvStep, PTL DEF Spec

-----------------------------------------------------------------------------
(* The rows of tool_calls.  A call that has its started row is past its     *)
(* check and its log; each fault leaves at most one row of each job open.   *)

Logged == {"running", "polled", "returned", "threw", "timedout"}
Rows   == {j \in Jobs : call[j].row}

RowAt(j) == call[j].row => work[j].at = "tool" /\ call[j].at \in Logged

RowsInv ==
    /\ \A j \in Jobs : RowAt(j)
    /\ open \in Nat /\ faults \in 0 .. MaxFaults
    /\ Cardinality(Rows) <= open
    /\ open <= Cardinality(Rows) + Cardinality(Jobs) * faults

LEMMA RowsFinite ==
    /\ Cardinality(Jobs) \in Nat
    /\ IsFiniteSet(Rows) /\ Cardinality(Rows) \in 0 .. Cardinality(Jobs)
    /\ IsFiniteSet(Rows') /\ Cardinality(Rows') \in 0 .. Cardinality(Jobs)
<1>1. Rows \in SUBSET Jobs /\ Rows' \in SUBSET Jobs /\ IsFiniteSet(Jobs)
  BY SubAgentsAssumption DEF Rows
<1> QED
  BY <1>1, FS_Subset, FS_CardinalityType

\* One fault more.
LEMMA FaultAdds ==
    ASSUME NEW n \in Nat, NEW f \in Nat
    PROVE  n * f \in Nat /\ n * (f + 1) = n * f + n
OBVIOUS

\* Some faults later, with the same rows.
LEMMA RowsStay ==
    ASSUME RowsInv, \A j \in Jobs : (call'[j].row <=> call[j].row) /\ RowAt(j)', open' = open,
           faults' = faults \/ Fault
    PROVE  RowsInv'
<1>1. Rows' = Rows
  BY DEF Rows
<1>2. faults \in Nat /\ faults' \in 0 .. MaxFaults /\ (faults' = faults \/ faults' = faults + 1)
  BY SubAgentsAssumption DEF RowsInv, Fault
<1>3. Cardinality(Jobs) * faults <= Cardinality(Jobs) * faults'
  BY <1>2, FaultAdds, RowsFinite
<1>4. Cardinality(Jobs) * faults \in Nat /\ Cardinality(Jobs) * faults' \in Nat
  BY <1>2, FaultAdds, RowsFinite
<1>5. /\ open' \in Nat /\ Cardinality(Rows') <= open'
      /\ open' <= Cardinality(Rows') + Cardinality(Jobs) * faults'
  <2>1. open' <= Cardinality(Rows') + Cardinality(Jobs) * faults
    BY <1>1 DEF RowsInv
  <2> QED
    BY <1>1, <1>3, <1>4, <2>1, RowsFinite DEF RowsInv
<1> QED
  BY <1>2, <1>5 DEF RowsInv

\* One job's call moves on and keeps its row, or has none.
LEMMA RowMoves ==
    ASSUME RowsInv, NEW j \in Jobs, open' = open, faults' = faults \/ Fault,
           \A k \in Jobs : k # j => call'[k] = call[k] /\ work'[k] = work[k],
           call'[j].row <=> call[j].row, RowAt(j)'
    PROVE  RowsInv'
BY RowsStay DEF RowsInv, RowAt

LEMMA RowOpens ==
    ASSUME RowsInv, NEW j \in Jobs, open' = open + 1, faults' = faults,
           \A k \in Jobs : k # j => call'[k] = call[k] /\ work'[k] = work[k],
           ~call[j].row, call'[j].row, RowAt(j)'
    PROVE  RowsInv'
<1>1. Rows' = Rows \cup {j} /\ j \notin Rows
  BY DEF Rows
<1>2. Cardinality(Rows') = Cardinality(Rows) + 1
  BY <1>1, RowsFinite, FS_AddElement
<1>3. Cardinality(Jobs) * faults \in Nat
  BY FaultAdds, RowsFinite DEF RowsInv
<1> QED
  BY <1>2, <1>3, RowsFinite DEF RowsInv, RowAt

LEMMA RowCloses ==
    ASSUME RowsInv, NEW j \in Jobs, call[j].row, ~call'[j].row,
           \A k \in Jobs : k # j => call'[k] = call[k] /\ work'[k] = work[k],
           (open' = open - 1 /\ faults' = faults) \/ (open' = open /\ Fault)
    PROVE  RowsInv'
<1>1. Rows' = Rows \ {j} /\ j \in Rows
  BY DEF Rows
<1>2. Cardinality(Rows') = Cardinality(Rows) - 1 /\ Cardinality(Rows) >= 1 /\ Cardinality(Jobs) >= 1
  <2>1. Cardinality(Rows') = Cardinality(Rows) - 1
    BY <1>1, RowsFinite, FS_RemoveElement
  <2> QED
    BY <2>1, RowsFinite
<1>3. faults \in Nat /\ faults' \in 0 .. MaxFaults
  BY SubAgentsAssumption DEF RowsInv, Fault
<1>4. Cardinality(Jobs) * faults \in Nat
      /\ Cardinality(Jobs) * (faults + 1) = Cardinality(Jobs) * faults + Cardinality(Jobs)
  BY <1>3, FaultAdds, RowsFinite
<1>5. /\ open' \in Nat /\ Cardinality(Rows') <= open'
      /\ open' <= Cardinality(Rows') + Cardinality(Jobs) * faults'
  <2>1. CASE open' = open - 1 /\ faults' = faults
    BY <1>2, <1>4, <2>1, RowsFinite DEF RowsInv
  <2>2. CASE open' = open /\ Fault
    <3>1. Cardinality(Jobs) * faults' = Cardinality(Jobs) * faults + Cardinality(Jobs)
      BY <1>4, <2>2 DEF Fault
    <3> QED
      BY <1>2, <1>4, <2>2, <3>1, RowsFinite DEF RowsInv
  <2> QED
    BY <2>1, <2>2
<1> QED
  BY <1>3, <1>5 DEF RowsInv, RowAt

LEMMA RowsInit == Init => RowsInv
<1> SUFFICES ASSUME Init PROVE RowsInv
  OBVIOUS
<1>1. \A j \in Jobs : ~call[j].row
  BY DEF Init, NoCall
<1>2. Rows = {}
  BY <1>1 DEF Rows
<1>3. Cardinality(Rows) = 0 /\ open = 0 /\ faults = 0
  BY <1>2, FS_EmptySet DEF Init
<1> QED
  BY <1>1, <1>3, FaultAdds, RowsFinite, SubAgentsAssumption DEF RowsInv, RowAt

\* The call begins with its started row.
LEMMA OpensRow ==
    ASSUME Typed, NEW j \in Jobs, call' = [call EXCEPT ![j].at = "running", ![j].row = TRUE]
    PROVE  /\ call'[j].row /\ call'[j].at = "running"
           /\ \A k \in Jobs : k # j => call'[k] = call[k]
<1>1. call' = [call EXCEPT ![j] = [[call[j] EXCEPT !.at = "running"] EXCEPT !.row = TRUE]]
  BY Zenon
<1>2. [call[j] EXCEPT !.at = "running"] =
        [at |-> "running", tool |-> call[j].tool, target |-> call[j].target,
         snap |-> call[j].snap, row |-> call[j].row]
  BY DEF Typed, Call
<1> QED
  BY <1>1, <1>2 DEF Typed

\* await-agent has read the job with its value.
LEMMA Polls ==
    ASSUME Typed, NEW j \in Jobs, AwaitReadsJob(j)
    PROVE  /\ (call'[j].row <=> call[j].row) /\ call'[j].at = "polled"
           /\ \A k \in Jobs : k # j => call'[k] = call[k]
<1> DEFINE v == job[call[j].target].value
<1>1. call' = [call EXCEPT ![j] = [[call[j] EXCEPT !.at = "polled"] EXCEPT !.snap = v]]
  BY Zenon DEF AwaitReadsJob
<1>2. [call[j] EXCEPT !.at = "polled"] =
        [at |-> "polled", tool |-> call[j].tool, target |-> call[j].target,
         snap |-> call[j].snap, row |-> call[j].row]
  BY DEF Typed, Call
<1> HIDE DEF v
<1> QED
  BY <1>1, <1>2 DEF Typed

LEMMA ProcessRows ==
    ASSUME Typed, RowsInv, NEW j \in Jobs, Process(j)
    PROVE  RowsInv'
<1>0. RowAt(j) /\ call[j] \in Call /\ \A k \in Jobs : call[k].row \in BOOLEAN
  BY DEF RowsInv, Typed, Call
<1>1. CASE AskRouter(j) \/ AskBeforeTool(j)
  BY <1>1, RowsStay DEF AskRouter, AskBeforeTool, jobVars, local, RowsInv, RowAt
<1>2. CASE RouterStops(j) \/ LlmEnds(j)
  <2>1. /\ work' = [work EXCEPT ![j] = NoWork] /\ work[j].at = "llm"
        /\ UNCHANGED <<call, open>> /\ (faults' = faults \/ Fault)
    BY <1>2 DEF RouterStops, LlmEnds, Leave
  <2> QED
    BY <1>0, <2>1, RowMoves DEF RowAt, Typed
<1>3. CASE LlmCallsTools(j)
  <2>1. ~call'[j].row /\ \A i \in Jobs : i # j => call'[i] = call[i]
    BY <1>3, CallToolSets DEF LlmCallsTools
  <2>2. /\ work[j].at = "llm" /\ UNCHANGED <<open, faults>>
        /\ \A i \in Jobs : i # j => work'[i] = work[i]
    BY <1>3 DEF LlmCallsTools, Typed
  <2> QED
    BY <1>0, <2>1, <2>2, RowMoves DEF RowAt
<1>4. CASE CheckStops(j)
  <2>1. /\ work' = [work EXCEPT ![j] = NoWork] /\ call[j].at = "check"
        /\ call' = [call EXCEPT ![j] = NoCall] /\ UNCHANGED <<open, faults>>
    BY <1>4 DEF CheckStops, Leave, InCall
  <2>2. ~call[j].row /\ ~call'[j].row
    BY <1>0, <2>1 DEF RowAt, Logged, NoCall, Typed
  <2> QED
    BY <1>0, <2>1, <2>2, RowMoves DEF RowAt, Typed
<1>5. CASE CheckPasses(j)
  <2>1. call[j].at = "check" /\ UNCHANGED <<open, faults>> /\ ~call[j].row
    BY <1>0, <1>5 DEF CheckPasses, InCall, RowAt, Logged
  <2>2. ~call'[j].row /\ \A k \in Jobs : k # j => call'[k] = call[k] /\ work'[k] = work[k]
    <3>1. CASE NextCall(j)
      BY <3>1, NextCallTyped
    <3>2. CASE call' = [call EXCEPT ![j].at = "log"] /\ UNCHANGED <<queue, work>>
      BY <2>1, <3>2 DEF Typed, Call
    <3> QED
      BY <1>5, <3>1, <3>2 DEF CheckPasses
  <2> QED
    BY <1>0, <2>1, <2>2, RowMoves DEF RowAt
<1>6. CASE BeginTool(j)
  <2>1. /\ work[j].at = "tool" /\ call[j].at = "log" /\ UNCHANGED work /\ ~call[j].row
    BY <1>0, <1>6 DEF BeginTool, InCall, RowAt, Logged
  <2>2. CASE call' = [call EXCEPT ![j].at = "running", ![j].row = TRUE] /\ open' = open + 1 /\ UNCHANGED faults
    <3>1. /\ call'[j].row /\ call'[j].at = "running"
          /\ \A k \in Jobs : k # j => call'[k] = call[k]
      BY <2>2, OpensRow
    <3> QED
      BY <2>1, <2>2, <3>1, RowOpens DEF RowAt, Logged
  <2>3. CASE call' = [call EXCEPT ![j].at = "running"] /\ Fault /\ UNCHANGED open
    <3>1. ~call'[j].row /\ \A k \in Jobs : k # j => call'[k] = call[k]
      BY <2>1, <2>3 DEF Typed, Call
    <3> QED
      BY <2>1, <2>3, <3>1, RowMoves DEF RowAt
  <2> QED
    BY <1>6, <2>2, <2>3 DEF BeginTool
<1>7. CASE EndTool(j)
  <2>1. /\ ~call'[j].row
        /\ \A k \in Jobs : k # j => call'[k] = call[k] /\ work'[k] = work[k]
    BY <1>7, NextCallTyped DEF EndTool
  <2>2. CASE call[j].row
    BY <1>7, <2>1, <2>2, RowCloses DEF EndTool
  <2>3. CASE ~call[j].row
    BY <1>0, <1>7, <2>1, <2>3, RowMoves DEF EndTool, RowAt
  <2> QED
    BY <2>2, <2>3
<1> QED
  BY <1>1, <1>2, <1>3, <1>4, <1>5, <1>6, <1>7 DEF Process

\* A call goes on from one label after the log to another.
LEMMA RowRuns ==
    ASSUME Typed, RowsInv, NEW j \in Jobs, UNCHANGED <<work, open, faults>>,
           InCall(j, "running") \/ InCall(j, "polled"),
           \A k \in Jobs : k # j => call'[k] = call[k],
           call'[j].row <=> call[j].row, call'[j].at \in Logged
    PROVE  RowsInv'
BY RowMoves DEF RowAt, InCall

LEMMA OtherRows ==
    ASSUME Typed, RowsInv,
           \/ \E j \in Jobs : MainSpawns(j) \/ TakeJob(j) \/ StalledJob(j) \/ Executes(j) \/ TimerFires(j)
           \/ \E l \in loose : LooseToolEnds(l)
           \/ Collector
    PROVE  RowsInv'
<1>0. \A j \in Jobs : RowAt(j)
  BY DEF RowsInv
<1>1. CASE \/ \E j \in Jobs : MainSpawns(j) \/ StalledJob(j)
           \/ \E l \in loose : LooseToolEnds(l)
           \/ Collector
  <2>1. UNCHANGED <<work, call, open, faults>>
    BY <1>1 DEF MainSpawns, StalledJob, LooseToolEnds, Collector, CollectBegins, CollectPolls,
       CollectEnds, local
  <2> QED
    BY <1>0, <2>1, RowsStay DEF RowAt
<1>2. CASE \E j \in Jobs : TakeJob(j)
  <2>1. PICK j \in Jobs : TakeJob(j)
    BY <1>2
  <2>2. /\ ~call[j].row /\ UNCHANGED <<call, open, faults>>
        /\ \A k \in Jobs : k # j => work'[k] = work[k]
    BY <1>0, <2>1 DEF TakeJob, RowAt, Typed, Call
  <2> QED
    BY <2>2, RowMoves DEF RowAt
<1>3. CASE \E j \in Jobs : Executes(j) \/ TimerFires(j)
  <2>1. PICK j \in Jobs : Executes(j) \/ TimerFires(j)
    BY <1>3
  <2>2. /\ UNCHANGED <<work, open, faults>> /\ (InCall(j, "running") \/ InCall(j, "polled"))
    BY <2>1 DEF Executes, ToolReturns, ToolThrows, AwaitReadsJob, AwaitReadsState, TimerFires
  <2>3. CASE \E a \in Logged : call' = [call EXCEPT ![j].at = a]
    BY <2>2, <2>3, RowRuns DEF Typed, Call
  <2>4. CASE AwaitReadsJob(j)
    <3>1. /\ (call'[j].row <=> call[j].row) /\ call'[j].at = "polled"
          /\ \A k \in Jobs : k # j => call'[k] = call[k]
      BY <2>4, Polls
    <3> QED
      BY <2>2, <3>1, RowRuns DEF Logged
  <2>5. CASE AwaitReadsState(j)
    BY <2>3, <2>5 DEF AwaitReadsState, Logged
  <2>6. CASE ToolReturns(j) \/ ToolThrows(j) \/ TimerFires(j)
    BY <2>3, <2>6 DEF ToolReturns, ToolThrows, TimerFires, Logged
  <2> QED
    BY <2>1, <2>4, <2>5, <2>6 DEF Executes
<1> QED
  BY <1>1, <1>2, <1>3

\* The rows of the calls a crash ends stay open, one of each job at most.
LEMMA CrashRows == ASSUME RowsInv, Crash PROVE RowsInv'
<1>1. \A j \in Jobs : ~call'[j].row
  BY DEF Crash, NoCall
<1>2. Rows' = {} /\ open' = open /\ Fault
  BY <1>1 DEF Rows, Crash
<1>3. Cardinality(Rows') = 0
  BY <1>2, FS_EmptySet
<1>4. faults \in Nat /\ faults' = faults + 1 /\ faults' \in 0 .. MaxFaults
  BY <1>2, SubAgentsAssumption DEF RowsInv, Fault
<1>5. Cardinality(Jobs) * faults \in Nat
      /\ Cardinality(Jobs) * faults' = Cardinality(Jobs) * faults + Cardinality(Jobs)
  BY <1>4, FaultAdds, RowsFinite
<1> QED
  BY <1>1, <1>2, <1>3, <1>4, <1>5, RowsFinite DEF RowsInv, RowAt

LEMMA RowsStep == Typed /\ RowsInv /\ [Next]_vars => RowsInv'
<1> SUFFICES ASSUME Typed, RowsInv, [Next]_vars PROVE RowsInv'
  OBVIOUS
<1>1. CASE SwitchStep \/ UNCHANGED vars
  BY <1>1, RowsStay DEF SwitchStep, vars, jobVars, local, RowsInv, RowAt
<1> QED
  BY <1>1, ProcessRows, OtherRows, CrashRows DEF Next

\* A row of tool_calls that no running call explains was left by a crash or
\* a failed insert: tools that throw or time out close theirs
\* (invoke.ts:106, schema/tool-calls.ts:6).
THEOREM OpenRowsAccounted == Spec => []OpenRowsExplained
<1>1. RowsInv => OpenRowsExplained
  BY DEF RowsInv, OpenRowsExplained, Rows
<1>2. KillInv => Typed
  BY DEF KillInv
<1> QED
  BY <1>1, <1>2, KillInvInit, KillInvStep, RowsInit, RowsStep, PTL DEF Spec

-----------------------------------------------------------------------------
(* What has ended stays as it is, and what was collected of it.             *)

\* A processor or a cancel that comes late leaves the job.
LEMMA EndedStays ==
    ASSUME Typed, [Next]_vars, NEW i \in Jobs, job[i].state \in Ended
    PROVE  job'[i] = job[i]
<1>1. job[i].state \notin {"none", "waiting", "active"}
  BY DEF Ended
<1>2. ASSUME NEW j \in Jobs, NEW s, NEW v, Moved(j, s, v) PROVE job'[i] = job[i]
  BY <1>1, <1>2 DEF Moved, Typed
<1>3. ASSUME NEW j \in Jobs, Added(j) PROVE job'[i] = job[i]
  BY <1>1, <1>3 DEF Added, Typed
<1>4. ASSUME NEW t, NEW k \in Jobs, Does(t, k) PROVE job'[i] = job[i]
  BY <1>1, <1>3, <1>4 DEF Does, Typed
<1>5. CASE \E j \in Jobs : Process(j)
  <2>1. PICK j \in Jobs : Process(j)
    BY <1>5
  <2>2. CASE \/ \E s \in Ended, v \in Answers : Leave(j, s, v)
             \/ UNCHANGED job
    BY <1>2, <2>2 DEF Leave
  <2>3. ASSUME NextCall(j) PROVE job'[i] = job[i]
    BY <1>2, <2>3 DEF NextCall, NextTurn, Leave
  <2> QED
    BY <2>1, <2>2, <2>3 DEF Process, AskRouter, RouterStops, LlmEnds, LlmCallsTools, AskBeforeTool,
       CheckStops, CheckPasses, BeginTool, EndTool, jobVars, queue, Ended, Answers
<1>6. CASE \E j \in Jobs : MainSpawns(j) \/ TakeJob(j) \/ StalledJob(j)
  BY <1>1, <1>3, <1>6 DEF MainSpawns, TakeJob, StalledJob, Typed
<1>7. CASE \E j \in Jobs : Executes(j) \/ TimerFires(j)
  <2>1. PICK j \in Jobs : Executes(j) \/ TimerFires(j)
    BY <1>7
  <2>2. CASE ToolReturns(j)
    BY <1>4, <2>2 DEF ToolReturns, Typed, Call
  <2> QED
    BY <2>1, <2>2 DEF Executes, ToolThrows, AwaitReadsJob, AwaitReadsState, TimerFires, queue
<1>8. CASE \E l \in loose : LooseToolEnds(l)
  BY <1>4, <1>8 DEF LooseToolEnds, Typed, Loose
<1>9. CASE SwitchStep \/ Collector \/ Crash \/ UNCHANGED vars
  BY <1>9 DEF SwitchStep, Collector, CollectBegins, CollectPolls, CollectEnds, Crash, vars,
     jobVars, queue
<1> QED
  BY <1>5, <1>6, <1>7, <1>8, <1>9 DEF Next

Collection == [at: {"idle", "poll", "done"},
               got: [Jobs -> {"none", "pending", "timeout"} \cup Ended]]

CollectInv ==
    /\ collect \in Collection
    /\ \A j \in Jobs : collect.got[j] \in Ended => job[j].state = collect.got[j]
    /\ collect.at = "idle" => collect.got = Nothing

\* One step of the collector, and of the jobs.
LEMMA CollectStep ==
    ASSUME Typed, CollectInv, [Next]_vars
    PROVE  /\ CollectInv'
           /\ \A j \in Jobs :
                collect.got[j] \in Ended /\ collect'.at # "idle" =>
                   collect'.got[j] = collect.got[j] /\ job'[j].state = collect.got[j]
<1> USE DEF CollectInv
<1>0. \A j \in Jobs : collect.got[j] \in Ended => job'[j].state = collect.got[j]
  BY EndedStays DEF Typed
<1>1. CASE UNCHANGED collect
  BY <1>0, <1>1
<1>2. CASE CollectBegins
  <2> DEFINE got == [j \in Jobs |-> IF job[j].state = "none" THEN "none" ELSE "pending"]
  <2>1. collect' = [at |-> "poll", got |-> got] /\ \A j \in Jobs : got[j] \in {"none", "pending"}
    BY <1>2 DEF CollectBegins, Collection
  <2>2. \A j \in Jobs : collect.got[j] \notin Ended
    BY <1>2 DEF CollectBegins, Nothing, Ended
  <2> QED
    BY <2>1, <2>2 DEF Collection, Ended
<1>3. CASE CollectPolls
  <2> DEFINE got == [j \in Jobs |-> IF j \in Pending /\ job[j].state \in Ended
                                    THEN job[j].state ELSE collect.got[j]]
  <2>1. collect' = [at |-> "poll", got |-> got] /\ UNCHANGED job
    BY <1>3 DEF CollectPolls, Collection, queue
  <2>2. \A j \in Jobs : /\ got[j] = collect.got[j] \/ (j \in Pending /\ got[j] \in Ended /\ job[j].state = got[j])
                        /\ collect.got[j] \in Ended => got[j] = collect.got[j]
    BY DEF Pending, Ended
  <2>3. got \in [Jobs -> {"none", "pending", "timeout"} \cup Ended]
    BY <2>2 DEF Collection
  <2> HIDE DEF got
  <2> QED
    BY <1>0, <2>1, <2>2, <2>3 DEF Collection
<1>4. CASE CollectEnds
  <2> DEFINE got == [j \in Jobs |-> IF j \in Pending THEN "timeout" ELSE collect.got[j]]
  <2>1. collect' = [at |-> "done", got |-> got]
    BY <1>4 DEF CollectEnds, Collection
  <2>2. \A j \in Jobs : /\ collect.got[j] \in Ended => got[j] = collect.got[j]
                        /\ got[j] \in Ended => got[j] = collect.got[j]
    BY DEF Pending, Ended
  <2>3. got \in [Jobs -> {"none", "pending", "timeout"} \cup Ended]
    BY DEF Collection
  <2> HIDE DEF got
  <2> QED
    BY <1>0, <2>1, <2>2, <2>3 DEF Collection
<1>5. CASE Crash
  BY <1>5 DEF Crash, Nothing, Collection, Ended
<1> QED
  BY <1>1, <1>2, <1>3, <1>4, <1>5 DEF Next, Collector, SwitchStep, jobVars, MainSpawns, TakeJob,
     StalledJob, Process, AskRouter, RouterStops, LlmEnds, LlmCallsTools, AskBeforeTool, CheckStops,
     CheckPasses, BeginTool, EndTool, Executes, ToolReturns, ToolThrows, AwaitReadsJob,
     AwaitReadsState, TimerFires, LooseToolEnds, vars

LEMMA CollectInit == Init => CollectInv
BY DEF Init, CollectInv, Collection, Nothing, Ended

\* A result once collected stands, and is how the job ended: no deadline, no
\* late processor and no cancel changes either (result-collector.ts:45,
\* agent-worker.ts:83).
THEOREM CollectedIsFinal == Spec => CollectedStands
<1>1. Typed /\ CollectInv /\ [Next]_vars => CollectInv'
  BY CollectStep
<1>2. Typed /\ CollectInv /\ [Next]_vars =>
        [\A j \in Jobs : collect.got[j] \in Ended /\ collect'.at # "idle" =>
             collect'.got[j] = collect.got[j] /\ job'[j].state = collect.got[j]]_vars
  BY CollectStep
<1>3. KillInv => Typed
  BY DEF KillInv
<1> QED
  BY <1>1, <1>2, <1>3, CollectInit, KillInvInit, KillInvStep, PTL DEF Spec, CollectedStands

\* Every variable has its type: no job runs a turn past the last, no more rows
\* are closed than opened.
THEOREM TypeCorrect == Spec => []TypeOK
<1>1. Inv /\ Typed /\ RowsInv /\ CollectInv => TypeOK
  BY DEF Inv, Typed, RowsInv, CollectInv, TypeOK, After, Collection
<1>2. KillInv => Inv /\ Typed
  BY DEF KillInv
<1>3. Typed /\ CollectInv /\ [Next]_vars => CollectInv'
  BY CollectStep
<1> QED
  BY <1>1, <1>2, <1>3, CollectInit, KillInvInit, KillInvStep, RowsInit, RowsStep, PTL DEF Spec

-----------------------------------------------------------------------------
(* The audit of the switch.                                                  *)

Recording(a) == {w \in Writers : writer[w].at = "audit" /\ writer[w].set = a}

LEMMA RecordingFinite ==
    ASSUME NEW a
    PROVE  /\ IsFiniteSet(Recording(a)) /\ Cardinality(Recording(a)) \in Nat
           /\ IsFiniteSet(Recording(a)') /\ Cardinality(Recording(a)') \in Nat
<1>1. Recording(a) \in SUBSET Writers /\ Recording(a)' \in SUBSET Writers /\ IsFiniteSet(Writers)
  BY KillSwitchAssumption DEF Recording
<1> QED
  BY <1>1, FS_Subset, FS_CardinalityType

\* A writer that is not about to record moves on to something else.
LEMMA AuditSame ==
    ASSUME AuditAccounts, UNCHANGED <<audit, made, lost>>,
           \A w \in Writers, a \in Actions :
              (writer'[w].at = "audit" /\ writer'[w].set = a)
                 <=> (writer[w].at = "audit" /\ writer[w].set = a)
    PROVE  AuditAccounts'
<1>1. \A a \in Actions : Recording(a)' = Recording(a)
  BY DEF Recording
<1> QED
  BY <1>1 DEF AuditAccounts, Recording, Actions

\* One action's rows and writers change, the other's stay.
LEMMA AuditMoves ==
    ASSUME NEW s \in Actions,
           audit \in [Actions -> Nat], made \in [Actions -> Nat], lost \in Nat,
           \A a \in Actions : audit[a] + Cardinality(Recording(a)) <= made[a],
           made["active"] + made["inactive"] =
             audit["active"] + audit["inactive"] + lost
               + Cardinality(Recording("active")) + Cardinality(Recording("inactive")),
           \A a \in Actions : a # s => Recording(a)' = Recording(a),
           \/ /\ made' = [made EXCEPT ![s] = @ + 1] /\ audit' = audit /\ lost' = lost
              /\ Cardinality(Recording(s)') = Cardinality(Recording(s)) + 1
           \/ /\ made' = made /\ Cardinality(Recording(s)') = Cardinality(Recording(s)) - 1
              /\ \/ audit' = [audit EXCEPT ![s] = @ + 1] /\ lost' = lost
                 \/ audit' = audit /\ lost' = lost + 1
    PROVE  AuditAccounts'
<1>1. /\ Cardinality(Recording("active")) \in Nat /\ Cardinality(Recording("inactive")) \in Nat
      /\ Cardinality(Recording("active")') \in Nat /\ Cardinality(Recording("inactive")') \in Nat
  BY RecordingFinite
<1>2. /\ \A a \in Actions : audit'[a] + Cardinality(Recording(a)') <= made'[a]
      /\ made'["active"] + made'["inactive"] =
             audit'["active"] + audit'["inactive"] + lost'
               + Cardinality(Recording("active")') + Cardinality(Recording("inactive")')
  <2>1. CASE s = "active"
    BY <1>1, <2>1 DEF Actions
  <2>2. CASE s = "inactive"
    BY <1>1, <2>2 DEF Actions
  <2> QED
    BY <2>1, <2>2 DEF Actions
<1> QED
  BY <1>2 DEF AuditAccounts, Recording

LEMMA AuditStep == ASSUME SwitchTypeOK, AuditAccounts, WriterStep PROVE AuditAccounts'
<1>0. /\ writer \in [Writers -> Writer] /\ audit \in [Actions -> Nat]
      /\ made \in [Actions -> Nat] /\ lost \in Nat
  BY KillSwitchAssumption DEF SwitchTypeOK
<1>00. /\ \A a \in Actions : audit[a] + Cardinality(Recording(a)) <= made[a]
       /\ made["active"] + made["inactive"] =
             audit["active"] + audit["inactive"] + lost
               + Cardinality(Recording("active")) + Cardinality(Recording("inactive"))
  BY DEF AuditAccounts, Recording
<1>1. ASSUME NEW w \in Writers, Begin(w, "active") \/ Begin(w, "inactive") \/ LookForRow(w)
      PROVE  AuditAccounts'
  <2>1. /\ writer[w].at # "audit" /\ writer'[w].at # "audit"
        /\ \A v \in Writers : v # w => writer'[v] = writer[v]
    BY <1>0, <1>1 DEF Begin, LookForRow, Writer
  <2> QED
    BY <1>1, <2>1, AuditSame DEF Begin, LookForRow, switchRows
<1>2. ASSUME NEW w \in Writers, WriteRow(w) PROVE AuditAccounts'
  <2>1. CASE ~writer[w].exists /\ switch # "none"
    <3>1. /\ writer[w].at # "audit" /\ writer'[w].at # "audit"
          /\ \A v \in Writers : v # w => writer'[v] = writer[v]
      BY <1>0, <1>2, <2>1 DEF WriteRow, Writer
    <3> QED
      BY <1>2, <2>1, <3>1, AuditSame DEF WriteRow
  <2>2. CASE ~(~writer[w].exists /\ switch # "none")
    <3>0. PICK s \in Actions : s = writer[w].set
      BY <1>0 DEF Writer
    <3>1. /\ writer[w].at # "audit" /\ writer'[w].at = "audit" /\ writer'[w].set = s
          /\ \A v \in Writers : v # w => writer'[v] = writer[v]
          /\ made' = [made EXCEPT ![s] = @ + 1] /\ UNCHANGED <<audit, lost>>
      BY <1>0, <1>2, <2>2, <3>0 DEF WriteRow, Writer
    <3>2. /\ Recording(s)' = Recording(s) \cup {w} /\ w \notin Recording(s)
          /\ \A a \in Actions : a # s => Recording(a)' = Recording(a)
      BY <3>1 DEF Recording
    <3>3. Cardinality(Recording(s)') = Cardinality(Recording(s)) + 1
      BY <3>1, <3>2, RecordingFinite, FS_AddElement
    <3>4. made'[s] = made[s] + 1 /\ \A a \in Actions : a # s => made'[a] = made[a]
      BY <1>0, <3>1
    <3> QED
      BY <1>0, <1>00, <3>1, <3>2, <3>3, <3>4, AuditMoves
  <2> QED
    BY <2>1, <2>2
<1>3. ASSUME NEW w \in Writers, RecordWrite(w) PROVE AuditAccounts'
  <2>0. PICK s \in Actions : s = writer[w].set
    BY <1>0 DEF Writer
  <2>1. /\ writer[w].at = "audit" /\ writer'[w].at # "audit"
        /\ \A v \in Writers : v # w => writer'[v] = writer[v]
        /\ made' = made
    BY <1>0, <1>3 DEF RecordWrite, Writer
  <2>2. \/ audit' = [audit EXCEPT ![s] = @ + 1] /\ lost' = lost
        \/ audit' = audit /\ lost' = lost + 1
    BY <1>3, <2>0 DEF RecordWrite
  <2>3. /\ w \in Recording(s)
        /\ Recording(s)' = Recording(s) \ {w}
        /\ \A a \in Actions : a # s => Recording(a)' = Recording(a)
    BY <1>0, <2>0, <2>1 DEF Recording
  <2>4. Cardinality(Recording(s)') = Cardinality(Recording(s)) - 1
    BY <2>1, <2>3, RecordingFinite, FS_RemoveElement
  <2> QED
    BY <1>0, <1>00, <2>1, <2>2, <2>3, <2>4, AuditMoves
<1> QED
  BY <1>1, <1>2, <1>3 DEF WriterStep, EnforceStartupStopped, Actions

LEMMA AuditInit == Init => AuditAccounts
<1> SUFFICES ASSUME Init PROVE AuditAccounts
  OBVIOUS
<1>1. \A w \in Writers : writer[w].at = "idle"
  BY DEF Init, SwitchInit, NoWriter
<1>2. Recording("active") = {} /\ Recording("inactive") = {}
  BY <1>1 DEF Recording
<1>3. Cardinality(Recording("active")) = 0 /\ Cardinality(Recording("inactive")) = 0
  BY <1>2, FS_EmptySet
<1> QED
  BY <1>3 DEF Init, SwitchInit, AuditAccounts, Recording, Actions

LEMMA AuditNext == Inv /\ AuditAccounts /\ [Next]_vars => AuditAccounts'
<1> SUFFICES ASSUME Inv, AuditAccounts, [Next]_vars PROVE AuditAccounts'
  OBVIOUS
<1>1. CASE WriterStep
  BY <1>1, AuditStep DEF Inv
<1>2. CASE UNCHANGED <<switchRows, writer>>
  BY <1>2, AuditSame DEF switchRows
<1> QED
  BY <1>1, <1>2 DEF Next, SwitchStep, GuardStep, ReadRow, StoreAnswer, TimePasses,
     MainSpawns, TakeJob, StalledJob, Process, AskRouter, AskGuard, RouterStops, LlmEnds,
     LlmCallsTools, AskBeforeTool, CheckStops, CheckPasses, BeginTool, EndTool, Executes,
     ToolReturns, ToolThrows, AwaitReadsJob, AwaitReadsState, TimerFires, LooseToolEnds,
     Collector, CollectBegins, CollectPolls, CollectEnds, Crash, KeepSwitch, switchVars, vars

\* For any writers, however they overlap: every change of the row has its
\* audit row, is about to insert it or failed to, and no audit row is without
\* a change (kill-switch-audit.ts:5, kill-switch.ts:89).
THEOREM AuditComplete == Spec => []AuditAccounts
BY AuditInit, AuditNext, InvInit, InvStep, PTL DEF Spec
=============================================================================
