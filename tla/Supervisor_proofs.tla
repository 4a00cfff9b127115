-------------------------- MODULE Supervisor_proofs --------------------------
(***************************************************************************)
(* Theorems about Supervisor, for any goals, order, cap and loops.  Types  *)
(* and what a map entry names hold for any number of overlapping ticks and *)
(* goals activated under their loops; the cap needs one tick at a time.    *)
(***************************************************************************)
EXTENDS Supervisor, FiniteSetTheorems, TLAPS

LEMMA TypeInit == Init => TypeOK
BY DEF Init, TypeOK

LEMMA TypeStep == ASSUME TypeOK, [Next]_vars PROVE TypeOK'
<1> USE DEF TypeOK, vars, loopVars, tickVars
<1>1. ASSUME NEW t \in Ticks, BeginRound(t)
      PROVE  /\ snap' \in [Ticks -> SUBSET Goals] /\ todo' \in [Ticks -> SUBSET Goals]
             /\ at' \in [Ticks -> Goals \union {NoGoal}]
             /\ tpc' \in [Ticks -> {"idle", "spawn", "build", "stop", "health"}]
  BY <1>1 DEF BeginRound, ActiveGoals
<1>2. ASSUME NEW t \in Ticks, EndRound(t)
      PROVE  /\ snap' \in [Ticks -> SUBSET Goals] /\ todo' \in [Ticks -> SUBSET Goals]
             /\ at' \in [Ticks -> Goals \union {NoGoal}]
             /\ tpc' \in [Ticks -> {"idle", "spawn", "build", "stop", "health"}]
  BY <1>2 DEF EndRound
<1>3. ASSUME NEW t \in Ticks, ReadGoals(t) PROVE TypeOK'
  BY <1>1, <1>3 DEF ReadGoals
<1>4. ASSUME NEW t \in Ticks, ChooseGoal(t) PROVE TypeOK'
  BY <1>4 DEF ChooseGoal, First, Unregistered
<1>5. ASSUME NEW t \in Ticks, SpawnLoop(t) PROVE TypeOK'
  <2>1. PICK x \in Loops : /\ activeLoops' = [activeLoops EXCEPT ![at[t]] = x]
                           /\ goalOf' = [goalOf EXCEPT ![x] = at[t]]
                           /\ cancelled' = [cancelled EXCEPT ![x] = FALSE]
    BY <1>5 DEF SpawnLoop
  <2>2. at[t] \in Goals \union {NoGoal}
    OBVIOUS
  <2>3. activeLoops' \in [Goals -> Loops \union {NoLoop}]
    BY <2>1
  <2>4. goalOf' \in [Loops -> Goals \union {NoGoal}]
    BY <2>1, <2>2
  <2>5. cancelled' \in [Loops -> BOOLEAN]
    BY <2>1
  <2>6. at' \in [Ticks -> Goals \union {NoGoal}]
        /\ tpc' \in [Ticks -> {"idle", "spawn", "build", "stop", "health"}]
    BY <1>5 DEF SpawnLoop
  <2> QED
    BY <1>5, <2>3, <2>4, <2>5, <2>6 DEF SpawnLoop
<1>6. ASSUME NEW t \in Ticks, PassOver(t) PROVE TypeOK'
  BY <1>6 DEF PassOver
<1>7. ASSUME NEW t \in Ticks, NoMoreToSpawn(t) PROVE TypeOK'
  <2>1. CASE phase = "stagger"
    BY <1>2, <1>7, <2>1 DEF NoMoreToSpawn
  <2>2. CASE phase # "stagger"
    BY <1>7, <2>2 DEF NoMoreToSpawn
  <2> QED
    BY <2>1, <2>2
<1>8. ASSUME NEW t \in Ticks, StopInactive(t) PROVE TypeOK'
  BY <1>8 DEF StopInactive, StopLoops
<1>9. ASSUME NEW t \in Ticks, RecordHealth(t) PROVE TypeOK'
  BY <1>2, <1>9 DEF RecordHealth
<1>10. ASSUME NEW t \in Ticks, RoundFails(t) PROVE TypeOK'
  BY <1>2, <1>10 DEF RoundFails, Fault
<1>11. ASSUME NEW x \in Loops, LoopSetsStatus(x) \/ LoopEnds(x) PROVE TypeOK'
  BY <1>11 DEF LoopSetsStatus, LoopEnds, Alive
<1>12. CASE Boot
  BY <1>1, <1>12 DEF Boot, Fault
<1>13. CASE Crash \/ Exit
  <2>1. faults' \in Nat
    BY <1>13 DEF Crash, Exit, Fault
  <2>2. ProcessEnds
    BY <1>13 DEF Crash, Exit
  <2>3. /\ tpc' \in [Ticks -> {"idle", "spawn", "build", "stop", "health"}]
        /\ snap' \in [Ticks -> SUBSET Goals] /\ todo' \in [Ticks -> SUBSET Goals]
        /\ at' \in [Ticks -> Goals \union {NoGoal}]
    BY <2>2 DEF ProcessEnds, Idle
  <2>4. /\ activeLoops' \in [Goals -> Loops \union {NoLoop}]
        /\ goalOf' \in [Loops -> Goals \union {NoGoal}]
        /\ cancelled' \in [Loops -> BOOLEAN] /\ phase' = "down"
        /\ UNCHANGED <<goalStatus, loopHealth>>
    BY <2>2 DEF ProcessEnds
  <2> QED
    BY <2>1, <2>3, <2>4
<1>14. CASE Shutdown
  BY <1>14 DEF Shutdown, StopLoops, Fault
<1>15. ASSUME NEW g \in Goals, SetGoalStatus(g) PROVE TypeOK'
  BY <1>15 DEF SetGoalStatus
<1>16. CASE UNCHANGED vars
  BY <1>16
<1> QED
  BY <1>3, <1>4, <1>5, <1>6, <1>7, <1>8, <1>9, <1>10, <1>11, <1>12, <1>13, <1>14,
     <1>15, <1>16
  DEF Next, Round

(* Type correctness, for any number of overlapping ticks.                  *)
THEOREM TypeCorrect == Spec => []TypeOK
BY TypeInit, TypeStep, PTL DEF Spec

-----------------------------------------------------------------------------
(* The cap                                                                 *)

OneTick == \A s, t \in Ticks : s = t

(* The room found by the check is still there when the entry is set: only  *)
(* the tick itself adds to the map.                                        *)
CapInv ==
  /\ MapWithinCap
  /\ \A t \in Ticks : tpc[t] = "build" => HasRoom

LEMMA KeysFinite ==
  /\ IsFiniteSet(Keys) /\ Cardinality(Keys) \in Nat
  /\ IsFiniteSet(Keys') /\ Cardinality(Keys') \in Nat
  /\ Keys' \subseteq Keys => Cardinality(Keys') <= Cardinality(Keys)
<1>1. Keys \subseteq Goals /\ Keys' \subseteq Goals
  BY DEF Keys
<1>2. IsFiniteSet(Keys) /\ IsFiniteSet(Keys')
  BY <1>1, FiniteAssumption, FS_Subset
<1> QED
  BY <1>2, FS_CardinalityType, FS_Subset

LEMMA CapInit == Init => CapInv
<1> SUFFICES ASSUME Init PROVE CapInv
  OBVIOUS
<1>1. Keys = {}
  BY DEF Init, Keys
<1>2. Cardinality(Keys) = 0
  BY <1>1, FS_EmptySet
<1> QED
  BY <1>2, CapAssumption DEF Init, CapInv, MapWithinCap

LEMMA CapStep ==
  ASSUME OneTick, TypeOK, CapInv, [Next]_vars
  PROVE  CapInv'
<1> USE DEF MapWithinCap, HasRoom
<1>0. /\ Cap \in Nat /\ activeLoops \in [Goals -> Loops \union {NoLoop}]
      /\ tpc \in [Ticks -> {"idle", "spawn", "build", "stop", "health"}]
  BY CapAssumption DEF TypeOK
<1>1. ASSUME Keys' \subseteq Keys, \A t \in Ticks : tpc'[t] = "build" => tpc[t] = "build"
      PROVE  CapInv'
  BY <1>0, <1>1, KeysFinite DEF CapInv
<1>2. ASSUME NEW t \in Ticks, ChooseGoal(t) PROVE CapInv'
  <2>1. HasRoom /\ UNCHANGED Keys
    BY <1>2 DEF ChooseGoal, loopVars, Keys
  <2> QED
    BY <2>1 DEF CapInv
<1>3. ASSUME NEW t \in Ticks, SpawnLoop(t) PROVE CapInv'
  <2>1. HasRoom
    BY <1>3 DEF SpawnLoop, CapInv
  <2>2. Keys' \subseteq Keys \union {at[t]}
    BY <1>0, <1>3 DEF SpawnLoop, Keys
  <2>3. Cardinality(Keys \union {at[t]}) <= Cardinality(Keys) + 1
    <3>1. IsFiniteSet(Keys) /\ Cardinality(Keys) \in Nat
      BY KeysFinite
    <3>2. Cardinality(Keys \union {at[t]}) =
            IF at[t] \in Keys THEN Cardinality(Keys) ELSE Cardinality(Keys) + 1
      BY <3>1, FS_AddElement
    <3> QED
      BY <3>1, <3>2
  <2>4. Cardinality(Keys') <= Cardinality(Keys \union {at[t]})
    BY <2>2, KeysFinite, FS_AddElement, FS_Subset
  <2>5. Cardinality(Keys \union {at[t]}) \in Nat
    BY KeysFinite, FS_AddElement, FS_CardinalityType
  <2>6. Cardinality(Keys') <= Cap
    BY <1>0, <2>1, <2>3, <2>4, <2>5, KeysFinite
  <2>7. \A s \in Ticks : tpc'[s] # "build"
    BY <1>0, <1>3 DEF SpawnLoop, OneTick
  <2> QED
    BY <2>6, <2>7 DEF CapInv
<1>4. ASSUME NEW t \in Ticks,
             ReadGoals(t) \/ PassOver(t) \/ NoMoreToSpawn(t) \/ StopInactive(t)
             \/ RecordHealth(t) \/ RoundFails(t)
      PROVE  CapInv'
  <2>1. Keys' \subseteq Keys
    BY <1>0, <1>4 DEF ReadGoals, PassOver, NoMoreToSpawn, StopInactive, StopLoops,
       RecordHealth, RoundFails, loopVars, Keys
  <2>2. \A s \in Ticks : tpc'[s] = "build" => tpc[s] = "build"
    BY <1>0, <1>4 DEF ReadGoals, BeginRound, PassOver, NoMoreToSpawn, StopInactive,
       RecordHealth, RoundFails, EndRound
  <2> QED
    BY <1>1, <2>1, <2>2
<1>5. CASE \/ \E x \in Loops : LoopSetsStatus(x) \/ LoopEnds(x)
           \/ \E g \in Goals : SetGoalStatus(g)
           \/ UNCHANGED vars
  <2>1. Keys' \subseteq Keys /\ UNCHANGED tpc
    BY <1>0, <1>5 DEF LoopSetsStatus, LoopEnds, SetGoalStatus, vars, loopVars, tickVars, Keys
  <2> QED
    BY <1>1, <2>1
<1>6. CASE Boot \/ Crash \/ Shutdown \/ Exit
  <2>1. Keys' \subseteq Keys
    BY <1>0, <1>6 DEF Boot, Crash, Shutdown, Exit, ProcessEnds, StopLoops, loopVars, Keys
  <2>2. \A s \in Ticks : tpc'[s] = "build" => tpc[s] = "build"
    BY <1>0, <1>6 DEF Boot, BeginRound, Crash, Shutdown, Exit, ProcessEnds, Idle, tickVars
  <2> QED
    BY <1>1, <2>1, <2>2
<1> QED
  BY <1>2, <1>3, <1>4, <1>5, <1>6 DEF Next, Round

(* With one tick at a time the map never holds more loops than the cap,    *)
(* although the size is checked before an await and the entry is set after *)
(* it.                                                                     *)
THEOREM CapKept == ASSUME OneTick PROVE Spec => []MapWithinCap
<1>1. Init => TypeOK /\ CapInv
  BY TypeInit, CapInit
<1>2. TypeOK /\ CapInv /\ [Next]_vars => (TypeOK /\ CapInv)'
  BY TypeStep, CapStep
<1>3. CapInv => MapWithinCap
  BY DEF CapInv
<1> QED
  BY <1>1, <1>2, <1>3, PTL DEF Spec

-----------------------------------------------------------------------------
(* The map and the loops                                                   *)

(* Every entry names a loop that runs, and a tick that waits for a goal's  *)
(* strategy has a goal.                                                    *)
EntriesInv ==
  /\ MapEntriesRun
  /\ \A t \in Ticks : tpc[t] = "build" => at[t] \in Goals

LEMMA EntriesInit == Init => EntriesInv
BY NullsAssumption DEF Init, EntriesInv, MapEntriesRun

LEMMA EntriesStep ==
  ASSUME TypeOK, EntriesInv, [Next]_vars
  PROVE  EntriesInv'
<1>1. /\ NoLoop \notin Loops /\ NoGoal \notin Goals
      /\ activeLoops \in [Goals -> Loops \union {NoLoop}]
      /\ goalOf \in [Loops -> Goals \union {NoGoal}]
      /\ cancelled \in [Loops -> BOOLEAN]
      /\ tpc \in [Ticks -> {"idle", "spawn", "build", "stop", "health"}]
      /\ todo \in [Ticks -> SUBSET Goals]
      /\ at \in [Ticks -> Goals \union {NoGoal}]
  BY NullsAssumption DEF TypeOK
<1>2. \A g \in Goals, x \in Loops : activeLoops[g] = x => goalOf[x] = g /\ ~cancelled[x]
  BY DEF EntriesInv, MapEntriesRun
<1>3. \A t \in Ticks : tpc[t] = "build" => at[t] \in Goals
  BY DEF EntriesInv
<1>4. ASSUME UNCHANGED loopVars,
             \A t \in Ticks : tpc'[t] = "build" => tpc[t] = "build" /\ at'[t] = at[t]
      PROVE  EntriesInv'
  BY <1>2, <1>3, <1>4 DEF EntriesInv, MapEntriesRun, loopVars
<1>5. ASSUME NEW t \in Ticks, ChooseGoal(t) PROVE EntriesInv'
  <2>1. PICK g \in First(Unregistered(t)) : at' = [at EXCEPT ![t] = g]
    BY <1>5 DEF ChooseGoal
  <2>2. g \in Goals
    BY <1>1 DEF First, Unregistered
  <2>3. UNCHANGED loopVars /\ tpc' = [tpc EXCEPT ![t] = "build"]
    BY <1>5 DEF ChooseGoal
  <2> QED
    BY <1>1, <1>2, <1>3, <2>1, <2>2, <2>3 DEF EntriesInv, MapEntriesRun, loopVars
<1>6. ASSUME NEW t \in Ticks, SpawnLoop(t) PROVE EntriesInv'
  <2>1. PICK x \in Loops : /\ goalOf[x] = NoGoal
                           /\ activeLoops' = [activeLoops EXCEPT ![at[t]] = x]
                           /\ goalOf' = [goalOf EXCEPT ![x] = at[t]]
                           /\ cancelled' = [cancelled EXCEPT ![x] = FALSE]
    BY <1>6 DEF SpawnLoop, Alive
  <2>2. at[t] \in Goals
    BY <1>3, <1>6 DEF SpawnLoop
  <2>3. \A g \in Goals : activeLoops[g] # x
    BY <1>1, <1>2, <2>1
  <2>4. MapEntriesRun'
    BY <1>1, <1>2, <2>1, <2>2, <2>3 DEF MapEntriesRun
  <2>5. \A s \in Ticks : tpc'[s] = "build" => tpc[s] = "build" /\ at'[s] = at[s]
    BY <1>1, <1>6 DEF SpawnLoop
  <2> QED
    BY <1>3, <2>4, <2>5 DEF EntriesInv
<1>7. ASSUME NEW gs \in SUBSET Goals, StopLoops(gs) PROVE MapEntriesRun'
  BY <1>1, <1>2, <1>7 DEF StopLoops, MapEntriesRun
<1>8. ASSUME NEW t \in Ticks, StopInactive(t) PROVE EntriesInv'
  <2>1. MapEntriesRun'
    BY <1>7, <1>8 DEF StopInactive, Keys
  <2>2. \A s \in Ticks : tpc'[s] = "build" => tpc[s] = "build" /\ at'[s] = at[s]
    BY <1>1, <1>8 DEF StopInactive
  <2> QED
    BY <1>3, <2>1, <2>2 DEF EntriesInv
<1>9. ASSUME NEW t \in Ticks,
             \/ ReadGoals(t) \/ PassOver(t) \/ NoMoreToSpawn(t)
             \/ RecordHealth(t) \/ RoundFails(t)
      PROVE  EntriesInv'
  <2>1. UNCHANGED loopVars
    BY <1>9 DEF ReadGoals, PassOver, NoMoreToSpawn, RecordHealth, RoundFails
  <2>2. \A s \in Ticks : tpc'[s] = "build" => tpc[s] = "build" /\ at'[s] = at[s]
    BY <1>1, <1>9 DEF ReadGoals, BeginRound, PassOver, NoMoreToSpawn, RecordHealth,
       RoundFails, EndRound
  <2> QED
    BY <1>4, <2>1, <2>2
<1>10. ASSUME NEW x \in Loops, LoopEnds(x) PROVE EntriesInv'
  <2>1. goalOf[x] \in Goals
    BY <1>1, <1>10 DEF LoopEnds, Alive
  <2>2. /\ activeLoops' = [activeLoops EXCEPT ![goalOf[x]] = NoLoop]
        /\ goalOf' = [goalOf EXCEPT ![x] = NoGoal]
        /\ cancelled' = [cancelled EXCEPT ![x] = FALSE]
        /\ UNCHANGED tickVars
    BY <1>10 DEF LoopEnds
  <2>3. MapEntriesRun'
    BY <1>1, <1>2, <2>1, <2>2 DEF MapEntriesRun
  <2> QED
    BY <1>3, <2>2, <2>3 DEF EntriesInv, tickVars
<1>11. CASE \/ \E x \in Loops : LoopSetsStatus(x)
            \/ \E g \in Goals : SetGoalStatus(g)
            \/ UNCHANGED vars
  <2>1. UNCHANGED loopVars /\ UNCHANGED <<tpc, at>>
    BY <1>11 DEF LoopSetsStatus, SetGoalStatus, vars, tickVars
  <2> QED
    BY <1>4, <2>1
<1>12. CASE Boot
  <2>1. UNCHANGED loopVars
    BY <1>12 DEF Boot
  <2>2. \A s \in Ticks : tpc'[s] = "build" => tpc[s] = "build" /\ at'[s] = at[s]
    BY <1>1, <1>12 DEF Boot, BeginRound, tickVars
  <2> QED
    BY <1>4, <2>1, <2>2
<1>13. CASE Crash \/ Exit
  BY <1>1, <1>13 DEF Crash, Exit, ProcessEnds, Idle, EntriesInv, MapEntriesRun
<1>14. CASE Shutdown
  <2>1. MapEntriesRun' /\ UNCHANGED <<tpc, at>>
    BY <1>7, <1>14 DEF Shutdown, tickVars, Keys
  <2> QED
    BY <1>3, <2>1 DEF EntriesInv
<1> QED
  BY <1>5, <1>6, <1>8, <1>9, <1>10, <1>11, <1>12, <1>13, <1>14 DEF Next, Round

(* With any number of overlapping ticks, and goals paused and activated at *)
(* any time, an entry of the map names a loop that runs on its goal and    *)
(* has not been told to stop: no goal is passed over for a loop that is    *)
(* gone.  The converse is false: a loop may run without an entry.          *)
THEOREM EntriesKept == Spec => []MapEntriesRun
<1>1. Init => TypeOK /\ EntriesInv
  BY TypeInit, EntriesInit
<1>2. TypeOK /\ EntriesInv /\ [Next]_vars => (TypeOK /\ EntriesInv)'
  BY TypeStep, EntriesStep
<1>3. EntriesInv => MapEntriesRun
  BY DEF EntriesInv
<1> QED
  BY <1>1, <1>2, <1>3, PTL DEF Spec
=============================================================================
