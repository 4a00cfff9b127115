--------------------------- MODULE ToolBuild_proofs ---------------------------
(***************************************************************************)
(* Theorems about ToolBuild, for any calls, names and migrations: what is  *)
(* on disk, registered or being loaded has passed its test; DDL and record *)
(* of a migration agree; the worker catches up with the files.             *)
(***************************************************************************)
EXTENDS ToolBuild, FiniteSetTheorems, TLAPS

CallAts == {"idle", "compile", "sandbox", "import", "loaded", "ok", "failed", "dead",
            "check", "ddl", "insert", "commit"}

Typed ==
    /\ disk \in [Names -> Modules] /\ registry \in [Processes -> [Names -> Tools]]
    /\ builtin \in SUBSET Names /\ agent \in {"down", "loading", "up"}
    /\ load \in [Loaders -> Load] /\ reloads \in Nat
    /\ call \in [Calls -> Call] /\ box \in [Calls -> Box]
    /\ schema \in [Migrations -> Nat] /\ applied \in SUBSET Migrations
    /\ tested \in SUBSET Calls /\ missed \in BOOLEAN /\ faults \in 0 .. MaxFaults

\* A loader that imports has a module, and one that has ended nothing to do.
Loading ==
    \A l \in Loaders :
        /\ load[l].at = "got" => load[l].got # Empty
        /\ load[l].at = "idle" => load[l].todo = {}

Inv == Typed /\ Loading

-----------------------------------------------------------------------------
(* The records. *)

LEMMA NothingTyped ==
    /\ NoCall \in Call /\ NoCall.at = "idle" /\ NoCall.got = Empty
    /\ NoBox \in Box /\ NoBox.up = FALSE /\ NoBox.sent = "nothing"
    /\ NoLoad \in Load /\ NoLoad.at = "idle" /\ NoLoad.todo = {} /\ NoLoad.got = Empty
    /\ Empty \in Modules /\ Empty \notin Calls /\ Builtin \notin Calls /\ Builtin # Empty
<1>1. (CHOOSE n \in Names : TRUE) \in Names /\ (CHOOSE m \in Migrations : TRUE) \in Migrations
  BY ToolBuildAssumption DEF Names
<1> QED
  BY <1>1, ToolBuildAssumption DEF NoCall, Call, NoBox, Box, NoLoad, Load, Modules

\* A call at another label, with another module.
Moved(c, at, got) ==
    [at |-> at, name |-> call[c].name, says |-> call[c].says, got |-> got,
     migration |-> call[c].migration]

LEMMA MovedTyped ==
    ASSUME Typed, NEW c \in Calls, NEW a \in CallAts, NEW g \in Modules
    PROVE  /\ Moved(c, a, g) \in Call /\ Moved(c, a, g).at = a /\ Moved(c, a, g).got = g
           /\ Moved(c, a, g).name = call[c].name /\ Moved(c, a, g).says = call[c].says
           /\ Moved(c, a, g).migration = call[c].migration
           /\ [call EXCEPT ![c] = Moved(c, a, g)] \in [Calls -> Call]
BY DEF Typed, Call, CallAts, Moved

LEMMA GoesMoves ==
    ASSUME Typed, NEW c \in Calls, NEW a \in CallAts
    PROVE  [call EXCEPT ![c].at = a] = [call EXCEPT ![c] = Moved(c, a, call[c].got)]
<1>1. [call[c] EXCEPT !.at = a] = Moved(c, a, call[c].got)
  BY DEF Typed, Call, Moved
<1>2. [call EXCEPT ![c].at = a] = [call EXCEPT ![c] = [call[c] EXCEPT !.at = a]]
  BY Zenon
<1> QED
  BY <1>1, <1>2, Zenon

LEMMA ImportMoves ==
    ASSUME Typed, NEW c \in Calls, ImportReads(c)
    PROVE  call' = [call EXCEPT ![c] = Moved(c, "loaded", disk[call[c].name])]
<1> DEFINE d == disk[call[c].name]
           k == Moved(c, "loaded", call[c].got)
<1>1. call' = [call EXCEPT ![c] = [[call[c] EXCEPT !.at = "loaded"] EXCEPT !.got = d]]
  BY Zenon DEF ImportReads
<1>2. [call[c] EXCEPT !.at = "loaded"] = k
  BY DEF Typed, Call, Moved
<1> HIDE DEF d
<1>3. [k EXCEPT !.got = d] = Moved(c, "loaded", d)
  BY DEF Moved
<1> HIDE DEF k
<1> QED
  BY <1>1, <1>2, <1>3, Zenon DEF d

\* A new call of tool_write or of schema_extend.
LEMMA WriteBegun ==
    ASSUME NEW c \in Calls, NEW n \in Names, NEW says \in Names, WriteBegins(c, n, says)
    PROVE  \E k \in Call : /\ call' = [call EXCEPT ![c] = k]
                           /\ k.at \in {"failed", "compile"} /\ k.got = Empty
                           /\ k.name = n /\ k.says = says
<1>00. PICK x, y : NoCall = [at |-> "idle", name |-> x, says |-> x, got |-> Empty, migration |-> y]
  BY DEF NoCall
<1> DEFINE r == [at |-> "idle", name |-> x, says |-> x, got |-> Empty, migration |-> y]
<1>1. PICK a \in {"failed", "compile"} :
        call' = [call EXCEPT ![c] = [NoCall EXCEPT !.name = n, !.says = says, !.at = a]]
  BY DEF WriteBegins
<1> DEFINE k == [at |-> a, name |-> n, says |-> says, got |-> Empty, migration |-> y]
<1>2. k \in Call
  BY <1>00, NothingTyped DEF Call
<1>3. [r EXCEPT !.name = n, !.says = says, !.at = a] = k
  <2> DEFINE r1 == [at |-> "idle", name |-> n, says |-> x, got |-> Empty, migration |-> y]
             r2 == [at |-> "idle", name |-> n, says |-> says, got |-> Empty, migration |-> y]
  <2>1. [r EXCEPT !.name = n] = r1 /\ [r1 EXCEPT !.says = says] = r2 /\ [r2 EXCEPT !.at = a] = k
    OBVIOUS
  <2> HIDE DEF r, r1, r2, k
  <2> QED
    BY <2>1, Zenon
<1>4. k.at = a /\ k.got = Empty /\ k.name = n /\ k.says = says
  OBVIOUS
<1> HIDE DEF k, r
<1>5. call' = [call EXCEPT ![c] = k]
  BY <1>00, <1>1, <1>3, Zenon DEF r
<1> QED
  BY <1>2, <1>4, <1>5

LEMMA ExtendBegun ==
    ASSUME NEW c \in Calls, NEW m \in Migrations, Extends(c, m)
    PROVE  \E k \in Call : /\ call' = [call EXCEPT ![c] = k] /\ k.at = "check" /\ k.got = Empty
                           /\ k.migration = m
<1>00. PICK x, y : NoCall = [at |-> "idle", name |-> x, says |-> x, got |-> Empty, migration |-> y]
  BY DEF NoCall
<1> DEFINE r == [at |-> "idle", name |-> x, says |-> x, got |-> Empty, migration |-> y]
<1> DEFINE k == [at |-> "check", name |-> x, says |-> x, got |-> Empty, migration |-> m]
<1>1. k \in Call
  BY <1>00, NothingTyped DEF Call
<1>2. [r EXCEPT !.at = "check", !.migration = m] = k
  <2> DEFINE r1 == [at |-> "check", name |-> x, says |-> x, got |-> Empty, migration |-> y]
  <2>1. [r EXCEPT !.at = "check"] = r1 /\ [r1 EXCEPT !.migration = m] = k
    OBVIOUS
  <2> HIDE DEF r, r1, k
  <2> QED
    BY <2>1, Zenon
<1>3. k.at = "check" /\ k.got = Empty /\ k.migration = m
  OBVIOUS
<1> HIDE DEF k, r
<1>4. call' = [call EXCEPT ![c] = k]
  BY <1>00, <1>2, Zenon DEF Extends, r
<1> QED
  BY <1>1, <1>3, <1>4

\* A loader that begins with some files, or goes on with them.
Ready(t) == [NoLoad EXCEPT !.at = "next", !.todo = t]

LEMMA ReadyTyped ==
    ASSUME NEW t \in SUBSET Names
    PROVE  Ready(t) \in Load /\ Ready(t).at = "next" /\ Ready(t).todo = t /\ Ready(t).got = Empty
<1>1. PICK f \in Names : NoLoad = [at |-> "idle", todo |-> {}, file |-> f, got |-> Empty]
  BY NothingTyped DEF NoLoad, Load
<1> DEFINE r  == [at |-> "idle", todo |-> {}, file |-> f, got |-> Empty]
           r1 == [at |-> "next", todo |-> {}, file |-> f, got |-> Empty]
           k  == [at |-> "next", todo |-> t, file |-> f, got |-> Empty]
<1>2. [r EXCEPT !.at = "next"] = r1 /\ [r1 EXCEPT !.todo = t] = k
  OBVIOUS
<1>3. k \in Load /\ k.at = "next" /\ k.todo = t /\ k.got = Empty
  BY NothingTyped DEF Load
<1> HIDE DEF r1, k
<1>4. Ready(t) = k
  BY <1>1, <1>2, Zenon DEF Ready
<1> QED
  BY <1>3, <1>4, Zenon

\* A loader with the module of a file.
Gets(l, n) == [at |-> "got", todo |-> load[l].todo \ {n}, file |-> n, got |-> disk[n]]

LEMMA FileGot ==
    ASSUME Typed, NEW l \in Loaders, NEW n \in Names, LoadFile(l, n), disk[n] # Empty
    PROVE  load' = [load EXCEPT ![l] = Gets(l, n)]
<1> DEFINE t  == load[l].todo \ {n}
           r1 == [at |-> load[l].at, todo |-> t, file |-> load[l].file, got |-> load[l].got]
           r2 == [at |-> "got", todo |-> t, file |-> load[l].file, got |-> load[l].got]
           r3 == [at |-> "got", todo |-> t, file |-> n, got |-> load[l].got]
           d  == disk[n]
           r4 == [at |-> "got", todo |-> t, file |-> n, got |-> d]
<1>1. load' = [load EXCEPT ![l] = [[[[load[l] EXCEPT !.todo = t] EXCEPT !.at = "got"]
                                         EXCEPT !.file = n] EXCEPT !.got = d]]
  BY Zenon DEF LoadFile
<1> HIDE DEF t, d
<1>2. [load[l] EXCEPT !.todo = t] = r1
  BY DEF Typed, Load
<1>3. [r1 EXCEPT !.at = "got"] = r2
  OBVIOUS
<1>4. [r2 EXCEPT !.file = n] = r3
  OBVIOUS
<1>5. [r3 EXCEPT !.got = d] = r4
  OBVIOUS
<1>6. r4 = Gets(l, n)
  BY DEF Gets, t, d
<1> HIDE DEF r1, r2, r3, r4
<1> QED
  BY <1>1, <1>2, <1>3, <1>4, <1>5, <1>6, Zenon

LEMMA FileGone ==
    ASSUME Typed, NEW l \in Loaders, NEW n \in Names, LoadFile(l, n), disk[n] = Empty
    PROVE  load' = [load EXCEPT ![l] = [at |-> load[l].at, todo |-> load[l].todo \ {n},
                                        file |-> load[l].file, got |-> load[l].got]]
<1> DEFINE t == load[l].todo \ {n}
           r == [at |-> load[l].at, todo |-> t, file |-> load[l].file, got |-> load[l].got]
<1>1. load' = [load EXCEPT ![l] = [load[l] EXCEPT !.todo = t]]
  BY Zenon DEF LoadFile
<1> HIDE DEF t
<1>2. [load[l] EXCEPT !.todo = t] = r
  BY DEF Typed, Load
<1> HIDE DEF r
<1> QED
  BY <1>1, <1>2, Zenon DEF r, t

\* The tools of a process.
LEMMA ToolTyped ==
    ASSUME registry \in [Processes -> [Names -> Tools]], NEW p \in Processes, NEW n \in Names,
           NEW t \in Tools
    PROVE  [registry EXCEPT ![p][n] = t] \in [Processes -> [Names -> Tools]]
OBVIOUS

LEMMA ToolsTyped ==
    ASSUME registry \in [Processes -> [Names -> Tools]], NEW p \in Processes,
           NEW f \in [Names -> Tools]
    PROVE  [registry EXCEPT ![p] = f] \in [Processes -> [Names -> Tools]]
OBVIOUS

LEMMA OnlyTyped == \A names : Only(names) \in [Names -> Tools]
BY NothingTyped DEF Only, Tools

-----------------------------------------------------------------------------
(* Types. *)

LEMMA InvInit == Init => Inv
<1> SUFFICES ASSUME Init PROVE Inv
  OBVIOUS
<1>1. \A n \in Names : Empty \in Modules
  BY NothingTyped
<1>2. load = [l \in Loaders |-> IF l = "job" THEN NoLoad ELSE [NoLoad EXCEPT !.at = "next"]]
  BY DEF Init
<1>3. /\ [NoLoad EXCEPT !.at = "next"] \in Load /\ [NoLoad EXCEPT !.at = "next"].at = "next"
  BY NothingTyped DEF Load
<1>4. load \in [Loaders -> Load] /\ Loading
  BY <1>2, <1>3, NothingTyped DEF Loading
<1>5. registry \in [Processes -> [Names -> Tools]]
  BY OnlyTyped DEF Init
<1>6. /\ call \in [Calls -> Call] /\ box \in [Calls -> Box]
      /\ schema \in [Migrations -> Nat] /\ disk \in [Names -> Modules]
  BY <1>1, NothingTyped DEF Init
<1>7. faults \in 0 .. MaxFaults
  BY ToolBuildAssumption DEF Init
<1> QED
  BY <1>4, <1>5, <1>6, <1>7 DEF Init, Inv, Typed

LEMMA FaultTyped == ASSUME Typed, UNCHANGED faults \/ Fault PROVE faults' \in 0 .. MaxFaults
BY ToolBuildAssumption DEF Typed, Fault

\* What loaders keep.
LEMMA LoaderKeeps == ASSUME Inv, NEW l \in Loaders, Loader(l) PROVE Inv'
<1> USE DEF Inv
<1>0. load[l] \in Load /\ (load[l].at = "got" => load[l].got \in Calls)
  BY DEF Typed, Loading, Load, Modules
<1>1. ASSUME NEW n \in Names, LoadFile(l, n) PROVE Inv'
  <2>1. CASE disk[n] # Empty
    <3>1. load' = [load EXCEPT ![l] = Gets(l, n)]
      BY <1>1, <2>1, FileGot
    <3>2. Gets(l, n) \in Load /\ Gets(l, n).at = "got" /\ Gets(l, n).got # Empty
      BY <1>0, <2>1 DEF Gets, Load, Typed
    <3> QED
      BY <1>1, <3>1, <3>2 DEF LoadFile, files, calls, db, Typed, Loading
  <2>2. CASE disk[n] = Empty
    <3> DEFINE k == [at |-> load[l].at, todo |-> load[l].todo \ {n}, file |-> load[l].file,
                     got |-> load[l].got]
    <3>1. load' = [load EXCEPT ![l] = k]
      BY <1>1, <2>2, FileGone
    <3>2. k \in Load /\ k.at = "next"
      BY <1>0, <1>1 DEF LoadFile, Load
    <3> HIDE DEF k
    <3> QED
      BY <1>1, <3>1, <3>2 DEF LoadFile, files, calls, db, Typed, Loading
  <2> QED
    BY <2>1, <2>2
<1>2. CASE LoadTool(l)
  <2>1. load' = [load EXCEPT ![l] = Ready(load[l].todo)] /\ load[l].at = "got"
    BY <1>2 DEF LoadTool, Ready
  <2>2. load' \in [Loaders -> Load] /\ Loading'
    BY <1>0, <2>1, ReadyTyped DEF Typed, Loading, Load
  <2>3. registry' \in [Processes -> [Names -> Tools]]
    <3>1. Process(l) \in Processes /\ Says(l) \in Names /\ load[l].got \in Tools
      BY <1>0, <2>1 DEF Process, Processes, Says, Typed, Call, Tools, Modules
    <3> QED
      BY <1>2, <3>1, ToolTyped DEF LoadTool, Registered, Typed
  <2>4. faults' \in 0 .. MaxFaults /\ missed' \in BOOLEAN
    BY <1>2, FaultTyped DEF LoadTool, Typed
  <2> QED
    BY <1>2, <2>2, <2>3, <2>4 DEF LoadTool, calls, db, Typed
<1>3. CASE LoadEnds(l)
  <2>1. load' \in [Loaders -> Load] /\ Loading'
    BY <1>3, NothingTyped DEF LoadEnds, Typed, Loading
  <2> QED
    BY <1>3, <2>1 DEF LoadEnds, files, calls, db, Typed
<1> QED
  BY <1>1, <1>2, <1>3 DEF Loader

LEMMA BootKeeps ==
    ASSUME Inv, ReloadBegins \/ BootEnds \/ AgentStarts \/ AgentDies \/ WorkerRestarts PROVE Inv'
<1> USE DEF Inv
<1>0. /\ Ready(OnDisk) \in Load /\ Ready(OnDisk).at = "next"
      /\ "job" \in Loaders /\ "agent" \in Loaders /\ "worker" \in Loaders
      /\ "agent" \in Processes /\ "worker" \in Processes
  BY ReadyTyped DEF OnDisk, Loaders, Processes
<1>1. CASE ReloadBegins
  <2>1. load' = [load EXCEPT !["job"] = Ready(OnDisk)]
    BY <1>1 DEF ReloadBegins, Ready
  <2> QED
    BY <1>0, <1>1, <2>1 DEF ReloadBegins, files, calls, db, Typed, Loading
<1>2. CASE BootEnds
  <2>1. load' \in [Loaders -> Load] /\ Loading'
    BY <1>2, NothingTyped DEF BootEnds, Typed, Loading
  <2>2. [n \in Names |-> IF n \in Late THEN Builtin ELSE registry["agent"][n]] \in [Names -> Tools]
    BY <1>0 DEF Typed, Tools
  <2>3. registry' \in [Processes -> [Names -> Tools]] /\ builtin' \in SUBSET Names
    <3>1. \/ UNCHANGED registry
          \/ registry' = [registry EXCEPT !["agent"] =
                [n \in Names |-> IF n \in Late THEN Builtin ELSE registry["agent"][n]]]
      BY <1>2, Zenon DEF BootEnds
    <3> QED
      BY <1>0, <1>2, <2>2, <3>1, ToolsTyped DEF BootEnds, Held, Typed
  <2> QED
    BY <1>2, <2>1, <2>3 DEF BootEnds, calls, db, Typed
<1>3. CASE AgentStarts
  <2>1. load' = [load EXCEPT !["agent"] = Ready(OnDisk)]
    BY <1>3 DEF AgentStarts, Ready
  <2>2. registry' \in [Processes -> [Names -> Tools]]
    BY <1>0, <1>3, OnlyTyped, ToolsTyped DEF AgentStarts, Typed
  <2> QED
    BY <1>0, <1>3, <2>1, <2>2 DEF AgentStarts, calls, db, Typed, Loading
<1>4. CASE AgentDies
  <2>1. load' \in [Loaders -> Load] /\ Loading'
    BY <1>4, NothingTyped DEF AgentDies, Typed, Loading
  <2>2. registry' \in [Processes -> [Names -> Tools]]
    BY <1>0, <1>4, OnlyTyped, ToolsTyped DEF AgentDies, Typed
  <2>3. call' \in [Calls -> Call] /\ box' \in [Calls -> Box]
    <3>1. \A c \in Calls : [call[c] EXCEPT !.at = "dead"] \in Call
      BY DEF Typed, Call
    <3> QED
      BY <1>4, <3>1, NothingTyped DEF AgentDies, Typed
  <2> QED
    BY <1>4, <2>1, <2>2, <2>3, FaultTyped DEF AgentDies, db, Typed
<1>5. CASE WorkerRestarts
  <2>1. load' = [load EXCEPT !["worker"] = Ready(OnDisk), !["job"] = NoLoad]
    BY <1>5 DEF WorkerRestarts, Ready
  <2>2. registry' \in [Processes -> [Names -> Tools]]
    BY <1>0, <1>5, OnlyTyped, ToolsTyped DEF WorkerRestarts, Typed
  <2>3. load' \in [Loaders -> Load] /\ Loading'
    BY <1>0, <2>1, NothingTyped DEF Typed, Loading
  <2> QED
    BY <1>5, <2>2, <2>3, FaultTyped DEF WorkerRestarts, calls, db, Typed
<1> QED
  BY <1>1, <1>2, <1>3, <1>4, <1>5

\* A step of tool_write, schema_extend or tool_delete moves its own call on.
LEMMA CallKeeps ==
    ASSUME Inv, NEW c \in Calls, Write(c) \/ Extend(c) \/ \E n \in Names : Delete(c, n)
    PROVE  /\ call' \in [Calls -> Call] /\ \A d \in Calls : d # c => call'[d] = call[d]
           /\ \/ \E a \in CallAts, g \in Modules : call' = [call EXCEPT ![c] = Moved(c, a, g)]
              \/ call[c].at = "idle"
<1> USE DEF Inv
<1>0. call[c] \in Call /\ call[c].got \in Modules
  BY DEF Typed, Call
<1>1. CASE \E a \in CallAts, g \in Modules : call' = [call EXCEPT ![c] = Moved(c, a, g)]
  <2>1. PICK a \in CallAts, g \in Modules : call' = [call EXCEPT ![c] = Moved(c, a, g)]
    BY <1>1
  <2> QED
    BY <2>1, MovedTyped DEF Typed
<1>2. CASE \E a \in CallAts : call' = [call EXCEPT ![c].at = a]
  BY <1>0, <1>1, <1>2, GoesMoves
<1>3. CASE \E k \in Call : call[c].at = "idle" /\ call' = [call EXCEPT ![c] = k]
  BY <1>3 DEF Typed
<1>4. CASE UNCHANGED call
  <2>1. call[c] = Moved(c, call[c].at, call[c].got) /\ call[c].at \in CallAts
    BY <1>0 DEF Moved, Call, CallAts
  <2>2. call' = [call EXCEPT ![c] = Moved(c, call[c].at, call[c].got)]
    BY <1>4, <2>1 DEF Typed
  <2> QED
    BY <1>0, <1>1, <2>1, <2>2
<1>5. ASSUME Write(c) PROVE \/ \E a \in CallAts, g \in Modules : call' = [call EXCEPT ![c] = Moved(c, a, g)]
                            \/ \E a \in CallAts : call' = [call EXCEPT ![c].at = a]
                            \/ \E k \in Call : call[c].at = "idle" /\ call' = [call EXCEPT ![c] = k]
                            \/ UNCHANGED call
  <2>1. CASE \E n, says \in Names : WriteBegins(c, n, says)
    <3>1. PICK n, says \in Names : WriteBegins(c, n, says)
      BY <2>1
    <3>2. call[c].at = "idle"
      BY <3>1 DEF WriteBegins, Idle
    <3> QED
      BY <3>1, <3>2, WriteBegun
  <2>2. CASE ImportReads(c)
    <3>1. disk[call[c].name] \in Modules
      BY <1>0 DEF Typed, Call
    <3> QED
      BY <2>2, <3>1, ImportMoves DEF CallAts
  <2>3. CASE CompileEnds(c) \/ SandboxExits(c) \/ SandboxStops(c) \/ WriteSucceeds(c) \/ WriteFails(c)
             \/ \E what \in {"passed", "failed"} : SandboxSends(c, what)
    BY <2>3 DEF CompileEnds, SandboxExits, SandboxStops, WriteSucceeds, WriteFails, SandboxSends,
       Persist, Failed, CallAts
  <2> QED
    BY <1>5, <2>1, <2>2, <2>3 DEF Write
<1>6. ASSUME Extend(c) PROVE \/ \E a \in CallAts : call' = [call EXCEPT ![c].at = a]
                             \/ \E k \in Call : call[c].at = "idle" /\ call' = [call EXCEPT ![c] = k]
  <2>1. CASE \E m \in Migrations : Extends(c, m)
    <3>1. PICK m \in Migrations : Extends(c, m)
      BY <2>1
    <3>2. call[c].at = "idle"
      BY <3>1 DEF Extends, Idle
    <3> QED
      BY <3>1, <3>2, ExtendBegun
  <2> QED
    BY <1>6, <2>1 DEF Extend, MigrationLooked, MigrationRuns, MigrationInserts, MigrationCommits,
       Goes, CallAts
<1>7. ASSUME NEW n \in Names, Delete(c, n) PROVE \E a \in CallAts : call' = [call EXCEPT ![c].at = a]
  BY <1>7 DEF Delete, CallAts
<1> QED
  BY <1>1, <1>2, <1>3, <1>4, <1>5, <1>6, <1>7

LEMMA BoxKeeps ==
    ASSUME Typed, NEW c \in Calls, Write(c)
    PROVE  /\ box' \in [Calls -> Box] /\ \A d \in Calls : d # c => box'[d] = box[d]
           /\ box'[c].sent = "passed" => box[c].sent = "passed" \/ c \in tested'
<1>0. /\ [NoBox EXCEPT !.up = TRUE] \in Box /\ [NoBox EXCEPT !.up = TRUE].sent = "nothing"
      /\ [box[c] EXCEPT !.up = FALSE] \in Box /\ [box[c] EXCEPT !.up = FALSE].sent = box[c].sent
  BY NothingTyped DEF Box, Typed
<1>1. CASE CompileEnds(c)
  BY <1>0, <1>1 DEF CompileEnds, Typed
<1>2. CASE \E what \in {"passed", "failed"} : SandboxSends(c, what)
  BY <1>2 DEF SandboxSends, Typed, Box
<1>3. CASE SandboxExits(c) \/ SandboxStops(c)
  BY <1>0, <1>3 DEF SandboxExits, SandboxStops, Typed
<1>4. CASE \/ \E n, says \in Names : WriteBegins(c, n, says)
           \/ ImportReads(c) \/ WriteSucceeds(c) \/ WriteFails(c)
  BY <1>4 DEF WriteBegins, ImportReads, WriteSucceeds, WriteFails, Typed
<1> QED
  BY <1>1, <1>2, <1>3, <1>4 DEF Write

LEMMA NotifiedTyped == ASSUME Typed, Notified PROVE reloads' \in Nat /\ missed' \in BOOLEAN /\ faults' \in 0 .. MaxFaults
<1>1. faults' \in 0 .. MaxFaults
  BY FaultTyped DEF Notified
<1>2. reloads' \in Nat
  BY DEF Notified, Typed
<1>3. missed' \in BOOLEAN
  BY DEF Notified, Typed
<1> QED
  BY <1>1, <1>2, <1>3

LEMMA ToolCallKeeps ==
    ASSUME Inv, NEW c \in Calls, Write(c) \/ Extend(c) \/ \E n \in Names : Delete(c, n)
    PROVE  Inv'
<1> USE DEF Inv
<1>0. /\ call' \in [Calls -> Call] /\ "agent" \in Processes /\ call[c].name \in Names
      /\ call[c].migration \in Migrations /\ call[c].got \in Modules /\ c \in Modules
      /\ Empty \in Modules /\ Modules \subseteq Tools
  BY CallKeeps DEF Processes, Typed, Call, Modules, Tools
<1>1. CASE Write(c)
  <2>1. box' \in [Calls -> Box]
    BY <1>1, BoxKeeps
  <2>2. UNCHANGED <<boot, db>>
    BY <1>1 DEF Write, WriteBegins, CompileEnds, SandboxSends, SandboxExits, SandboxStops,
       ImportReads, WriteSucceeds, WriteFails
  <2>3. disk' \in [Names -> Modules]
    BY <1>0, <1>1 DEF Write, WriteBegins, CompileEnds, SandboxSends, SandboxExits, SandboxStops,
       ImportReads, WriteSucceeds, WriteFails, Persist, Failed, files, Typed
  <2>4. registry' \in [Processes -> [Names -> Tools]]
    <3>1. CASE WriteSucceeds(c)
      BY <1>0, <3>1, ToolTyped DEF WriteSucceeds, Registered, Typed
    <3> QED
      BY <1>1, <3>1 DEF Write, WriteBegins, CompileEnds, SandboxSends, SandboxExits,
         SandboxStops, ImportReads, WriteFails, files, Typed
  <2>5. reloads' \in Nat /\ missed' \in BOOLEAN /\ faults' \in 0 .. MaxFaults
    BY <1>1, NotifiedTyped, FaultTyped DEF Write, WriteBegins, CompileEnds, SandboxSends,
       SandboxExits, SandboxStops, ImportReads, WriteSucceeds, WriteFails, Typed
  <2>6. tested' \in SUBSET Calls
    BY <1>1 DEF Write, WriteBegins, CompileEnds, SandboxSends, SandboxExits, SandboxStops,
       ImportReads, WriteSucceeds, WriteFails, Typed
  <2> QED
    BY <1>0, <2>1, <2>2, <2>3, <2>4, <2>5, <2>6 DEF boot, db, Typed, Loading
<1>2. CASE Extend(c)
  <2>1. UNCHANGED <<files, boot, reloads, box, tested, missed>>
    BY <1>2 DEF Extend, Extends, MigrationLooked, MigrationRuns, MigrationInserts, MigrationCommits
  <2>2. schema' \in [Migrations -> Nat] /\ applied' \in SUBSET Migrations
    <3>1. CASE MigrationCommits(c)
      <4>1. \/ UNCHANGED <<schema, applied>>
            \/ /\ schema' = [schema EXCEPT ![call[c].migration] = @ + 1]
               /\ applied' = applied \cup {call[c].migration}
        BY <3>1, Zenon DEF MigrationCommits, db
      <4> QED
        BY <1>0, <4>1 DEF Typed
    <3> QED
      BY <1>2, <3>1 DEF Extend, Extends, MigrationLooked, MigrationRuns, MigrationInserts, db, Typed
  <2>3. faults' \in 0 .. MaxFaults
    BY <1>2, FaultTyped DEF Extend, Extends, MigrationLooked, MigrationRuns, MigrationInserts,
       MigrationCommits
  <2> QED
    BY <1>0, <2>1, <2>2, <2>3 DEF files, boot, Typed, Loading
<1>3. CASE \E n \in Names : Delete(c, n)
  <2>1. PICK n \in Names : Delete(c, n)
    BY <1>3
  <2>2. /\ registry' \in [Processes -> [Names -> Tools]] /\ disk' \in [Names -> Modules]
    BY <1>0, <2>1, ToolTyped DEF Delete, Unregistered, Typed
  <2> QED
    BY <1>0, <2>1, <2>2, NotifiedTyped DEF Delete, boot, db, Typed, Loading
<1> QED
  BY <1>1, <1>2, <1>3

LEMMA InvStep == Inv /\ [Next]_vars => Inv'
<1> SUFFICES ASSUME Inv, [Next]_vars PROVE Inv'
  OBVIOUS
<1>1. CASE UNCHANGED vars
  BY <1>1 DEF vars, files, boot, calls, db, Inv, Typed, Loading
<1> QED
  BY <1>1, LoaderKeeps, BootKeeps, ToolCallKeeps DEF Next

-----------------------------------------------------------------------------
(* Tested modules.  A module whose sandbox has not reported success is      *)
(* nowhere: not in a file, a registry, a loader or a call's hands.          *)

Nowhere(t) ==
    /\ \A n \in Names : disk[n] # t
    /\ \A p \in Processes, n \in Names : registry[p][n] # t
    /\ \A l \in Loaders : load[l].got # t
    /\ \A c \in Calls : call[c].got # t
    /\ box[t].sent # "passed"

TestedInv == \A t \in Calls : t \in tested \/ Nowhere(t)

LEMMA TestedInit == Init => TestedInv
<1> SUFFICES ASSUME Init, NEW t \in Calls PROVE Nowhere(t)
  BY DEF TestedInv
<1>1. \A p \in Processes, n \in Names : registry[p][n] \in {Builtin, Empty}
  BY DEF Init, Only
<1>2. \A l \in Loaders : load[l].got = Empty
  <2>1. [NoLoad EXCEPT !.at = "next"].got = Empty
    BY NothingTyped DEF Load
  <2> QED
    BY <2>1, NothingTyped DEF Init
<1>3. t # Empty /\ t # Builtin
  BY NothingTyped
<1>4. (\A n \in Names : disk[n] = Empty) /\ (\A c \in Calls : call[c].got = Empty)
  BY NothingTyped DEF Init
<1>5. box[t].sent = "nothing"
  BY NothingTyped DEF Init
<1> QED
  BY <1>1, <1>2, <1>3, <1>4, <1>5 DEF Nowhere

\* What the loaders pass on stays in their hands or in the registries.
LEMMA LoaderTested ==
    ASSUME Inv, TestedInv, NEW l \in Loaders, Loader(l) PROVE TestedInv'
<1> SUFFICES ASSUME NEW t \in Calls, Nowhere(t) PROVE Nowhere(t)'
  BY DEF TestedInv, Loader, LoadFile, LoadTool, LoadEnds
<1>0. t # Empty /\ load[l] \in Load
  BY NothingTyped DEF Inv, Typed
<1>1. CASE \E n \in Names : LoadFile(l, n)
  <2>1. PICK n \in Names : LoadFile(l, n)
    BY <1>1
  <2>2. \E k \in {disk[n], load[l].got} : load'[l].got = k
    <3>1. CASE disk[n] # Empty
      BY <2>1, <3>1, FileGot DEF Gets, Inv, Typed
    <3>2. CASE disk[n] = Empty
      BY <2>1, <3>2, FileGone DEF Inv, Typed
    <3> QED
      BY <3>1, <3>2
  <2>3. \A m \in Loaders : m # l => load'[m] = load[m]
    BY <2>1 DEF LoadFile, Inv, Typed
  <2> QED
    BY <2>1, <2>2, <2>3 DEF LoadFile, files, calls, Nowhere
<1>2. CASE LoadTool(l)
  <2>1. load' = [load EXCEPT ![l] = Ready(load[l].todo)]
    BY <1>2 DEF LoadTool, Ready
  <2>2. \A m \in Loaders : load'[m].got # t
    BY <1>0, <2>1, ReadyTyped DEF Nowhere, Inv, Typed, Load
  <2>3. \A p \in Processes, n \in Names : registry'[p][n] # t
    BY <1>2 DEF LoadTool, Registered, Nowhere, Inv, Typed
  <2> QED
    BY <1>2, <2>2, <2>3 DEF LoadTool, calls, Nowhere
<1>3. CASE LoadEnds(l)
  BY <1>0, <1>3, NothingTyped DEF LoadEnds, files, calls, Nowhere, Inv, Typed
<1> QED
  BY <1>1, <1>2, <1>3 DEF Loader

LEMMA BootTested ==
    ASSUME Inv, TestedInv, ReloadBegins \/ BootEnds \/ AgentStarts \/ AgentDies \/ WorkerRestarts
    PROVE  TestedInv'
<1> SUFFICES ASSUME NEW t \in Calls, Nowhere(t) PROVE Nowhere(t)'
  BY DEF TestedInv, ReloadBegins, BootEnds, AgentStarts, AgentDies, WorkerRestarts
<1>0. t # Empty /\ t # Builtin
  BY NothingTyped
<1>1. \A l \in Loaders : load'[l].got # t
  <2>1. Ready(OnDisk).got = Empty /\ NoLoad.got = Empty
    BY ReadyTyped, NothingTyped DEF OnDisk
  <2>2. CASE BootEnds \/ AgentDies
    BY <1>0, <2>1, <2>2 DEF BootEnds, AgentDies, Nowhere, Inv, Typed
  <2>3. CASE ReloadBegins \/ AgentStarts \/ WorkerRestarts
    BY <1>0, <2>1, <2>3 DEF ReloadBegins, AgentStarts, WorkerRestarts, Ready, Nowhere, Inv, Typed
  <2> QED
    BY <2>2, <2>3
<1>2. \A p \in Processes, n \in Names : registry'[p][n] # t
  <2>1. CASE BootEnds
    <3>1. \/ UNCHANGED registry
          \/ registry' = [registry EXCEPT !["agent"] =
                [n \in Names |-> IF n \in Late THEN Builtin ELSE registry["agent"][n]]]
      BY <2>1, Zenon DEF BootEnds
    <3> QED
      BY <1>0, <3>1 DEF Nowhere, Inv, Typed
  <2>2. CASE ReloadBegins
    BY <2>2 DEF ReloadBegins, files, Nowhere
  <2>3. CASE AgentStarts \/ AgentDies \/ WorkerRestarts
    BY <1>0, <2>3 DEF AgentStarts, AgentDies, WorkerRestarts, Only, Nowhere, Inv, Typed
  <2> QED
    BY <2>1, <2>2, <2>3
<1>3. \A c \in Calls : call'[c].got # t
  BY DEF ReloadBegins, BootEnds, AgentStarts, AgentDies, WorkerRestarts, calls, Nowhere, Inv,
     Typed, Call
<1>4. box'[t].sent # "passed"
  BY NothingTyped DEF ReloadBegins, BootEnds, AgentStarts, AgentDies, WorkerRestarts, calls, Nowhere
<1> QED
  BY <1>1, <1>2, <1>3, <1>4 DEF ReloadBegins, BootEnds, AgentStarts, AgentDies, WorkerRestarts,
     files, Nowhere

LEMMA CallTested ==
    ASSUME Inv, TestedInv, NEW c \in Calls, Write(c) \/ Extend(c) \/ \E n \in Names : Delete(c, n)
    PROVE  TestedInv'
<1>0. tested \subseteq tested' /\ UNCHANGED load
  BY DEF Write, WriteBegins, CompileEnds, SandboxSends, SandboxExits, SandboxStops, ImportReads,
     WriteSucceeds, WriteFails, Extend, Extends, MigrationLooked, MigrationRuns,
     MigrationInserts, MigrationCommits, Delete, boot
<1> SUFFICES ASSUME NEW t \in Calls, t \notin tested' PROVE Nowhere(t)'
  BY DEF TestedInv
<1>1. Nowhere(t) /\ t # Empty
  BY <1>0, NothingTyped DEF TestedInv
<1>2. box'[t].sent # "passed"
  <2>1. CASE Write(c)
    BY <1>1, <2>1, BoxKeeps DEF Nowhere, Inv
  <2>2. CASE Extend(c) \/ \E n \in Names : Delete(c, n)
    BY <1>1, <2>2 DEF Extend, Extends, MigrationLooked, MigrationRuns, MigrationInserts,
       MigrationCommits, Delete, Nowhere
  <2> QED
    BY <2>1, <2>2
<1>3. /\ \A n \in Names : disk'[n] # t
      /\ \A p \in Processes, n \in Names : registry'[p][n] # t
      /\ \A d \in Calls : call'[d].got # t
  <2>0. call[c].name \in Names
    BY DEF Inv, Typed, Call
  <2>1. CASE WriteSucceeds(c)
    <3>1. /\ registry' = [registry EXCEPT !["agent"][call[c].name] = call[c].got]
          /\ call' = [call EXCEPT ![c] = Moved(c, "ok", call[c].got)] /\ UNCHANGED disk
      BY <2>1, GoesMoves DEF WriteSucceeds, Registered, CallAts, Inv
    <3> QED
      BY <1>1, <3>1 DEF Nowhere, Moved, Inv, Typed
  <2>2. CASE SandboxExits(c) \/ SandboxStops(c)
    <3>1. \/ /\ box[c].sent = "passed" /\ disk' = [disk EXCEPT ![call[c].name] = c]
             /\ call' = [call EXCEPT ![c] = Moved(c, "import", call[c].got)]
          \/ call' = [call EXCEPT ![c] = Moved(c, "failed", call[c].got)] /\ UNCHANGED disk
      BY <2>2, GoesMoves DEF SandboxExits, SandboxStops, Persist, Failed, CallAts, Inv
    <3>2. UNCHANGED registry
      BY <2>2 DEF SandboxExits, SandboxStops
    <3> QED
      BY <1>1, <3>1, <3>2 DEF Nowhere, Moved, Inv, Typed
  <2>3. CASE ImportReads(c)
    <3>1. call' = [call EXCEPT ![c] = Moved(c, "loaded", disk[call[c].name])] /\ UNCHANGED files
      BY <2>3, ImportMoves DEF ImportReads, Inv
    <3> QED
      BY <1>1, <2>0, <3>1 DEF files, Nowhere, Moved, Inv, Typed
  <2>4. CASE WriteFails(c)
    <3>1. /\ call' = [call EXCEPT ![c] = Moved(c, "failed", call[c].got)]
          /\ disk' = [disk EXCEPT ![call[c].name] = Empty] /\ UNCHANGED registry
      BY <2>4, GoesMoves DEF WriteFails, CallAts, Inv
    <3> QED
      BY <1>1, <3>1 DEF Nowhere, Moved, Inv, Typed
  <2>5. CASE \/ \E n, says \in Names : WriteBegins(c, n, says)
             \/ \E m \in Migrations : Extends(c, m)
    <3>1. \E k \in Call : call' = [call EXCEPT ![c] = k] /\ k.got = Empty
      BY <2>5, WriteBegun, ExtendBegun
    <3> QED
      BY <1>1, <2>5, <3>1 DEF WriteBegins, Extends, files, Nowhere, Inv, Typed
  <2>6. CASE \E n \in Names : Delete(c, n)
    <3>1. PICK n \in Names : Delete(c, n)
      BY <2>6
    <3>2. /\ call' = [call EXCEPT ![c] = Moved(c, "ok", call[c].got)]
          /\ disk' = [disk EXCEPT ![n] = Empty]
          /\ registry' = [registry EXCEPT !["agent"][n] = Empty]
      BY <3>1, GoesMoves DEF Delete, Unregistered, CallAts, Inv
    <3> QED
      BY <1>1, <3>2 DEF Nowhere, Moved, Inv, Typed
  <2>7. CASE \/ CompileEnds(c) \/ \E what \in {"passed", "failed"} : SandboxSends(c, what)
             \/ MigrationLooked(c) \/ MigrationRuns(c) \/ MigrationInserts(c) \/ MigrationCommits(c)
    <3>1. /\ UNCHANGED files
          /\ UNCHANGED call \/ \E a \in CallAts : call' = [call EXCEPT ![c].at = a]
      BY <2>7 DEF CompileEnds, SandboxSends, MigrationLooked, MigrationRuns, MigrationInserts,
         MigrationCommits, Goes, CallAts, calls
    <3>2. UNCHANGED call \/ \E a \in CallAts : call' = [call EXCEPT ![c] = Moved(c, a, call[c].got)]
      BY <3>1, GoesMoves DEF Inv
    <3> QED
      BY <1>1, <3>1, <3>2 DEF files, Nowhere, Moved, Inv, Typed
  <2> QED
    BY <2>1, <2>2, <2>3, <2>4, <2>5, <2>6, <2>7 DEF Write, Extend
<1> QED
  BY <1>0, <1>1, <1>2, <1>3 DEF Nowhere

\* Whatever is on disk, being loaded or registered, in either process, has
\* returned from execute in a sandbox, for any calls that overwrite each
\* other's files and any crashes (tool-writer.ts:219, sandbox-runner.ts:86).
THEOREM UntestedIsNowhere == Spec => []OnlyTested
<1>1. Inv /\ TestedInv /\ [Next]_vars => TestedInv'
  <2> SUFFICES ASSUME Inv, TestedInv, [Next]_vars PROVE TestedInv'
    OBVIOUS
  <2>1. CASE UNCHANGED vars
    BY <2>1 DEF vars, files, boot, calls, TestedInv, Nowhere
  <2> QED
    BY <2>1, LoaderTested, BootTested, CallTested DEF Next
<1>2. TestedInv => OnlyTested
  BY DEF TestedInv, Nowhere, OnlyTested
<1> QED
  BY <1>1, <1>2, InvInit, InvStep, TestedInit, PTL DEF Spec
-----------------------------------------------------------------------------
(* Migrations.  At most one transaction has inserted a name that is not     *)
(* recorded yet; its commit records the name and applies its DDL together.  *)

Inserted(c) == call[c].at = "commit"

MigInv ==
    /\ MigratedOnce
    /\ \A c \in Calls : Inserted(c) =>
         /\ call[c].migration \notin applied
         /\ \A d \in Calls : Inserted(d) /\ call[d].migration = call[c].migration => d = c

LEMMA MigInit == Init => MigInv
BY NothingTyped DEF Init, MigInv, MigratedOnce, Inserted

\* No other step touches the two tables or inserts a name.
LEMMA MigAside ==
    ASSUME Inv, MigInv, UNCHANGED db,
           \A c \in Calls : Inserted(c)' => Inserted(c) /\ call'[c].migration = call[c].migration
    PROVE  MigInv'
BY DEF MigInv, MigratedOnce, Inserted, db

LEMMA ExtendMigrates == ASSUME Inv, MigInv, NEW c \in Calls, Extend(c) PROVE MigInv'
<1> DEFINE m == call[c].migration
<1>0. /\ m \in Migrations /\ call[c].got \in Modules
      /\ \A a \in CallAts : LET k == Moved(c, a, call[c].got)
                          IN  k.at = a /\ k.migration = m /\ [call EXCEPT ![c].at = a] = [call EXCEPT ![c] = k]
  <2>1. m \in Migrations /\ call[c].got \in Modules /\ Typed
    BY DEF Inv, Typed, Call
  <2> QED
    BY <2>1, MovedTyped, GoesMoves
<1>1. ASSUME NEW a \in CallAts, a # "commit", Goes(c, a), UNCHANGED db PROVE MigInv'
  <2>1. \A d \in Calls : Inserted(d)' => Inserted(d) /\ call'[d].migration = call[d].migration
    BY <1>0, <1>1 DEF Goes, Inserted, Inv, Typed
  <2> QED
    BY <1>1, <2>1, MigAside
<1>2. CASE MigrationLooked(c) \/ MigrationRuns(c)
  BY <1>1, <1>2 DEF MigrationLooked, MigrationRuns, CallAts
<1>3. CASE MigrationInserts(c)
  <2>1. CASE m \in applied
    <3>1. Goes(c, "failed") /\ UNCHANGED db
      BY <1>3, <2>1 DEF MigrationInserts
    <3> QED
      BY <1>1, <3>1 DEF CallAts
  <2>2. CASE m \notin applied
    <3>1. /\ UNCHANGED db /\ ~ \E d \in Calls : Inserted(d) /\ call[d].migration = m
          /\ call' = [call EXCEPT ![c] = Moved(c, "commit", call[c].got)]
      BY <1>0, <1>3, <2>2 DEF MigrationInserts, Goes, Inserted, CallAts
    <3>2. Moved(c, "commit", call[c].got).migration = m
      BY <1>0 DEF CallAts
    <3> QED
      BY <2>2, <3>1, <3>2 DEF MigInv, MigratedOnce, Inserted, db, Inv, Typed
  <2> QED
    BY <2>1, <2>2
<1>4. CASE MigrationCommits(c)
  <2>1. CASE Goes(c, "failed") /\ UNCHANGED db
    BY <1>1, <2>1 DEF CallAts
  <2>2. CASE /\ schema' = [schema EXCEPT ![m] = @ + 1] /\ applied' = applied \cup {m} /\ Goes(c, "ok")
    <3>1. /\ m \notin applied /\ schema[m] = 0
          /\ \A d \in Calls : Inserted(d) /\ call[d].migration = m => d = c
      BY <1>0, <1>4 DEF MigrationCommits, MigInv, MigratedOnce, Inserted
    <3>2. \A d \in Calls : Inserted(d)' => d # c /\ Inserted(d) /\ call'[d].migration = call[d].migration
      <4>1. call' = [call EXCEPT ![c] = Moved(c, "ok", call[c].got)] /\ Moved(c, "ok", call[c].got).at = "ok"
        BY <1>0, <2>2 DEF Goes, CallAts
      <4> QED
        BY <4>1 DEF Inserted, Inv, Typed
    <3>3. MigratedOnce'
      BY <1>0, <2>2, <3>1 DEF MigInv, MigratedOnce, Inv, Typed
    <3> QED
      BY <2>2, <3>1, <3>2, <3>3 DEF MigInv
  <2> QED
    BY <1>4, <2>1, <2>2 DEF MigrationCommits
<1>5. CASE \E n \in Migrations : Extends(c, n)
  <2>0. PICK n \in Migrations : Extends(c, n)
    BY <1>5
  <2>1. UNCHANGED db /\ \E k \in Call : call' = [call EXCEPT ![c] = k] /\ k.at = "check"
    <3>1. \E k \in Call : call' = [call EXCEPT ![c] = k] /\ k.at = "check"
      BY <2>0, ExtendBegun
    <3> QED
      BY <2>0, <3>1 DEF Extends
  <2>2. \A d \in Calls : Inserted(d)' => Inserted(d) /\ call'[d].migration = call[d].migration
    BY <2>1 DEF Inserted, Inv, Typed
  <2> QED
    BY <2>1, <2>2, MigAside
<1> QED
  BY <1>2, <1>3, <1>4, <1>5 DEF Extend

LEMMA OthersMigrateNothing ==
    ASSUME Inv, MigInv,
           \/ \E l \in Loaders : Loader(l)
           \/ ReloadBegins \/ BootEnds \/ AgentStarts \/ AgentDies \/ WorkerRestarts
           \/ \E c \in Calls : Write(c) \/ \E n \in Names : Delete(c, n)
    PROVE  MigInv'
<1>1. UNCHANGED db
  BY DEF Loader, LoadFile, LoadTool, LoadEnds, ReloadBegins, BootEnds, AgentStarts, AgentDies,
     WorkerRestarts, Write, WriteBegins, CompileEnds, SandboxSends, SandboxExits, SandboxStops,
     ImportReads, WriteSucceeds, WriteFails, Delete
<1>2. \A c \in Calls : Inserted(c)' => Inserted(c) /\ call'[c].migration = call[c].migration
  <2>1. CASE AgentDies
    <3>1. \A c \in Calls : [call[c] EXCEPT !.at = "dead"].at = "dead"
      BY DEF Inv, Typed, Call
    <3> QED
      BY <2>1, <3>1 DEF AgentDies, Inserted, Settled
  <2>2. CASE (\E l \in Loaders : Loader(l)) \/ ReloadBegins \/ BootEnds \/ AgentStarts \/ WorkerRestarts
    <3>1. UNCHANGED call
      BY <2>2 DEF Loader, LoadFile, LoadTool, LoadEnds, ReloadBegins, BootEnds, AgentStarts,
         WorkerRestarts, calls
    <3> QED
      BY <3>1 DEF Inserted
  <2>3. ASSUME NEW c \in Calls, Write(c) \/ \E n \in Names : Delete(c, n)
        PROVE  \A d \in Calls : Inserted(d)' => Inserted(d) /\ call'[d].migration = call[d].migration
    <3>1. \A d \in Calls : d # c => call'[d] = call[d]
      BY <2>3, CallKeeps
    <3>2. \/ UNCHANGED call
          \/ call'[c].at # "commit"
      <4>1. CASE \E n, says \in Names : WriteBegins(c, n, says)
        <5>1. \E k \in Call : call' = [call EXCEPT ![c] = k] /\ k.at \in {"failed", "compile"}
          BY <4>1, WriteBegun
        <5> QED
          BY <5>1 DEF Inv, Typed
      <4>2. CASE ImportReads(c)
        <5>1. call' = [call EXCEPT ![c] = Moved(c, "loaded", disk[call[c].name])]
          BY <4>2, ImportMoves DEF Inv
        <5> QED
          BY <5>1 DEF Moved, Inv, Typed
      <4>3. CASE \/ CompileEnds(c) \/ SandboxExits(c) \/ SandboxStops(c) \/ WriteSucceeds(c)
                 \/ WriteFails(c) \/ \E n \in Names : Delete(c, n)
        <5>1. \E a \in CallAts : a # "commit" /\ call' = [call EXCEPT ![c].at = a]
          BY <4>3 DEF CompileEnds, SandboxExits, SandboxStops, WriteSucceeds, WriteFails, Delete,
             Persist, Failed, CallAts
        <5>2. \E a \in CallAts : a # "commit" /\ call' = [call EXCEPT ![c] = Moved(c, a, call[c].got)]
          BY <5>1, GoesMoves DEF Inv
        <5> QED
          BY <5>2 DEF Moved, Inv, Typed
      <4>4. CASE \E what \in {"passed", "failed"} : SandboxSends(c, what)
        BY <4>4 DEF SandboxSends
      <4> QED
        BY <2>3, <4>1, <4>2, <4>3, <4>4 DEF Write
    <3> QED
      BY <3>1, <3>2 DEF Inserted
  <2> QED
    BY <2>1, <2>2, <2>3
<1> QED
  BY <1>1, <1>2, MigAside

\* A migration's DDL was committed once for its record, and never without,
\* for any number of calls that apply it, whose insert or commit may throw or
\* whose process may die (schema-extend.ts:76).
THEOREM DDLMatchesRecord == Spec => []MigratedOnce
<1>1. Inv /\ MigInv /\ [Next]_vars => MigInv'
  <2> SUFFICES ASSUME Inv, MigInv, [Next]_vars PROVE MigInv'
    OBVIOUS
  <2>1. CASE UNCHANGED vars
    BY <2>1 DEF vars, calls, db, MigInv, MigratedOnce, Inserted
  <2> QED
    BY <2>1, ExtendMigrates, OthersMigrateNothing DEF Next
<1>2. MigInv => MigratedOnce
  BY DEF MigInv
<1> QED
  BY <1>1, <1>2, InvInit, InvStep, MigInit, PTL DEF Spec
-----------------------------------------------------------------------------
(* The worker.  Until a change is missed, each file is registered in its    *)
(* version on disk, or something is still to come that will see to it.      *)

\* The running job is about to register an older version of the file.
Stale(n) ==
    load["job"].at = "got" /\ load["job"].file = n /\ load["job"].got # disk[n]

Fresh(n) ==
    load["job"].at = "got" /\ load["job"].file = n /\ load["job"].got = disk[n]

Writing(c) == call[c].at \in {"import", "loaded"}

Covered(n) ==
    \/ registry["worker"][n] = disk[n] /\ ~Stale(n)
    \/ reloads > 0
    \/ n \in load["job"].todo
    \/ Fresh(n)
    \/ \E c \in Calls : Writing(c) /\ call[c].name = n

CaughtInv ==
    ~missed => /\ load["worker"].todo = {} /\ load["worker"].at # "got"
               /\ \A n \in Names : disk[n] # Empty => Covered(n)

LEMMA CaughtInit == Init => CaughtInv
<1> SUFFICES ASSUME Init PROVE CaughtInv
  OBVIOUS
<1>1. \A n \in Names : disk[n] = Empty
  BY DEF Init
<1>2. [NoLoad EXCEPT !.at = "next"].at = "next" /\ [NoLoad EXCEPT !.at = "next"].todo = {}
  BY NothingTyped DEF Load
<1>3. load["worker"] = [NoLoad EXCEPT !.at = "next"]
  BY DEF Init, Loaders
<1> QED
  BY <1>1, <1>2, <1>3 DEF CaughtInv

LEMMA CaughtAside ==
    ASSUME CaughtInv, UNCHANGED <<disk, reloads, missed>>,
           registry'["worker"] = registry["worker"],
           load'["job"] = load["job"], load'["worker"] = load["worker"],
           ~missed => \A c \in Calls : Writing(c) => Writing(c)' /\ call'[c].name = call[c].name
    PROVE  CaughtInv'
BY DEF CaughtInv, Covered, Stale, Fresh, Writing

\* A job that has read the file, or registers what it has read.
LEMMA JobCatchesUp == ASSUME Inv, CaughtInv, NEW l \in Loaders, Loader(l) PROVE CaughtInv'
<1> SUFFICES ASSUME ~missed, ~missed' PROVE CaughtInv'
  <2>1. ~missed' => ~missed
    BY DEF Loader, LoadFile, LoadTool, LoadEnds
  <2> QED
    BY <2>1 DEF CaughtInv
<1>0. /\ UNCHANGED <<disk, reloads, call>> /\ load[l] \in Load
      /\ load["worker"].todo = {} /\ load["worker"].at # "got"
      /\ {"worker", "job"} \subseteq Loaders /\ "worker" \in Processes
      /\ \A n \in Names : disk[n] # Empty => Covered(n)
      /\ \A m \in Loaders : m # l => load'[m] = load[m]
  BY DEF Loader, LoadFile, LoadTool, LoadEnds, CaughtInv, files, calls, Inv, Typed, Loaders, Processes
<1>1. CASE l = "agent"
  <2>1. \/ UNCHANGED registry
        \/ \E n, t : registry' = [registry EXCEPT !["agent"][n] = t]
    BY <1>1, Zenon DEF Loader, LoadFile, LoadTool, LoadEnds, Registered, Process, files
  <2>2. registry'["worker"] = registry["worker"]
    BY <1>0, <2>1 DEF Inv, Typed
  <2>3. load'["job"] = load["job"] /\ load'["worker"] = load["worker"]
    BY <1>0, <1>1
  <2> QED
    BY <1>0, <2>2, <2>3 DEF CaughtInv, Covered, Stale, Fresh, Writing
<1>2. CASE l = "worker"
  <2>1. LoadEnds(l)
    BY <1>0, <1>2 DEF Loader, LoadFile, LoadTool
  <2>2. load' = [load EXCEPT !["worker"] = NoLoad] /\ UNCHANGED registry
    BY <1>2, <2>1 DEF LoadEnds, files
  <2>3. load'["worker"] = NoLoad /\ load'["job"] = load["job"]
    BY <1>0, <2>2 DEF Inv, Typed
  <2> QED
    BY <1>0, <2>2, <2>3, NothingTyped DEF CaughtInv, Covered, Stale, Fresh, Writing
<1>3. CASE l = "job"
  <2>0. load'["worker"] = load["worker"]
    BY <1>0, <1>3
  <2> SUFFICES ASSUME NEW n \in Names, disk[n] # Empty PROVE Covered(n)'
    BY <1>0, <2>0 DEF CaughtInv
  <2>1. Covered(n)
    BY <1>0
  <2>2. ASSUME NEW f \in Names, LoadFile(l, f) PROVE Covered(n)'
    <3>0. UNCHANGED registry /\ load["job"].at = "next"
      BY <1>3, <2>2 DEF LoadFile, files
    <3>1. CASE disk[f] # Empty
      <4>1. load'["job"] = Gets("job", f)
        BY <1>0, <1>3, <2>2, <3>1, FileGot DEF Inv, Typed
      <4>2. /\ load'["job"].todo = load["job"].todo \ {f} /\ load'["job"].at = "got"
            /\ load'["job"].file = f /\ load'["job"].got = disk[f]
        BY <4>1 DEF Gets
      <4> QED
        BY <1>0, <2>1, <3>0, <4>2 DEF Covered, Stale, Fresh, Writing
    <3>2. CASE disk[f] = Empty
      <4>1. load'["job"].todo = load["job"].todo \ {f} /\ load'["job"].at = "next"
        BY <1>0, <1>3, <2>2, <3>0, <3>2, FileGone DEF Inv, Typed
      <4> QED
        BY <1>0, <2>1, <3>0, <3>2, <4>1 DEF Covered, Stale, Fresh, Writing
    <3> QED
      BY <3>1, <3>2
  <2>3. CASE LoadTool(l)
    <3>1. load' = [load EXCEPT !["job"] = Ready(load["job"].todo)]
      BY <1>3, <2>3 DEF LoadTool, Ready
    <3>2. load'["job"].at = "next" /\ load'["job"].todo = load["job"].todo
      BY <1>0, <1>3, <3>1, ReadyTyped DEF Inv, Typed, Load
    <3>3. /\ load["job"].at = "got"
          /\ registry' = [registry EXCEPT !["worker"][load["job"].file] = load["job"].got]
      BY <1>3, <2>3 DEF LoadTool, Registered, Process
    <3>4. \A m \in Names : registry'["worker"][m] = IF m = load["job"].file THEN load["job"].got
                                                   ELSE registry["worker"][m]
      BY <1>0, <3>3 DEF Inv, Typed
    <3> QED
      BY <1>0, <2>1, <3>2, <3>3, <3>4 DEF Covered, Stale, Fresh, Writing
  <2>4. CASE LoadEnds(l)
    <3>1. load'["job"] = NoLoad /\ UNCHANGED registry /\ load["job"].todo = {} /\ load["job"].at = "next"
      BY <1>0, <1>3, <2>4 DEF LoadEnds, files, Inv, Typed
    <3> QED
      BY <1>0, <2>1, <3>1, NothingTyped DEF Covered, Stale, Fresh, Writing
  <2> QED
    BY <2>2, <2>3, <2>4 DEF Loader
<1> QED
  BY <1>1, <1>2, <1>3 DEF Loaders

LEMMA BootCaught ==
    ASSUME Inv, CaughtInv, ReloadBegins \/ BootEnds \/ AgentStarts \/ AgentDies \/ WorkerRestarts
    PROVE  CaughtInv'
<1>0. {"worker", "job", "agent"} \subseteq Loaders /\ {"worker", "agent"} \subseteq Processes
  BY DEF Loaders, Processes
<1>1. CASE ReloadBegins
  <2>1. load'["job"] = Ready(OnDisk) /\ load'["worker"] = load["worker"]
    BY <1>0, <1>1 DEF ReloadBegins, Ready, Inv, Typed
  <2>2. load'["job"].todo = OnDisk
    BY <2>1, ReadyTyped DEF OnDisk
  <2>3. UNCHANGED <<disk, missed>>
    BY <1>1 DEF ReloadBegins, files
  <2>4. \A n \in Names : disk[n] # Empty => Covered(n)'
    BY <2>2 DEF OnDisk, Covered
  <2> QED
    BY <2>1, <2>3, <2>4 DEF CaughtInv
<1>2. CASE BootEnds \/ AgentStarts
  <2>1. /\ UNCHANGED <<disk, reloads, missed, call>>
        /\ load'["job"] = load["job"] /\ load'["worker"] = load["worker"]
    BY <1>0, <1>2 DEF BootEnds, AgentStarts, calls, Inv, Typed
  <2>2. \E r : UNCHANGED registry \/ registry' = [registry EXCEPT !["agent"] = r]
    BY <1>2, Zenon DEF BootEnds, AgentStarts
  <2>3. registry'["worker"] = registry["worker"]
    BY <1>0, <2>2 DEF Inv, Typed
  <2> QED
    BY <2>1, <2>3, CaughtAside DEF Writing
<1>3. CASE AgentDies
  <2>1. /\ UNCHANGED <<disk, reloads>> /\ registry'["worker"] = registry["worker"]
        /\ load'["job"] = load["job"] /\ load'["worker"] = load["worker"]
    BY <1>0, <1>3 DEF AgentDies, Inv, Typed
  <2>2. ~missed' => ~missed /\ \A c \in Calls : ~Writing(c)
    BY <1>3 DEF AgentDies, Writing
  <2> QED
    BY <2>1, <2>2 DEF CaughtInv, Covered, Stale, Fresh
<1>4. CASE WorkerRestarts
  BY <1>4 DEF WorkerRestarts, CaughtInv
<1> QED
  BY <1>1, <1>2, <1>3, <1>4

\* A call that changes a file is in its import, or has told the worker.
LEMMA CallCaught ==
    ASSUME Inv, CaughtInv, NEW c \in Calls, Write(c) \/ Extend(c) \/ \E n \in Names : Delete(c, n)
    PROVE  CaughtInv'
<1>0. /\ UNCHANGED load /\ call[c].name \in Names /\ Typed
      /\ {"worker", "agent"} \subseteq Processes
      /\ \A d \in Calls : d # c => call'[d] = call[d]
  <2>1. UNCHANGED load
    BY DEF Write, WriteBegins, CompileEnds, SandboxSends, SandboxExits, SandboxStops, ImportReads,
       WriteSucceeds, WriteFails, Extend, Extends, MigrationLooked, MigrationRuns,
       MigrationInserts, MigrationCommits, Delete, boot
  <2> QED
    BY <2>1, CallKeeps DEF Inv, Typed, Call, Processes
<1>1. CASE WriteSucceeds(c) \/ \E n \in Names : Delete(c, n)
  <2>1. Notified
    BY <1>1 DEF WriteSucceeds, Delete
  <2>2. missed' \/ (reloads' > 0 /\ UNCHANGED missed)
    BY <1>0, <2>1 DEF Notified, Typed
  <2> QED
    BY <1>0, <2>2 DEF CaughtInv, Covered
<1>2. CASE SandboxExits(c) /\ box[c].sent = "passed"
  <2>0. PICK f \in Names : f = call[c].name
    BY <1>0
  <2>1. /\ disk' = [disk EXCEPT ![call[c].name] = c] /\ UNCHANGED <<registry, reloads, missed>>
        /\ call' = [call EXCEPT ![c] = Moved(c, "import", call[c].got)]
    BY <1>0, <1>2, GoesMoves DEF SandboxExits, Persist, boot, CallAts
  <2>2. call'[c].at = "import" /\ call'[c].name = call[c].name
    BY <1>0, <2>1 DEF Moved, Typed
  <2>3. ~Writing(c)
    BY <1>2 DEF SandboxExits, Writing
  <2>4. \A d \in Calls : Writing(d) => Writing(d)' /\ call'[d].name = call[d].name
    BY <1>0, <2>3 DEF Writing
  <2>5. Covered(f)'
    BY <2>0, <2>2 DEF Covered, Writing
  <2>6. \A n \in Names : n # f => disk'[n] = disk[n]
    BY <1>0, <2>0, <2>1 DEF Typed
  <2>7. ASSUME ~missed, NEW n \in Names, n # f, disk'[n] # Empty PROVE Covered(n)'
    <3>1. Covered(n)
      BY <2>6, <2>7 DEF CaughtInv
    <3> QED
      BY <1>0, <2>1, <2>4, <2>6, <2>7, <3>1 DEF Covered, Stale, Fresh
  <2> QED
    BY <1>0, <2>1, <2>5, <2>7 DEF CaughtInv
<1>3. CASE WriteFails(c)
  <2>1. disk' = [disk EXCEPT ![call[c].name] = Empty] /\ UNCHANGED <<registry, reloads, missed>>
    BY <1>3 DEF WriteFails
  <2>2. \A n \in Names : n # call[c].name => disk'[n] = disk[n]
    BY <1>0, <2>1 DEF Typed
  <2>3. disk'[call[c].name] = Empty
    BY <1>0, <2>1 DEF Typed
  <2>4. ASSUME ~missed, NEW n \in Names, disk'[n] # Empty PROVE Covered(n)'
    <3>1. Covered(n) /\ n # call[c].name
      BY <2>2, <2>3, <2>4 DEF CaughtInv
    <3>2. \A d \in Calls : Writing(d) /\ call[d].name = n => Writing(d)' /\ call'[d].name = n
      BY <1>0, <3>1 DEF Writing
    <3> QED
      BY <1>0, <2>1, <2>2, <3>1, <3>2 DEF Covered, Stale, Fresh
  <2> QED
    BY <1>0, <2>1, <2>4 DEF CaughtInv
<1>4. CASE ImportReads(c)
  <2>1. UNCHANGED <<files, reloads, missed>> /\ call' = [call EXCEPT ![c] = Moved(c, "loaded", disk[call[c].name])]
    BY <1>0, <1>4, ImportMoves DEF ImportReads
  <2>2. call'[c].at = "loaded" /\ call'[c].name = call[c].name
    BY <1>0, <2>1 DEF Moved, Typed
  <2>3. \A d \in Calls : Writing(d) => Writing(d)' /\ call'[d].name = call[d].name
    BY <1>0, <2>2 DEF Writing
  <2> QED
    BY <1>0, <2>1, <2>3, CaughtAside DEF files
<1>5. CASE \/ \E n, says \in Names : WriteBegins(c, n, says)
           \/ CompileEnds(c) \/ \E what \in {"passed", "failed"} : SandboxSends(c, what)
           \/ (SandboxExits(c) /\ box[c].sent # "passed") \/ SandboxStops(c) \/ Extend(c)
  <2>1. ~Writing(c)
    BY <1>5 DEF WriteBegins, Idle, CompileEnds, SandboxSends, SandboxExits, SandboxStops, Extend,
       Extends, MigrationLooked, MigrationRuns, MigrationInserts, MigrationCommits, Writing
  <2>2. UNCHANGED <<disk, registry, reloads, missed>>
    BY <1>5 DEF WriteBegins, CompileEnds, SandboxSends, SandboxExits, SandboxStops, Failed, Extend,
       Extends, MigrationLooked, MigrationRuns, MigrationInserts, MigrationCommits, files
  <2>3. \A d \in Calls : Writing(d) => Writing(d)' /\ call'[d].name = call[d].name
    BY <1>0, <2>1 DEF Writing
  <2> QED
    BY <1>0, <2>2, <2>3, CaughtAside
<1> QED
  BY <1>1, <1>2, <1>3, <1>4, <1>5 DEF Write

\* When everything has come to rest the worker has each file's tool, in the
\* version on disk, unless it missed a change: also when a job read a file
\* before it was written again (worker.ts:113, tool-loader.ts:30).
THEOREM WorkerHasTheFiles == Spec => []WorkerCaughtUp
<1>1. Inv /\ CaughtInv /\ [Next]_vars => CaughtInv'
  <2> SUFFICES ASSUME Inv, CaughtInv, [Next]_vars PROVE CaughtInv'
    OBVIOUS
  <2>1. CASE UNCHANGED vars
    <3>1. UNCHANGED <<disk, reloads, missed, registry, load, call>>
      BY <2>1 DEF vars, files, boot, calls
    <3> QED
      BY <3>1, CaughtAside DEF Writing
  <2> QED
    BY <2>1, JobCatchesUp, BootCaught, CallCaught DEF Next
<1>2. Inv /\ CaughtInv => WorkerCaughtUp
  <2> SUFFICES ASSUME Inv, CaughtInv, Quiet, ~missed, NEW n \in Names, disk[n] # Empty
               PROVE  registry["worker"][n] = disk[n]
    BY DEF WorkerCaughtUp
  <2>1. Covered(n)
    BY DEF CaughtInv
  <2>2. load["job"].at = "idle" /\ load["job"].todo = {}
    BY DEF Quiet, Inv, Loading, Loaders
  <2>3. \A c \in Calls : ~Writing(c)
    BY DEF Quiet, Settled, Writing
  <2> QED
    BY <2>1, <2>2, <2>3 DEF Covered, Fresh, Quiet
<1> QED
  BY <1>1, <1>2, InvInit, InvStep, CaughtInit, PTL DEF Spec
-----------------------------------------------------------------------------
(* Reload jobs.  One job at most waits or runs for each call that ended in  *)
(* success: the queue does not grow without one.                            *)

Done == {c \in Calls : call[c].at = "ok"}
Busy == IF load["job"].at = "idle" THEN 0 ELSE 1

JobsCounted == reloads + Busy <= Cardinality(Done)

LEMMA DoneFinite == IsFiniteSet(Done) /\ Cardinality(Done) \in Nat
<1>1. IsFiniteSet(Done)
  BY ToolBuildAssumption, FS_Subset DEF Done
<1> QED
  BY <1>1, FS_CardinalityType

LEMMA OneMore ==
    ASSUME NEW c \in Calls, c \notin Done, Done' = Done \cup {c}
    PROVE  Cardinality(Done') = Cardinality(Done) + 1
BY DoneFinite, FS_AddElement

LEMMA BusyCounted == Cardinality({l \in {"job"} : load[l].at # "idle"}) = Busy
<1>1. CASE load["job"].at = "idle"
  <2>1. {l \in {"job"} : load[l].at # "idle"} = {}
    BY <1>1
  <2> QED
    BY <1>1, <2>1, FS_EmptySet DEF Busy
<1>2. CASE load["job"].at # "idle"
  <2>1. {l \in {"job"} : load[l].at # "idle"} = {"job"}
    BY <1>2
  <2> QED
    BY <1>2, <2>1, FS_Singleton DEF Busy
<1> QED
  BY <1>1, <1>2

LEMMA JobsInit == Init => JobsCounted
<1> SUFFICES ASSUME Init PROVE JobsCounted
  OBVIOUS
<1>1. load["job"] = NoLoad
  BY DEF Init, Loaders
<1> QED
  BY <1>1, NothingTyped, DoneFinite DEF JobsCounted, Busy, Init

LEMMA ProcessesCount ==
    ASSUME Inv, JobsCounted,
           \/ \E l \in Loaders : Loader(l)
           \/ ReloadBegins \/ BootEnds \/ AgentStarts \/ AgentDies \/ WorkerRestarts
    PROVE  JobsCounted'
<1>0. "job" \in Loaders /\ "agent" \in Loaders /\ "worker" \in Loaders
  BY DEF Loaders
<1>1. Done' = Done
  <2>1. CASE AgentDies
    <3>1. \A c \in Calls : call[c] \in Call
      BY DEF Inv, Typed
    <3> QED
      BY <2>1, <3>1 DEF AgentDies, Done, Settled, Call
  <2>2. CASE (\E l \in Loaders : Loader(l)) \/ ReloadBegins \/ BootEnds \/ AgentStarts \/ WorkerRestarts
    BY <2>2 DEF Loader, LoadFile, LoadTool, LoadEnds, ReloadBegins, BootEnds, AgentStarts,
       WorkerRestarts, calls, Done
  <2> QED
    BY <2>1, <2>2
<1>2. reloads' + Busy' <= reloads + Busy
  <2>0. reloads \in Nat /\ Busy \in {0, 1} /\ Busy' \in {0, 1}
    BY DEF Inv, Typed, Busy
  <2>1. CASE ReloadBegins
    <3>1. load["job"].at = "idle" /\ reloads' = reloads - 1
      BY <2>1 DEF ReloadBegins
    <3> QED
      BY <2>0, <3>1 DEF Busy
  <2>2. CASE WorkerRestarts
    <3>1. load'["job"] = NoLoad
      BY <1>0, <2>2 DEF WorkerRestarts, Inv, Typed
    <3>2. reloads' = IF load["job"].at = "idle" THEN reloads ELSE reloads + 1
      BY <2>2 DEF WorkerRestarts
    <3> QED
      BY <2>0, <3>1, <3>2, NothingTyped DEF Busy
  <2>3. CASE BootEnds \/ AgentStarts \/ AgentDies
    <3>1. load'["job"] = load["job"] /\ UNCHANGED reloads
      BY <1>0, <2>3 DEF BootEnds, AgentStarts, AgentDies, Inv, Typed
    <3> QED
      BY <2>0, <3>1 DEF Busy
  <2>4. CASE \E l \in Loaders : Loader(l)
    <3>1. PICK l \in Loaders : Loader(l)
      BY <2>4
    <3>2. UNCHANGED reloads
      BY <3>1 DEF Loader, LoadFile, LoadTool, LoadEnds
    <3>3. load["job"].at = "idle" => load'["job"].at = "idle"
      <4>1. load[l].at # "idle" /\ \A m \in Loaders : m # l => load'[m] = load[m]
        BY <3>1 DEF Loader, LoadFile, LoadTool, LoadEnds, Inv, Typed
      <4> QED
        BY <1>0, <4>1
    <3> QED
      BY <2>0, <3>2, <3>3 DEF Busy
  <2> QED
    BY <2>1, <2>2, <2>3, <2>4
<1> QED
  <2>0. Inv'
    BY LoaderKeeps, BootKeeps
  <2>1. reloads \in Nat /\ reloads' \in Nat /\ Cardinality(Done) \in Nat
    BY <2>0, DoneFinite DEF Inv, Typed
  <2>2. PICK b, d \in Nat : b = Busy /\ d = Busy'
    BY DEF Busy
  <2>3. PICK r, q \in Nat : r = reloads /\ q = reloads'
    BY <2>1
  <2>4. r + b <= Cardinality(Done) /\ q + d <= r + b
    BY <1>2, <2>2, <2>3, Zenon DEF JobsCounted
  <2>5. q + d <= Cardinality(Done)
    BY <2>1, <2>4
  <2> QED
    BY <1>1, <2>2, <2>3, <2>5, Zenon DEF JobsCounted

LEMMA CallsCount ==
    ASSUME Inv, JobsCounted, NEW c \in Calls,
           Write(c) \/ Extend(c) \/ \E n \in Names : Delete(c, n)
    PROVE  JobsCounted'
<1>0. /\ Typed /\ call' \in [Calls -> Call] /\ \A d \in Calls : d # c => call'[d] = call[d]
      /\ reloads \in Nat /\ Cardinality(Done) \in Nat /\ Busy \in {0, 1}
  BY CallKeeps, DoneFinite DEF Inv, Typed, Busy
<1>1. Busy' = Busy
  BY DEF Write, WriteBegins, CompileEnds, SandboxSends, SandboxExits, SandboxStops, ImportReads,
     WriteSucceeds, WriteFails, Extend, Extends, MigrationLooked, MigrationRuns,
     MigrationInserts, MigrationCommits, Delete, boot, Busy
<1>2. Done' = IF call'[c].at = "ok" THEN Done \cup {c} ELSE Done \ {c}
  BY <1>0 DEF Done
<1>3. call[c].at # "ok"  \/ UNCHANGED call
  BY DEF Write, WriteBegins, Idle, CompileEnds, SandboxSends, SandboxExits, SandboxStops,
     ImportReads, WriteSucceeds, WriteFails, Extend, Extends, MigrationLooked, MigrationRuns,
     MigrationInserts, MigrationCommits, Delete
<1>4. Cardinality(Done) <= Cardinality(Done') /\ Cardinality(Done') \in Nat
  <2>1. CASE UNCHANGED call
    BY <1>0, <2>1 DEF Done
  <2>2. CASE c \notin Done
    <3>1. Done' = Done \/ Done' = Done \cup {c}
      BY <1>2, <2>2
    <3> QED
      BY <1>0, <2>2, <3>1, OneMore
  <2> QED
    BY <1>3, <2>1, <2>2 DEF Done
<1>5. CASE UNCHANGED reloads
  BY <1>0, <1>1, <1>4, <1>5 DEF JobsCounted
<1>6. CASE WriteSucceeds(c) \/ \E n \in Names : Delete(c, n)
  <2>1. call[c].at # "ok" /\ call' = [call EXCEPT ![c].at = "ok"] /\ Notified
    BY <1>6 DEF WriteSucceeds, Delete, Idle
  <2>2. call'[c].at = "ok"
    BY <1>0, <2>1 DEF Typed, Call
  <2>3. Cardinality(Done') = Cardinality(Done) + 1
    BY <1>2, <2>1, <2>2, OneMore DEF Done
  <2>4. reloads' \in Nat /\ reloads' <= reloads + 1
    BY <1>0, <2>1 DEF Notified
  <2> QED
    BY <1>0, <1>1, <2>3, <2>4 DEF JobsCounted
<1>7. UNCHANGED reloads \/ WriteSucceeds(c) \/ \E n \in Names : Delete(c, n)
  BY DEF Write, WriteBegins, CompileEnds, SandboxSends, SandboxExits, SandboxStops, ImportReads,
     WriteFails, Extend, Extends, MigrationLooked, MigrationRuns, MigrationInserts, MigrationCommits
<1> QED
  BY <1>5, <1>6, <1>7

\* Every reachable state has the types of the state in the code, and a
\* reload job that waits or runs was added by a call that changed a file.
THEOREM TypeCorrect == Spec => []TypeOK
<1>1. Inv /\ JobsCounted /\ [Next]_vars => JobsCounted'
  <2> SUFFICES ASSUME Inv, JobsCounted, [Next]_vars PROVE JobsCounted'
    OBVIOUS
  <2>1. CASE UNCHANGED vars
    BY <2>1 DEF vars, boot, calls, JobsCounted, Busy, Done
  <2> QED
    BY <2>1, ProcessesCount, CallsCount DEF Next
<1>2. Inv /\ JobsCounted => TypeOK
  BY BusyCounted DEF Inv, Typed, JobsCounted, Done, TypeOK
<1> QED
  BY <1>1, <1>2, InvInit, InvStep, JobsInit, PTL DEF Spec
=============================================================================
