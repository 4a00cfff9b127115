----------------------------- MODULE ToolBuild ------------------------------
(* The tools the agent makes for itself: tool_write compiles and tests a   *)
(* tool in a child process, writes it to agent-tools/ and puts it in the   *)
(* agent's registry, tool_delete takes it out, schema_extend applies a     *)
(* migration (tool-writer.ts, sandbox-runner.ts, schema-extend.ts).  The   *)
(* files are loaded when the agent or the worker process starts, and again *)
(* by the worker when a reload-tools job tells it (tool-loader.ts,         *)
(* worker.ts, index.ts).                                                   *)
EXTENDS Naturals, FiniteSets

CONSTANTS
    Calls,      \* calls of the three tools, by goals, sub-agents and the chat
    Authored,   \* names no built-in tool has
    Early,      \* built-in tools registered before the files are loaded
    Late,       \* built-in tools registered after: browser and self-extension
    Migrations, \* migration names
    MaxFaults,  \* bound: crashes, imports and sends that fail
    Empty, Builtin  \* no tool; a tool of the source code

ASSUME ToolBuildAssumption ==
    /\ MaxFaults \in Nat /\ Calls # {} /\ IsFiniteSet(Calls)
    /\ Authored # {} /\ Migrations # {}
    /\ {Empty, Builtin} \cap Calls = {} /\ Empty # Builtin

VARIABLES
    disk,     \* name -> the module in agent-tools/<name>.mjs
    registry, \* process -> name -> its tool
    builtin,  \* names tool_write and tool_delete hold for built-in
    agent,    \* the agent process: "down", "loading" or "up"
    load,     \* loader -> loadPersistedTools
    reloads,  \* reload-tools jobs that wait
    call,     \* call -> where it is
    box,      \* call -> its sandbox process
    schema,   \* migration -> how often its DDL was committed
    applied,  \* agent_migrations
    tested,   \* history: modules whose sandbox test passed
    missed,   \* history: the worker was not told of a change, could not load
              \* a file, loaded one that says another name, or died
    faults    \* crashes and failures so far

files == <<disk, registry>>
boot  == <<builtin, agent, load>>
calls == <<call, box>>
db    == <<schema, applied>>
vars  == <<files, boot, reloads, calls, db, tested, missed, faults>>

Names == Authored \cup Early \cup Late

\* A module is known by the call that wrote it.
Modules == Calls \cup {Empty}
Tools   == Modules \cup {Builtin}

Processes == {"agent", "worker"}
Loaders   == {"agent", "worker", "job"}  \* the worker's own, and its jobs'

Call == [at: {"idle", "compile", "sandbox", "import", "loaded", "ok", "failed", "dead",
              "check", "ddl", "insert", "commit"},
         name: Names, says: Names, got: Modules, migration: Migrations]
Box  == [up: BOOLEAN, sent: {"nothing", "passed", "failed"}]
Load == [at: {"idle", "next", "got"}, todo: SUBSET Names, file: Names, got: Modules]

NoBox  == [up |-> FALSE, sent |-> "nothing"]
NoLoad == [at |-> "idle", todo |-> {}, file |-> CHOOSE n \in Names : TRUE, got |-> Empty]
NoCall == [at |-> "idle", name |-> CHOOSE n \in Names : TRUE, says |-> CHOOSE n \in Names : TRUE,
           got |-> Empty, migration |-> CHOOSE m \in Migrations : TRUE]

Settled     == {"idle", "ok", "failed", "dead"}
Only(names) == [n \in Names |-> IF n \in names THEN Builtin ELSE Empty]
Held(p)     == {n \in Names : registry[p][n] # Empty}
OnDisk      == {n \in Names : disk[n] # Empty}

\* Both processes start; there are no files yet.
Init ==
    /\ disk = [n \in Names |-> Empty]
    /\ registry = [p \in Processes |-> Only(Early)]
    /\ builtin = {} /\ agent = "loading"
    /\ load = [l \in Loaders |-> IF l = "job" THEN NoLoad ELSE [NoLoad EXCEPT !.at = "next"]]
    /\ reloads = 0
    /\ call = [c \in Calls |-> NoCall]
    /\ box = [c \in Calls |-> NoBox]
    /\ schema = [m \in Migrations |-> 0] /\ applied = {}
    /\ tested = {} /\ missed = FALSE /\ faults = 0

Fault == faults < MaxFaults /\ faults' = faults + 1

-----------------------------------------------------------------------------
(* ToolRegistry. *)

Unregistered(p, n) == registry' = [registry EXCEPT ![p][n] = Empty]

\* unregister, then register.
Registered(p, n, t) == registry' = [registry EXCEPT ![p][n] = t]

-----------------------------------------------------------------------------
(* loadPersistedTools, by the agent's boot, the worker's and its jobs. *)

Process(l) == IF l = "agent" THEN "agent" ELSE "worker"

\* The import of a listed file reads it; a file that is gone or does not
\* import is skipped.
LoadFile(l, n) ==
    /\ load[l].at = "next" /\ n \in load[l].todo
    /\ load' = IF disk[n] = Empty
               THEN [load EXCEPT ![l].todo = @ \ {n}]
               ELSE [load EXCEPT ![l].todo = @ \ {n}, ![l].at = "got",
                                 ![l].file = n, ![l].got = disk[n]]
    /\ UNCHANGED <<files, builtin, agent, reloads, calls, db, tested, missed, faults>>

Says(l) == call[load[l].got].says

\* The tool goes by the name it says, not by that of the file: a module that
\* a tool_write is about to reject can take the place of another.
LoadTool(l) ==
    /\ load[l].at = "got"
    /\ load' = [load EXCEPT ![l] = [NoLoad EXCEPT !.at = "next", !.todo = load[l].todo]]
    /\ \/ /\ Registered(Process(l), Says(l), load[l].got)
          /\ missed' = (missed \/ Says(l) # load[l].file)
          /\ UNCHANGED faults
       \/ Fault /\ missed' = TRUE /\ UNCHANGED registry
    /\ UNCHANGED <<disk, builtin, agent, reloads, calls, db, tested>>

LoadEnds(l) ==
    /\ load[l].at = "next" /\ load[l].todo = {}
    /\ load' = [load EXCEPT ![l] = NoLoad]
    /\ l # "agent"
    /\ UNCHANGED <<files, builtin, agent, reloads, calls, db, tested, missed, faults>>

\* Mutant: a job that comes while one is running does nothing.
BugReloadBegins ==
    /\ reloads > 0
    /\ reloads' = reloads - 1
    /\ IF load["job"].at = "idle"
       THEN load' = [load EXCEPT !["job"] = [NoLoad EXCEPT !.at = "next", !.todo = OnDisk]]
       ELSE UNCHANGED load
    /\ UNCHANGED <<files, builtin, agent, calls, db, tested, missed, faults>>

\* The reload worker takes one job at a time.
ReloadBegins ==
    /\ reloads > 0 /\ load["job"].at = "idle"
    /\ reloads' = reloads - 1
    /\ load' = [load EXCEPT !["job"] = [NoLoad EXCEPT !.at = "next", !.todo = OnDisk]]
    /\ UNCHANGED <<files, builtin, agent, calls, db, tested, missed, faults>>

\* The agent's files are loaded: the names now registered are taken for the
\* built-in ones, and the late tools are registered; register throws on a
\* name that is taken, and main ends.
BootEnds ==
    /\ agent = "loading" /\ load["agent"].at = "next" /\ load["agent"].todo = {}
    /\ load' = [load EXCEPT !["agent"] = NoLoad]
    /\ builtin' = Held("agent")
    /\ IF \E n \in Late : registry["agent"][n] # Empty
       THEN /\ agent' = "down" /\ UNCHANGED registry
       ELSE /\ agent' = "up"
            /\ registry' = [registry EXCEPT !["agent"] =
                              [n \in Names |-> IF n \in Late THEN Builtin ELSE @[n]]]
    /\ UNCHANGED <<disk, reloads, calls, db, tested, missed, faults>>

AgentStarts ==
    /\ agent = "down"
    /\ agent' = "loading"
    /\ registry' = [registry EXCEPT !["agent"] = Only(Early)]
    /\ load' = [load EXCEPT !["agent"] = [NoLoad EXCEPT !.at = "next", !.todo = OnDisk]]
    /\ UNCHANGED <<disk, builtin, reloads, calls, db, tested, missed, faults>>

-----------------------------------------------------------------------------
(* tool_write. *)

Idle(c) == agent = "up" /\ call[c].at = "idle"

\* A name held for built-in is refused at once.  The module's tool may say
\* another name than the call.
WriteBegins(c, n, says) ==
    /\ Idle(c)
    /\ call' = [call EXCEPT ![c] = [NoCall EXCEPT !.name = n, !.says = says,
                  !.at = IF n \in builtin THEN "failed" ELSE "compile"]]
    /\ UNCHANGED <<files, boot, reloads, box, db, tested, missed, faults>>

\* compileTypeScript, then a sandbox process is forked.
CompileEnds(c) ==
    /\ call[c].at = "compile"
    /\ \/ /\ call' = [call EXCEPT ![c].at = "sandbox"]
          /\ box' = [box EXCEPT ![c] = [NoBox EXCEPT !.up = TRUE]]
       \/ /\ call' = [call EXCEPT ![c].at = "failed"]
          /\ UNCHANGED box
    /\ UNCHANGED <<files, boot, reloads, db, tested, missed, faults>>

\* The harness sends what execute returned or threw; the first message counts.
SandboxSends(c, what) ==
    /\ call[c].at = "sandbox" /\ box[c].up /\ box[c].sent = "nothing"
    /\ box' = [box EXCEPT ![c].sent = what]
    /\ tested' = IF what = "passed" THEN tested \cup {c} ELSE tested
    /\ UNCHANGED <<files, boot, reloads, call, db, missed, faults>>

\* Step 3: the files are written, and the import is begun.
Persist(c) ==
    /\ disk' = [disk EXCEPT ![call[c].name] = c]
    /\ call' = [call EXCEPT ![c].at = "import"]

Failed(c) == call' = [call EXCEPT ![c].at = "failed"] /\ UNCHANGED disk

\* Mutant: an exit without a message is taken for a test that passed.
BugSandboxExits(c) ==
    /\ call[c].at = "sandbox" /\ box[c].up
    /\ box' = [box EXCEPT ![c].up = FALSE]
    /\ IF box[c].sent # "failed" THEN Persist(c) ELSE Failed(c)
    /\ UNCHANGED <<registry, boot, reloads, db, tested, missed, faults>>

\* 'exit': the first message decides, no message is a failure.
SandboxExits(c) ==
    /\ call[c].at = "sandbox" /\ box[c].up
    /\ box' = [box EXCEPT ![c].up = FALSE]
    /\ IF box[c].sent = "passed" THEN Persist(c) ELSE Failed(c)
    /\ UNCHANGED <<registry, boot, reloads, db, tested, missed, faults>>

\* The timer kills the process, whatever it has sent; or 'error' comes.
SandboxStops(c) ==
    /\ call[c].at = "sandbox" /\ box[c].up
    /\ box' = [box EXCEPT ![c].up = FALSE]
    /\ Failed(c)
    /\ UNCHANGED <<registry, boot, reloads, db, tested, missed, faults>>

\* The import reads the file, which may be another call's by now.
ImportReads(c) ==
    /\ call[c].at = "import"
    /\ call' = [call EXCEPT ![c].at = "loaded", ![c].got = disk[call[c].name]]
    /\ UNCHANGED <<files, boot, reloads, box, db, tested, missed, faults>>

\* onToolChange: a reload job is added, without waiting for it.
Notified ==
    \/ reloads' = reloads + 1 /\ UNCHANGED <<missed, faults>>
    \/ Fault /\ missed' = TRUE /\ UNCHANGED reloads

\* The module imported and says the name of the call: it is registered.
WriteSucceeds(c) ==
    /\ call[c].at = "loaded" /\ call[c].got # Empty
    /\ call[call[c].got].says = call[c].name
    /\ Registered("agent", call[c].name, call[c].got)
    /\ Notified
    /\ call' = [call EXCEPT ![c].at = "ok"]
    /\ UNCHANGED <<disk, boot, box, db, tested>>

\* Mutant: the worker is told of a write that failed.
BugWriteNotified(c) ==
    /\ call[c].at = "loaded"
    /\ call[c].got # Empty /\ call[call[c].got].says = call[c].name => faults < MaxFaults
    /\ disk' = [disk EXCEPT ![call[c].name] = Empty]
    /\ call' = [call EXCEPT ![c].at = "failed"]
    /\ Notified
    /\ UNCHANGED <<registry, boot, box, db, tested>>

\* The import throws, or the module's tool says another name: the files are
\* removed.
WriteFails(c) ==
    /\ call[c].at = "loaded"
    /\ IF call[c].got # Empty /\ call[call[c].got].says = call[c].name
       THEN Fault ELSE UNCHANGED faults
    /\ disk' = [disk EXCEPT ![call[c].name] = Empty]
    /\ call' = [call EXCEPT ![c].at = "failed"]
    /\ UNCHANGED <<registry, boot, reloads, box, db, tested, missed>>

-----------------------------------------------------------------------------
(* tool_delete. *)

Delete(c, n) ==
    /\ Idle(c) /\ n \notin builtin
    /\ call' = [call EXCEPT ![c].at = "ok"]
    /\ Unregistered("agent", n)
    /\ disk' = [disk EXCEPT ![n] = Empty]
    /\ Notified
    /\ UNCHANGED <<boot, box, db, tested>>

-----------------------------------------------------------------------------
(* schema_extend: applyAgentMigration in one transaction. *)

Goes(c, at) == call' = [call EXCEPT ![c].at = at]

Extends(c, m) ==
    /\ Idle(c)
    /\ call' = [call EXCEPT ![c] = [NoCall EXCEPT !.at = "check", !.migration = m]]
    /\ UNCHANGED <<files, boot, reloads, box, db, tested, missed, faults>>

\* A recorded migration is rolled back to nothing and reported as applied.
MigrationLooked(c) ==
    /\ call[c].at = "check"
    /\ Goes(c, IF call[c].migration \in applied THEN "ok" ELSE "ddl")
    /\ UNCHANGED <<files, boot, reloads, box, db, tested, missed, faults>>

\* The DDL runs inside the transaction, or throws.
MigrationRuns(c) ==
    /\ call[c].at = "ddl"
    /\ \/ Goes(c, "insert")
       \/ Goes(c, "failed")
    /\ UNCHANGED <<files, boot, reloads, box, db, tested, missed, faults>>

\* The name is unique: the insert waits for a transaction that has inserted
\* it, and throws when that one commits.
MigrationInserts(c) ==
    /\ call[c].at = "insert"
    /\ ~ \E d \in Calls : call[d].at = "commit" /\ call[d].migration = call[c].migration
    /\ Goes(c, IF call[c].migration \in applied THEN "failed" ELSE "commit")
    /\ UNCHANGED <<files, boot, reloads, box, db, tested, missed, faults>>

\* Mutant: the row is written outside the transaction, after the commit.
BugMigrationCommits(c) ==
    /\ call[c].at = "commit"
    /\ schema' = [schema EXCEPT ![call[c].migration] = @ + 1]
    /\ \/ applied' = applied \cup {call[c].migration} /\ Goes(c, "ok") /\ UNCHANGED faults
       \/ Fault /\ Goes(c, "failed") /\ UNCHANGED applied
    /\ UNCHANGED <<files, boot, reloads, box, tested, missed>>

MigrationCommits(c) ==
    /\ call[c].at = "commit"
    /\ \/ /\ schema' = [schema EXCEPT ![call[c].migration] = @ + 1]
          /\ applied' = applied \cup {call[c].migration}
          /\ Goes(c, "ok") /\ UNCHANGED faults
       \/ Fault /\ Goes(c, "failed") /\ UNCHANGED db
    /\ UNCHANGED <<files, boot, reloads, box, tested, missed>>

-----------------------------------------------------------------------------
\* The agent process dies: its calls and their sandboxes end, transactions
\* are rolled back.
AgentDies ==
    /\ agent # "down" /\ Fault
    /\ agent' = "down"
    /\ registry' = [registry EXCEPT !["agent"] = Only({})]
    /\ load' = [load EXCEPT !["agent"] = NoLoad]
    /\ call' = [c \in Calls |-> IF call[c].at \in Settled THEN call[c]
                                ELSE [call[c] EXCEPT !.at = "dead"]]
    /\ box' = [c \in Calls |-> NoBox]
    /\ missed' = (missed \/ \E c \in Calls : call[c].at \in {"import", "loaded"})
    /\ UNCHANGED <<disk, builtin, reloads, db, tested>>

\* The worker process restarts: it loads the files anew while a job that was
\* running waits again.
WorkerRestarts ==
    /\ Fault
    /\ registry' = [registry EXCEPT !["worker"] = Only(Early)]
    /\ load' = [load EXCEPT !["worker"] = [NoLoad EXCEPT !.at = "next", !.todo = OnDisk],
                            !["job"] = NoLoad]
    /\ reloads' = IF load["job"].at = "idle" THEN reloads ELSE reloads + 1
    /\ missed' = TRUE
    /\ UNCHANGED <<disk, builtin, agent, calls, db, tested>>

Loader(l) == (\E n \in Names : LoadFile(l, n)) \/ LoadTool(l) \/ LoadEnds(l)

Write(c) ==
    \/ \E n, says \in Names : WriteBegins(c, n, says)
    \/ CompileEnds(c)
    \/ \E what \in {"passed", "failed"} : SandboxSends(c, what)
    \/ SandboxExits(c) \/ SandboxStops(c)
    \/ ImportReads(c) \/ WriteSucceeds(c) \/ WriteFails(c)

Extend(c) ==
    \/ \E m \in Migrations : Extends(c, m)
    \/ MigrationLooked(c) \/ MigrationRuns(c) \/ MigrationInserts(c) \/ MigrationCommits(c)

Next ==
    \/ \E l \in Loaders : Loader(l)
    \/ ReloadBegins \/ BootEnds \/ AgentStarts
    \/ \E c \in Calls : Write(c) \/ Extend(c) \/ \E n \in Names : Delete(c, n)
    \/ AgentDies \/ WorkerRestarts

Spec == Init /\ [][Next]_vars

-----------------------------------------------------------------------------
(* Properties. *)

TypeOK ==
    /\ disk \in [Names -> Modules] /\ registry \in [Processes -> [Names -> Tools]]
    /\ builtin \in SUBSET Names /\ agent \in {"down", "loading", "up"}
    /\ load \in [Loaders -> Load] /\ reloads \in Nat
    /\ reloads + Cardinality({l \in {"job"} : load[l].at # "idle"})
          <= Cardinality({c \in Calls : call[c].at = "ok"})
    /\ call \in [Calls -> Call] /\ box \in [Calls -> Box]
    /\ schema \in [Migrations -> Nat] /\ applied \in SUBSET Migrations
    /\ tested \in SUBSET Calls /\ missed \in BOOLEAN /\ faults \in 0 .. MaxFaults

\* Whatever is on disk, being loaded or registered, in either process, has
\* returned from execute in a sandbox: also when a call loads what another
\* one wrote (tool-writer.ts:219, sandbox-runner.ts:86).
OnlyTested ==
    \A t \in Calls :
        \/ t \in tested
        \/ /\ \A n \in Names : disk[n] # t
           /\ \A p \in Processes, n \in Names : registry[p][n] # t
           /\ \A l \in Loaders : load[l].got # t

Quiet ==
    /\ \A c \in Calls : call[c].at \in Settled
    /\ \A l \in Loaders : load[l].at = "idle"
    /\ reloads = 0 /\ agent = "up"

\* When everything has come to rest the worker has each file's tool, in the
\* version on disk, unless it missed a change (worker.ts:113).
WorkerCaughtUp ==
    Quiet /\ ~missed =>
        \A n \in Names : disk[n] # Empty => registry["worker"][n] = disk[n]

\* A migration's DDL was committed once for its record, and never without,
\* whoever else applies it (schema-extend.ts:76).
MigratedOnce ==
    \A m \in Migrations : schema[m] = IF m \in applied THEN 1 ELSE 0

\* "Authored tools persist across restarts and reload on boot"
\* (README.md:53): a tool in use has its file.
AuthoredPersist ==
    Quiet /\ ~missed =>
        \A n \in Names : registry["agent"][n] \in Calls => disk[n] = registry["agent"][n]
=============================================================================
