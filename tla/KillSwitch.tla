----------------------------- MODULE KillSwitch -----------------------------
(* The kill switch: a row of agent_state that operators and the boot write *)
(* (activateKillSwitch, deactivateKillSwitch), its audit rows, and the     *)
(* guards that read it before every LLM and tool call.  A guard keeps what *)
(* it read for TTL; each process part has a guard of its own               *)
(* (packages/ai/src/kill-switch.ts).                                       *)
EXTENDS Naturals, FiniteSets

CONSTANTS
    Writers,    \* operators at the CLI or the dashboard, and the boot
    Callers,    \* who asks a guard before a call
    Guards,     \* KillSwitchGuard objects
    TTL,        \* how long a guard keeps what it read
    MaxTime,    \* bound: the clock
    MaxWrites,  \* bound: activations and deactivations
    MaxLost     \* bound: audit inserts that fail

ASSUME KillSwitchAssumption ==
    /\ TTL \in Nat \ {0} /\ MaxTime \in Nat /\ MaxWrites \in Nat /\ MaxLost \in Nat
    /\ IsFiniteSet(Writers)

VARIABLES
    switch,     \* agent_state 'kill_switch': "none", "active" or "inactive"
    audit,      \* kill_switch_audit: how many rows name each action
    writer,     \* writer -> its activateKillSwitch or deactivateKillSwitch
    cache,      \* guard -> cachedState
    ask,        \* caller -> its isActive call
    clock,      \* Date.now()
    since,      \* history: when the switch last changed
    made,       \* history: how often each action was written to the row
    lost        \* history: audit rows that could not be inserted

switchRows == <<switch, audit, since, made, lost>>
switchVars == <<switchRows, writer, cache, ask, clock>>

Actions == {"active", "inactive"}
Times   == 0 .. MaxTime + TTL

Writer == [at: {"idle", "select", "write", "audit"}, set: Actions, exists: BOOLEAN]
Entry  == [known: BOOLEAN, active: BOOLEAN, expires: Times]
Ask    == [at: {"idle", "select", "store", "told"}, guard: Guards,
           active: BOOLEAN, expires: Times]

NoWriter == [at |-> "idle", set |-> "active", exists |-> FALSE]
NoEntry  == [known |-> FALSE, active |-> FALSE, expires |-> 0]
NoAsk    == [at |-> "idle", guard |-> CHOOSE g \in Guards : TRUE,
             active |-> FALSE, expires |-> 0]

SwitchInit ==
    /\ switch = "none"
    /\ audit = [a \in Actions |-> 0]
    /\ writer = [w \in Writers |-> NoWriter]
    /\ cache = [g \in Guards |-> NoEntry]
    /\ ask = [c \in Callers |-> NoAsk]
    /\ clock = 0 /\ since = 0 /\ lost = 0
    /\ made = [a \in Actions |-> 0]

IsOn == switch = "active"

-----------------------------------------------------------------------------
(* activateKillSwitch and deactivateKillSwitch: look, write, record. *)

\* The CLI, the dashboard's route or resume calls one of the two.
Begin(w, a) ==
    /\ writer[w].at = "idle"
    /\ made["active"] + made["inactive"] + Cardinality({v \in Writers : writer[v].at # "idle"}) < MaxWrites
    /\ writer' = [writer EXCEPT ![w] = [at |-> "select", set |-> a, exists |-> FALSE]]
    /\ UNCHANGED <<switchRows, cache, ask, clock>>

\* enforceStartupStopped: activates unless the row says active already.
EnforceStartupStopped(w) ==
    /\ ~IsOn
    /\ Begin(w, "active")

LookForRow(w) ==
    /\ writer[w].at = "select"
    /\ writer' = [writer EXCEPT ![w].at = "write", ![w].exists = switch # "none"]
    /\ UNCHANGED <<switchRows, cache, ask, clock>>

\* Mutant: the insert that finds the key taken is ignored.
BugWriteRow(w) ==
    /\ writer[w].at = "write"
    /\ writer' = [writer EXCEPT ![w].at = "audit"]
    /\ IF ~writer[w].exists /\ switch # "none"
       THEN UNCHANGED <<switch, since, made>>
       ELSE /\ switch' = writer[w].set
            /\ since' = IF switch = writer[w].set THEN since ELSE clock
            /\ made' = [made EXCEPT ![writer[w].set] = @ + 1]
    /\ UNCHANGED <<audit, lost, cache, ask, clock>>

\* Update when the row was there, else insert; the key is unique, so the
\* insert of a row that has come meanwhile throws and nothing is recorded.
WriteRow(w) ==
    /\ writer[w].at = "write"
    /\ IF ~writer[w].exists /\ switch # "none"
       THEN /\ writer' = [writer EXCEPT ![w].at = "idle"]
            /\ UNCHANGED <<switch, since, made>>
       ELSE /\ writer' = [writer EXCEPT ![w].at = "audit"]
            /\ switch' = writer[w].set
            /\ since' = IF switch = writer[w].set THEN since ELSE clock
            /\ made' = [made EXCEPT ![writer[w].set] = @ + 1]
    /\ UNCHANGED <<audit, lost, cache, ask, clock>>

RecordWrite(w) ==
    /\ writer[w].at = "audit"
    /\ writer' = [writer EXCEPT ![w].at = "idle"]
    /\ \/ /\ audit' = [audit EXCEPT ![writer[w].set] = @ + 1]
          /\ UNCHANGED lost
       \/ /\ lost < MaxLost
          /\ lost' = lost + 1
          /\ UNCHANGED audit
    /\ UNCHANGED <<switch, since, made, cache, ask, clock>>

-----------------------------------------------------------------------------
(* KillSwitchGuard.isActive, called by assertActive. *)

Fresh(g) == cache[g].known /\ clock < cache[g].expires

\* The cached state answers at once; otherwise the time is taken, then the
\* row is selected.
AskGuard(c, g) ==
    /\ ask[c].at = "idle"
    /\ ask' = [ask EXCEPT ![c] =
         IF Fresh(g)
         THEN [at |-> "told", guard |-> g, active |-> cache[g].active, expires |-> 0]
         ELSE [at |-> "select", guard |-> g, active |-> FALSE, expires |-> clock + TTL]]
    /\ UNCHANGED <<switchRows, writer, cache, clock>>

\* The database reads the row.
ReadRow(c) ==
    /\ ask[c].at = "select"
    /\ ask' = [ask EXCEPT ![c].at = "store", ![c].active = IsOn]
    /\ UNCHANGED <<switchRows, writer, cache, clock>>

\* Mutant: the time of expiry is taken when the answer arrives.
BugStoreAnswer(c) ==
    /\ ask[c].at = "store"
    /\ cache' = [cache EXCEPT ![ask[c].guard] =
         [known |-> TRUE, active |-> ask[c].active, expires |-> clock + TTL]]
    /\ ask' = [ask EXCEPT ![c].at = "told"]
    /\ UNCHANGED <<switchRows, writer, clock>>

\* The answer arrives and is kept until the time taken at the start and TTL.
StoreAnswer(c) ==
    /\ ask[c].at = "store"
    /\ cache' = [cache EXCEPT ![ask[c].guard] =
         [known |-> TRUE, active |-> ask[c].active, expires |-> ask[c].expires]]
    /\ ask' = [ask EXCEPT ![c].at = "told"]
    /\ UNCHANGED <<switchRows, writer, clock>>

TimePasses ==
    /\ clock < MaxTime
    /\ clock' = clock + 1
    /\ UNCHANGED <<switchRows, writer, cache, ask>>

\* assertActive returns or throws: the caller goes on.
Told(c) == ask[c].at = "told"

WriterStep ==
    \E w \in Writers :
        \/ \E a \in Actions : Begin(w, a)
        \/ EnforceStartupStopped(w)
        \/ LookForRow(w) \/ WriteRow(w) \/ RecordWrite(w)

GuardStep == \E c \in Callers : ReadRow(c) \/ StoreAnswer(c)

-----------------------------------------------------------------------------
SwitchTypeOK ==
    /\ switch \in Actions \cup {"none"}
    /\ audit \in [Actions -> Nat] /\ made \in [Actions -> Nat]
    /\ writer \in [Writers -> Writer]
    /\ cache \in [Guards -> Entry]
    /\ ask \in [Callers -> Ask]
    /\ clock \in 0 .. MaxTime /\ since \in 0 .. MaxTime
    /\ lost \in 0 .. MaxLost

\* A guard that answers from its cache is wrong about the row for less than
\* TTL after the change, however long the select that filled the cache took
\* and whichever of two overlapping selects was stored last
\* (kill-switch.ts:27-45).
KillTakesEffect ==
    \A g \in Guards :
        Fresh(g) /\ cache[g].active # IsOn => clock < since + TTL

\* Every activation and deactivation of the row has its audit row, is about
\* to insert it or failed to; a call that did not change the row has none
\* (kill-switch-audit.ts:5, kill-switch.ts:89-104).
AuditAccounts ==
    LET Recording(a) == {w \in Writers : writer[w].at = "audit" /\ writer[w].set = a}
    IN  /\ \A a \in Actions : audit[a] + Cardinality(Recording(a)) <= made[a]
        /\ made["active"] + made["inactive"] =
              audit["active"] + audit["inactive"] + lost
                + Cardinality(Recording("active")) + Cardinality(Recording("inactive"))
=============================================================================
