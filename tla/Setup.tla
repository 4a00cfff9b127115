------------------------------- MODULE Setup --------------------------------
(* The setup of the dashboard: the OpenRouter key, the connection of a      *)
(* GitHub account by OAuth and the repository bound to it (routes/setup.ts, *)
(* routes/github-oauth-callback.ts), which the agent trusts when it changes *)
(* its own code (github-trust-guard.ts).  The handlers share the table      *)
(* setup_state without a transaction; any of them may run at the same time. *)
EXTENDS Naturals, Sequences, FiniteSets

CONSTANTS
    Users, Repos,
    CanWrite,   \* {<<user, repository>>}: who may push where
    Flows,      \* OAuth flows, each with its POST .../github/start
    KeyPosts,   \* calls of POST /api/setup/openrouter with a valid key
    Callbacks,  \* calls of GET /setup/github/callback
    Binds,      \* calls of POST /api/setup/github/bind
    Trusts,     \* loops of the agent that ask for the trusted context
    Views,      \* dashboards that GET /api/setup
    MaxFaults,  \* bound: calls that break off
    None        \* null

ASSUME SetupAssumption ==
    /\ CanWrite \subseteq Users \X Repos /\ MaxFaults \in Nat
    /\ None \notin Users \cup Repos \cup Flows
    /\ KeyPosts \cap (Callbacks \cup Binds \cup Trusts \cup Views) = {}
    /\ Callbacks \cap (Binds \cup Trusts \cup Views) = {}
    /\ Binds \cap (Trusts \cup Views) = {} /\ Trusts \cap Views = {}

VARIABLES
    config,     \* agent_state 'config:github_oauth', or the environment's
    keyStored,  \* agent_state 'config:openrouter_api_key'
    rows,       \* setup_state, by id
    creds,      \* flow -> the row of credentials its callback inserts
    flows,      \* flow -> its row of oauth_state
    call,       \* call -> where its handler is and what it has read
    exchanges,  \* history: how often the code of a flow was exchanged
    torn,       \* history: "token": a callback was not alone or broke off
                \* since the last rotation; "repo": a bind was under way when
                \* an account was connected, until a connection after it
                \* leaves no row bound
    faults      \* calls that broke off

db   == <<config, keyStored, rows, creds, flows>>
hist == <<exchanges, torn, faults>>
vars == <<db, call, hist>>

Row  == [key: BOOLEAN, connected: BOOLEAN, user: Users \cup {None},
         cred: Flows \cup {None}, repo: Repos \cup {None}, stamp: BOOLEAN]
NoRow == [key |-> FALSE, connected |-> FALSE, user |-> None,
          cred |-> None, repo |-> None, stamp |-> FALSE]

Calls == KeyPosts \cup Callbacks \cup Binds \cup Trusts \cup Views

Frame == [at: {"idle", "done", "write", "setup-look", "setup-write",
               "exchange", "rotate", "token", "decrypt", "check", "active",
               "trusted", "view"},
          id: Nat,                  \* the row read, or 0
          key: BOOLEAN,             \* its openrouterKeySet
          full: BOOLEAN,            \* it is connected and bound
          found: BOOLEAN,           \* what was looked for is there
          read: SUBSET {"row", "key"},
          flow: Flows \cup {None},  \* the flow, or the row's token
          user: Users \cup {None}, repo: Repos \cup {None}, clean: BOOLEAN]
NoFrame == [at |-> "idle", id |-> 0, key |-> FALSE, full |-> FALSE, found |-> FALSE,
            read |-> {}, flow |-> None, user |-> None, repo |-> None, clean |-> TRUE]

Init ==
    /\ config \in BOOLEAN /\ keyStored = FALSE
    /\ rows = <<>>
    /\ creds = [f \in Flows |-> [status |-> "none", user |-> None]]
    /\ flows = [f \in Flows |-> "none"]
    /\ call = [c \in Calls |-> NoFrame]
    /\ exchanges = [f \in Flows |-> 0] /\ torn = {} /\ faults = 0

At(c, at)   == call[c].at = at
Goes(c, at) == call' = [call EXCEPT ![c].at = at]
Ends(c)     == call' = [call EXCEPT ![c] = [NoFrame EXCEPT !.at = "done"]]

\* select().from(setupState).limit(1): the first row, in no order.
ReadIds == IF rows = <<>> THEN {0} ELSE DOMAIN rows
RowOf(i) == IF i = 0 THEN NoRow ELSE rows[i]

Bound(row) == row.repo # None
Full(row)  == row.connected /\ Bound(row)

-----------------------------------------------------------------------------
(* POST /api/setup/openrouter; a key OpenRouter refuses changes nothing.    *)

KeyLook(c) ==
    /\ At(c, "idle")
    /\ call' = [call EXCEPT ![c].at = "write", ![c].found = keyStored]
    /\ UNCHANGED <<db, hist>>

\* The insert of a key that has come meanwhile throws.
KeyWrite(c) ==
    /\ At(c, "write")
    /\ IF ~call[c].found /\ keyStored THEN Ends(c) ELSE Goes(c, "setup-look")
    /\ keyStored' = TRUE
    /\ UNCHANGED <<config, rows, creds, flows, hist>>

SetupLook(c) ==
    /\ At(c, "setup-look")
    /\ \E i \in ReadIds :
          call' = [call EXCEPT ![c].at = "setup-write", ![c].id = i, ![c].full = Full(RowOf(i))]
    /\ UNCHANGED <<db, hist>>

KeySetupWrite(c) ==
    /\ At(c, "setup-write") /\ Ends(c)
    /\ rows' = IF call[c].id = 0 THEN Append(rows, [NoRow EXCEPT !.key = TRUE])
               ELSE [rows EXCEPT ![call[c].id].key = TRUE,
                                    ![call[c].id].stamp = call[c].full]
    /\ UNCHANGED <<config, keyStored, creds, flows, hist>>

-----------------------------------------------------------------------------
(* POST /api/setup/github/start. *)

\* The configuration of the OAuth app is in the request, or known.  What
\* comes before the insert of the state is taken with it: only starts read
\* and write the configuration, and it is never removed.
Start(f, given) ==
    /\ flows[f] = "none" /\ (given \/ config)
    /\ config' = TRUE
    /\ flows' = [flows EXCEPT ![f] = "open"]
    /\ UNCHANGED <<keyStored, rows, creds, call, hist>>

\* Ten minutes pass.
Expire(f) ==
    /\ flows[f] = "open"
    /\ flows' = [flows EXCEPT ![f] = "over"]
    /\ UNCHANGED <<config, keyStored, rows, creds, call, hist>>

-----------------------------------------------------------------------------
(* GET /setup/github/callback. *)

\* The browser comes back with the state of a flow, perhaps not the first
\* time: one UPDATE looks and consumes.
Consume(c, f) ==
    /\ At(c, "idle") /\ flows[f] # "none"
    /\ IF flows[f] = "open"
       THEN /\ flows' = [flows EXCEPT ![f] = "over"]
            /\ call' = [call EXCEPT ![c].at = "exchange", ![c].flow = f]
       ELSE Ends(c) /\ UNCHANGED flows
    /\ UNCHANGED <<config, keyStored, rows, creds, hist>>

\* GitHub gives a token and its user, or refuses one or the other.
Exchange(c) ==
    /\ At(c, "exchange")
    /\ exchanges' = [exchanges EXCEPT ![call[c].flow] = @ + 1]
    /\ \/ Ends(c)
       \/ \E u \in Users : call' = [call EXCEPT ![c].at = "rotate", ![c].user = u]
    /\ UNCHANGED <<db, torn, faults>>

\* Callbacks that have rotated the token and not yet written the setup row.
Connecting == {c \in Callbacks : call[c].at \in {"token", "setup-look", "setup-write"}}

Rotate(c) ==
    /\ At(c, "rotate") /\ Goes(c, "token")
    /\ creds' = [f \in Flows |-> [creds[f] EXCEPT
                    !.status = IF @ = "active" THEN "rotated" ELSE @]]
    /\ torn' = IF Connecting = {} THEN torn \ {"token"} ELSE torn \cup {"token"}
    /\ UNCHANGED <<config, keyStored, rows, flows, exchanges, faults>>

InsertToken(c) ==
    /\ At(c, "token") /\ Goes(c, "setup-look")
    /\ creds' = [creds EXCEPT ![call[c].flow] = [status |-> "active", user |-> call[c].user]]
    /\ UNCHANGED <<config, keyStored, rows, flows, hist>>

\* Mutant: the first token is kept.
BugFirstToken(c, row) ==
    [row EXCEPT !.connected = TRUE,
                !.user = IF row.cred = None THEN call[c].user ELSE row.user,
                !.cred = IF row.cred = None THEN call[c].flow ELSE row.cred,
                !.repo = None, !.stamp = FALSE]

\* Mutant: the token's row is the active one, whoever has inserted it.
BugActiveToken(c, row) ==
    LET active == {f \in Flows : creds[f].status = "active"}
    IN  [row EXCEPT !.connected = TRUE, !.user = call[c].user,
                    !.cred = IF active = {} THEN call[c].flow ELSE CHOOSE f \in active : TRUE,
                    !.repo = None, !.stamp = FALSE]

\* The row of an account that is connected: bound to nothing yet.
Connected(c, row) ==
    [row EXCEPT !.connected = TRUE, !.user = call[c].user, !.cred = call[c].flow,
                !.repo = None, !.stamp = FALSE]

\* The states that have been consumed or have expired are deleted after it;
\* no handler tells them from states that are not there.
ConnectWrite(c) ==
    /\ At(c, "setup-write") /\ Ends(c)
    /\ rows' = IF call[c].id = 0 THEN Append(rows, Connected(c, NoRow))
               ELSE [rows EXCEPT ![call[c].id] = Connected(c, @)]
    /\ torn' = IF \E b \in Binds : call[b].at \in {"decrypt", "check", "write"}
               THEN torn \cup {"repo"}
               ELSE IF \E i \in DOMAIN rows : i # call[c].id /\ Bound(rows[i])
               THEN torn ELSE torn \ {"repo"}
    /\ UNCHANGED <<config, keyStored, creds, flows, exchanges, faults>>

-----------------------------------------------------------------------------
(* POST /api/setup/github/bind; GET .../repos reads the same and ends. *)

\* Without a connected account the request is refused.
BindRead(c) ==
    /\ At(c, "idle")
    /\ \E i \in DOMAIN rows :
          /\ rows[i].connected /\ rows[i].cred # None
          /\ call' = [call EXCEPT ![c].at = "decrypt", ![c].id = i,
                                  ![c].flow = rows[i].cred, ![c].key = rows[i].key]
    /\ UNCHANGED <<db, hist>>

BindDecrypt(c) ==
    /\ At(c, "decrypt")
    /\ LET cred == creds[call[c].flow]
       IN  IF cred.status = "active"
           THEN call' = [call EXCEPT ![c].at = "check", ![c].user = cred.user]
           ELSE Ends(c)
    /\ UNCHANGED <<db, hist>>

\* GitHub says whether the user of the token may push.
BindCheck(c) ==
    /\ At(c, "check")
    /\ \/ Ends(c)
       \/ \E r \in Repos :
             /\ <<call[c].user, r>> \in CanWrite
             /\ call' = [call EXCEPT ![c].at = "write", ![c].repo = r]
    /\ UNCHANGED <<db, hist>>

BindWrite(c) ==
    /\ At(c, "write") /\ Ends(c)
    /\ rows' = [rows EXCEPT ![call[c].id].repo = call[c].repo,
                            ![call[c].id].stamp = call[c].key]
    /\ UNCHANGED <<config, keyStored, creds, flows, hist>>

-----------------------------------------------------------------------------
(* resolveTrustedGitHubContext, in the agent. *)

TrustRead(c) ==
    /\ At(c, "idle")
    /\ \E i \in DOMAIN rows :
          /\ rows[i].connected /\ rows[i].user # None /\ Bound(rows[i]) /\ rows[i].cred # None
          /\ call' = [call EXCEPT ![c].at = "active", ![c].flow = rows[i].cred,
                                  ![c].repo = rows[i].repo, ![c].clean = "repo" \notin torn]
    /\ UNCHANGED <<db, hist>>

TrustActive(c) ==
    /\ At(c, "active")
    /\ IF creds[call[c].flow].status = "active" THEN Goes(c, "decrypt")
       ELSE call' = [call EXCEPT ![c] = NoFrame]
    /\ UNCHANGED <<db, hist>>

\* Mutant: the token that is active, not the row's.
BugTrustToken(c) ==
    /\ At(c, "decrypt")
    /\ \/ \E f \in Flows :
             /\ creds[f].status = "active"
             /\ call' = [call EXCEPT ![c].at = "trusted", ![c].user = creds[f].user]
       \/ /\ \A f \in Flows : creds[f].status # "active"
          /\ call' = [call EXCEPT ![c] = NoFrame]
    /\ UNCHANGED <<db, hist>>

TrustToken(c) ==
    /\ At(c, "decrypt")
    /\ LET cred == creds[call[c].flow]
       IN  call' = IF cred.status = "active"
                   THEN [call EXCEPT ![c].at = "trusted", ![c].user = cred.user]
                   ELSE [call EXCEPT ![c] = NoFrame]
    /\ UNCHANGED <<db, hist>>

TrustUsed(c) ==
    /\ At(c, "trusted")
    /\ call' = [call EXCEPT ![c] = NoFrame]
    /\ UNCHANGED <<db, hist>>

-----------------------------------------------------------------------------
(* GET /api/setup: the row and the key are read at once. *)

ViewRow(c) ==
    /\ call[c].at \in {"idle", "view"} /\ "row" \notin call[c].read
    /\ \E i \in ReadIds :
          call' = [call EXCEPT ![c].at = "view", ![c].read = @ \cup {"row"}, ![c].id = i,
                               ![c].key = RowOf(i).key, ![c].full = Full(RowOf(i))]
    /\ UNCHANGED <<db, hist>>

ViewKey(c) ==
    /\ call[c].at \in {"idle", "view"} /\ "key" \notin call[c].read
    /\ call' = [call EXCEPT ![c].at = "view", ![c].found = keyStored, ![c].read = @ \cup {"key"}]
    /\ UNCHANGED <<db, hist>>

\* Mutant: the row is only put right when it says too much.
BugViewEnd(c) ==
    /\ call[c].read = {"row", "key"}
    /\ call' = [call EXCEPT ![c] = NoFrame]
    /\ rows' = IF call[c].id = 0 \/ ~call[c].key \/ call[c].found THEN rows
               ELSE [rows EXCEPT ![call[c].id].key = FALSE, ![call[c].id].stamp = FALSE]
    /\ UNCHANGED <<config, keyStored, creds, flows, hist>>

\* A row that does not say what is stored is put right.
ViewEnd(c) ==
    /\ call[c].read = {"row", "key"}
    /\ call' = [call EXCEPT ![c] = NoFrame]
    /\ rows' = IF call[c].id = 0 \/ call[c].key = call[c].found THEN rows
               ELSE [rows EXCEPT ![call[c].id].key = call[c].found,
                                    ![call[c].id].stamp = call[c].found /\ call[c].full]
    /\ UNCHANGED <<config, keyStored, creds, flows, hist>>

-----------------------------------------------------------------------------
\* A database call throws, or the dashboard's process ends; a bind,
\* a view or a trust that breaks off leaves nothing behind.
BreaksOff(c) ==
    /\ call[c].at \notin {"idle", "done"}
    /\ faults < MaxFaults /\ faults' = faults + 1
    /\ Ends(c)
    /\ torn' = IF c \in Connecting THEN torn \cup {"token"} ELSE torn
    /\ UNCHANGED <<db, exchanges>>

KeyPost(c)  == KeyLook(c) \/ KeyWrite(c) \/ SetupLook(c) \/ KeySetupWrite(c)
Callback(c) == \/ \E f \in Flows : Consume(c, f)
               \/ Exchange(c) \/ Rotate(c) \/ InsertToken(c) \/ SetupLook(c)
               \/ ConnectWrite(c)
Bind(c)     == BindRead(c) \/ BindDecrypt(c) \/ BindCheck(c) \/ BindWrite(c)
Trust(c)    == TrustRead(c) \/ TrustActive(c) \/ TrustToken(c) \/ TrustUsed(c)
View(c)     == ViewRow(c) \/ ViewKey(c) \/ ViewEnd(c)

Next ==
    \/ \E c \in KeyPosts : KeyPost(c)
    \/ \E f \in Flows : Start(f, TRUE) \/ Start(f, FALSE) \/ Expire(f)
    \/ \E c \in Callbacks : Callback(c)
    \/ \E c \in Binds : Bind(c)
    \/ \E c \in Trusts : Trust(c)
    \/ \E c \in Views : View(c)
    \/ \E c \in KeyPosts \cup Callbacks : BreaksOff(c)

Spec == Init /\ [][Next]_vars

\* The dashboard is looked at: useSetupState fetches again.
Fairness == \A c \in Views : WF_vars(View(c))

FairSpec == Spec /\ Fairness

-----------------------------------------------------------------------------
(* Properties. *)

TypeOK ==
    /\ config \in BOOLEAN /\ keyStored \in BOOLEAN
    /\ \A i \in DOMAIN rows : rows[i] \in Row
    /\ creds \in [Flows -> [status: {"none", "active", "rotated"}, user: Users \cup {None}]]
    /\ \A f \in Flows : creds[f].status # "none" => creds[f].user \in Users
    /\ flows \in [Flows -> {"none", "open", "over"}]
    /\ call \in [Calls -> Frame]
    /\ exchanges \in [Flows -> Nat] /\ torn \subseteq {"token", "repo"}
    /\ faults \in 0 .. MaxFaults

\* The state of a flow is good for one exchange, however often the browser
\* comes back with it and however the callbacks interleave
\* (github-oauth-callback.ts:57).
StateUsedOnce == \A f \in Flows : exchanges[f] <= 1

\* A row that is connected refers to the token of its own user, and only a
\* connected row has a repository, whatever callbacks, binds and views write
\* over each other (github-oauth-callback.ts:164, setup.ts:472).
RowsConsistent ==
    \A i \in DOMAIN rows :
        /\ rows[i].connected => /\ rows[i].cred # None
                                /\ creds[rows[i].cred].user = rows[i].user
        /\ Bound(rows[i]) => rows[i].connected

\* The setup refers to a token that is active, so that neither the wizard nor
\* the agent is told to reconnect, unless callbacks overlapped or one broke
\* off after it had rotated the old token; the next callback that runs alone
\* to its end puts it right (github-oauth-callback.ts:119).
TokenUsable ==
    Connecting = {} /\ "token" \notin torn /\ Len(rows) = 1 /\ rows[1].connected =>
        creds[rows[1].cred].status = "active"

\* The agent is given a repository with a token whose user may push there,
\* though row, status and token are read one after the other while another
\* account is being connected, unless a bind was under way when an account
\* was connected and some row has been bound ever since
\* (github-trust-guard.ts:124).
TrustHolds ==
    \A c \in Trusts : At(c, "trusted") /\ call[c].clean =>
        <<call[c].user, call[c].repo>> \in CanWrite

\* As long as the dashboard is looked at, a setup row comes to say that the
\* key is stored, whatever stale rows views and callbacks have written
\* (setup.ts:239).
KeyShown == <>[](keyStored /\ Len(rows) = 1 => rows[1].key)
=============================================================================
