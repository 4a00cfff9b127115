----------------------------- MODULE ChatRelay ------------------------------
(* The operator's chat.  POST /api/chat stores the message and a request   *)
(* row in agent_state, polls the row until the agent has answered or two   *)
(* minutes have passed, stores the reply and deletes the row (routes/      *)
(* chat.ts).  In the agent a relay looks every second for the oldest       *)
(* pending request and runs a loop of LLM and tool calls for it            *)
(* (operator-chat-relay.ts).  A browser tab sends one message at a time    *)
(* (useChat.ts), but may be reloaded, or not be the only one.              *)
EXTENDS Naturals, Sequences

CONSTANTS
    Requests,    \* messages, each with its request row
    Tabs,        \* browser tabs
    Ticks,       \* ticks of the relay that may be under way
    MaxHistory,  \* messages kept in the history (50)
    Batch,       \* rows the relay reads (50)
    MaxTurns,    \* LLM calls for a request (15)
    MaxFaults,   \* bound: crashes, database calls that fail
    None         \* no history row

ASSUME ChatAssumption ==
    /\ {MaxHistory, Batch, MaxTurns} \subseteq Nat \ {0} /\ MaxFaults \in Nat
    /\ Requests # {}

VARIABLES
    tab,     \* tab -> the message it waits for
    post,    \* request -> its POST handler
    history, \* agent_state 'chat:history'; None before the first message
    latest,  \* whether the row 'chat:latest_message' is there
    row,     \* request -> status of its row
    order,   \* the request rows there are, by updated_at
    relay,   \* whether the agent and its interval run
    busy,    \* processing
    tick,    \* tick -> where it is
    runs,    \* history: how often the loop was begun for a request
    faults   \* crashes and failures so far

store  == <<history, latest, row, order>>
server == <<tab, post>>
agent  == <<relay, busy, tick, runs>>
vars   == <<server, store, agent, faults>>

Statuses == {"pending", "processing", "completed", "failed"}
Over     == {"replied", "failed", "timeout", "threw", "gone"}

Entry == {"user", "assistant"} \X Requests
Post  == [at: {"new", "load", "save-look", "save", "latest-look", "latest", "insert",
               "wait", "final", "delete"} \cup Over,
          exists: BOOLEAN, kept: Seq(Entry), result: {"replied", "failed", "none"}]
Tick  == [at: {"idle", "select", "take", "run", "complete", "fail"},
          req: Requests, turn: 0 .. MaxTurns]

NoPost == [at |-> "new", exists |-> FALSE, kept |-> <<>>, result |-> "none"]
NoTick == [at |-> "idle", req |-> CHOOSE r \in Requests : TRUE, turn |-> 0]

Init ==
    /\ tab = [t \in Tabs |-> "idle"]
    /\ post = [r \in Requests |-> NoPost]
    /\ history = None /\ latest = FALSE
    /\ row = [r \in Requests |-> "absent"] /\ order = <<>>
    /\ relay = TRUE /\ busy = FALSE
    /\ tick = [t \in Ticks |-> NoTick]
    /\ runs = [r \in Requests |-> 0]
    /\ faults = 0

Fault == faults < MaxFaults /\ faults' = faults + 1

\* The rows but that of r, which is one of them.
Without(r) ==
    [i \in 1 .. Len(order) - 1 |-> order[IF \E k \in 1 .. i : order[k] = r THEN i + 1 ELSE i]]

\* slice(-n).
Newest(seq, n) == SubSeq(seq, IF Len(seq) > n THEN Len(seq) - n + 1 ELSE 1, Len(seq))

-----------------------------------------------------------------------------
(* useChat. *)

\* A tab that is not loading sends; its POST begins.
Send(t, r) ==
    /\ tab[t] = "idle" /\ post[r].at = "new"
    /\ tab' = [tab EXCEPT ![t] = r]
    /\ post' = [post EXCEPT ![r].at = "load"]
    /\ UNCHANGED <<store, agent, faults>>

\* The response arrives, or the tab is reloaded and no longer waits for it.
Receive(t) ==
    /\ tab[t] # "idle" /\ post[tab[t]].at \in Over
    /\ tab' = [tab EXCEPT ![t] = "idle"]
    /\ UNCHANGED <<post, store, agent, faults>>

Reload(t) ==
    /\ tab[t] # "idle"
    /\ tab' = [tab EXCEPT ![t] = "idle"]
    /\ UNCHANGED <<post, store, agent, faults>>

-----------------------------------------------------------------------------
(* POST /api/chat. *)

PostAt(r, at) == post[r].at = at
PostGoes(r, at) == post' = [post EXCEPT ![r].at = at]

\* A database call throws, and the handler with it: nothing is written.
PostThrows(r) ==
    /\ post[r].at \notin Over \cup {"new"}
    /\ Fault /\ PostGoes(r, "threw")
    /\ UNCHANGED <<tab, store, agent>>

\* A write is done and the handler goes on; or it is done and the answer to
\* the call is lost, so that the handler throws all the same.
PostWrites(r, at) ==
    \/ PostGoes(r, at) /\ UNCHANGED faults
    \/ PostGoes(r, "threw") /\ Fault

\* loadHistory; the message is added.
LoadHistory(r) ==
    /\ PostAt(r, "load")
    /\ post' = [post EXCEPT ![r].at = "save-look", ![r].kept =
         Newest(Append(IF history = None THEN <<>> ELSE history, <<"user", r>>), MaxHistory)]
    /\ UNCHANGED <<tab, store, agent, faults>>

\* upsertAgentState: the row is looked for, then updated or inserted; the
\* insert of a row that has come meanwhile throws.
LookForHistory(r) ==
    /\ PostAt(r, "save-look")
    /\ post' = [post EXCEPT ![r].at = "save", ![r].exists = history # None]
    /\ UNCHANGED <<tab, store, agent, faults>>

SaveHistory(r) ==
    /\ PostAt(r, "save")
    /\ IF ~post[r].exists /\ history # None
       THEN PostGoes(r, "threw") /\ UNCHANGED <<history, faults>>
       ELSE PostWrites(r, "latest-look") /\ history' = post[r].kept
    /\ UNCHANGED <<tab, latest, row, order, agent>>

LookForLatest(r) ==
    /\ PostAt(r, "latest-look")
    /\ post' = [post EXCEPT ![r].at = "latest", ![r].exists = latest]
    /\ UNCHANGED <<tab, store, agent, faults>>

SaveLatest(r) ==
    /\ PostAt(r, "latest")
    /\ PostWrites(r, IF ~post[r].exists /\ latest THEN "threw" ELSE "insert")
    /\ latest' = TRUE
    /\ UNCHANGED <<tab, history, row, order, agent>>

InsertRequest(r) ==
    /\ PostAt(r, "insert")
    /\ PostWrites(r, "wait")
    /\ row' = [row EXCEPT ![r] = "pending"]
    /\ order' = Append(order, r)
    /\ UNCHANGED <<tab, history, latest, agent>>

\* waitForResponse reads a row that is done.
PollFindsAnswer(r) ==
    /\ PostAt(r, "wait") /\ row[r] \in {"completed", "failed"}
    /\ post' = [post EXCEPT
         ![r].at = IF row[r] = "completed" THEN "final" ELSE "delete",
         ![r].result = IF row[r] = "completed" THEN "replied" ELSE "failed"]
    /\ UNCHANGED <<tab, store, agent, faults>>

\* The deadline passes between two polls, whatever the row says by then.
Deadline(r) ==
    /\ PostAt(r, "wait")
    /\ PostGoes(r, "timeout")
    /\ UNCHANGED <<tab, store, agent, faults>>

\* Mutant: the reply is added to what the history is now.
BugSaveReply(r) ==
    /\ PostAt(r, "final")
    /\ history' = Newest(Append(history, <<"assistant", r>>), MaxHistory)
    /\ PostGoes(r, "delete")
    /\ UNCHANGED <<tab, latest, row, order, agent, faults>>

\* Mutant: the history is not cut.
BugUncut(r) ==
    /\ PostAt(r, "final")
    /\ history' = Append(post[r].kept, <<"assistant", r>>)
    /\ PostGoes(r, "delete")
    /\ UNCHANGED <<tab, latest, row, order, agent, faults>>

\* The reply is added to the history as this POST has saved it.
SaveReply(r) ==
    /\ PostAt(r, "final")
    /\ history' = Newest(Append(post[r].kept, <<"assistant", r>>), MaxHistory)
    /\ PostWrites(r, "delete")
    /\ UNCHANGED <<tab, latest, row, order, agent>>

DeleteRequest(r) ==
    /\ PostAt(r, "delete")
    /\ PostWrites(r, post[r].result)
    /\ row' = [row EXCEPT ![r] = "absent"]
    /\ order' = Without(r)
    /\ UNCHANGED <<tab, history, latest, agent>>

-----------------------------------------------------------------------------
(* startOperatorChatRelay and processNextRequest. *)

\* An update sets updated_at; it finds no row when the row is gone.
Updated(r, status) ==
    IF row[r] = "absent" THEN UNCHANGED <<row, order>>
    ELSE /\ row' = [row EXCEPT ![r] = status]
         /\ order' = Append(Without(r), r)

TickGoes(t, at) == tick' = [tick EXCEPT ![t].at = at]
TickEnds(t)     == tick' = [tick EXCEPT ![t] = NoTick] /\ busy' = FALSE

\* Mutant: busy is left as it is when the tick throws.
BugTickThrows(t) ==
    /\ tick[t].at \in {"select", "take", "fail"}
    /\ Fault
    /\ tick' = [tick EXCEPT ![t] = NoTick]
    /\ UNCHANGED <<server, store, relay, busy, runs>>

\* A database call throws and nothing is written: logged, and processing is
\* reset in finally.
TickThrows(t) ==
    /\ tick[t].at \in {"select", "take", "fail"}
    /\ Fault
    /\ TickEnds(t)
    /\ UNCHANGED <<server, store, relay, runs>>

\* Mutant: ticks do not look whether one is under way.
BugTickBegins(t) ==
    /\ relay /\ tick[t].at = "idle"
    /\ busy' = TRUE
    /\ TickGoes(t, "select")
    /\ UNCHANGED <<server, store, relay, runs, faults>>

TickBegins(t) ==
    /\ relay /\ tick[t].at = "idle" /\ ~busy
    /\ busy' = TRUE
    /\ TickGoes(t, "select")
    /\ UNCHANGED <<server, store, relay, runs, faults>>

\* The first pending row of those read.
Found ==
    {r \in Requests : \E i \in DOMAIN order :
        /\ i <= Batch /\ order[i] = r /\ row[r] = "pending"
        /\ \A k \in 1 .. i - 1 : row[order[k]] # "pending"}

SelectRequest(t) ==
    /\ tick[t].at = "select"
    /\ IF Found = {} THEN TickEnds(t)
       ELSE /\ \E r \in Found :
                  tick' = [tick EXCEPT ![t].at = "take", ![t].req = r]
            /\ UNCHANGED busy
    /\ UNCHANGED <<server, store, relay, runs, faults>>

\* The request is taken and its loop begins.  When the answer to the update
\* is lost the tick ends, and the row is left as processing.
TakeRequest(t) ==
    /\ tick[t].at = "take"
    /\ Updated(tick[t].req, "processing")
    /\ \/ /\ TickGoes(t, "run")
          /\ runs' = [runs EXCEPT ![tick[t].req] = @ + 1]
          /\ UNCHANGED <<busy, faults>>
       \/ /\ Fault /\ TickEnds(t)
          /\ UNCHANGED runs
    /\ UNCHANGED <<server, history, latest, relay>>

\* runChatLoop: an LLM call that ends the loop, that calls tools, or that
\* throws, as it does when the kill switch is active.
Turn(t) ==
    /\ tick[t].at = "run"
    /\ \/ TickGoes(t, "complete")
       \/ TickGoes(t, "fail")
       \/ tick' = [tick EXCEPT ![t].turn = @ + 1,
                               ![t].at = IF tick[t].turn + 1 = MaxTurns THEN "complete" ELSE "run"]
    /\ UNCHANGED <<server, store, relay, busy, runs, faults>>

\* The answer is written.  An update that throws makes it a failure, also
\* one that was done before it threw.
WriteAnswer(t) ==
    /\ tick[t].at = "complete"
    /\ \/ /\ Updated(tick[t].req, "completed") /\ TickEnds(t)
          /\ UNCHANGED faults
       \/ /\ Fault /\ TickGoes(t, "fail")
          /\ UNCHANGED <<row, order, busy>>
       \/ /\ Fault /\ TickGoes(t, "fail")
          /\ Updated(tick[t].req, "completed")
          /\ UNCHANGED busy
    /\ UNCHANGED <<server, history, latest, relay, runs>>

\* Mutant: a request that has failed is put back, to be tried again.
BugWriteFailure(t) ==
    /\ tick[t].at = "fail"
    /\ Updated(tick[t].req, "pending") /\ TickEnds(t)
    /\ UNCHANGED <<server, history, latest, relay, runs, faults>>

\* The tick ends with it, whether the update is acknowledged or not.
WriteFailure(t) ==
    /\ tick[t].at = "fail"
    /\ Updated(tick[t].req, "failed") /\ TickEnds(t)
    /\ UNCHANGED <<server, history, latest, relay, runs, faults>>

-----------------------------------------------------------------------------
\* The agent dies or exits; its shutdown only clears the interval.
AgentStops ==
    /\ relay /\ Fault
    /\ relay' = FALSE /\ busy' = FALSE
    /\ tick' = [t \in Ticks |-> NoTick]
    /\ UNCHANGED <<server, store, runs>>

AgentStarts ==
    /\ ~relay
    /\ relay' = TRUE
    /\ UNCHANGED <<server, store, busy, tick, runs, faults>>

\* The dashboard's process restarts: its handlers are gone, their rows stay.
DashboardRestarts ==
    /\ Fault
    /\ post' = [r \in Requests |-> IF post[r].at \in Over \cup {"new"} THEN post[r]
                                   ELSE [post[r] EXCEPT !.at = "gone"]]
    /\ UNCHANGED <<tab, store, agent>>

Handler(r) ==
    \/ LoadHistory(r) \/ LookForHistory(r) \/ SaveHistory(r)
    \/ LookForLatest(r) \/ SaveLatest(r) \/ InsertRequest(r)
    \/ PollFindsAnswer(r) \/ SaveReply(r) \/ DeleteRequest(r)

Relay(t) ==
    \/ TickBegins(t) \/ SelectRequest(t) \/ TakeRequest(t) \/ Turn(t)
    \/ WriteAnswer(t) \/ WriteFailure(t)

Next ==
    \/ \E t \in Tabs : Receive(t) \/ Reload(t) \/ \E r \in Requests : Send(t, r)
    \/ \E r \in Requests : Handler(r) \/ Deadline(r) \/ PostThrows(r)
    \/ \E t \in Ticks : Relay(t) \/ TickThrows(t)
    \/ AgentStops \/ AgentStarts \/ DashboardRestarts

Spec == Init /\ [][Next]_vars

\* Handlers run, deadlines pass, the interval ticks and an agent that has
\* stopped is started again.
Fairness ==
    /\ \A r \in Requests : WF_vars(Handler(r)) /\ WF_vars(Deadline(r))
    /\ \A t \in Ticks : WF_vars(Relay(t))
    /\ WF_vars(AgentStarts)

FairSpec == Spec /\ Fairness

-----------------------------------------------------------------------------
(* Properties. *)

Messages == IF history = None THEN <<>> ELSE history

TypeOK ==
    /\ tab \in [Tabs -> Requests \cup {"idle"}]
    /\ post \in [Requests -> Post]
    /\ Messages \in Seq(Entry) /\ Len(Messages) <= MaxHistory /\ latest \in BOOLEAN
    /\ row \in [Requests -> Statuses \cup {"absent"}]
    /\ {order[i] : i \in DOMAIN order} = {r \in Requests : row[r] # "absent"}
    /\ relay \in BOOLEAN /\ busy \in BOOLEAN
    /\ tick \in [Ticks -> Tick] /\ runs \in [Requests -> Nat]
    /\ faults \in 0 .. MaxFaults

\* The tools of a request are run by one loop only: a tick never takes a
\* request another one has, and a restart of the agent takes up none that
\* was begun (operator-chat-relay.ts:317, :234).
RunOnce == \A r \in Requests : runs[r] <= 1

\* The refinement mapping: what a row that is not there stands for.
StageOf(r) == IF row[r] # "absent" THEN row[r]
              ELSE IF post[r].result # "none" THEN "gone" ELSE "new"

Mail == INSTANCE Mailbox WITH
          Requests <- Requests, request <- [r \in Requests |-> StageOf(r)]

\* The two processes, which share nothing but the status of a row, keep to
\* the protocol when they restart and when an update is done but throws: a
\* request never becomes pending again, is taken once and, once withdrawn, is
\* not written again.  An answer may be revised: a completed update that is
\* done but throws is followed by a failed one, before or after the POST has
\* read it (chat.ts:137, operator-chat-relay.ts:282-302, :317).
ImplementsMailbox == Mail!MailSpec

\* A reply in the history follows its message, unless the cut has taken the
\* message, whatever other POSTs have written meanwhile (chat.ts:236).
RepliesFollow ==
    \A i \in DOMAIN Messages :
        Messages[i][1] = "assistant" /\ i > 1 =>
            \E k \in 1 .. i - 1 : Messages[k] = <<"user", Messages[i][2]>>

\* A POST that has answered has left no row behind, and no update of the
\* relay brings it back: a row left over is in the way of every later
\* request (chat.ts:239, operator-chat-relay.ts:232).
AnsweredGone ==
    \A r \in Requests : post[r].at \in {"replied", "failed"} => row[r] = "absent"

Clogged == Found = {} /\ \E r \in Requests : row[r] = "pending"

\* A pending request is taken, unless as many rows that are not pending are
\* before it as the relay reads: rows nobody has deleted, because their POST
\* gave up or the agent stopped while it was at them
\* (operator-chat-relay.ts:232).
ServedUnlessClogged ==
    \A r \in Requests : row[r] = "pending" ~> row[r] # "pending" \/ Clogged
=============================================================================
