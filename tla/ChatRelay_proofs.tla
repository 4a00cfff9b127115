-------------------------- MODULE ChatRelay_proofs ---------------------------
(***************************************************************************)
(* Theorems about ChatRelay, for any messages, tabs, ticks and bounds: the *)
(* tools of a request run in one loop only, a POST that has answered       *)
(* leaves no row, and the rows move as Mailbox says.  The argument is one  *)
(* of ownership: a row belongs to its POST until it is inserted, to the    *)
(* relay while it is pending or processing, and to the POST again once it  *)
(* is completed or failed, but for the failure that the relay still writes *)
(* when its completed update was done and threw.  Then the history, in     *)
(* which replies follow their messages, and the types.                     *)
(***************************************************************************)
EXTENDS ChatRelay, TLAPS

Labels == {"new", "load", "save-look", "save", "latest-look", "latest", "insert",
           "wait", "final", "delete"} \cup Over

\* What the functions map to, as far as the argument needs it.
Shape ==
    /\ row \in [Requests -> Statuses \cup {"absent"}]
    /\ runs \in [Requests -> Nat]
    /\ post = [r \in Requests |-> post[r]] /\ tick = [t \in Ticks |-> tick[t]]
    /\ busy \in BOOLEAN
    /\ \A r \in Requests : post[r] = [at |-> post[r].at, exists |-> post[r].exists,
                                      kept |-> post[r].kept, result |-> post[r].result]
    /\ \A r \in Requests : post[r].at \in Labels /\ post[r].result \in {"replied", "failed", "none"}
    /\ \A t \in Ticks : tick[t] = [at |-> tick[t].at, req |-> tick[t].req, turn |-> tick[t].turn]
    /\ \A t \in Ticks : tick[t].at \in {"idle", "select", "take", "run", "complete", "fail"}
    /\ \A t \in Ticks : tick[t].at \in {"take", "run", "complete", "fail"} =>
                            tick[t].req \in Requests

\* Before its row is there a request has not been run; a POST that deletes
\* it does so after the relay is done; one that answered has deleted it.
PostOwns ==
    \A r \in Requests :
        /\ post[r].at \in {"new", "load", "save-look", "save", "latest-look", "latest", "insert"} =>
              row[r] = "absent" /\ runs[r] = 0 /\ post[r].result = "none"
        /\ post[r].at \in {"final", "delete"} =>
              row[r] \in {"completed", "failed"} /\ post[r].result \in {"replied", "failed"}
        /\ post[r].at \in {"replied", "failed"} => row[r] = "absent"

\* The relay holds a row that is pending or processing, in one tick.  A row
\* whose failure it is about to write may be completed by now, and then its
\* POST may have seen that and deleted it.
RelayOwns ==
    /\ \A t \in Ticks : tick[t].at = "take" => row[tick[t].req] = "pending"
    /\ \A t \in Ticks : tick[t].at \in {"run", "complete"} => row[tick[t].req] = "processing"
    /\ \A t \in Ticks : tick[t].at = "fail" =>
          /\ row[tick[t].req] \in {"processing", "completed", "absent"}
          /\ row[tick[t].req] = "absent" => post[tick[t].req].result # "none"
    /\ \A t \in Ticks : ~busy => tick[t].at = "idle"
    /\ \A t, u \in Ticks : tick[t].at # "idle" /\ tick[u].at # "idle" => t = u

RunAccounts ==
    \A r \in Requests : runs[r] <= 1 /\ (row[r] = "pending" => runs[r] = 0)

Inv == Shape /\ PostOwns /\ RelayOwns /\ RunAccounts

-----------------------------------------------------------------------------
(* The mailbox that the rows are: a step moves one request on, or none. *)

stage == [r \in Requests |-> StageOf(r)]
Keeps == [Mail!MailNext]_stage

LEMMA StaysStill ==
    ASSUME \A r \in Requests : StageOf(r)' = StageOf(r)
    PROVE  Keeps
BY DEF Keeps, stage

Steps == {<<"new", "pending">>, <<"pending", "processing">>, <<"processing", "completed">>,
          <<"processing", "failed">>, <<"completed", "failed">>, <<"completed", "gone">>,
          <<"failed", "gone">>}

LEMMA MovesOn ==
    ASSUME NEW r \in Requests, NEW from, NEW to, <<from, to>> \in Steps,
           StageOf(r) = from, StageOf(r)' = to,
           \A q \in Requests : q # r => StageOf(q)' = StageOf(q)
    PROVE  Keeps
<1>1. stage[r] = from /\ stage' = [stage EXCEPT ![r] = to]
  BY DEF stage
<1>2. Mail!Moves(r, from, to)
  BY <1>1 DEF Mail!Moves, stage
<1>3. Mail!Ask(r) \/ Mail!Take(r) \/ Mail!Answer(r) \/ Mail!Revise(r) \/ Mail!Withdraw(r)
  BY <1>2 DEF Steps, Mail!Ask, Mail!Take, Mail!Answer, Mail!Revise, Mail!Withdraw
<1> QED
  BY <1>3 DEF Keeps, Mail!MailNext

-----------------------------------------------------------------------------
LEMMA InvInit == Init => Inv
<1> SUFFICES ASSUME Init PROVE Inv
  OBVIOUS
<1>0. PICK e, k : NoPost = [at |-> "new", exists |-> e, kept |-> k, result |-> "none"]
  BY DEF NoPost
<1>1. /\ \A r \in Requests : /\ post[r] = NoPost
                               /\ row[r] = "absent" /\ runs[r] = 0
      /\ \A t \in Ticks : tick[t] = NoTick
  BY DEF Init
<1>2. PICK q : NoTick = [at |-> "idle", req |-> q, turn |-> 0]
  BY DEF NoTick
<1>3. post = [r \in Requests |-> post[r]] /\ tick = [t \in Ticks |-> tick[t]]
  BY DEF Init
<1>4. row \in [Requests -> Statuses \cup {"absent"}] /\ runs \in [Requests -> Nat] /\ busy = FALSE
  BY DEF Init
<1>5. Shape
  <2>1. \A r \in Requests : /\ post[r] = [at |-> post[r].at, exists |-> post[r].exists,
                                          kept |-> post[r].kept, result |-> post[r].result]
                            /\ post[r].at = "new" /\ post[r].result = "none"
    <3>1. /\ NoPost.at = "new" /\ NoPost.result = "none"
          /\ NoPost = [at |-> NoPost.at, exists |-> NoPost.exists, kept |-> NoPost.kept,
                       result |-> NoPost.result]
      BY <1>0
    <3> QED
      BY <1>1, <3>1
  <2>2. \A t \in Ticks : /\ tick[t] = [at |-> tick[t].at, req |-> tick[t].req, turn |-> tick[t].turn]
                         /\ tick[t].at = "idle"
    BY <1>1, <1>2
  <2> QED
    BY <1>3, <1>4, <2>1, <2>2 DEF Shape, Labels
<1>6. PostOwns
  <2>1. \A r \in Requests : post[r].at = "new" /\ post[r].result = "none"
    <3>1. NoPost.at = "new" /\ NoPost.result = "none"
      BY <1>0
    <3> QED
      BY <1>1, <3>1
  <2> QED
    BY <1>1, <2>1 DEF PostOwns
<1>7. RelayOwns
  BY <1>1, <1>2 DEF RelayOwns
<1> QED
  BY <1>1, <1>5, <1>6, <1>7 DEF Inv, RunAccounts

\* Actions that move a POST and leave rows and the relay alone.
LEMMA PostMoves ==
    ASSUME Inv, NEW r \in Requests, NEW p, UNCHANGED <<row, agent>>,
           post' = [post EXCEPT ![r] = p],
           p = [at |-> p.at, exists |-> p.exists, kept |-> p.kept, result |-> p.result],
           p.at \in Labels, p.result \in {"replied", "failed", "none"},
           post[r].at \notin {"replied", "failed"},
           p.result = post[r].result \/ row[r] # "absent",
           \/ p.at \in {"load", "save-look", "save", "latest-look", "latest", "insert"}
                 /\ post[r].at \in {"new", "load", "save-look", "save", "latest-look", "latest"}
           \/ p.at \in {"final", "delete"} /\ row[r] \in {"completed", "failed"}
                 /\ p.result \in {"replied", "failed"}
           \/ p.at \in {"wait", "timeout", "threw", "gone"}
    PROVE  Inv' /\ Keeps
<1>1. Inv'
  BY DEF Inv, Shape, PostOwns, RelayOwns, RunAccounts, agent
<1>2. \A q \in Requests : q # r => post'[q] = post[q]
  BY DEF Inv, Shape
<1>3. post'[r].result = post[r].result \/ row[r] # "absent"
  BY DEF Inv, Shape
<1>4. Keeps
  BY <1>2, <1>3, StaysStill DEF StageOf
<1> QED
  BY <1>1, <1>4

LEMMA TabStep ==
    ASSUME Inv, NEW t \in Tabs, \/ Receive(t) \/ Reload(t) \/ \E r \in Requests : Send(t, r)
    PROVE  Inv' /\ Keeps
<1>1. CASE Receive(t) \/ Reload(t)
  <2>1. Inv'
    BY <1>1 DEF Receive, Reload, Inv, Shape, PostOwns, RelayOwns, RunAccounts, agent, store
  <2>2. Keeps
    BY <1>1, StaysStill DEF Receive, Reload, StageOf, store
  <2> QED
    BY <2>1, <2>2
<1>2. CASE \E r \in Requests : Send(t, r)
  <2>1. PICK r \in Requests : Send(t, r)
    BY <1>2
  <2>2. post' = [post EXCEPT ![r] = [post[r] EXCEPT !.at = "load"]]
    BY <2>1 DEF Send
  <2>3. UNCHANGED <<row, agent>>
    BY <2>1 DEF Send, store
  <2>4. post[r].at = "new"
    BY <2>1 DEF Send
  <2>5. [post[r] EXCEPT !.at = "load"] =
          [at |-> "load", exists |-> post[r].exists, kept |-> post[r].kept, result |-> post[r].result]
    BY DEF Inv, Shape
  <2> QED
    BY <2>2, <2>3, <2>4, <2>5, PostMoves DEF Labels, Inv, Shape
<1> QED
  BY <1>1, <1>2

\* A POST at a changed label keeps its other fields.
LEMMA Relabel ==
    ASSUME Inv, NEW r \in Requests, NEW at
    PROVE  [post[r] EXCEPT !.at = at] =
             [at |-> at, exists |-> post[r].exists, kept |-> post[r].kept, result |-> post[r].result]
BY DEF Inv, Shape

\* Two fields of a POST changed.
PostOf(at, e, h, res) == [at |-> at, exists |-> e, kept |-> h, result |-> res]

LEMMA PostExists ==
    ASSUME Inv, NEW r \in Requests, NEW at, NEW e
    PROVE  [post EXCEPT ![r].at = at, ![r].exists = e] =
             [post EXCEPT ![r] = PostOf(at, e, post[r].kept, post[r].result)]
<1> DEFINE p == [at |-> at, exists |-> post[r].exists, kept |-> post[r].kept,
                 result |-> post[r].result]
<1>1. [post[r] EXCEPT !.at = at] = p
  BY Relabel
<1>2. [p EXCEPT !.exists = e] =
        PostOf(at, e, post[r].kept, post[r].result)
  BY DEF PostOf
<1>3. [post EXCEPT ![r].at = at, ![r].exists = e] =
        [post EXCEPT ![r] = [[post[r] EXCEPT !.at = at] EXCEPT !.exists = e]]
  BY Zenon
<1> HIDE DEF p
<1> QED
  BY <1>1, <1>2, <1>3, Zenon

LEMMA PostKept ==
    ASSUME Inv, NEW r \in Requests, NEW at, NEW e
    PROVE  [post EXCEPT ![r].at = at, ![r].kept = e] =
             [post EXCEPT ![r] = PostOf(at, post[r].exists, e, post[r].result)]
<1> DEFINE p == [at |-> at, exists |-> post[r].exists, kept |-> post[r].kept,
                 result |-> post[r].result]
<1>1. [post[r] EXCEPT !.at = at] = p
  BY Relabel
<1>2. [p EXCEPT !.kept = e] =
        PostOf(at, post[r].exists, e, post[r].result)
  BY DEF PostOf
<1>3. [post EXCEPT ![r].at = at, ![r].kept = e] =
        [post EXCEPT ![r] = [[post[r] EXCEPT !.at = at] EXCEPT !.kept = e]]
  BY Zenon
<1> HIDE DEF p
<1> QED
  BY <1>1, <1>2, <1>3, Zenon

LEMMA PostResult ==
    ASSUME Inv, NEW r \in Requests, NEW at, NEW e
    PROVE  [post EXCEPT ![r].at = at, ![r].result = e] =
             [post EXCEPT ![r] = PostOf(at, post[r].exists, post[r].kept, e)]
<1> DEFINE p == [at |-> at, exists |-> post[r].exists, kept |-> post[r].kept,
                 result |-> post[r].result]
<1>1. [post[r] EXCEPT !.at = at] = p
  BY Relabel
<1>2. [p EXCEPT !.result = e] =
        PostOf(at, post[r].exists, post[r].kept, e)
  BY DEF PostOf
<1>3. [post EXCEPT ![r].at = at, ![r].result = e] =
        [post EXCEPT ![r] = [[post[r] EXCEPT !.at = at] EXCEPT !.result = e]]
  BY Zenon
<1> HIDE DEF p
<1> QED
  BY <1>1, <1>2, <1>3, Zenon

LEMMA HandlerStep ==
    ASSUME Inv, NEW r \in Requests, Handler(r) \/ Deadline(r) \/ PostThrows(r)
    PROVE  Inv' /\ Keeps
<1>1. CASE LoadHistory(r)
  <2> DEFINE h == Newest(Append(IF history = None THEN <<>> ELSE history, <<"user", r>>), MaxHistory)
             p == PostOf("save-look", post[r].exists, h, post[r].result)
  <2>1. post' = [post EXCEPT ![r] = p]
    <3>1. post' = [post EXCEPT ![r].at = "save-look", ![r].kept = h]
      BY <1>1 DEF LoadHistory
    <3> HIDE DEF h
    <3> QED
      BY <3>1, PostKept, Zenon
  <2>2. UNCHANGED <<row, agent>> /\ post[r].at = "load"
    BY <1>1 DEF LoadHistory, store, PostAt
  <2> QED
    BY <2>1, <2>2, PostMoves DEF PostOf, Labels, Inv, Shape
<1>2. CASE LookForHistory(r) \/ LookForLatest(r)
  <2>1. PICK at \in {"save", "latest"} : \E e :
          post' = [post EXCEPT ![r] = [at |-> at, exists |-> e, kept |-> post[r].kept,
                                       result |-> post[r].result]]
    <3>1. CASE LookForHistory(r)
      <4> DEFINE e == history # None
                 p == PostOf("save", e, post[r].kept, post[r].result)
      <4>1. post' = [post EXCEPT ![r].at = "save", ![r].exists = e]
        BY <3>1 DEF LookForHistory
      <4> HIDE DEF e
      <4>2. post' = [post EXCEPT ![r] = p]
        BY <4>1, PostExists, Zenon
      <4> QED
        BY <4>2 DEF PostOf
    <3>2. CASE LookForLatest(r)
      <4> DEFINE e == latest
                 p == PostOf("latest", e, post[r].kept, post[r].result)
      <4>1. post' = [post EXCEPT ![r].at = "latest", ![r].exists = e]
        BY <3>2 DEF LookForLatest
      <4> HIDE DEF e
      <4>2. post' = [post EXCEPT ![r] = p]
        BY <4>1, PostExists, Zenon
      <4> QED
        BY <4>2 DEF PostOf
    <3> QED
      BY <1>2, <3>1, <3>2
  <2>2. PICK e : post' = [post EXCEPT ![r] = [at |-> at, exists |-> e, kept |-> post[r].kept,
                                              result |-> post[r].result]]
    BY <2>1
  <2>3. UNCHANGED <<row, agent>> /\ post[r].at \in {"save-look", "latest-look"}
    BY <1>2 DEF LookForHistory, LookForLatest, store, PostAt
  <2> QED
    BY <2>2, <2>3, PostMoves DEF Labels, Inv, Shape
<1>3. CASE SaveHistory(r) \/ SaveLatest(r) \/ PostThrows(r) \/ Deadline(r)
  <2>1. PICK at \in {"threw", "latest-look", "insert", "timeout"} :
          post' = [post EXCEPT ![r] = [post[r] EXCEPT !.at = at]]
    BY <1>3 DEF SaveHistory, SaveLatest, PostThrows, Deadline, PostWrites, PostGoes
  <2>2. UNCHANGED <<row, agent>>
    BY <1>3 DEF SaveHistory, SaveLatest, PostThrows, Deadline, store
  <2>3. at \in {"latest-look", "insert"} => post[r].at \in {"save", "latest"}
    <3>1. CASE PostThrows(r) \/ Deadline(r)
      <4>1. [post[r] EXCEPT !.at = at].at \in {"threw", "timeout"}
        BY <1>3, <2>1, <3>1 DEF PostThrows, Deadline, PostGoes, Inv, Shape
      <4> QED
        BY <4>1, Relabel
    <3>2. CASE SaveHistory(r) \/ SaveLatest(r)
      BY <3>2 DEF SaveHistory, SaveLatest, PostAt
    <3> QED
      BY <1>3, <3>1, <3>2
  <2>4. [post[r] EXCEPT !.at = at] = [at |-> at, exists |-> post[r].exists,
           kept |-> post[r].kept, result |-> post[r].result]
    BY Relabel
  <2>5. post[r].at \notin {"replied", "failed"}
    BY <1>3 DEF SaveHistory, SaveLatest, PostThrows, Deadline, PostAt, Over
  <2> QED
    BY <2>1, <2>2, <2>3, <2>4, <2>5, PostMoves DEF Labels, Over, Inv, Shape
<1>4. CASE PollFindsAnswer(r)
  <2> DEFINE at == IF row[r] = "completed" THEN "final" ELSE "delete"
             res == IF row[r] = "completed" THEN "replied" ELSE "failed"
             p == PostOf(at, post[r].exists, post[r].kept, res)
  <2>1. /\ UNCHANGED <<row, agent>> /\ row[r] \in {"completed", "failed"}
        /\ post[r].at = "wait"
    BY <1>4 DEF PollFindsAnswer, store, PostAt
  <2>2. post' = [post EXCEPT ![r].at = at, ![r].result = res]
    BY <1>4 DEF PollFindsAnswer
  <2>3. at \in {"final", "delete"} /\ res \in {"replied", "failed"}
    OBVIOUS
  <2> HIDE DEF at, res
  <2>4. post' = [post EXCEPT ![r] = p]
    <3>1. \A a, e : [post EXCEPT ![r].at = a, ![r].result = e] =
                      [post EXCEPT ![r] = PostOf(a, post[r].exists, post[r].kept, e)]
      BY PostResult
    <3>2. [post EXCEPT ![r].at = at, ![r].result = res] = [post EXCEPT ![r] = p]
      BY <3>1, Zenon
    <3> QED
      BY <2>2, <3>2, Zenon
  <2>5. /\ p = [at |-> p.at, exists |-> p.exists, kept |-> p.kept, result |-> p.result]
        /\ p.at = at /\ p.result = res
    BY DEF PostOf
  <2> HIDE DEF p
  <2> QED
    BY <2>1, <2>3, <2>4, <2>5, PostMoves DEF Labels
<1>5. CASE SaveReply(r)
  <2>1. PICK at \in {"delete", "threw"} : post' = [post EXCEPT ![r] = [post[r] EXCEPT !.at = at]]
    BY <1>5 DEF SaveReply, PostWrites, PostGoes
  <2>2. /\ UNCHANGED <<row, agent>> /\ row[r] \in {"completed", "failed"}
        /\ post[r].result \in {"replied", "failed"}
    BY <1>5 DEF SaveReply, PostAt, Inv, PostOwns
  <2>3. [post[r] EXCEPT !.at = at] = [at |-> at, exists |-> post[r].exists,
           kept |-> post[r].kept, result |-> post[r].result]
    BY Relabel
  <2> QED
    BY <2>1, <2>2, <2>3, PostMoves DEF Labels, Over, Inv, Shape, PostOwns
<1>6. CASE InsertRequest(r)
  <2>1. /\ row' = [row EXCEPT ![r] = "pending"]
        /\ UNCHANGED agent /\ post[r].at = "insert"
    BY <1>6 DEF InsertRequest, PostAt
  <2>0. PICK at \in {"wait", "threw"} : post' = [post EXCEPT ![r] = [post[r] EXCEPT !.at = at]]
    BY <1>6 DEF InsertRequest, PostWrites, PostGoes
  <2>2. row[r] = "absent" /\ runs[r] = 0 /\ post[r].result = "none"
    BY <2>1 DEF Inv, PostOwns
  <2>3. \A t \in Ticks : tick[t].at \in {"take", "run", "complete", "fail"} => tick[t].req # r
    BY <2>2 DEF Inv, RelayOwns
  <2>4. [post[r] EXCEPT !.at = at] = [at |-> at, exists |-> post[r].exists,
           kept |-> post[r].kept, result |-> post[r].result]
    BY Relabel
  <2>5. Shape'
    BY <2>0, <2>1, <2>4 DEF Inv, Shape, Labels, Over, Statuses, agent
  <2>6. PostOwns'
    BY <2>0, <2>1, <2>4 DEF Inv, Shape, PostOwns, agent
  <2>7. RelayOwns'
    BY <2>0, <2>1, <2>3 DEF Inv, Shape, RelayOwns, agent
  <2>8. RunAccounts'
    BY <2>1, <2>2 DEF Inv, Shape, RunAccounts, agent
  <2>9. Keeps
    <3>1. row'[r] = "pending" /\ \A q \in Requests : q # r => row'[q] = row[q] /\ post'[q] = post[q]
      BY <2>0, <2>1 DEF Inv, Shape
    <3>2. <<"new", "pending">> \in Steps
      BY DEF Steps
    <3> QED
      BY <2>1, <2>2, <3>1, <3>2, MovesOn DEF StageOf
  <2> QED
    BY <2>5, <2>6, <2>7, <2>8, <2>9 DEF Inv
<1>7. CASE DeleteRequest(r)
  <2>1. /\ row' = [row EXCEPT ![r] = "absent"]
        /\ UNCHANGED agent /\ post[r].at = "delete"
    BY <1>7 DEF DeleteRequest, PostAt
  <2>0. PICK at \in {post[r].result, "threw"} :
          post' = [post EXCEPT ![r] = [post[r] EXCEPT !.at = at]]
    BY <1>7 DEF DeleteRequest, PostWrites, PostGoes
  <2>2. row[r] \in {"completed", "failed"}
    BY <2>1 DEF Inv, PostOwns
  <2>3. \A t \in Ticks : tick[t].at \in {"take", "run", "complete"} => tick[t].req # r
    BY <2>2 DEF Inv, RelayOwns
  <2>4. [post[r] EXCEPT !.at = at] = [at |-> at,
           exists |-> post[r].exists, kept |-> post[r].kept, result |-> post[r].result]
    BY Relabel
  <2>5. post[r].result \in {"replied", "failed"}
    BY <2>1 DEF Inv, PostOwns
  <2>6. Shape'
    BY <2>0, <2>1, <2>4, <2>5 DEF Inv, Shape, Labels, Over, Statuses, agent
  <2>7. PostOwns'
    BY <2>0, <2>1, <2>4, <2>5 DEF Inv, Shape, PostOwns, agent
  <2>8. RelayOwns'
    BY <2>0, <2>1, <2>3, <2>4, <2>5 DEF Inv, Shape, RelayOwns, agent
  <2>9. RunAccounts'
    BY <2>1 DEF Inv, Shape, RunAccounts, agent
  <2>10. Keeps
    <3>1. /\ row'[r] = "absent" /\ post'[r].result \in {"replied", "failed"}
          /\ \A q \in Requests : q # r => row'[q] = row[q] /\ post'[q] = post[q]
      BY <2>0, <2>1, <2>4, <2>5 DEF Inv, Shape
    <3>2. <<"completed", "gone">> \in Steps /\ <<"failed", "gone">> \in Steps
      BY DEF Steps
    <3> QED
      BY <2>2, <3>1, <3>2, MovesOn DEF StageOf
  <2> QED
    BY <2>6, <2>7, <2>8, <2>9, <2>10 DEF Inv
<1> QED
  BY <1>1, <1>2, <1>3, <1>4, <1>5, <1>6, <1>7 DEF Handler

\* Actions of a tick that write no row.
LEMMA TickMoves ==
    ASSUME Inv, NEW t \in Ticks, NEW k,
           UNCHANGED <<row, runs, post>>,
           tick' = [tick EXCEPT ![t] = k],
           k = [at |-> k.at, req |-> k.req, turn |-> k.turn],
           \/ tick[t].at # "idle" /\ busy' = busy
           \/ ~busy /\ busy' = TRUE
           \/ busy' = FALSE /\ k.at = "idle" /\ tick[t].at # "idle",
           \/ k.at \in {"idle", "select"}
           \/ k.at = "take" /\ k.req \in Requests /\ row[k.req] = "pending"
           \/ k.at \in {"run", "complete", "fail"} /\ k.req \in Requests
                 /\ row[k.req] = "processing"
    PROVE  Inv' /\ Keeps
<1>1. \A u \in Ticks : u # t => tick'[u] = tick[u]
  OBVIOUS
<1>2. tick'[t] = k
  BY DEF Inv, Shape
<1>3. \A u \in Ticks : u # t => tick[u].at = "idle"
  BY DEF Inv, RelayOwns
<1>4. Shape'
  BY <1>1, <1>2 DEF Inv, Shape
<1>5. PostOwns' /\ RunAccounts'
  BY DEF Inv, PostOwns, RunAccounts
<1>6. RelayOwns'
  BY <1>1, <1>2, <1>3 DEF Inv, RelayOwns
<1>7. Keeps
  BY StaysStill DEF StageOf
<1> QED
  BY <1>4, <1>5, <1>6, <1>7 DEF Inv

\* Tick t becomes k as it sets the row of r, which it holds, to status.
Writes(t, k, r, status) ==
    /\ tick[t].at \in {"take", "complete", "fail"} /\ tick[t].req = r /\ row[r] # "absent"
    /\ UNCHANGED post
    /\ tick' = [tick EXCEPT ![t] = k]
    /\ k = [at |-> k.at, req |-> k.req, turn |-> k.turn]
    /\ row' = [row EXCEPT ![r] = status]
    /\ \/ tick[t].at = "take" /\ status = "processing" /\ k.at \in {"run", "idle"}
       \/ tick[t].at = "complete" /\ status = "completed" /\ k.at \in {"fail", "idle"}
       \/ tick[t].at = "fail" /\ status = "failed" /\ k.at = "idle"
    /\ k.at = "idle" => busy' = FALSE
    /\ k.at # "idle" => k.req = r /\ busy' = busy
    /\ k.at = "run" => runs' = [runs EXCEPT ![r] = @ + 1]
    /\ k.at # "run" => runs' = runs

LEMMA TickWrites ==
    ASSUME Inv, NEW t \in Ticks, NEW k, NEW r \in Requests, NEW status, Writes(t, k, r, status)
    PROVE  Inv' /\ Keeps
<1> USE DEF Writes
<1>1. \A u \in Ticks : u # t => tick'[u] = tick[u]
  OBVIOUS
<1>2. tick'[t] = k
  BY DEF Inv, Shape
<1>3. \A u \in Ticks : u # t => tick[u].at = "idle"
  BY DEF Inv, RelayOwns
<1>4. /\ <<row[r], status>> \in {<<"pending", "processing">>, <<"processing", "completed">>,
                               <<"processing", "failed">>, <<"completed", "failed">>}
      /\ tick[t].at = "take" => row[r] = "pending" /\ runs[r] = 0
  BY DEF Inv, RelayOwns, RunAccounts
<1>5. row' \in [Requests -> Statuses \cup {"absent"}] /\ runs' \in [Requests -> Nat]
  <2>1. runs[r] + 1 \in Nat /\ status \in Statuses
    BY <1>4 DEF Inv, Shape, Statuses
  <2>2. row \in [Requests -> Statuses \cup {"absent"}] /\ runs \in [Requests -> Nat]
    BY DEF Inv, Shape
  <2> QED
    BY <2>1, <2>2
<1>6. \A q \in Requests : q # r => row'[q] = row[q] /\ runs'[q] = runs[q]
  BY DEF Inv, Shape
<1>7. row'[r] = status /\ runs'[r] <= 1
  BY <1>4 DEF Inv, Shape, RunAccounts
<1>8. Shape'
  BY <1>1, <1>2, <1>5 DEF Inv, Shape
<1>9. PostOwns'
  BY <1>4, <1>6, <1>7 DEF Inv, Shape, PostOwns
<1>10. RelayOwns'
  BY <1>1, <1>2, <1>3, <1>7 DEF Inv, RelayOwns
<1>11. RunAccounts'
  BY <1>4, <1>6, <1>7 DEF Inv, RunAccounts
<1>12. Keeps
  <2>1. <<row[r], status>> \in Steps /\ StageOf(r) = row[r] /\ StageOf(r)' = status
    BY <1>4, <1>7 DEF Steps, StageOf
  <2>2. \A q \in Requests : q # r => StageOf(q)' = StageOf(q)
    BY <1>6 DEF StageOf
  <2> QED
    BY <2>1, <2>2, MovesOn
<1> QED
  BY <1>8, <1>9, <1>10, <1>11, <1>12 DEF Inv

\* A tick with one field changed, or two.
LEMMA Retick ==
    ASSUME Inv, NEW t \in Ticks, NEW at
    PROVE  [tick EXCEPT ![t].at = at] =
              [tick EXCEPT ![t] = [at |-> at, req |-> tick[t].req, turn |-> tick[t].turn]]
<1>1. [tick[t] EXCEPT !.at = at] = [at |-> at, req |-> tick[t].req, turn |-> tick[t].turn]
  BY DEF Inv, Shape
<1>2. [tick EXCEPT ![t].at = at] = [tick EXCEPT ![t] = [tick[t] EXCEPT !.at = at]]
  BY Zenon
<1> QED
  BY <1>1, <1>2, Zenon

LEMMA RetickReq ==
    ASSUME Inv, NEW t \in Ticks, NEW at, NEW e
    PROVE  [tick EXCEPT ![t].at = at, ![t].req = e] =
              [tick EXCEPT ![t] = [at |-> at, req |-> e, turn |-> tick[t].turn]]
<1> DEFINE k == [at |-> at, req |-> tick[t].req, turn |-> tick[t].turn]
<1>1. [tick[t] EXCEPT !.at = at] = k
  BY DEF Inv, Shape
<1>2. [k EXCEPT !.req = e] = [at |-> at, req |-> e, turn |-> tick[t].turn]
  OBVIOUS
<1>3. [tick EXCEPT ![t].at = at, ![t].req = e] =
        [tick EXCEPT ![t] = [[tick[t] EXCEPT !.at = at] EXCEPT !.req = e]]
  BY Zenon
<1> HIDE DEF k
<1> QED
  BY <1>1, <1>2, <1>3, Zenon

TickOf(at, q, n) == [at |-> at, req |-> q, turn |-> n]

LEMMA RetickTurn ==
    ASSUME Inv, NEW t \in Ticks, NEW at, NEW e
    PROVE  [tick EXCEPT ![t].turn = e, ![t].at = at] =
              [tick EXCEPT ![t] = TickOf(at, tick[t].req, e)]
<1> DEFINE k == [at |-> tick[t].at, req |-> tick[t].req, turn |-> e]
<1>1. [tick[t] EXCEPT !.turn = e] = k
  BY DEF Inv, Shape
<1>2. [k EXCEPT !.at = at] = TickOf(at, tick[t].req, e)
  BY DEF TickOf
<1>3. [tick EXCEPT ![t].turn = e, ![t].at = at] =
        [tick EXCEPT ![t] = [[tick[t] EXCEPT !.turn = e] EXCEPT !.at = at]]
  BY Zenon
<1> HIDE DEF k
<1> QED
  BY <1>1, <1>2, <1>3, Zenon

LEMMA TickStep ==
    ASSUME Inv, NEW t \in Ticks, Relay(t) \/ TickThrows(t)
    PROVE  Inv' /\ Keeps
<1>1. PICK q : NoTick = [at |-> "idle", req |-> q, turn |-> 0]
  BY DEF NoTick
<1>2. CASE TickBegins(t)
  <2> DEFINE k == [at |-> "select", req |-> tick[t].req, turn |-> tick[t].turn]
  <2>1. tick' = [tick EXCEPT ![t] = k]
    BY <1>2, Retick DEF TickBegins, TickGoes
  <2>2. ~busy /\ busy' = TRUE /\ UNCHANGED <<row, runs, post>>
    BY <1>2 DEF TickBegins, server, store
  <2> QED
    BY <2>1, <2>2, TickMoves
<1>3. CASE SelectRequest(t) /\ Found = {}
  BY <1>1, <1>3, TickMoves DEF SelectRequest, TickEnds, server, store
<1>4. CASE SelectRequest(t) /\ Found # {}
  <2>1. PICK r \in Found : tick' = [tick EXCEPT ![t].at = "take", ![t].req = r]
    BY <1>4 DEF SelectRequest
  <2> DEFINE k == [at |-> "take", req |-> r, turn |-> tick[t].turn]
  <2>4. tick' = [tick EXCEPT ![t] = k]
    BY <2>1, RetickReq, Zenon
  <2>2. r \in Requests /\ row[r] = "pending"
    BY DEF Found
  <2>3. tick[t].at # "idle" /\ busy' = busy /\ UNCHANGED <<row, runs, post>>
    BY <1>4 DEF SelectRequest, server, store
  <2> QED
    BY <2>2, <2>3, <2>4, TickMoves
<1>5. CASE TickThrows(t)
  BY <1>1, <1>5, TickMoves DEF TickThrows, TickEnds, server, store
<1>6. CASE TakeRequest(t)
  <2> DEFINE r == tick[t].req
  <2>1. tick[t].at = "take" /\ r \in Requests /\ row[r] = "pending"
    BY <1>6 DEF TakeRequest, Inv, Shape, RelayOwns
  <2>2. row' = [row EXCEPT ![r] = "processing"] /\ UNCHANGED post
    BY <1>6, <2>1 DEF TakeRequest, Updated, server
  <2>3. CASE TickGoes(t, "run") /\ runs' = [runs EXCEPT ![r] = @ + 1] /\ busy' = busy
    <3> DEFINE k == [at |-> "run", req |-> r, turn |-> tick[t].turn]
    <3>1. tick' = [tick EXCEPT ![t] = k]
      BY <2>3, Retick DEF TickGoes
    <3> QED
      <4>1. Writes(t, k, r, "processing")
        BY <2>1, <2>2, <2>3, <3>1 DEF Writes
      <4> QED
        BY <2>1, <4>1, TickWrites
  <2>4. CASE TickEnds(t) /\ runs' = runs
    <3>1. tick' = [tick EXCEPT ![t] = NoTick] /\ busy' = FALSE
      BY <2>4 DEF TickEnds
    <3> QED
      <4>1. Writes(t, NoTick, r, "processing")
        BY <1>1, <2>1, <2>2, <2>4, <3>1 DEF Writes
      <4> QED
        BY <2>1, <4>1, TickWrites
  <2> QED
    BY <1>6, <2>3, <2>4 DEF TakeRequest
<1>7. CASE Turn(t)
  <2>1. tick[t].at = "run" /\ tick[t].req \in Requests /\ row[tick[t].req] = "processing"
    BY <1>7 DEF Turn, Inv, Shape, RelayOwns
  <2>2. PICK at \in {"run", "complete", "fail"} : \E n :
          tick' = [tick EXCEPT ![t] = [at |-> at, req |-> tick[t].req, turn |-> n]]
    <3>1. CASE \E at \in {"complete", "fail"} : TickGoes(t, at)
      <4>1. PICK at \in {"complete", "fail"} : tick' = [tick EXCEPT ![t].at = at]
        BY <3>1 DEF TickGoes
      <4>2. tick' = [tick EXCEPT ![t] = [at |-> at, req |-> tick[t].req, turn |-> tick[t].turn]]
        BY <4>1, Retick, Zenon
      <4> QED
        BY <4>2
    <3>2. CASE tick' = [tick EXCEPT ![t].turn = @ + 1,
                  ![t].at = IF tick[t].turn + 1 = MaxTurns THEN "complete" ELSE "run"]
      <4> DEFINE at == IF tick[t].turn + 1 = MaxTurns THEN "complete" ELSE "run"
                 n == tick[t].turn + 1
      <4>1. tick' = [tick EXCEPT ![t].turn = n, ![t].at = at]
        BY <3>2, Zenon
      <4>2. at \in {"run", "complete"}
        OBVIOUS
      <4> HIDE DEF n, at
      <4>3. tick' = [tick EXCEPT ![t] = TickOf(at, tick[t].req, n)]
        BY <4>1, RetickTurn, Zenon
      <4> QED
        BY <4>2, <4>3 DEF TickOf
    <3> QED
      BY <1>7, <3>1, <3>2 DEF Turn
  <2>3. PICK n : tick' = [tick EXCEPT ![t] = [at |-> at, req |-> tick[t].req, turn |-> n]]
    BY <2>2
  <2>4. tick[t].at # "idle" /\ busy' = busy /\ UNCHANGED <<row, runs, post>>
    BY <1>7 DEF Turn, server, store
  <2> QED
    BY <2>1, <2>3, <2>4, TickMoves
<1>8. CASE WriteAnswer(t)
  <2> DEFINE r == tick[t].req
             k == [at |-> "fail", req |-> r, turn |-> tick[t].turn]
  <2>1. tick[t].at = "complete" /\ r \in Requests /\ row[r] = "processing"
    BY <1>8 DEF WriteAnswer, Inv, Shape, RelayOwns
  <2>2. UNCHANGED <<runs, post>>
    BY <1>8 DEF WriteAnswer, server
  <2>3. Updated(r, "completed") => row' = [row EXCEPT ![r] = "completed"]
    BY <2>1 DEF Updated
  <2>4. CASE TickEnds(t) /\ Updated(r, "completed")
    <3>1. tick' = [tick EXCEPT ![t] = NoTick] /\ busy' = FALSE
      BY <2>4 DEF TickEnds
    <3> QED
      <4>1. Writes(t, NoTick, r, "completed")
        BY <1>1, <2>1, <2>2, <2>3, <2>4, <3>1 DEF Writes
      <4> QED
        BY <2>1, <4>1, TickWrites
  <2>5. TickGoes(t, "fail") => tick' = [tick EXCEPT ![t] = k]
    BY Retick DEF TickGoes
  <2>6. CASE TickGoes(t, "fail") /\ UNCHANGED <<row, busy>>
    BY <2>1, <2>2, <2>5, <2>6, TickMoves
  <2>7. CASE TickGoes(t, "fail") /\ Updated(r, "completed") /\ busy' = busy
    <3>1. Writes(t, k, r, "completed")
      BY <2>1, <2>2, <2>3, <2>5, <2>7 DEF Writes
    <3> QED
      BY <2>1, <3>1, TickWrites
  <2> QED
    BY <1>8, <2>4, <2>6, <2>7 DEF WriteAnswer
<1>9. CASE WriteFailure(t)
  <2> DEFINE r == tick[t].req
  <2>1. tick[t].at = "fail" /\ r \in Requests
    BY <1>9 DEF WriteFailure, Inv, Shape
  <2>2. /\ UNCHANGED <<runs, post>>
        /\ tick' = [tick EXCEPT ![t] = NoTick] /\ busy' = FALSE
    BY <1>9 DEF WriteFailure, TickEnds, server
  <2>3. CASE row[r] = "absent"
    BY <1>1, <1>9, <2>1, <2>2, <2>3, TickMoves DEF WriteFailure, Updated
  <2>4. CASE row[r] # "absent"
    <3>1. row' = [row EXCEPT ![r] = "failed"]
      BY <1>9, <2>4 DEF WriteFailure, Updated
    <3> QED
      <4>1. Writes(t, NoTick, r, "failed")
        BY <1>1, <2>1, <2>2, <2>4, <3>1 DEF Writes
      <4> QED
        BY <2>1, <4>1, TickWrites
  <2> QED
    BY <2>3, <2>4
<1> QED
  BY <1>2, <1>3, <1>4, <1>5, <1>6, <1>7, <1>8, <1>9 DEF Relay

LEMMA RestartStep ==
    ASSUME Inv, AgentStops \/ AgentStarts \/ DashboardRestarts
    PROVE  Inv' /\ Keeps
<1>1. CASE AgentStops
  <2>1. PICK q : NoTick = [at |-> "idle", req |-> q, turn |-> 0]
    BY DEF NoTick
  <2>2. tick' = [t \in Ticks |-> NoTick] /\ busy' = FALSE /\ UNCHANGED <<row, runs, post>>
    BY <1>1 DEF AgentStops, server, store
  <2>3. Inv'
    BY <2>1, <2>2 DEF Inv, Shape, PostOwns, RelayOwns, RunAccounts
  <2> QED
    BY <2>2, <2>3, StaysStill DEF StageOf
<1>2. CASE AgentStarts
  <2>1. Inv'
    BY <1>2 DEF AgentStarts, server, store, Inv, Shape, PostOwns, RelayOwns, RunAccounts
  <2> QED
    BY <1>2, <2>1, StaysStill DEF AgentStarts, server, store, StageOf
<1>3. CASE DashboardRestarts
  <2>1. UNCHANGED <<row, agent>>
    BY <1>3 DEF DashboardRestarts, store
  <2>2. \A r \in Requests : post'[r] = post[r]
                             \/ post'[r] = [post[r] EXCEPT !.at = "gone"]
    BY <1>3 DEF DashboardRestarts
  <2>3. \A r \in Requests : post'[r] = post[r]
          \/ post'[r] = [at |-> "gone", exists |-> post[r].exists, kept |-> post[r].kept,
                         result |-> post[r].result]
    BY <2>2, Relabel
  <2>4. post' = [r \in Requests |-> post'[r]]
    BY <1>3 DEF DashboardRestarts
  <2>5. Inv'
    BY <2>1, <2>3, <2>4 DEF Inv, Shape, PostOwns, RelayOwns, RunAccounts, Labels, Over, agent
  <2>6. \A r \in Requests :
          \/ post'[r] = post[r]
          \/ post'[r].result = post[r].result
    <3> TAKE r \in Requests
    <3>1. CASE post[r].at \in Over \cup {"new"}
      <4>1. post'[r] = IF post[r].at \in Over \cup {"new"} THEN post[r]
                       ELSE [post[r] EXCEPT !.at = "gone"]
        BY <1>3, Zenon DEF DashboardRestarts
      <4>2. post'[r] = post[r]
        BY <3>1, <4>1, Zenon
      <4> QED
        BY <4>2
    <3>2. CASE post[r].at \notin Over \cup {"new"}
      <4>1. post'[r] = [at |-> "gone", exists |-> post[r].exists, kept |-> post[r].kept,
                        result |-> post[r].result]
        <5>1. post'[r] = IF post[r].at \in Over \cup {"new"} THEN post[r]
                         ELSE [post[r] EXCEPT !.at = "gone"]
          BY <1>3, Zenon DEF DashboardRestarts
        <5>2. post'[r] = [post[r] EXCEPT !.at = "gone"]
          BY <3>2, <5>1, Zenon
        <5> QED
          BY <5>2, Relabel
      <4> QED
        BY <4>1
    <3> QED
      BY <3>1, <3>2
  <2> QED
    BY <2>1, <2>5, <2>6, StaysStill DEF StageOf
<1> QED
  BY <1>1, <1>2, <1>3

LEMMA InvStep == ASSUME Inv, [Next]_vars PROVE Inv' /\ Keeps
<1>1. CASE UNCHANGED vars
  <2>1. Inv'
    BY <1>1 DEF vars, server, store, agent, Inv, Shape, PostOwns, RelayOwns, RunAccounts
  <2> QED
    BY <1>1, <2>1, StaysStill DEF vars, server, store, StageOf
<1>2. CASE Next
  BY <1>2, TabStep, HandlerStep, TickStep, RestartStep DEF Next
<1> QED
  BY <1>1, <1>2

LEMMA Invariance == Spec => []Inv
<1>1. Init => Inv
  BY InvInit
<1>2. Inv /\ [Next]_vars => Inv'
  BY InvStep
<1> QED
  BY <1>1, <1>2, PTL DEF Spec

-----------------------------------------------------------------------------
\* The loop of LLM and tool calls is begun at most once for a request,
\* whatever ticks overlap, calls fail and processes restart
\* (operator-chat-relay.ts:317, :234).
THEOREM RequestRunsOnce == Spec => []RunOnce
<1>1. Inv => RunOnce
  BY DEF Inv, RunAccounts, RunOnce
<1> QED
  BY <1>1, Invariance, PTL

\* A POST that has answered has left no row, and none comes back
\* (chat.ts:239).
THEOREM AnswerLeavesNoRow == Spec => []AnsweredGone
<1>1. Inv => AnsweredGone
  BY DEF Inv, PostOwns, AnsweredGone
<1> QED
  BY <1>1, Invariance, PTL

\* The POST and the relay, restarts and failures included, do nothing to a
\* request but move it through the stages of the mailbox (chat.ts:137,
\* operator-chat-relay.ts:317).
THEOREM RelayImplementsMailbox == Spec => ImplementsMailbox
<1>1. Init => Mail!MailInit
  <2> SUFFICES ASSUME Init PROVE \A r \in Requests : StageOf(r) = "new"
    BY DEF Mail!MailInit
  <2>1. NoPost.result = "none"
    BY DEF NoPost
  <2> QED
    BY <2>1 DEF Init, StageOf
<1>2. Inv /\ [Next]_vars => [Mail!MailNext]_stage
  BY InvStep DEF Keeps
<1> QED
  BY <1>1, <1>2, Invariance, PTL DEF Spec, ImplementsMailbox, Mail!MailSpec, stage
-----------------------------------------------------------------------------
(* The history.  A reply stands right behind its message in what a POST     *)
(* keeps and in what it saves, so a cut at the front can take a message     *)
(* only together with all that comes before its reply.                      *)

\* A POST at one of these labels has added its message to what it keeps.
Asked == {"save-look", "save", "latest-look", "latest", "insert", "wait", "final"}

Paired(h) == \A i \in 2 .. Len(h) : h[i][1] = "assistant" => h[i - 1] = <<"user", h[i][2]>>

Good(h) == h \in Seq(Entry) /\ Len(h) <= MaxHistory /\ Paired(h)

EndsWith(h, e) == Len(h) > 0 /\ h[Len(h)] = e

HistoryInv ==
    /\ Good(Messages)
    /\ \A r \in Requests : Good(post[r].kept) /\ (post[r].at \in Asked =>
                                                    EndsWith(post[r].kept, <<"user", r>>))

LEMMA CutKeeps ==
    ASSUME NEW h \in Seq(Entry), h # <<>>, Paired(h)
    PROVE  Good(Newest(h, MaxHistory)) /\ EndsWith(Newest(h, MaxHistory), h[Len(h)])
<1>0. MaxHistory \in Nat \ {0} /\ Len(h) \in Nat \ {0}
  BY ChatAssumption
<1>1. PICK m \in 1 .. Len(h) : m = IF Len(h) > MaxHistory THEN Len(h) - MaxHistory + 1 ELSE 1
  BY <1>0
<1> DEFINE s == SubSeq(h, m, Len(h))
<1>2. /\ s \in Seq(Entry) /\ Len(s) = Len(h) - m + 1
      /\ \A i \in 1 .. Len(s) : s[i] = h[m + i - 1]
  <2>1. s \in Seq(Entry)
    OBVIOUS
  <2>2. Len(s) = Len(h) - m + 1
    OBVIOUS
  <2>3. \A i \in 1 .. Len(h) - m + 1 : s[i] = h[m + i - 1]
    OBVIOUS
  <2> HIDE DEF s
  <2> QED
    BY <2>1, <2>2, <2>3
<1>3. Len(s) <= MaxHistory /\ Len(s) \in Nat \ {0}
  BY <1>0, <1>1, <1>2
<1>4. Newest(h, MaxHistory) = s
  BY <1>1 DEF Newest
<1> HIDE DEF s
<1>5. Paired(s)
  <2> SUFFICES ASSUME NEW i \in 2 .. Len(s), s[i][1] = "assistant"
               PROVE  s[i - 1] = <<"user", s[i][2]>>
    BY DEF Paired
  <2>1. s[i] = h[m + i - 1] /\ s[i - 1] = h[(m + i - 1) - 1] /\ m + i - 1 \in 2 .. Len(h)
    BY <1>0, <1>2, <1>3
  <2> QED
    BY <2>1 DEF Paired
<1>6. s[Len(s)] = h[Len(h)]
  BY <1>0, <1>2, <1>3
<1> QED
  BY <1>2, <1>3, <1>4, <1>5, <1>6 DEF Good, EndsWith

\* A message goes behind anything, a reply only behind its message.
LEMMA AddKeeps ==
    ASSUME NEW h \in Seq(Entry), Paired(h), NEW r \in Requests, NEW who \in {"user", "assistant"},
           who = "assistant" => EndsWith(h, <<"user", r>>)
    PROVE  LET k == Append(h, <<who, r>>)
           IN  k \in Seq(Entry) /\ k # <<>> /\ Paired(k) /\ k[Len(k)] = <<who, r>>
<1> DEFINE e == <<who, r>>
           k == Append(h, e)
<1>0. e \in Entry /\ e[1] = who /\ e[2] = r
  BY DEF Entry
<1>9. who = "assistant" => EndsWith(h, <<"user", e[2]>>)
  BY <1>0
<1> HIDE DEF e
<1>1. /\ k \in Seq(Entry) /\ Len(k) = Len(h) + 1 /\ k[Len(k)] = e /\ Len(h) \in Nat
      /\ \A i \in 1 .. Len(h) : k[i] = h[i]
  BY <1>0
<1> HIDE DEF k
<1>2. Paired(k)
  <2> SUFFICES ASSUME NEW i \in 2 .. Len(k), k[i][1] = "assistant"
               PROVE  k[i - 1] = <<"user", k[i][2]>>
    BY DEF Paired
  <2>1. CASE i <= Len(h)
    <3>1. k[i] = h[i] /\ k[i - 1] = h[i - 1] /\ i \in 2 .. Len(h)
      BY <1>1, <2>1
    <3> QED
      BY <3>1 DEF Paired
  <2>2. CASE i > Len(h)
    <3>1. i = Len(k) /\ i - 1 = Len(h)
      BY <1>1, <2>2
    <3>2. k[i] = e /\ Len(h) >= 1 /\ k[i - 1] = h[Len(h)]
      BY <1>1, <3>1
    <3> QED
      BY <1>0, <1>9, <3>2 DEF EndsWith
  <2> QED
    BY <1>1, <2>1, <2>2
<1>3. k # <<>>
  BY <1>1
<1> QED
  BY <1>1, <1>2, <1>3 DEF k, e

LEMMA NothingGood == Good(<<>>)
BY ChatAssumption DEF Good, Paired

LEMMA HistoryInit == Init => HistoryInv
<1> SUFFICES ASSUME Init PROVE HistoryInv
  OBVIOUS
<1>1. NoPost.kept = <<>> /\ NoPost.at = "new"
  BY DEF NoPost
<1>2. Messages = <<>>
  BY DEF Init, Messages
<1> QED
  BY <1>1, <1>2, NothingGood DEF Init, HistoryInv, Asked

\* What leaves the history alone, and what the POSTs have kept.
LEMMA HistoryAside ==
    ASSUME HistoryInv, UNCHANGED history,
           \A r \in Requests : /\ post'[r].kept = post[r].kept
                               /\ post'[r].at \in Asked => post[r].at \in Asked
    PROVE  HistoryInv'
BY DEF HistoryInv, Messages, Good, Paired, EndsWith

LEMMA HistoryHolds ==
    ASSUME Good(Messages'),
           \A r \in Requests : Good(post'[r].kept) /\ (post'[r].at \in Asked =>
                                                         EndsWith(post'[r].kept, <<"user", r>>))
    PROVE  HistoryInv'
BY DEF HistoryInv, Good, Paired, EndsWith

\* A POST that only goes to another label.
LEMMA GoesOn ==
    ASSUME Inv, NEW r \in Requests, NEW at, PostGoes(r, at)
    PROVE  /\ post'[r].kept = post[r].kept /\ post'[r].at = at
           /\ \A q \in Requests : q # r => post'[q] = post[q]
<1>1. post' = [post EXCEPT ![r] = [post[r] EXCEPT !.at = at]]
  BY DEF PostGoes
<1> QED
  BY <1>1, Relabel DEF Inv, Shape

LEMMA HandlerKeepsHistory ==
    ASSUME Inv, HistoryInv, NEW r \in Requests, Handler(r) \/ Deadline(r) \/ PostThrows(r)
    PROVE  HistoryInv'
<1>1. CASE LoadHistory(r)
  <2> DEFINE u == Append(Messages, <<"user", r>>)
             k == Newest(u, MaxHistory)
  <2>1. Good(k) /\ EndsWith(k, <<"user", r>>)
    <3>1. Messages \in Seq(Entry) /\ Paired(Messages)
      BY DEF HistoryInv, Good
    <3>2. u \in Seq(Entry) /\ u # <<>> /\ Paired(u) /\ u[Len(u)] = <<"user", r>>
      BY <3>1, AddKeeps
    <3> HIDE DEF u
    <3>3. Good(k) /\ EndsWith(k, u[Len(u)])
      BY <3>2, CutKeeps
    <3> QED
      BY <3>2, <3>3
  <2>2. post' = [post EXCEPT ![r].at = "save-look", ![r].kept = k] /\ UNCHANGED history
    BY <1>1 DEF LoadHistory, Messages, store
  <2> HIDE DEF k
  <2>3. post' = [post EXCEPT ![r] = PostOf("save-look", post[r].exists, k, post[r].result)]
    BY <2>2, PostKept, Zenon
  <2>4. post'[r].kept = k /\ \A q \in Requests : q # r => post'[q] = post[q]
    BY <2>3 DEF PostOf, Inv, Shape
  <2>5. Good(Messages')
    BY <2>2 DEF HistoryInv, Messages
  <2> QED
    BY <2>1, <2>4, <2>5, HistoryHolds DEF HistoryInv
<1>2. CASE LookForHistory(r) \/ LookForLatest(r) \/ PollFindsAnswer(r)
  <2>1. \E at, e, res : /\ post' = [post EXCEPT ![r] = PostOf(at, e, post[r].kept, res)]
                        /\ post[r].at \in Asked
    <3>1. CASE LookForHistory(r)
      <4>1. post' = [post EXCEPT ![r].at = "save", ![r].exists = history # None]
        BY <3>1 DEF LookForHistory
      <4>2. \A e : [post EXCEPT ![r].at = "save", ![r].exists = e] =
                      [post EXCEPT ![r] = PostOf("save", e, post[r].kept, post[r].result)]
        BY PostExists
      <4>3. post[r].at \in Asked
        BY <3>1 DEF LookForHistory, PostAt, Asked
      <4>4. \E e : post' = [post EXCEPT ![r] = PostOf("save", e, post[r].kept, post[r].result)]
        BY <4>1, <4>2, Zenon
      <4> QED
        BY <4>3, <4>4
    <3>2. CASE LookForLatest(r)
      <4>1. post' = [post EXCEPT ![r].at = "latest", ![r].exists = latest]
        BY <3>2 DEF LookForLatest
      <4>2. \A e : [post EXCEPT ![r].at = "latest", ![r].exists = e] =
                      [post EXCEPT ![r] = PostOf("latest", e, post[r].kept, post[r].result)]
        BY PostExists
      <4>3. post[r].at \in Asked
        BY <3>2 DEF LookForLatest, PostAt, Asked
      <4>4. \E e : post' = [post EXCEPT ![r] = PostOf("latest", e, post[r].kept, post[r].result)]
        BY <4>1, <4>2, Zenon
      <4> QED
        BY <4>3, <4>4
    <3>3. CASE PollFindsAnswer(r)
      <4>1. PICK at, res : post' = [post EXCEPT ![r].at = at, ![r].result = res]
        BY <3>3, Zenon DEF PollFindsAnswer
      <4>2. \A a, e : [post EXCEPT ![r].at = a, ![r].result = e] =
                        [post EXCEPT ![r] = PostOf(a, post[r].exists, post[r].kept, e)]
        BY PostResult
      <4>3. post[r].at \in Asked
        BY <3>3 DEF PollFindsAnswer, PostAt, Asked
      <4>4. post' = [post EXCEPT ![r] = PostOf(at, post[r].exists, post[r].kept, res)]
        BY <4>1, <4>2, Zenon
      <4> QED
        BY <4>3, <4>4
    <3> QED
      BY <1>2, <3>1, <3>2, <3>3
  <2>2. /\ post'[r].kept = post[r].kept /\ post[r].at \in Asked
        /\ \A q \in Requests : q # r => post'[q] = post[q]
    BY <2>1 DEF PostOf, Inv, Shape
  <2>3. UNCHANGED history
    BY <1>2 DEF LookForHistory, LookForLatest, PollFindsAnswer, store
  <2> QED
    BY <2>2, <2>3, HistoryAside
<1>3. CASE SaveHistory(r)
  <2>1. \E at \in {"threw", "latest-look"} : PostGoes(r, at)
    BY <1>3 DEF SaveHistory, PostWrites
  <2>2. /\ post'[r].kept = post[r].kept /\ \A q \in Requests : q # r => post'[q] = post[q]
        /\ post[r].at \in Asked
    BY <1>3, <2>1, GoesOn DEF SaveHistory, PostAt, Asked
  <2>3. CASE UNCHANGED history
    BY <2>2, <2>3, HistoryAside
  <2>4. CASE history' = post[r].kept
    <3>1. Messages' \in {<<>>, post[r].kept}
      BY <2>4 DEF Messages
    <3>2. Good(Messages')
      BY <3>1, NothingGood DEF HistoryInv
    <3> QED
      BY <2>2, <3>2, HistoryHolds DEF HistoryInv
  <2> QED
    BY <1>3, <2>3, <2>4 DEF SaveHistory
<1>4. CASE SaveReply(r)
  <2> DEFINE u == Append(post[r].kept, <<"assistant", r>>)
  <2>1. Good(Newest(u, MaxHistory))
    <3>1. post[r].kept \in Seq(Entry) /\ Paired(post[r].kept) /\ EndsWith(post[r].kept, <<"user", r>>)
      BY <1>4 DEF HistoryInv, Good, SaveReply, PostAt, Asked
    <3>2. u \in Seq(Entry) /\ u # <<>> /\ Paired(u)
      BY <3>1, AddKeeps
    <3> HIDE DEF u
    <3> QED
      BY <3>2, CutKeeps
  <2>2. /\ history' = Newest(u, MaxHistory) /\ post[r].at = "final"
        /\ \E at \in {"delete", "threw"} : PostGoes(r, at)
    BY <1>4 DEF SaveReply, PostWrites, PostAt
  <2> HIDE DEF u
  <2>3. Messages' \in {<<>>, Newest(u, MaxHistory)}
    BY <2>2 DEF Messages
  <2>4. Good(Messages')
    BY <2>1, <2>3, NothingGood
  <2>5. /\ post'[r].kept = post[r].kept /\ \A q \in Requests : q # r => post'[q] = post[q]
        /\ post[r].at \in Asked
    BY <2>2, GoesOn DEF Asked
  <2> QED
    BY <2>4, <2>5, HistoryHolds DEF HistoryInv
<1>5. CASE SaveLatest(r) \/ InsertRequest(r) \/ Deadline(r) \/ PostThrows(r) \/ DeleteRequest(r)
  <2>1. PICK at : PostGoes(r, at)
    BY <1>5 DEF SaveLatest, InsertRequest, Deadline, PostThrows, DeleteRequest, PostWrites
  <2>2. post'[r].kept = post[r].kept /\ \A q \in Requests : q # r => post'[q] = post[q]
    BY <2>1, GoesOn
  <2>3. post'[r].at \in Asked => post[r].at \in Asked
    <3>1. CASE SaveLatest(r) \/ InsertRequest(r)
      BY <3>1 DEF SaveLatest, InsertRequest, PostAt, Asked
    <3>2. CASE \E s \in {"timeout", "threw", "replied", "failed"} : PostGoes(r, s)
      BY <3>2, GoesOn DEF Asked
    <3>3. DeleteRequest(r) => post[r].result \in {"replied", "failed"}
      BY DEF DeleteRequest, PostAt, Inv, PostOwns
    <3> QED
      BY <1>5, <3>1, <3>2, <3>3 DEF Deadline, PostThrows, DeleteRequest, PostWrites
  <2>4. UNCHANGED history
    BY <1>5 DEF SaveLatest, InsertRequest, Deadline, PostThrows, DeleteRequest, store
  <2> QED
    BY <2>2, <2>3, <2>4, HistoryAside
<1> QED
  BY <1>1, <1>2, <1>3, <1>4, <1>5 DEF Handler

LEMMA HistoryStep == ASSUME Inv, HistoryInv, [Next]_vars PROVE HistoryInv'
<1>1. CASE \E r \in Requests : Handler(r) \/ Deadline(r) \/ PostThrows(r)
  BY <1>1, HandlerKeepsHistory
<1>2. CASE \E t \in Tabs, r \in Requests : Send(t, r)
  <2>1. PICK t \in Tabs, r \in Requests : Send(t, r)
    BY <1>2
  <2>2. PostGoes(r, "load") /\ UNCHANGED history
    BY <2>1 DEF Send, PostGoes, store
  <2>3. /\ post'[r].kept = post[r].kept /\ post'[r].at = "load"
        /\ \A q \in Requests : q # r => post'[q] = post[q]
    BY <2>2, GoesOn
  <2> QED
    BY <2>2, <2>3, HistoryAside DEF Asked
<1>3. CASE DashboardRestarts
  <2>1. UNCHANGED history
    BY <1>3 DEF DashboardRestarts, store
  <2>2. \A r \in Requests : post'[r] = post[r] \/ post'[r] = [post[r] EXCEPT !.at = "gone"]
    BY <1>3 DEF DashboardRestarts
  <2>3. \A r \in Requests : LET p == [post[r] EXCEPT !.at = "gone"]
                            IN  p.kept = post[r].kept /\ p.at = "gone"
    BY Relabel
  <2>4. \A r \in Requests : /\ post'[r].kept = post[r].kept
                            /\ post'[r].at \in Asked => post[r].at \in Asked
    BY <2>2, <2>3 DEF Asked
  <2> QED
    BY <2>1, <2>4, HistoryAside
<1>4. CASE \/ \E t \in Tabs : Receive(t) \/ Reload(t)
           \/ \E t \in Ticks : Relay(t) \/ TickThrows(t)
           \/ AgentStops \/ AgentStarts \/ UNCHANGED vars
  <2>1. UNCHANGED <<history, post>>
    BY <1>4 DEF Receive, Reload, Relay, TickBegins, SelectRequest, TakeRequest, Turn, WriteAnswer,
       WriteFailure, TickThrows, AgentStops, AgentStarts, vars, server, store
  <2> QED
    BY <2>1, HistoryAside
<1> QED
  BY <1>1, <1>2, <1>3, <1>4 DEF Next

\* A reply in the history follows its message, unless the cut has taken the
\* message, whatever other POSTs have saved meanwhile, for any length of the
\* history (chat.ts:236).
THEOREM RepliesFollowTheirMessages == Spec => []RepliesFollow
<1>1. Inv /\ HistoryInv /\ [Next]_vars => HistoryInv'
  BY HistoryStep
<1>2. HistoryInv => RepliesFollow
  <2> SUFFICES ASSUME HistoryInv, NEW i \in DOMAIN Messages, Messages[i][1] = "assistant", i > 1
               PROVE  \E k \in 1 .. i - 1 : Messages[k] = <<"user", Messages[i][2]>>
    BY DEF RepliesFollow
  <2>1. Messages \in Seq(Entry) /\ Paired(Messages)
    BY DEF HistoryInv, Good
  <2>2. i \in 2 .. Len(Messages) /\ i - 1 \in 1 .. i - 1
    BY <2>1
  <2> QED
    BY <2>1, <2>2 DEF Paired
<1> QED
  BY <1>1, <1>2, Invariance, HistoryInit, PTL DEF Spec
-----------------------------------------------------------------------------
(* Types.  The rows that the relay reads in the order of their updates are  *)
(* the rows there are, each once.                                           *)

OrderInv ==
    /\ order \in Seq(Requests)
    /\ \A i, j \in DOMAIN order : order[i] = order[j] => i = j
    /\ \A r \in Requests : row[r] # "absent" <=> \E i \in DOMAIN order : order[i] = r

RestInv ==
    /\ tab \in [Tabs -> Requests \cup {"idle"}] /\ latest \in BOOLEAN /\ relay \in BOOLEAN
    /\ faults \in 0 .. MaxFaults
    /\ \A r \in Requests : post[r].exists \in BOOLEAN
    /\ \A t \in Ticks : /\ tick[t].req \in Requests /\ tick[t].turn \in 0 .. MaxTurns
                        /\ tick[t].at \in {"idle", "select", "take", "run"} =>
                              tick[t].turn < MaxTurns

\* The rows without one of them, and with one at the end.
LEMMA WithoutOne ==
    ASSUME OrderInv, NEW r \in Requests, row[r] # "absent"
    PROVE  /\ Without(r) \in Seq(Requests)
           /\ \A i, j \in DOMAIN Without(r) : Without(r)[i] = Without(r)[j] => i = j
           /\ \A q \in Requests : (\E i \in DOMAIN Without(r) : Without(r)[i] = q)
                                     <=> q # r /\ row[q] # "absent"
<1>1. PICK p \in 1 .. Len(order) : order[p] = r
  BY DEF OrderInv
<1>2. PICK n \in Nat : n = Len(order) /\ order \in [1 .. n -> Requests] /\ p \in 1 .. n
  BY <1>1 DEF OrderInv
<1>3. \A i, j \in 1 .. n : order[i] = order[j] => i = j
  BY <1>2 DEF OrderInv
<1> DEFINE w == [i \in 1 .. n - 1 |-> order[IF p <= i THEN i + 1 ELSE i]]
<1>4. Without(r) = w
  <2>1. \A i \in 1 .. n - 1 : (\E k \in 1 .. i : order[k] = r) <=> p <= i
    <3> TAKE i \in 1 .. n - 1
    <3>1. \A k \in 1 .. i : k \in 1 .. n
      BY <1>2
    <3>2. ASSUME NEW k \in 1 .. i, order[k] = r PROVE p <= i
      BY <1>1, <1>2, <1>3, <3>1, <3>2
    <3> QED
      BY <1>1, <1>2, <3>2
  <2> QED
    BY <1>2, <2>1 DEF Without
<1>5. \A i \in 1 .. n - 1 : /\ i \in 1 .. n /\ i + 1 \in 1 .. n
                            /\ w[i] = IF p <= i THEN order[i + 1] ELSE order[i]
  BY <1>2
<1>6. w \in [1 .. n - 1 -> Requests] /\ DOMAIN w = 1 .. n - 1 /\ n - 1 \in Nat
  BY <1>2, <1>5
<1> HIDE DEF w
<1>7. w \in Seq(Requests)
  BY <1>6
<1>8. \A i, j \in 1 .. n - 1 : w[i] = w[j] => i = j
  BY <1>2, <1>3, <1>5
<1>9. ASSUME NEW q \in Requests
      PROVE  (\E i \in 1 .. n - 1 : w[i] = q) <=> q # r /\ row[q] # "absent"
  <2>1. ASSUME NEW i \in 1 .. n - 1, w[i] = q PROVE q # r /\ row[q] # "absent"
    <3>1. PICK k \in 1 .. n : order[k] = q /\ k # p
      BY <1>2, <1>5, <2>1
    <3> QED
      BY <1>1, <1>2, <1>3, <3>1 DEF OrderInv
  <2>2. ASSUME q # r, row[q] # "absent" PROVE \E i \in 1 .. n - 1 : w[i] = q
    <3>1. PICK k \in 1 .. n : order[k] = q
      BY <1>2, <2>2 DEF OrderInv
    <3>2. k # p
      BY <1>1, <2>2, <3>1
    <3>3. CASE k < p
      <4>1. k \in 1 .. n - 1 /\ ~(p <= k)
        BY <1>2, <3>1, <3>3
      <4> QED
        BY <1>5, <3>1, <4>1
    <3>4. CASE k > p
      <4>1. k - 1 \in 1 .. n - 1 /\ p <= k - 1 /\ (k - 1) + 1 = k
        BY <1>2, <3>1, <3>4
      <4>2. w[k - 1] = order[k]
        BY <1>5, <4>1
      <4> QED
        BY <3>1, <4>1, <4>2
    <3> QED
      BY <1>2, <3>1, <3>2, <3>3, <3>4
  <2> QED
    BY <2>1, <2>2
<1> QED
  BY <1>4, <1>6, <1>7, <1>8, <1>9

LEMMA OneAtTheEnd ==
    ASSUME NEW s \in Seq(Requests), NEW r \in Requests,
           \A i, j \in DOMAIN s : s[i] = s[j] => i = j,
           \A i \in DOMAIN s : s[i] # r
    PROVE  LET a == Append(s, r)
           IN  /\ a \in Seq(Requests)
               /\ \A i, j \in DOMAIN a : a[i] = a[j] => i = j
               /\ \A q \in Requests : (\E i \in DOMAIN a : a[i] = q)
                                         <=> q = r \/ \E i \in DOMAIN s : s[i] = q
<1>1. PICK n \in Nat : n = Len(s)
  OBVIOUS
<1> DEFINE a == Append(s, r)
<1>2. /\ a \in Seq(Requests) /\ DOMAIN a = 1 .. n + 1 /\ a[n + 1] = r
      /\ DOMAIN s = 1 .. n /\ \A i \in 1 .. n : a[i] = s[i]
  BY <1>1
<1> HIDE DEF a
<1>3. \A i \in 1 .. n + 1 : i \in 1 .. n \/ i = n + 1
  BY <1>1
<1>4. \A i, j \in 1 .. n + 1 : a[i] = a[j] => i = j
  BY <1>2, <1>3
<1>5. \A q \in Requests : (\E i \in 1 .. n + 1 : a[i] = q) <=> q = r \/ \E i \in 1 .. n : s[i] = q
  <2>1. 1 .. n \subseteq 1 .. n + 1 /\ n + 1 \in 1 .. n + 1
    BY <1>1
  <2> QED
    BY <1>2, <1>3, <2>1
<1> QED
  BY <1>2, <1>4, <1>5 DEF a

LEMMA UpdateKeepsOrder ==
    ASSUME Inv, OrderInv, NEW r \in Requests, NEW status \in Statuses, Updated(r, status)
    PROVE  OrderInv'
<1>1. CASE row[r] = "absent"
  BY <1>1 DEF Updated, OrderInv
<1>2. CASE row[r] # "absent"
  <2> DEFINE s == Without(r)
  <2>1. row' = [row EXCEPT ![r] = status] /\ order' = Append(s, r)
    BY <1>2 DEF Updated
  <2>2. /\ s \in Seq(Requests) /\ \A i, j \in DOMAIN s : s[i] = s[j] => i = j
        /\ \A q \in Requests : (\E i \in DOMAIN s : s[i] = q) <=> q # r /\ row[q] # "absent"
    BY <1>2, WithoutOne
  <2> HIDE DEF s
  <2>3. \A i \in DOMAIN s : s[i] # r
    BY <2>2
  <2>4. /\ order' \in Seq(Requests) /\ \A i, j \in DOMAIN order' : order'[i] = order'[j] => i = j
        /\ \A q \in Requests : (\E i \in DOMAIN order' : order'[i] = q)
                                  <=> q = r \/ \E i \in DOMAIN s : s[i] = q
    BY <2>1, <2>2, <2>3, OneAtTheEnd
  <2>5. \A q \in Requests : row'[q] # "absent" <=> q = r \/ (q # r /\ row[q] # "absent")
    BY <1>2, <2>1 DEF Inv, Shape, Statuses
  <2> QED
    BY <2>2, <2>4, <2>5 DEF OrderInv
<1> QED
  BY <1>1, <1>2

LEMMA OrderStep == ASSUME Inv, OrderInv, [Next]_vars PROVE OrderInv'
<1>1. CASE \E r \in Requests : InsertRequest(r)
  <2>1. PICK r \in Requests : InsertRequest(r)
    BY <1>1
  <2>2. row' = [row EXCEPT ![r] = "pending"] /\ order' = Append(order, r) /\ row[r] = "absent"
    BY <2>1 DEF InsertRequest, PostAt, Inv, PostOwns
  <2>3. /\ order' \in Seq(Requests) /\ \A i, j \in DOMAIN order' : order'[i] = order'[j] => i = j
        /\ \A q \in Requests : (\E i \in DOMAIN order' : order'[i] = q)
                                  <=> q = r \/ \E i \in DOMAIN order : order[i] = q
    BY <2>2, OneAtTheEnd DEF OrderInv
  <2>4. \A q \in Requests : row'[q] # "absent" <=> q = r \/ row[q] # "absent"
    BY <2>2 DEF Inv, Shape
  <2> QED
    BY <2>3, <2>4 DEF OrderInv
<1>2. CASE \E r \in Requests : DeleteRequest(r)
  <2>1. PICK r \in Requests : DeleteRequest(r)
    BY <1>2
  <2>2. row' = [row EXCEPT ![r] = "absent"] /\ order' = Without(r) /\ row[r] # "absent"
    BY <2>1 DEF DeleteRequest, PostAt, Inv, PostOwns
  <2>3. \A q \in Requests : row'[q] # "absent" <=> q # r /\ row[q] # "absent"
    BY <2>2 DEF Inv, Shape
  <2> QED
    BY <2>2, <2>3, WithoutOne DEF OrderInv
<1>3. CASE \E t \in Ticks : Relay(t) \/ TickThrows(t)
  <2>1. PICK t \in Ticks : Relay(t) \/ TickThrows(t)
    BY <1>3
  <2>2. CASE TakeRequest(t) \/ WriteFailure(t) \/ (WriteAnswer(t) /\ Updated(tick[t].req, "completed"))
    <3>1. tick[t].req \in Requests
      BY <2>2 DEF TakeRequest, WriteFailure, WriteAnswer, Inv, Shape
    <3>2. \E status \in Statuses : Updated(tick[t].req, status)
      BY <2>2 DEF TakeRequest, WriteFailure, Statuses
    <3> QED
      BY <3>1, <3>2, UpdateKeepsOrder
  <2>3. CASE UNCHANGED <<row, order>>
    BY <2>3 DEF OrderInv
  <2> QED
    BY <2>1, <2>2, <2>3 DEF Relay, TickBegins, SelectRequest, Turn, WriteAnswer, TickThrows, store
<1>4. CASE \/ \E t \in Tabs : Receive(t) \/ Reload(t) \/ \E r \in Requests : Send(t, r)
           \/ \E r \in Requests :
                 LoadHistory(r) \/ LookForHistory(r) \/ SaveHistory(r) \/ LookForLatest(r)
                 \/ SaveLatest(r) \/ PollFindsAnswer(r) \/ SaveReply(r) \/ Deadline(r) \/ PostThrows(r)
           \/ AgentStops \/ AgentStarts \/ DashboardRestarts \/ UNCHANGED vars
  <2>1. UNCHANGED <<row, order>>
    BY <1>4 DEF Receive, Reload, Send, LoadHistory, LookForHistory, SaveHistory, LookForLatest,
       SaveLatest, PollFindsAnswer, SaveReply, Deadline, PostThrows, AgentStops, AgentStarts,
       DashboardRestarts, vars, store
  <2> QED
    BY <2>1 DEF OrderInv
<1> QED
  BY <1>1, <1>2, <1>3, <1>4 DEF Next, Handler
TickFits(k) ==
    /\ k.req \in Requests /\ k.turn \in 0 .. MaxTurns
    /\ k.at \in {"idle", "select", "take", "run"} => k.turn < MaxTurns

LEMMA NoTickFits == TickFits(NoTick)
<1>1. (CHOOSE r \in Requests : TRUE) \in Requests
  BY ChatAssumption
<1> QED
  BY <1>1, ChatAssumption DEF NoTick, TickFits

LEMMA TicksFit ==
    ASSUME Inv, RestInv, [Next]_vars, NEW t \in Ticks
    PROVE  TickFits(tick'[t])
<1>0. TickFits(tick[t])
  BY DEF RestInv, TickFits
<1>1. CASE tick'[t] = tick[t]
  BY <1>0, <1>1
<1>2. CASE tick'[t] = NoTick
  BY <1>2, NoTickFits
<1>3. CASE TickBegins(t) \/ TakeRequest(t) \/ WriteAnswer(t)
           \/ (Turn(t) /\ \E at \in {"complete", "fail"} : TickGoes(t, at))
  <2>1. CASE \E at \in {"select", "run", "complete", "fail"} :
               /\ TickGoes(t, at)
               /\ at \in {"select", "run"} => tick[t].at \in {"idle", "take"}
    <3>1. PICK at \in {"select", "run", "complete", "fail"} :
               /\ TickGoes(t, at)
               /\ at \in {"select", "run"} => tick[t].at \in {"idle", "take"}
      BY <2>1
    <3>2. tick' = [tick EXCEPT ![t] = [at |-> at, req |-> tick[t].req, turn |-> tick[t].turn]]
      BY <3>1, Retick, Zenon DEF TickGoes
    <3>3. tick'[t] = [at |-> at, req |-> tick[t].req, turn |-> tick[t].turn]
      BY <3>2 DEF Inv, Shape
    <3> QED
      BY <1>0, <3>1, <3>3 DEF TickFits
  <2>2. CASE TickEnds(t)
    BY <1>2, <2>2 DEF TickEnds, Inv, Shape
  <2> QED
    BY <1>3, <2>1, <2>2 DEF TickBegins, TakeRequest, WriteAnswer
<1>4. CASE Turn(t) /\ tick' = [tick EXCEPT ![t].turn = @ + 1,
                  ![t].at = IF tick[t].turn + 1 = MaxTurns THEN "complete" ELSE "run"]
  <2> DEFINE at == IF tick[t].turn + 1 = MaxTurns THEN "complete" ELSE "run"
             n == tick[t].turn + 1
  <2>1. tick' = [tick EXCEPT ![t].turn = n, ![t].at = at]
    BY <1>4, Zenon
  <2>2. /\ n \in 0 .. MaxTurns /\ at \in {"complete", "run"} /\ (at = "run" => n < MaxTurns)
        /\ tick[t].req \in Requests
    BY <1>0, <1>4, ChatAssumption DEF Turn, TickFits
  <2> HIDE DEF n, at
  <2>3. tick' = [tick EXCEPT ![t] = TickOf(at, tick[t].req, n)]
    BY <2>1, RetickTurn, Zenon
  <2>4. tick'[t] = [at |-> at, req |-> tick[t].req, turn |-> n]
    BY <2>3 DEF TickOf, Inv, Shape
  <2> QED
    BY <2>2, <2>4 DEF TickFits
<1>5. CASE SelectRequest(t) /\ Found # {}
  <2>1. PICK r \in Found : tick' = [tick EXCEPT ![t].at = "take", ![t].req = r]
    BY <1>5 DEF SelectRequest
  <2>2. tick' = [tick EXCEPT ![t] = [at |-> "take", req |-> r, turn |-> tick[t].turn]]
    BY <2>1, RetickReq, Zenon
  <2>3. tick'[t] = [at |-> "take", req |-> r, turn |-> tick[t].turn] /\ r \in Requests
    BY <2>2 DEF Inv, Shape, Found
  <2> QED
    BY <1>0, <1>5, <2>3 DEF SelectRequest, TickFits
<1>6. CASE (SelectRequest(t) /\ Found = {}) \/ WriteFailure(t) \/ TickThrows(t)
  BY <1>2, <1>6 DEF SelectRequest, WriteFailure, TickThrows, TickEnds, Inv, Shape
<1>7. ASSUME NEW u \in Ticks, u # t, Relay(u) \/ TickThrows(u) PROVE tick'[t] = tick[t]
  BY <1>7 DEF Relay, TickBegins, SelectRequest, TakeRequest, Turn, WriteAnswer, WriteFailure,
     TickThrows, TickGoes, TickEnds, Inv, Shape
<1>8. CASE AgentStops
  BY <1>2, <1>8 DEF AgentStops
<1>9. CASE \/ \E x \in Tabs : Receive(x) \/ Reload(x) \/ \E r \in Requests : Send(x, r)
           \/ \E r \in Requests : Handler(r) \/ Deadline(r) \/ PostThrows(r)
           \/ AgentStarts \/ DashboardRestarts \/ UNCHANGED vars
  BY <1>1, <1>9 DEF Receive, Reload, Send, Handler, LoadHistory, LookForHistory, SaveHistory,
     LookForLatest, SaveLatest, InsertRequest, PollFindsAnswer, SaveReply, DeleteRequest,
     Deadline, PostThrows, AgentStarts, DashboardRestarts, vars, agent
<1>10. ASSUME NEW u \in Ticks, Relay(u) \/ TickThrows(u) PROVE TickFits(tick'[t])
  <2>1. CASE u # t
    BY <1>1, <1>7, <1>10, <2>1
  <2>2. CASE u = t
    BY <1>3, <1>4, <1>5, <1>6, <1>10, <2>2 DEF Relay, Turn
  <2> QED
    BY <2>1, <2>2
<1> QED
  BY <1>8, <1>9, <1>10 DEF Next

LEMMA PostsExist ==
    ASSUME Inv, RestInv, [Next]_vars, NEW r \in Requests
    PROVE  post'[r].exists \in BOOLEAN
<1>0. post[r].exists \in BOOLEAN
  BY DEF RestInv
<1>1. ASSUME NEW q \in Requests, NEW at, PostGoes(q, at) PROVE post'[r].exists = post[r].exists
  <2>1. post' = [post EXCEPT ![q] = [post[q] EXCEPT !.at = at]]
    BY <1>1 DEF PostGoes
  <2> QED
    BY <2>1, Relabel DEF Inv, Shape
<1>2. ASSUME NEW q \in Requests, Handler(q) \/ Deadline(q) \/ PostThrows(q)
      PROVE  post'[r].exists \in BOOLEAN
  <2>1. CASE \E at : PostGoes(q, at)
    BY <1>0, <1>1, <2>1
  <2>2. CASE LoadHistory(q) \/ PollFindsAnswer(q)
    <3>1. \/ \E h : post' = [post EXCEPT ![q].at = "save-look", ![q].kept = h]
          \/ \E at, res : post' = [post EXCEPT ![q].at = at, ![q].result = res]
      BY <2>2, Zenon DEF LoadHistory, PollFindsAnswer
    <3>2. /\ \A e : [post EXCEPT ![q].at = "save-look", ![q].kept = e] =
                      [post EXCEPT ![q] = PostOf("save-look", post[q].exists, e, post[q].result)]
          /\ \A at, e : [post EXCEPT ![q].at = at, ![q].result = e] =
                          [post EXCEPT ![q] = PostOf(at, post[q].exists, post[q].kept, e)]
      BY PostKept, PostResult
    <3>3. \E at, h, res : post' = [post EXCEPT ![q] = PostOf(at, post[q].exists, h, res)]
      <4>1. CASE \E h : post' = [post EXCEPT ![q].at = "save-look", ![q].kept = h]
        <5>1. PICK h : post' = [post EXCEPT ![q].at = "save-look", ![q].kept = h]
          BY <4>1
        <5>2. post' = [post EXCEPT ![q] = PostOf("save-look", post[q].exists, h, post[q].result)]
          BY <3>2, <5>1, Zenon
        <5> QED
          BY <5>2
      <4>2. CASE \E at, res : post' = [post EXCEPT ![q].at = at, ![q].result = res]
        <5>1. PICK at, res : post' = [post EXCEPT ![q].at = at, ![q].result = res]
          BY <4>2
        <5>2. post' = [post EXCEPT ![q] = PostOf(at, post[q].exists, post[q].kept, res)]
          BY <3>2, <5>1, Zenon
        <5> QED
          BY <5>2
      <4> QED
        BY <3>1, <4>1, <4>2
    <3> QED
      BY <1>0, <3>3 DEF PostOf, Inv, Shape
  <2>3. CASE LookForHistory(q) \/ LookForLatest(q)
    <3>1. PICK at \in {"save", "latest"}, e \in BOOLEAN :
            post' = [post EXCEPT ![q].at = at, ![q].exists = e]
      <4>1. CASE LookForHistory(q)
        <5>1. PICK e \in BOOLEAN : e <=> history # None
          OBVIOUS
        <5>2. post' = [post EXCEPT ![q].at = "save", ![q].exists = history # None]
          BY <4>1, Zenon DEF LookForHistory
        <5>3. post' = [post EXCEPT ![q].at = "save", ![q].exists = e]
          BY <5>1, <5>2, Zenon
        <5> QED
          BY <5>3
      <4>2. CASE LookForLatest(q)
        <5>1. post' = [post EXCEPT ![q].at = "latest", ![q].exists = latest] /\ latest \in BOOLEAN
          BY <4>2 DEF LookForLatest, RestInv
        <5> QED
          BY <5>1
      <4> QED
        BY <2>3, <4>1, <4>2
    <3>2. \A a, x : [post EXCEPT ![q].at = a, ![q].exists = x] =
                     [post EXCEPT ![q] = PostOf(a, x, post[q].kept, post[q].result)]
      BY PostExists
    <3>3. post' = [post EXCEPT ![q] = PostOf(at, e, post[q].kept, post[q].result)]
      BY <3>1, <3>2, Zenon
    <3> QED
      BY <1>0, <3>3 DEF PostOf, Inv, Shape
  <2> QED
    BY <1>2, <2>1, <2>2, <2>3 DEF Handler, SaveHistory, SaveLatest, InsertRequest, SaveReply,
       DeleteRequest, Deadline, PostThrows, PostWrites
<1>3. CASE \E t \in Tabs, q \in Requests : Send(t, q)
  <2>1. \E q \in Requests : PostGoes(q, "load")
    BY <1>3 DEF Send, PostGoes
  <2> QED
    BY <1>0, <1>1, <2>1
<1>4. CASE DashboardRestarts
  <2>1. post'[r] = post[r] \/ post'[r] = [post[r] EXCEPT !.at = "gone"]
    BY <1>4 DEF DashboardRestarts
  <2> QED
    BY <1>0, <2>1, Relabel
<1>5. CASE UNCHANGED post
  BY <1>0, <1>5
<1> QED
  BY <1>2, <1>3, <1>4, <1>5 DEF Next, Receive, Reload, Relay, TickBegins, SelectRequest,
     TakeRequest, Turn, WriteAnswer, WriteFailure, TickThrows, AgentStops, AgentStarts, vars, server

LEMMA RestStep == ASSUME Inv, RestInv, [Next]_vars PROVE RestInv'
<1>1. \A r \in Requests : post'[r].exists \in BOOLEAN
  BY PostsExist
<1>2. \A t \in Ticks : TickFits(tick'[t])
  BY TicksFit
<1>3. tab' \in [Tabs -> Requests \cup {"idle"}]
  <2>1. CASE \E t \in Tabs : Receive(t) \/ Reload(t) \/ \E r \in Requests : Send(t, r)
    BY <2>1 DEF Receive, Reload, Send, RestInv
  <2>2. CASE UNCHANGED tab
    BY <2>2 DEF RestInv
  <2> QED
    BY <2>1, <2>2 DEF Next, Handler, LoadHistory, LookForHistory, SaveHistory, LookForLatest,
       SaveLatest, InsertRequest, PollFindsAnswer, SaveReply, DeleteRequest, Deadline,
       PostThrows, Relay, TickBegins, SelectRequest, TakeRequest, Turn, WriteAnswer,
       WriteFailure, TickThrows, AgentStops, AgentStarts, DashboardRestarts, vars, server
<1>4. faults' \in 0 .. MaxFaults
  <2>1. UNCHANGED faults \/ Fault
    BY DEF Next, Receive, Reload, Send, Handler, LoadHistory, LookForHistory, SaveHistory,
       LookForLatest, SaveLatest, InsertRequest, PollFindsAnswer, SaveReply, DeleteRequest,
       Deadline, PostThrows, PostWrites, Relay, TickBegins, SelectRequest, TakeRequest, Turn,
       WriteAnswer, WriteFailure, TickThrows, AgentStops, AgentStarts, DashboardRestarts, vars
  <2> QED
    BY <2>1, ChatAssumption DEF Fault, RestInv
<1>5. latest' \in BOOLEAN
  <2>1. UNCHANGED latest \/ latest' = TRUE
    BY DEF Next, Receive, Reload, Send, Handler, LoadHistory, LookForHistory, SaveHistory,
       LookForLatest, SaveLatest, InsertRequest, PollFindsAnswer, SaveReply, DeleteRequest,
       Deadline, PostThrows, Relay, TickBegins, SelectRequest, TakeRequest, Turn, WriteAnswer,
       WriteFailure, TickThrows, AgentStops, AgentStarts, DashboardRestarts, vars, store
  <2> QED
    BY <2>1 DEF RestInv
<1>6. relay' \in BOOLEAN
  <2>1. UNCHANGED relay \/ relay' = TRUE \/ relay' = FALSE
    BY DEF Next, Receive, Reload, Send, Handler, LoadHistory, LookForHistory, SaveHistory,
       LookForLatest, SaveLatest, InsertRequest, PollFindsAnswer, SaveReply, DeleteRequest,
       Deadline, PostThrows, Relay, TickBegins, SelectRequest, TakeRequest, Turn, WriteAnswer,
       WriteFailure, TickThrows, AgentStops, AgentStarts, DashboardRestarts, vars, agent
  <2> QED
    BY <2>1 DEF RestInv
<1> QED
  BY <1>1, <1>2, <1>3, <1>4, <1>5, <1>6 DEF RestInv, TickFits

LEMMA TypesInit == Init => OrderInv /\ RestInv
<1> SUFFICES ASSUME Init PROVE OrderInv /\ RestInv
  OBVIOUS
<1>1. OrderInv
  BY DEF Init, OrderInv
<1>2. NoPost.exists \in BOOLEAN
  BY DEF NoPost
<1>3. \A r \in Requests : post[r].exists \in BOOLEAN
  BY <1>2 DEF Init
<1>4. \A t \in Ticks : TickFits(tick[t])
  BY NoTickFits DEF Init
<1>5. faults \in 0 .. MaxFaults
  BY ChatAssumption DEF Init
<1>6. latest \in BOOLEAN /\ relay \in BOOLEAN
  BY DEF Init
<1>7. tab \in [Tabs -> Requests \cup {"idle"}]
  BY DEF Init
<1> QED
  BY <1>1, <1>3, <1>4, <1>5, <1>6, <1>7 DEF RestInv, TickFits

\* Every reachable state has the types of the state in the code: a history
\* that stays within its length, turns that stay within theirs, and the rows
\* in the order of their updates (chat.ts:90, operator-chat-relay.ts:232).
THEOREM TypeCorrect == Spec => []TypeOK
<1>1. Inv /\ OrderInv /\ [Next]_vars => OrderInv'
  BY OrderStep
<1>2. Inv /\ RestInv /\ [Next]_vars => RestInv'
  BY RestStep
<1>3. Inv /\ HistoryInv /\ [Next]_vars => HistoryInv'
  BY HistoryStep
<1>4. Inv /\ OrderInv /\ RestInv /\ HistoryInv => TypeOK
  <2> SUFFICES ASSUME Inv, OrderInv, RestInv, HistoryInv PROVE TypeOK
    OBVIOUS
  <2>1. post \in [Requests -> Post]
    <3>1. ASSUME NEW r \in Requests PROVE post[r] \in Post
      <4>1. post[r] = [at |-> post[r].at, exists |-> post[r].exists, kept |-> post[r].kept,
                       result |-> post[r].result]
        BY DEF Inv, Shape
      <4>2. post[r].at \in Labels /\ post[r].result \in {"replied", "failed", "none"}
        BY DEF Inv, Shape
      <4>3. post[r].kept \in Seq(Entry)
        BY DEF HistoryInv, Good
      <4>4. post[r].exists \in BOOLEAN
        BY DEF RestInv
      <4> QED
        BY <4>1, <4>2, <4>3, <4>4 DEF Post, Labels
    <3> QED
      BY <3>1 DEF Inv, Shape
  <2>2. tick \in [Ticks -> Tick]
    <3>1. \A t \in Ticks : tick[t] \in Tick
      BY DEF Inv, Shape, RestInv, Tick
    <3> QED
      BY <3>1 DEF Inv, Shape
  <2>3. {order[i] : i \in DOMAIN order} = {r \in Requests : row[r] # "absent"}
    <3>1. \A i \in DOMAIN order : order[i] \in Requests
      BY DEF OrderInv
    <3> QED
      BY <3>1 DEF OrderInv
  <2>4. Messages \in Seq(Entry) /\ Len(Messages) <= MaxHistory
    BY DEF HistoryInv, Good
  <2> QED
    BY <2>1, <2>2, <2>3, <2>4 DEF TypeOK, Inv, Shape, RestInv
<1> QED
  BY <1>1, <1>2, <1>3, <1>4, Invariance, HistoryInit, TypesInit, PTL DEF Spec
=============================================================================
