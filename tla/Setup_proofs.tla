---------------------------- MODULE Setup_proofs -----------------------------
(***************************************************************************)
(* Theorems about Setup, for any accounts, flows and calls: a state is      *)
(* exchanged once, the setup row pairs a user with the token of that user,  *)
(* the token stays usable and the repository stays the user's unless calls  *)
(* overlapped in the ways that torn records.  A flow belongs to the one     *)
(* callback that has consumed its state: no other inserts its token, and no *)
(* row refers to it before it is there.                                     *)
(***************************************************************************)
EXTENDS Setup, TLAPS

Before == {"exchange", "rotate", "token"}
Busy   == Before \cup {"setup-look", "setup-write"}

Typed ==
    /\ config \in BOOLEAN /\ keyStored \in BOOLEAN
    /\ rows \in Seq(Row)
    /\ creds \in [Flows -> [status: {"none", "active", "rotated"}, user: Users \cup {None}]]
    /\ \A f \in Flows : creds[f].status # "none" => creds[f].user \in Users
    /\ flows \in [Flows -> {"none", "open", "over"}]
    /\ exchanges \in [Flows -> Nat] /\ torn \subseteq {"token", "repo"}
    /\ faults \in 0 .. MaxFaults

\* A state that has not been consumed has no token and was not exchanged.
FlowsFresh ==
    \A f \in Flows : /\ flows[f] # "over" => creds[f].status = "none" /\ exchanges[f] = 0
                     /\ exchanges[f] <= 1

RowFits(row) ==
    /\ row \in Row
    /\ row.cred # None => creds[row.cred].status # "none"
    /\ row.connected => row.cred # None /\ creds[row.cred].user = row.user
    /\ row.repo # None => row.connected

RowsFit == \A i \in DOMAIN rows : RowFits(rows[i])

\* What a callback has read, between its steps, is still so.
CallbackFits(p) ==
    /\ p.at \in Busy => p.flow \in Flows /\ flows[p.flow] = "over"
    /\ p.at = "exchange" => exchanges[p.flow] = 0
    /\ p.at \in Before => creds[p.flow].status = "none"
    /\ p.at \in {"rotate", "token"} => p.user \in Users
    /\ p.at \in {"setup-look", "setup-write"} =>
          creds[p.flow].status # "none" /\ creds[p.flow].user = p.user

Fits(c, p) ==
    /\ p \in Frame /\ p.id \in {0} \cup DOMAIN rows
    /\ c \in Callbacks => CallbackFits(p)
    /\ c \in Binds /\ p.at \in {"decrypt", "check", "write"} =>
          p.flow \in Flows /\ p.id \in DOMAIN rows /\ rows[p.id].connected
    /\ c \in Trusts /\ p.at \in {"active", "decrypt"} => p.flow \in Flows

CallsFit == /\ call \in [Calls -> Frame]
            /\ \A c \in Calls : Fits(c, call[c])

OwnFlows ==
    \A c, d \in Callbacks : call[c].at \in Busy /\ call[d].at \in Busy
                            /\ call[c].flow = call[d].flow => c = d

IInv == Typed /\ FlowsFresh /\ RowsFit /\ CallsFit /\ OwnFlows

Kept == <<rows, creds, flows, exchanges>>

-----------------------------------------------------------------------------
LEMMA NoFrameFits ==
    /\ NoFrame \in Frame /\ NoFrame.id = 0 /\ NoFrame.at = "idle"
    /\ [NoFrame EXCEPT !.at = "done"] \in Frame
    /\ [NoFrame EXCEPT !.at = "done"].id = 0 /\ [NoFrame EXCEPT !.at = "done"].at = "done"
BY DEF NoFrame, Frame

LEMMA IdleFits ==
    ASSUME NEW c, NEW p \in {NoFrame, [NoFrame EXCEPT !.at = "done"]}
    PROVE  Fits(c, p) /\ p.at \notin Busy /\ p \in Frame
BY NoFrameFits DEF Fits, CallbackFits, Busy, Before

LEMMA IInvInit == Init => IInv
<1> SUFFICES ASSUME Init PROVE IInv
  OBVIOUS
<1>1. Typed /\ FlowsFresh /\ RowsFit
  <2>1. \A f \in Flows : creds[f].status = "none" /\ flows[f] = "none" /\ exchanges[f] = 0
    BY DEF Init
  <2>2. creds \in [Flows -> [status: {"none", "active", "rotated"}, user: Users \cup {None}]]
    BY DEF Init
  <2>3. rows \in Seq(Row) /\ DOMAIN rows = {}
    BY DEF Init
  <2>4. config \in BOOLEAN /\ keyStored \in BOOLEAN
    BY DEF Init
  <2>5. /\ flows \in [Flows -> {"none", "open", "over"}] /\ exchanges \in [Flows -> Nat]
        /\ torn \subseteq {"token", "repo"} /\ faults \in 0 .. MaxFaults
    BY SetupAssumption DEF Init
  <2> QED
    BY <2>1, <2>2, <2>3, <2>4, <2>5 DEF Typed, FlowsFresh, RowsFit
<1>2. \A c \in Calls : call[c] = NoFrame
  BY DEF Init
<1>3. call \in [Calls -> Frame]
  BY NoFrameFits DEF Init
<1>4. CallsFit
  BY <1>2, <1>3, IdleFits DEF CallsFit
<1>5. OwnFlows
  BY <1>2, NoFrameFits DEF OwnFlows, Busy, Before, Calls
<1> QED
  BY <1>1, <1>4, <1>5 DEF IInv

\* A step of one call that leaves rows, tokens and flows alone.
LEMMA CallMoves ==
    ASSUME IInv, NEW c \in Calls, NEW p, Fits(c, p), UNCHANGED Kept, Typed',
           call' = [call EXCEPT ![c] = p],
           c \in Callbacks /\ p.at \in Busy =>
              call[c].at \in Busy /\ p.flow = call[c].flow
    PROVE  IInv'
<1>1. call' \in [Calls -> Frame] /\ call'[c] = p /\ \A d \in Calls : d # c => call'[d] = call[d]
  BY DEF IInv, CallsFit, Fits
<1>2. FlowsFresh' /\ RowsFit'
  BY DEF IInv, FlowsFresh, RowsFit, RowFits, Kept
<1>3. CallsFit'
  <2> SUFFICES ASSUME NEW d \in Calls PROVE Fits(d, call[d])'
    BY <1>1 DEF CallsFit
  <2>1. Fits(d, call'[d])
    BY <1>1 DEF IInv, CallsFit
  <2> QED
    BY <2>1 DEF Fits, CallbackFits, Kept
<1>4. OwnFlows'
  BY <1>1 DEF IInv, OwnFlows, Calls
<1> QED
  BY <1>2, <1>3, <1>4 DEF IInv

\* A call that ends, and puts down or changes a row that fits.
LEMMA RowWritten ==
    ASSUME IInv, NEW c \in Calls, NEW p \in {NoFrame, [NoFrame EXCEPT !.at = "done"]},
           call' = [call EXCEPT ![c] = p],
           UNCHANGED <<config, keyStored, creds, flows, exchanges, faults>>,
           torn' \subseteq {"token", "repo"},
           NEW r, RowFits(r), NEW i,
           \/ rows' = Append(rows, r)
           \/ /\ i \in DOMAIN rows /\ rows' = [rows EXCEPT ![i] = r]
              /\ rows[i].connected => r.connected
    PROVE  IInv'
<1>1. rows \in Seq(Row) /\ r \in Row
  BY DEF IInv, Typed, RowFits
<1>2. /\ rows' \in Seq(Row) /\ DOMAIN rows \subseteq DOMAIN rows'
      /\ \A j \in DOMAIN rows' : rows'[j] = r \/ (j \in DOMAIN rows /\ rows'[j] = rows[j])
      /\ \A j \in DOMAIN rows : rows'[j] = rows[j] \/ (i = j /\ rows'[j] = r)
  <2>1. CASE rows' = Append(rows, r)
    BY <1>1, <2>1
  <2>2. CASE i \in DOMAIN rows /\ rows' = [rows EXCEPT ![i] = r]
    BY <1>1, <2>2
  <2> QED
    BY <2>1, <2>2
<1>3. \A j \in DOMAIN rows : rows[j].connected => rows'[j].connected
  <2>1. CASE rows' = Append(rows, r)
    BY <1>1, <2>1
  <2>2. CASE i \in DOMAIN rows /\ rows' = [rows EXCEPT ![i] = r]
    BY <1>1, <2>2
  <2> QED
    BY <2>1, <2>2
<1>4. Typed'
  BY <1>2 DEF IInv, Typed
<1>5. FlowsFresh'
  BY DEF IInv, FlowsFresh
<1>6. RowsFit'
  BY <1>2 DEF IInv, RowsFit, RowFits
<1>7. call' \in [Calls -> Frame] /\ call'[c] = p /\ \A d \in Calls : d # c => call'[d] = call[d]
  BY IdleFits DEF IInv, CallsFit
<1>8. CallsFit'
  <2> SUFFICES ASSUME NEW d \in Calls PROVE Fits(d, call[d])'
    BY <1>7 DEF CallsFit
  <2>1. Fits(d, call'[d])
    BY <1>7, IdleFits DEF IInv, CallsFit
  <2> QED
    BY <1>2, <1>3, <2>1 DEF Fits, CallbackFits
<1>9. OwnFlows'
  BY <1>7, IdleFits DEF IInv, OwnFlows, Calls
<1> QED
  BY <1>4, <1>5, <1>6, <1>8, <1>9 DEF IInv

-----------------------------------------------------------------------------
(* Actions. *)

\* A row with its flags changed.
LEMMA FlagsFit ==
    ASSUME NEW row, RowFits(row), NEW k \in BOOLEAN, NEW s \in BOOLEAN
    PROVE  /\ RowFits([row EXCEPT !.key = k, !.stamp = s])
           /\ [row EXCEPT !.key = k, !.stamp = s].connected = row.connected
BY DEF RowFits, Row

LEMMA NoRowFits == RowFits(NoRow) /\ RowFits([NoRow EXCEPT !.key = TRUE])
BY DEF RowFits, NoRow, Row

\* What a handler reads of the setup row.
LEMMA ReadFits ==
    ASSUME IInv, NEW i \in ReadIds
    PROVE  /\ i \in {0} \cup DOMAIN rows /\ i \in Nat
           /\ Full(RowOf(i)) \in BOOLEAN /\ RowOf(i).key \in BOOLEAN
<1>1. i \in {0} \cup DOMAIN rows /\ i \in Nat /\ rows \in Seq(Row)
  BY DEF ReadIds, IInv, Typed
<1>2. RowOf(i) \in Row
  <2>1. CASE i = 0
    BY <2>1 DEF RowOf, NoRow, Row
  <2>2. CASE i # 0
    BY <1>1, <2>2 DEF RowOf
  <2> QED
    BY <2>1, <2>2
<1>3. RowOf(i).key \in BOOLEAN /\ RowOf(i).connected \in BOOLEAN
  BY <1>2 DEF Row
<1> QED
  BY <1>1, <1>3 DEF Full, Bound

LEMMA KeyPostStep ==
    ASSUME IInv, NEW c \in KeyPosts, KeyPost(c)
    PROVE  IInv'
<1>1. c \in Calls /\ c \notin Callbacks \cup Binds \cup Trusts /\ call[c] \in Frame
      /\ Fits(c, call[c])
  BY SetupAssumption DEF Calls, IInv, CallsFit
<1>2. CASE KeyLook(c)
  <2> DEFINE p == [call[c] EXCEPT !.at = "write", !.found = keyStored]
  <2>1. p \in Frame /\ p.id = call[c].id
    BY <1>1 DEF IInv, Typed, Frame
  <2>2. call' = [call EXCEPT ![c] = p] /\ UNCHANGED <<db, hist>>
    BY <1>2 DEF KeyLook
  <2>3. Typed' /\ UNCHANGED Kept
    BY <2>2 DEF IInv, Typed, db, hist, Kept
  <2> HIDE DEF p
  <2> QED
    BY <1>1, <2>1, <2>2, <2>3, CallMoves DEF Fits
<1>3. CASE KeyWrite(c)
  <2>1. PICK p : /\ p \in Frame /\ p.id \in {0} \cup DOMAIN rows
                 /\ call' = [call EXCEPT ![c] = p]
    <3>1. CASE ~call[c].found /\ keyStored
      BY <1>3, <3>1, NoFrameFits DEF KeyWrite, Ends
    <3>2. CASE ~(~call[c].found /\ keyStored)
      <4> DEFINE p == [call[c] EXCEPT !.at = "setup-look"]
      <4>1. p \in Frame /\ p.id = call[c].id
        BY <1>1 DEF Frame
      <4>2. call' = [call EXCEPT ![c] = p]
        BY <1>3, <3>2 DEF KeyWrite, Goes
      <4> QED
        BY <1>1, <4>1, <4>2 DEF Fits
    <3> QED
      BY <3>1, <3>2
  <2>2. Typed' /\ UNCHANGED Kept
    BY <1>3 DEF KeyWrite, IInv, Typed, hist, Kept
  <2> QED
    BY <1>1, <2>1, <2>2, CallMoves DEF Fits
<1>4. CASE SetupLook(c)
  <2>1. PICK i \in ReadIds :
          call' = [call EXCEPT ![c].at = "setup-write", ![c].id = i, ![c].full = Full(RowOf(i))]
    BY <1>4 DEF SetupLook
  <2> DEFINE p == [call[c] EXCEPT !.at = "setup-write", !.id = i, !.full = Full(RowOf(i))]
  <2>2. call' = [call EXCEPT ![c] = p]
    BY <2>1
  <2>3. i \in {0} \cup DOMAIN rows /\ i \in Nat /\ Full(RowOf(i)) \in BOOLEAN
    BY ReadFits
  <2>4. p \in Frame /\ p.id = i
    BY <1>1, <2>3 DEF Frame
  <2>5. Typed' /\ UNCHANGED Kept
    BY <1>4 DEF SetupLook, IInv, Typed, db, hist, Kept
  <2> HIDE DEF p
  <2> QED
    BY <1>1, <2>2, <2>3, <2>4, <2>5, CallMoves DEF Fits
<1>5. CASE KeySetupWrite(c)
  <2> DEFINE p == [NoFrame EXCEPT !.at = "done"]
  <2>1. /\ call' = [call EXCEPT ![c] = p]
        /\ UNCHANGED <<config, keyStored, creds, flows, exchanges, faults, torn>>
    BY <1>5 DEF KeySetupWrite, Ends, hist
  <2>2. torn' \subseteq {"token", "repo"}
    BY <2>1 DEF IInv, Typed
  <2>3. CASE call[c].id = 0
    <3>1. rows' = Append(rows, [NoRow EXCEPT !.key = TRUE])
      BY <1>5, <2>3 DEF KeySetupWrite
    <3> QED
      BY <1>1, <2>1, <2>2, <3>1, NoRowFits, RowWritten
  <2>4. CASE call[c].id # 0
    <3> DEFINE i == call[c].id
               r == [rows[i] EXCEPT !.key = TRUE, !.stamp = call[c].full]
    <3>1. i \in DOMAIN rows /\ RowFits(rows[i]) /\ call[c].full \in BOOLEAN
      BY <1>1, <2>4 DEF Fits, IInv, RowsFit, Frame
    <3>2. RowFits(r) /\ r.connected = rows[i].connected
      BY <3>1, FlagsFit
    <3>3. rows' = [rows EXCEPT ![i] = r]
      BY <1>5, <2>4, Zenon DEF KeySetupWrite
    <3> HIDE DEF r, i
    <3> QED
      BY <1>1, <2>1, <2>2, <3>1, <3>2, <3>3, RowWritten
  <2> QED
    BY <2>3, <2>4
<1> QED
  BY <1>2, <1>3, <1>4, <1>5 DEF KeyPost

LEMMA StartStep ==
    ASSUME IInv, NEW f \in Flows, Start(f, TRUE) \/ Start(f, FALSE) \/ Expire(f)
    PROVE  IInv'
<1>1. /\ UNCHANGED <<keyStored, rows, creds, call, exchanges, torn, faults>>
      /\ config' \in BOOLEAN /\ flows[f] # "over"
      /\ flows' = [flows EXCEPT ![f] = "open"] \/ flows' = [flows EXCEPT ![f] = "over"]
  BY DEF Start, Expire, hist, IInv, Typed
<1>2. /\ flows' \in [Flows -> {"none", "open", "over"}]
      /\ \A g \in Flows : flows[g] = "over" => flows'[g] = "over"
      /\ \A g \in Flows : flows'[g] # "over" => flows[g] # "over"
  BY <1>1 DEF IInv, Typed
<1>3. Typed' /\ FlowsFresh' /\ RowsFit' /\ OwnFlows'
  BY <1>1, <1>2 DEF IInv, Typed, FlowsFresh, RowsFit, RowFits, OwnFlows
<1>4. CallsFit'
  BY <1>1, <1>2 DEF IInv, CallsFit, Fits, CallbackFits
<1> QED
  BY <1>3, <1>4 DEF IInv

LEMMA ConsumeStep ==
    ASSUME IInv, NEW c \in Callbacks, NEW f \in Flows, Consume(c, f)
    PROVE  IInv'
<1>1. c \in Calls /\ c \notin Binds \cup Trusts /\ call[c] \in Frame /\ Fits(c, call[c])
  BY SetupAssumption DEF Calls, IInv, CallsFit
<1>2. CASE flows[f] # "open"
  <2> DEFINE p == [NoFrame EXCEPT !.at = "done"]
  <2>1. call' = [call EXCEPT ![c] = p] /\ UNCHANGED Kept
    BY <1>2 DEF Consume, Ends, Kept, hist
  <2>2. Typed'
    <3>1. UNCHANGED <<config, keyStored, torn, faults>>
      BY <1>2 DEF Consume, hist
    <3> QED
      BY <2>1, <3>1 DEF IInv, Typed, Kept
  <2> QED
    BY <1>1, <2>1, <2>2, IdleFits, CallMoves
<1>3. CASE flows[f] = "open"
  <2> DEFINE p == [call[c] EXCEPT !.at = "exchange", !.flow = f]
  <2>1. /\ flows' = [flows EXCEPT ![f] = "over"] /\ call' = [call EXCEPT ![c] = p]
        /\ UNCHANGED <<config, keyStored, rows, creds, exchanges, torn, faults>>
    BY <1>3 DEF Consume, hist
  <2>2. p \in Frame /\ p.at = "exchange" /\ p.flow = f /\ p.id = call[c].id
    BY <1>1 DEF Frame
  <2>3. /\ flows' \in [Flows -> {"none", "open", "over"}] /\ flows'[f] = "over"
        /\ \A g \in Flows : g # f => flows'[g] = flows[g]
    BY <2>1 DEF IInv, Typed
  <2>4. creds[f].status = "none" /\ exchanges[f] = 0
    BY <1>3 DEF IInv, FlowsFresh
  <2>5. \A d \in Callbacks : call[d].at \in Busy => call[d].flow # f
    BY <1>3 DEF IInv, CallsFit, Fits, CallbackFits, Calls
  <2> HIDE DEF p
  <2>6. call' \in [Calls -> Frame] /\ call'[c] = p /\ \A d \in Calls : d # c => call'[d] = call[d]
    BY <1>1, <2>1, <2>2 DEF IInv, CallsFit
  <2>7. Typed' /\ FlowsFresh' /\ RowsFit'
    BY <2>1, <2>3, <2>4 DEF IInv, Typed, FlowsFresh, RowsFit, RowFits
  <2>8. CallsFit'
    <3> SUFFICES ASSUME NEW d \in Calls PROVE Fits(d, call[d])'
      BY <2>6 DEF CallsFit
    <3>1. CASE d = c
      BY <1>1, <2>1, <2>2, <2>3, <2>4, <2>6, <3>1 DEF Fits, CallbackFits, Busy, Before
    <3>2. CASE d # c
      <4>1. Fits(d, call[d]) /\ call'[d] = call[d]
        BY <2>6, <3>2 DEF IInv, CallsFit
      <4> QED
        BY <2>1, <2>3, <4>1 DEF Fits, CallbackFits
    <3> QED
      BY <3>1, <3>2
  <2>9. OwnFlows'
    BY <2>2, <2>5, <2>6 DEF IInv, OwnFlows, Calls
  <2> QED
    BY <2>7, <2>8, <2>9 DEF IInv
<1> QED
  BY <1>2, <1>3

LEMMA ExchangeStep ==
    ASSUME IInv, NEW c \in Callbacks, Exchange(c)
    PROVE  IInv'
<1> DEFINE f == call[c].flow
<1>1. /\ c \in Calls /\ c \notin Binds \cup Trusts /\ call[c] \in Frame /\ Fits(c, call[c])
      /\ call[c].at = "exchange"
  BY SetupAssumption DEF Calls, IInv, CallsFit, Exchange, At
<1>2. f \in Flows /\ flows[f] = "over" /\ exchanges[f] = 0 /\ creds[f].status = "none"
  BY <1>1 DEF Fits, CallbackFits, Busy, Before
<1>3. PICK p \in Frame : /\ call' = [call EXCEPT ![c] = p] /\ p.id \in {0} \cup DOMAIN rows
                         /\ \/ p.at = "done"
                            \/ p.at = "rotate" /\ p.flow = f /\ p.user \in Users
  <2>1. CASE Ends(c)
    BY <2>1, NoFrameFits DEF Ends
  <2>2. CASE \E u \in Users : call' = [call EXCEPT ![c].at = "rotate", ![c].user = u]
    <3>1. PICK u \in Users : call' = [call EXCEPT ![c].at = "rotate", ![c].user = u]
      BY <2>2
    <3> DEFINE p == [call[c] EXCEPT !.at = "rotate", !.user = u]
    <3>2. /\ p \in Frame /\ p.at = "rotate" /\ p.flow = f /\ p.user \in Users
          /\ p.id = call[c].id
      BY <1>1 DEF Frame
    <3>3. call' = [call EXCEPT ![c] = p]
      BY <3>1
    <3> HIDE DEF p
    <3> QED
      BY <1>1, <3>2, <3>3 DEF Fits
  <2> QED
    BY <2>1, <2>2 DEF Exchange
<1>4. /\ exchanges' = [exchanges EXCEPT ![f] = @ + 1]
      /\ UNCHANGED <<config, keyStored, rows, creds, flows, torn, faults>>
  BY DEF Exchange, db
<1>5. /\ exchanges' \in [Flows -> Nat] /\ exchanges'[f] = 1
      /\ \A g \in Flows : g # f => exchanges'[g] = exchanges[g]
  BY <1>2, <1>4 DEF IInv, Typed
<1>6. \A d \in Callbacks : d # c /\ call[d].at \in Busy => call[d].flow # f
  BY <1>1 DEF IInv, OwnFlows, Busy, Before
<1>7. call' \in [Calls -> Frame] /\ call'[c] = p /\ \A d \in Calls : d # c => call'[d] = call[d]
  BY <1>1, <1>3 DEF IInv, CallsFit
<1> HIDE DEF f
<1>8. Typed' /\ FlowsFresh' /\ RowsFit'
  BY <1>2, <1>4, <1>5 DEF IInv, Typed, FlowsFresh, RowsFit, RowFits
<1>9. CallsFit'
  <2> SUFFICES ASSUME NEW d \in Calls PROVE Fits(d, call[d])'
    BY <1>7 DEF CallsFit
  <2>1. CASE d = c
    BY <1>1, <1>2, <1>3, <1>4, <1>7, <2>1 DEF Fits, CallbackFits, Busy, Before
  <2>2. CASE d # c
    <3>1. Fits(d, call[d]) /\ call'[d] = call[d]
      BY <1>7, <2>2 DEF IInv, CallsFit
    <3> QED
      BY <1>4, <1>5, <1>6, <2>2, <3>1 DEF Fits, CallbackFits, Busy, Before
  <2> QED
    BY <2>1, <2>2
<1>10. OwnFlows'
  BY <1>1, <1>3, <1>7 DEF IInv, OwnFlows, Calls, Busy, Before, f
<1> QED
  BY <1>8, <1>9, <1>10 DEF IInv

LEMMA RotateStep ==
    ASSUME IInv, NEW c \in Callbacks, Rotate(c)
    PROVE  IInv'
<1> DEFINE p == [call[c] EXCEPT !.at = "token"]
<1>1. /\ c \in Calls /\ c \notin Binds \cup Trusts /\ call[c] \in Frame /\ Fits(c, call[c])
      /\ call[c].at = "rotate"
  BY SetupAssumption DEF Calls, IInv, CallsFit, Rotate, At
<1>2. /\ p \in Frame /\ p.at = "token" /\ p.flow = call[c].flow /\ p.user = call[c].user
      /\ p.id = call[c].id
  BY <1>1 DEF Frame
<1>3. call' = [call EXCEPT ![c] = p]
  BY DEF Rotate, Goes
<1> HIDE DEF p
<1>4. call' \in [Calls -> Frame] /\ call'[c] = p /\ \A d \in Calls : d # c => call'[d] = call[d]
  BY <1>1, <1>2, <1>3 DEF IInv, CallsFit
<1>5. /\ UNCHANGED <<config, keyStored, rows, flows, exchanges, faults>>
      /\ torn' \subseteq {"token", "repo"}
  BY DEF Rotate, IInv, Typed
<1>6. /\ creds' \in [Flows -> [status: {"none", "active", "rotated"}, user: Users \cup {None}]]
      /\ \A f \in Flows : /\ creds'[f].user = creds[f].user
                          /\ creds'[f].status = "none" <=> creds[f].status = "none"
  <2>1. creds' = [f \in Flows |-> [creds[f] EXCEPT
                    !.status = IF creds[f].status = "active" THEN "rotated" ELSE creds[f].status]]
    BY DEF Rotate
  <2>2. creds \in [Flows -> [status: {"none", "active", "rotated"}, user: Users \cup {None}]]
    BY DEF IInv, Typed
  <2> QED
    BY <2>1, <2>2
<1>7. Typed' /\ FlowsFresh' /\ RowsFit'
  BY <1>5, <1>6 DEF IInv, Typed, FlowsFresh, RowsFit, RowFits, Row
<1>8. CallsFit'
  <2> SUFFICES ASSUME NEW d \in Calls PROVE Fits(d, call[d])'
    BY <1>4 DEF CallsFit
  <2>1. Fits(d, call'[d])
    BY <1>1, <1>2, <1>4 DEF IInv, CallsFit, Fits, CallbackFits, Busy, Before
  <2> QED
    BY <1>5, <1>6, <2>1 DEF Fits, CallbackFits, Busy, Before
<1>9. OwnFlows'
  BY <1>1, <1>2, <1>4 DEF IInv, OwnFlows, Calls, Busy, Before
<1> QED
  BY <1>7, <1>8, <1>9 DEF IInv

LEMMA InsertStep ==
    ASSUME IInv, NEW c \in Callbacks, InsertToken(c)
    PROVE  IInv'
<1> DEFINE p == [call[c] EXCEPT !.at = "setup-look"]
           f == call[c].flow
<1>1. /\ c \in Calls /\ c \notin Binds \cup Trusts /\ call[c] \in Frame /\ Fits(c, call[c])
      /\ call[c].at = "token"
  BY SetupAssumption DEF Calls, IInv, CallsFit, InsertToken, At
<1>2. /\ p \in Frame /\ p.at = "setup-look" /\ p.flow = f /\ p.user = call[c].user
      /\ p.id = call[c].id
  BY <1>1 DEF Frame
<1>3. call' = [call EXCEPT ![c] = p]
  BY DEF InsertToken, Goes
<1>4. f \in Flows /\ flows[f] = "over" /\ creds[f].status = "none" /\ call[c].user \in Users
  BY <1>1 DEF Fits, CallbackFits, Busy, Before
<1>5. \A d \in Callbacks : d # c /\ call[d].at \in Busy => call[d].flow # f
  BY <1>1 DEF IInv, OwnFlows, Busy, Before
<1> HIDE DEF p
<1>6. call' \in [Calls -> Frame] /\ call'[c] = p /\ \A d \in Calls : d # c => call'[d] = call[d]
  BY <1>1, <1>2, <1>3 DEF IInv, CallsFit
<1>7. /\ UNCHANGED <<config, keyStored, rows, flows, exchanges, torn, faults>>
      /\ creds' = [creds EXCEPT ![f] = [status |-> "active", user |-> call[c].user]]
  BY DEF InsertToken, hist
<1> HIDE DEF f
<1>8. /\ creds' \in [Flows -> [status: {"none", "active", "rotated"}, user: Users \cup {None}]]
      /\ creds'[f].status = "active" /\ creds'[f].user = call[c].user
      /\ \A g \in Flows : g # f => creds'[g] = creds[g]
  BY <1>4, <1>7 DEF IInv, Typed
<1>9. Typed' /\ FlowsFresh' /\ OwnFlows'
  <2>1. Typed'
    BY <1>4, <1>7, <1>8 DEF IInv, Typed
  <2>2. FlowsFresh'
    BY <1>4, <1>7, <1>8 DEF IInv, FlowsFresh
  <2>3. OwnFlows'
    BY <1>1, <1>2, <1>6 DEF IInv, OwnFlows, Calls, Busy, Before, f
  <2> QED
    BY <2>1, <2>2, <2>3
<1>10. RowsFit'
  BY <1>4, <1>7, <1>8 DEF IInv, RowsFit, RowFits, Row
<1>11. CallsFit'
  <2> SUFFICES ASSUME NEW d \in Calls PROVE Fits(d, call[d])'
    BY <1>6 DEF CallsFit
  <2>1. CASE d = c
    BY <1>1, <1>2, <1>4, <1>6, <1>7, <1>8, <2>1 DEF Fits, CallbackFits, Busy, Before
  <2>2. CASE d # c
    <3>1. Fits(d, call[d]) /\ call'[d] = call[d]
      BY <1>6, <2>2 DEF IInv, CallsFit
    <3> QED
      BY <1>5, <1>7, <1>8, <2>2, <3>1 DEF Fits, CallbackFits, Busy, Before
  <2> QED
    BY <2>1, <2>2
<1> QED
  BY <1>9, <1>10, <1>11 DEF IInv

LEMMA ConnectStep ==
    ASSUME IInv, NEW c \in Callbacks, ConnectWrite(c)
    PROVE  IInv'
<1> DEFINE p == [NoFrame EXCEPT !.at = "done"]
<1>1. c \in Calls /\ call[c] \in Frame /\ Fits(c, call[c]) /\ call[c].at = "setup-write"
  BY DEF Calls, IInv, CallsFit, ConnectWrite, At
<1>2. /\ call[c].flow \in Flows /\ creds[call[c].flow].status # "none"
      /\ creds[call[c].flow].user = call[c].user /\ call[c].user \in Users
  BY <1>1 DEF Fits, CallbackFits, Busy, IInv, Typed
<1>3. \A row \in Row : RowFits(Connected(c, row)) /\ Connected(c, row).connected
  <2> SUFFICES ASSUME NEW row \in Row
               PROVE  RowFits(Connected(c, row)) /\ Connected(c, row).connected
    OBVIOUS
  <2> DEFINE r == Connected(c, row)
  <2>1. r \in Row
    BY <1>1, <1>2 DEF Connected, Row
  <2>2. /\ r.connected = TRUE /\ r.user = call[c].user /\ r.cred = call[c].flow
        /\ r.repo = None
    BY <1>2 DEF Connected, Row
  <2>3. call[c].flow # None
    BY <1>2, SetupAssumption
  <2> HIDE DEF r
  <2>4. RowFits(r) /\ r.connected
    BY <1>2, <2>1, <2>2, <2>3 DEF RowFits
  <2> QED
    BY <2>4 DEF r
<1>4. /\ call' = [call EXCEPT ![c] = p] /\ torn' \subseteq {"token", "repo"}
      /\ UNCHANGED <<config, keyStored, creds, flows, exchanges, faults>>
  BY DEF ConnectWrite, Ends, IInv, Typed
<1>5. CASE call[c].id = 0
  <2>1. rows' = Append(rows, Connected(c, NoRow)) /\ NoRow \in Row
    BY <1>5 DEF ConnectWrite, NoRow, Row
  <2> QED
    BY <1>1, <1>3, <1>4, <2>1, RowWritten
<1>6. CASE call[c].id # 0
  <2> DEFINE i == call[c].id
  <2>1. i \in DOMAIN rows /\ rows[i] \in Row
    BY <1>1, <1>6 DEF Fits, IInv, RowsFit, RowFits
  <2>2. rows' = [rows EXCEPT ![i] = Connected(c, rows[i])]
    BY <1>6 DEF ConnectWrite
  <2> QED
    BY <1>1, <1>3, <1>4, <2>1, <2>2, RowWritten
<1> QED
  BY <1>5, <1>6

LEMMA CallbackStep ==
    ASSUME IInv, NEW c \in Callbacks, Callback(c)
    PROVE  IInv'
<1>1. c \in Calls /\ c \notin Binds \cup Trusts /\ call[c] \in Frame /\ Fits(c, call[c])
  BY SetupAssumption DEF Calls, IInv, CallsFit
<1>2. CASE SetupLook(c)
  <2>1. PICK i \in ReadIds :
          call' = [call EXCEPT ![c].at = "setup-write", ![c].id = i, ![c].full = Full(RowOf(i))]
    BY <1>2 DEF SetupLook
  <2> DEFINE p == [call[c] EXCEPT !.at = "setup-write", !.id = i, !.full = Full(RowOf(i))]
  <2>2. call' = [call EXCEPT ![c] = p]
    BY <2>1
  <2>3. i \in {0} \cup DOMAIN rows /\ i \in Nat /\ Full(RowOf(i)) \in BOOLEAN
    BY ReadFits
  <2>4. p \in Frame /\ p.id = i /\ p.at = "setup-write" /\ p.flow = call[c].flow
        /\ p.user = call[c].user
    BY <1>1, <2>3 DEF Frame
  <2>5. Typed' /\ UNCHANGED Kept /\ call[c].at = "setup-look"
    BY <1>2 DEF SetupLook, At, IInv, Typed, db, hist, Kept
  <2> HIDE DEF p
  <2>6. Fits(c, p)
    BY <1>1, <2>3, <2>4, <2>5 DEF Fits, CallbackFits, Busy, Before
  <2> QED
    BY <1>1, <2>2, <2>4, <2>5, <2>6, CallMoves DEF Busy
<1> QED
  BY <1>2, ConsumeStep, ExchangeStep, RotateStep, InsertStep, ConnectStep DEF Callback

LEMMA BindStep ==
    ASSUME IInv, NEW c \in Binds, Bind(c)
    PROVE  IInv'
<1>1. c \in Calls /\ c \notin Callbacks \cup Trusts /\ call[c] \in Frame /\ Fits(c, call[c])
  BY SetupAssumption DEF Calls, IInv, CallsFit
<1>2. ASSUME UNCHANGED <<db, hist>>, NEW p \in Frame, call' = [call EXCEPT ![c] = p],
             \/ p = [NoFrame EXCEPT !.at = "done"]
             \/ p.flow \in Flows /\ p.id \in DOMAIN rows /\ rows[p.id].connected
      PROVE  IInv'
  <2>1. Typed' /\ UNCHANGED Kept
    BY <1>2 DEF IInv, Typed, db, hist, Kept
  <2>2. Fits(c, p)
    BY <1>1, <1>2, IdleFits DEF Fits
  <2> QED
    BY <1>1, <1>2, <2>1, <2>2, CallMoves
<1>3. CASE BindRead(c)
  <2>1. PICK i \in DOMAIN rows :
          /\ rows[i].connected /\ rows[i].cred # None
          /\ call' = [call EXCEPT ![c].at = "decrypt", ![c].id = i,
                                  ![c].flow = rows[i].cred, ![c].key = rows[i].key]
    BY <1>3 DEF BindRead
  <2> DEFINE p == [call[c] EXCEPT !.at = "decrypt", !.id = i, !.flow = rows[i].cred,
                                  !.key = rows[i].key]
  <2>2. call' = [call EXCEPT ![c] = p]
    BY <2>1
  <2>3. rows[i] \in Row /\ i \in Nat
    BY DEF IInv, Typed
  <2>4. p \in Frame /\ p.id = i /\ p.flow = rows[i].cred
    BY <1>1, <2>3 DEF Frame, Row
  <2>5. p.flow \in Flows
    BY <2>1, <2>3, <2>4 DEF Row
  <2> HIDE DEF p
  <2> QED
    BY <1>2, <1>3, <2>1, <2>2, <2>4, <2>5 DEF BindRead
<1>4. CASE BindDecrypt(c)
  <2> DEFINE f == call[c].flow
             p == [call[c] EXCEPT !.at = "check", !.user = creds[f].user]
  <2>1. f \in Flows /\ call[c].id \in DOMAIN rows /\ rows[call[c].id].connected
    BY <1>1, <1>4 DEF BindDecrypt, At, Fits
  <2>2. UNCHANGED <<db, hist>>
    BY <1>4 DEF BindDecrypt
  <2>3. CASE Ends(c)
    BY <1>2, <2>2, <2>3, NoFrameFits DEF Ends
  <2>4. CASE call' = [call EXCEPT ![c].at = "check", ![c].user = creds[f].user]
    <3>1. call' = [call EXCEPT ![c] = p]
      BY <2>4
    <3>2. creds[f].user \in Users \cup {None}
      BY <2>1 DEF IInv, Typed
    <3>3. p \in Frame /\ p.id = call[c].id /\ p.flow = f
      BY <1>1, <3>2 DEF Frame
    <3> HIDE DEF p
    <3> QED
      BY <1>2, <2>1, <2>2, <3>1, <3>3
  <2> QED
    BY <1>4, <2>3, <2>4 DEF BindDecrypt
<1>5. CASE BindCheck(c)
  <2>1. call[c].flow \in Flows /\ call[c].id \in DOMAIN rows /\ rows[call[c].id].connected
    BY <1>1, <1>5 DEF BindCheck, At, Fits
  <2>2. UNCHANGED <<db, hist>>
    BY <1>5 DEF BindCheck
  <2>3. CASE Ends(c)
    BY <1>2, <2>2, <2>3, NoFrameFits DEF Ends
  <2>4. CASE \E r \in Repos : call' = [call EXCEPT ![c].at = "write", ![c].repo = r]
    <3>1. PICK r \in Repos : call' = [call EXCEPT ![c].at = "write", ![c].repo = r]
      BY <2>4
    <3> DEFINE p == [call[c] EXCEPT !.at = "write", !.repo = r]
    <3>2. call' = [call EXCEPT ![c] = p]
      BY <3>1
    <3>3. p \in Frame /\ p.id = call[c].id /\ p.flow = call[c].flow
      BY <1>1 DEF Frame
    <3> HIDE DEF p
    <3> QED
      BY <1>2, <2>1, <2>2, <3>2, <3>3
  <2> QED
    BY <1>5, <2>3, <2>4 DEF BindCheck
<1>6. CASE BindWrite(c)
  <2> DEFINE i == call[c].id
             r == [rows[i] EXCEPT !.repo = call[c].repo, !.stamp = call[c].key]
  <2>1. i \in DOMAIN rows /\ rows[i].connected /\ RowFits(rows[i])
    BY <1>1, <1>6 DEF BindWrite, At, Fits, IInv, RowsFit
  <2>2. RowFits(r) /\ r.connected
    BY <1>1, <2>1 DEF RowFits, Row, Frame
  <2>3. rows' = [rows EXCEPT ![i] = r]
    BY <1>6 DEF BindWrite
  <2>4. /\ call' = [call EXCEPT ![c] = [NoFrame EXCEPT !.at = "done"]]
        /\ UNCHANGED <<config, keyStored, creds, flows, exchanges, torn, faults>>
    BY <1>6 DEF BindWrite, Ends, hist
  <2>5. torn' \subseteq {"token", "repo"}
    BY <2>4 DEF IInv, Typed
  <2> HIDE DEF i, r
  <2> QED
    BY <1>1, <2>1, <2>2, <2>3, <2>4, <2>5, RowWritten
<1> QED
  BY <1>3, <1>4, <1>5, <1>6 DEF Bind

LEMMA TrustStep ==
    ASSUME IInv, NEW c \in Trusts, Trust(c)
    PROVE  IInv'
<1>1. c \in Calls /\ c \notin Callbacks \cup Binds /\ call[c] \in Frame /\ Fits(c, call[c])
  BY SetupAssumption DEF Calls, IInv, CallsFit
<1>2. UNCHANGED <<db, hist>>
  BY DEF Trust, TrustRead, TrustActive, TrustToken, TrustUsed
<1>3. Typed' /\ UNCHANGED Kept
  BY <1>2 DEF IInv, Typed, db, hist, Kept
<1>4. ASSUME NEW p \in Frame, call' = [call EXCEPT ![c] = p], p.id \in {0} \cup DOMAIN rows,
             p.at \in {"active", "decrypt"} => p.flow \in Flows
      PROVE  IInv'
  <2>1. Fits(c, p)
    BY <1>1, <1>4 DEF Fits
  <2> QED
    BY <1>1, <1>3, <1>4, <2>1, CallMoves
<1>5. CASE call' = [call EXCEPT ![c] = NoFrame]
  BY <1>4, <1>5, NoFrameFits
<1>6. CASE TrustRead(c)
  <2>1. PICK i \in DOMAIN rows :
          /\ rows[i].cred # None
          /\ call' = [call EXCEPT ![c].at = "active", ![c].flow = rows[i].cred,
                                  ![c].repo = rows[i].repo, ![c].clean = "repo" \notin torn]
    BY <1>6 DEF TrustRead
  <2> DEFINE p == [call[c] EXCEPT !.at = "active", !.flow = rows[i].cred,
                                  !.repo = rows[i].repo, !.clean = "repo" \notin torn]
  <2>2. call' = [call EXCEPT ![c] = p]
    BY <2>1
  <2>3. rows[i] \in Row
    BY DEF IInv, Typed
  <2>4. p \in Frame /\ p.id = call[c].id /\ p.flow = rows[i].cred
    BY <1>1, <2>3 DEF Frame, Row
  <2>5. p.flow \in Flows
    BY <2>1, <2>3, <2>4 DEF Row
  <2> HIDE DEF p
  <2> QED
    BY <1>1, <1>4, <2>2, <2>4, <2>5 DEF Fits
<1>7. CASE TrustActive(c) /\ Goes(c, "decrypt")
  <2> DEFINE p == [call[c] EXCEPT !.at = "decrypt"]
  <2>1. call' = [call EXCEPT ![c] = p]
    BY <1>7 DEF Goes
  <2>2. p \in Frame /\ p.id = call[c].id /\ p.flow = call[c].flow
    BY <1>1 DEF Frame
  <2>3. call[c].flow \in Flows
    BY <1>1, <1>7 DEF TrustActive, At, Fits
  <2> HIDE DEF p
  <2> QED
    BY <1>1, <1>4, <2>1, <2>2, <2>3 DEF Fits
<1>8. CASE TrustToken(c) /\ creds[call[c].flow].status = "active"
  <2> DEFINE u == creds[call[c].flow].user
             p == [call[c] EXCEPT !.at = "trusted", !.user = u]
  <2>1. call' = [call EXCEPT ![c] = p]
    BY <1>8 DEF TrustToken
  <2>2. u \in Users \cup {None}
    <3>1. call[c].flow \in Flows
      BY <1>1, <1>8 DEF TrustToken, At, Fits
    <3> QED
      BY <3>1 DEF IInv, Typed
  <2> HIDE DEF u
  <2>3. p \in Frame /\ p.id = call[c].id /\ p.at = "trusted"
    BY <1>1, <2>2 DEF Frame
  <2> HIDE DEF p
  <2> QED
    BY <1>1, <1>4, <2>1, <2>3 DEF Fits
<1> QED
  BY <1>5, <1>6, <1>7, <1>8 DEF Trust, TrustActive, TrustToken, TrustUsed

LEMMA ViewStep ==
    ASSUME IInv, NEW c \in Views, View(c)
    PROVE  IInv'
<1>1. c \in Calls /\ c \notin Callbacks \cup Binds \cup Trusts /\ call[c] \in Frame
      /\ Fits(c, call[c])
  BY SetupAssumption DEF Calls, IInv, CallsFit
<1>2. ASSUME UNCHANGED <<db, hist>>, NEW p \in Frame, call' = [call EXCEPT ![c] = p],
             p.id \in {0} \cup DOMAIN rows
      PROVE  IInv'
  <2>1. Typed' /\ UNCHANGED Kept
    BY <1>2 DEF IInv, Typed, db, hist, Kept
  <2>2. Fits(c, p)
    BY <1>1, <1>2 DEF Fits
  <2> QED
    BY <1>1, <1>2, <2>1, <2>2, CallMoves
<1>3. CASE ViewRow(c)
  <2>1. PICK i \in ReadIds :
          call' = [call EXCEPT ![c].at = "view", ![c].read = @ \cup {"row"}, ![c].id = i,
                               ![c].key = RowOf(i).key, ![c].full = Full(RowOf(i))]
    BY <1>3 DEF ViewRow
  <2> DEFINE p == [call[c] EXCEPT !.at = "view", !.read = @ \cup {"row"}, !.id = i,
                                  !.key = RowOf(i).key, !.full = Full(RowOf(i))]
  <2>2. call' = [call EXCEPT ![c] = p]
    BY <2>1
  <2>3. /\ i \in {0} \cup DOMAIN rows /\ i \in Nat
        /\ Full(RowOf(i)) \in BOOLEAN /\ RowOf(i).key \in BOOLEAN
    BY ReadFits
  <2>4. p \in Frame /\ p.id = i
    BY <1>1, <2>3 DEF Frame
  <2> HIDE DEF p
  <2> QED
    BY <1>2, <1>3, <2>2, <2>3, <2>4 DEF ViewRow
<1>4. CASE ViewKey(c)
  <2> DEFINE p == [call[c] EXCEPT !.at = "view", !.found = keyStored, !.read = @ \cup {"key"}]
  <2>1. call' = [call EXCEPT ![c] = p]
    BY <1>4 DEF ViewKey
  <2>2. p \in Frame /\ p.id = call[c].id
    BY <1>1 DEF Frame, IInv, Typed
  <2> HIDE DEF p
  <2> QED
    BY <1>1, <1>2, <1>4, <2>1, <2>2 DEF ViewKey, Fits
<1>5. CASE ViewEnd(c)
  <2> DEFINE i == call[c].id
             r == [rows[i] EXCEPT !.key = call[c].found, !.stamp = call[c].found /\ call[c].full]
  <2>1. /\ call' = [call EXCEPT ![c] = NoFrame]
        /\ UNCHANGED <<config, keyStored, creds, flows, exchanges, torn, faults>>
    BY <1>5 DEF ViewEnd, hist
  <2>2. CASE i = 0 \/ call[c].key = call[c].found
    <3>1. UNCHANGED <<db, hist>>
      BY <1>5, <2>1, <2>2 DEF ViewEnd, db, hist
    <3> QED
      BY <1>2, <2>1, <3>1, NoFrameFits
  <2>3. CASE ~(i = 0 \/ call[c].key = call[c].found)
    <3>1. i \in DOMAIN rows /\ RowFits(rows[i])
      BY <1>1, <2>3 DEF Fits, IInv, RowsFit
    <3>2. call[c].found \in BOOLEAN /\ call[c].full \in BOOLEAN
      BY <1>1 DEF Frame
    <3>3. RowFits(r) /\ r.connected = rows[i].connected
      BY <3>1, <3>2, FlagsFit
    <3>4. rows' = [rows EXCEPT ![i] = r]
      BY <1>5, <2>3 DEF ViewEnd
    <3>5. torn' \subseteq {"token", "repo"}
      BY <2>1 DEF IInv, Typed
    <3> HIDE DEF i, r
    <3> QED
      BY <1>1, <2>1, <3>1, <3>3, <3>4, <3>5, RowWritten
  <2> QED
    BY <2>2, <2>3
<1> QED
  BY <1>3, <1>4, <1>5 DEF View

LEMMA BreakStep ==
    ASSUME IInv, NEW c \in KeyPosts \cup Callbacks, BreaksOff(c)
    PROVE  IInv'
<1> DEFINE p == [NoFrame EXCEPT !.at = "done"]
<1>1. c \in Calls /\ call' = [call EXCEPT ![c] = p]
  BY DEF BreaksOff, Ends, Calls
<1>2. Typed' /\ UNCHANGED Kept
  BY SetupAssumption DEF BreaksOff, IInv, Typed, db, Kept
<1> QED
  BY <1>1, <1>2, IdleFits, CallMoves

LEMMA IInvStep == ASSUME IInv, [Next]_vars PROVE IInv'
<1>1. CASE UNCHANGED vars
  BY <1>1 DEF vars, db, hist, IInv, Typed, FlowsFresh, RowsFit, RowFits, CallsFit, Fits,
              CallbackFits, OwnFlows
<1>2. CASE Next
  BY <1>2, KeyPostStep, StartStep, CallbackStep, BindStep, TrustStep, ViewStep, BreakStep
     DEF Next
<1> QED
  BY <1>1, <1>2

LEMMA Invariance == Spec => []IInv
<1>1. Init => IInv
  BY IInvInit
<1>2. IInv /\ [Next]_vars => IInv'
  BY IInvStep
<1> QED
  BY <1>1, <1>2, PTL DEF Spec

-----------------------------------------------------------------------------
\* Every variable, row and frame keeps its type.
THEOREM TypeCorrect == Spec => []TypeOK
<1>1. IInv => TypeOK
  BY DEF IInv, Typed, CallsFit, TypeOK
<1> QED
  BY <1>1, Invariance, PTL

\* A state is exchanged once, however the callbacks interleave: the update
\* that looks for it consumes it (github-oauth-callback.ts:57).
THEOREM StateExchangedOnce == Spec => []StateUsedOnce
<1>1. IInv => StateUsedOnce
  BY DEF IInv, FlowsFresh, StateUsedOnce
<1> QED
  BY <1>1, Invariance, PTL

\* The setup row pairs a user with a token of that user, and is bound to a
\* repository only when it is connected, whatever handlers write over each
\* other (github-oauth-callback.ts:164, setup.ts:472).
THEOREM SetupConsistent == Spec => []RowsConsistent
<1>1. IInv => RowsConsistent
  BY DEF IInv, RowsFit, RowFits, RowsConsistent, Bound
<1> QED
  BY <1>1, Invariance, PTL

-----------------------------------------------------------------------------
(* What the actions leave alone. *)

\* The row pairs the same user with the same token.
Same(r, q) == r.connected = q.connected /\ r.user = q.user /\ r.cred = q.cred

\* Rows keep their account, and a new row has none.
RowsStay ==
    /\ DOMAIN rows \subseteq DOMAIN rows'
    /\ \A j \in DOMAIN rows' : \/ j \in DOMAIN rows /\ Same(rows'[j], rows[j])
                               \/ j \notin DOMAIN rows /\ ~rows'[j].connected

\* Rows keep their repository, and a new row has none.
ReposStay ==
    \A j \in DOMAIN rows' : \/ j \in DOMAIN rows /\ rows'[j].repo = rows[j].repo
                            \/ rows'[j].repo = None

OthersStay(c) == \A d \in Calls : d # c => call'[d] = call[d]

LEMMA RowPut ==
    ASSUME IInv, NEW i \in DOMAIN rows, NEW r, Same(r, rows[i]),
           rows' = [rows EXCEPT ![i] = r]
    PROVE  RowsStay /\ rows'[i] = r /\ \A j \in DOMAIN rows' : j # i =>
                                          j \in DOMAIN rows /\ rows'[j] = rows[j]
BY DEF RowsStay, Same, IInv, Typed

LEMMA RowAdded ==
    ASSUME IInv, rows' = Append(rows, [NoRow EXCEPT !.key = TRUE])
    PROVE  RowsStay /\ ReposStay
<1>1. rows \in Seq(Row)
  BY DEF IInv, Typed
<1>2. PICK r : /\ r = [NoRow EXCEPT !.key = TRUE] /\ r.connected = FALSE /\ r.repo = None
               /\ rows' = Append(rows, r)
  BY DEF NoRow
<1>3. /\ DOMAIN rows \subseteq DOMAIN rows'
      /\ \A j \in DOMAIN rows' : \/ j \in DOMAIN rows /\ rows'[j] = rows[j]
                                 \/ j \notin DOMAIN rows /\ rows'[j] = r
  <2>1. Len(rows') = Len(rows) + 1 /\ DOMAIN rows = 1 .. Len(rows)
        /\ DOMAIN rows' = 1 .. Len(rows') /\ Len(rows) \in Nat
    BY <1>1, <1>2
  <2>2. \A j \in 1 .. Len(rows) : rows'[j] = rows[j]
    BY <1>1, <1>2
  <2>3. rows'[Len(rows) + 1] = r
    BY <1>1, <1>2
  <2> QED
    BY <2>1, <2>2, <2>3
<1> QED
  BY <1>2, <1>3 DEF RowsStay, ReposStay, Same

LEMMA RowsUnchanged ==
    ASSUME UNCHANGED rows
    PROVE  RowsStay /\ ReposStay
BY DEF RowsStay, ReposStay, Same

\* A step that puts down a new frame for one call.
LEMMA OneMoves ==
    ASSUME IInv, NEW c \in Calls, NEW p, call' = [call EXCEPT ![c] = p]
    PROVE  call'[c] = p /\ OthersStay(c)
BY DEF IInv, CallsFit, OthersStay

LEMMA FlagsStay ==
    ASSUME NEW row \in Row, NEW k, NEW s
    PROVE  /\ Same([row EXCEPT !.key = k, !.stamp = s], row)
           /\ [row EXCEPT !.key = k, !.stamp = s].repo = row.repo
BY DEF Same, Row

LEMMA KeyPostStays ==
    ASSUME IInv, NEW c \in KeyPosts, KeyPost(c)
    PROVE  RowsStay /\ ReposStay /\ OthersStay(c) /\ UNCHANGED <<creds, torn>>
<1>1. c \in Calls /\ call \in [Calls -> Frame] /\ Fits(c, call[c])
  BY DEF Calls, IInv, CallsFit
<1>2. OthersStay(c) /\ UNCHANGED <<creds, torn>>
  BY <1>1 DEF KeyPost, KeyLook, KeyWrite, SetupLook, KeySetupWrite, Ends, Goes, OthersStay,
              db, hist
<1>3. CASE ~KeySetupWrite(c)
  <2>1. UNCHANGED rows
    BY <1>3 DEF KeyPost, KeyLook, KeyWrite, SetupLook, db
  <2> QED
    BY <1>2, <2>1, RowsUnchanged
<1>4. CASE KeySetupWrite(c)
  <2>1. CASE call[c].id = 0
    BY <1>2, <1>4, <2>1, RowAdded DEF KeySetupWrite
  <2>2. CASE call[c].id # 0
    <3> DEFINE i == call[c].id
               r == [rows[i] EXCEPT !.key = TRUE, !.stamp = call[c].full]
    <3>1. i \in DOMAIN rows /\ rows[i] \in Row
      BY <1>1, <2>2 DEF Fits, IInv, Typed
    <3>2. rows' = [rows EXCEPT ![i] = r]
      BY <1>4, <2>2, Zenon DEF KeySetupWrite
    <3>3. Same(r, rows[i]) /\ r.repo = rows[i].repo
      BY <3>1, FlagsStay
    <3> HIDE DEF i, r
    <3>4. RowsStay /\ rows'[i] = r /\ \A j \in DOMAIN rows' : j # i =>
                                         j \in DOMAIN rows /\ rows'[j] = rows[j]
      BY <3>1, <3>2, <3>3, RowPut
    <3>5. ReposStay
      BY <3>1, <3>3, <3>4 DEF ReposStay
    <3> QED
      BY <1>2, <3>4, <3>5
  <2> QED
    BY <2>1, <2>2
<1> QED
  BY <1>3, <1>4

LEMMA ViewStays ==
    ASSUME IInv, NEW c \in Views, View(c)
    PROVE  RowsStay /\ ReposStay /\ OthersStay(c) /\ UNCHANGED <<creds, torn>>
<1>1. c \in Calls /\ call \in [Calls -> Frame] /\ Fits(c, call[c])
  BY DEF Calls, IInv, CallsFit
<1>2. OthersStay(c) /\ UNCHANGED <<creds, torn>>
  BY <1>1 DEF View, ViewRow, ViewKey, ViewEnd, OthersStay, db, hist
<1> DEFINE i == call[c].id
           r == [rows[i] EXCEPT !.key = call[c].found, !.stamp = call[c].found /\ call[c].full]
<1>3. CASE UNCHANGED rows
  BY <1>2, <1>3, RowsUnchanged
<1>4. CASE ~UNCHANGED rows
  <2>1. rows' = [rows EXCEPT ![i] = r] /\ i # 0
    BY <1>4 DEF View, ViewRow, ViewKey, ViewEnd, db
  <2>2. i \in DOMAIN rows /\ rows[i] \in Row
    BY <1>1, <2>1 DEF Fits, IInv, Typed
  <2>3. Same(r, rows[i]) /\ r.repo = rows[i].repo
    BY <2>2, FlagsStay
  <2> HIDE DEF i, r
  <2>4. RowsStay /\ rows'[i] = r /\ \A j \in DOMAIN rows' : j # i =>
                                       j \in DOMAIN rows /\ rows'[j] = rows[j]
    BY <2>1, <2>2, <2>3, RowPut
  <2>5. ReposStay
    BY <2>2, <2>3, <2>4 DEF ReposStay
  <2> QED
    BY <1>2, <2>4, <2>5
<1> QED
  BY <1>3, <1>4

LEMMA BindStays ==
    ASSUME IInv, NEW c \in Binds, Bind(c)
    PROVE  /\ RowsStay /\ OthersStay(c) /\ UNCHANGED <<creds, torn>>
           /\ \/ UNCHANGED rows
              \/ /\ BindWrite(c)
                 /\ rows'[call[c].id].repo = call[c].repo
                 /\ \A j \in DOMAIN rows' : j # call[c].id =>
                       j \in DOMAIN rows /\ rows'[j] = rows[j]
<1>1. c \in Calls /\ call \in [Calls -> Frame] /\ Fits(c, call[c])
  BY DEF Calls, IInv, CallsFit
<1>2. OthersStay(c) /\ UNCHANGED <<creds, torn>>
  BY <1>1 DEF Bind, BindRead, BindDecrypt, BindCheck, BindWrite, Ends, OthersStay, db, hist
<1>3. CASE ~BindWrite(c)
  <2>1. UNCHANGED rows
    BY <1>3 DEF Bind, BindRead, BindDecrypt, BindCheck, db
  <2> QED
    BY <1>2, <2>1, RowsUnchanged
<1>4. CASE BindWrite(c)
  <2> DEFINE i == call[c].id
             r == [rows[i] EXCEPT !.repo = call[c].repo, !.stamp = call[c].key]
  <2>1. i \in DOMAIN rows /\ rows[i] \in Row
    BY <1>1, <1>4 DEF BindWrite, At, Fits, IInv, Typed
  <2>2. rows' = [rows EXCEPT ![i] = r]
    BY <1>4 DEF BindWrite
  <2>3. Same(r, rows[i]) /\ r.repo = call[c].repo
    BY <2>1 DEF Same, Row
  <2> HIDE DEF i, r
  <2>4. RowsStay /\ rows'[i] = r /\ \A j \in DOMAIN rows' : j # i =>
                                       j \in DOMAIN rows /\ rows'[j] = rows[j]
    BY <2>1, <2>2, <2>3, RowPut
  <2> QED
    BY <1>2, <1>4, <2>3, <2>4 DEF i
<1> QED
  BY <1>3, <1>4

-----------------------------------------------------------------------------
(* The token of the setup row.  As long as no two callbacks overlapped, the *)
(* one that is connecting is alone, and the token it has inserted stays     *)
(* active until its row refers to it.                                       *)

Later == {"token", "setup-look", "setup-write"}

TokenInv ==
    "token" \notin torn =>
        /\ \A c, d \in Connecting : c = d
        /\ Connecting = {} /\ Len(rows) = 1 /\ rows[1].connected =>
              creds[rows[1].cred].status = "active"
        /\ \A c \in Callbacks : call[c].at \in {"setup-look", "setup-write"} =>
              creds[call[c].flow].status = "active"

\* A step that is none of a connecting callback.
LEMMA TokenStays ==
    ASSUME IInv, IInv', TokenInv, RowsStay, UNCHANGED <<creds, torn>>,
           \A c \in Callbacks : \/ call'[c] = call[c]
                                \/ call[c].at \notin Later /\ call'[c].at \notin Later
    PROVE  TokenInv'
<1>1. Connecting' = Connecting
  BY DEF Connecting, Later
<1>2. Len(rows') = 1 /\ rows'[1].connected =>
         Len(rows) = 1 /\ rows[1].connected /\ rows[1].cred = rows'[1].cred
  <2> SUFFICES ASSUME Len(rows') = 1, rows'[1].connected
               PROVE  Len(rows) = 1 /\ rows[1].connected /\ rows[1].cred = rows'[1].cred
    OBVIOUS
  <2>1. rows \in Seq(Row) /\ rows' \in Seq(Row)
    BY DEF IInv, Typed
  <2>2. DOMAIN rows' = {1} /\ DOMAIN rows = 1 .. Len(rows) /\ Len(rows) \in Nat
    BY <2>1
  <2>3. 1 \in DOMAIN rows /\ Same(rows'[1], rows[1])
    BY <2>2 DEF RowsStay
  <2>4. Len(rows) = 1
    BY <2>2, <2>3 DEF RowsStay
  <2> QED
    BY <2>3, <2>4 DEF Same
<1>3. \A c \in Callbacks : call'[c].at \in {"setup-look", "setup-write"} => call'[c] = call[c]
  BY DEF Later
<1> QED
  BY <1>1, <1>2, <1>3 DEF TokenInv

\* The row a callback puts down.
LEMMA ConnectedRow ==
    ASSUME NEW c, NEW row \in Row
    PROVE  /\ Connected(c, row).connected = TRUE /\ Connected(c, row).repo = None
           /\ Connected(c, row).cred = call[c].flow /\ Connected(c, row).user = call[c].user
BY DEF Connected, Row

LEMMA TokenCallback ==
    ASSUME IInv, IInv', TokenInv, NEW c \in Callbacks, Callback(c)
    PROVE  TokenInv'
<1>1. c \in Calls /\ call \in [Calls -> Frame] /\ call[c] \in Frame /\ Fits(c, call[c])
      /\ Callbacks \subseteq Calls
  BY DEF Calls, IInv, CallsFit
<1>2. CASE (\E f \in Flows : Consume(c, f)) \/ Exchange(c)
  <2>1. UNCHANGED <<creds, torn, rows>> /\ OthersStay(c)
    BY <1>1, <1>2 DEF Consume, Exchange, Ends, OthersStay, hist, db
  <2>2. call[c].at \notin Later /\ call'[c].at \notin Later
    BY <1>1, <1>2, NoFrameFits DEF Consume, Exchange, At, Ends, Later, Frame
  <2> QED
    BY <1>1, <2>1, <2>2, RowsUnchanged, TokenStays DEF OthersStay
<1>3. CASE Rotate(c)
  <2>1. call'[c].at = "token" /\ OthersStay(c) /\ call[c].at = "rotate"
        /\ torn' = IF Connecting = {} THEN torn \ {"token"} ELSE torn \cup {"token"}
    BY <1>1, <1>3 DEF Rotate, At, Goes, OthersStay, Frame
  <2> SUFFICES ASSUME "token" \notin torn'
               PROVE  TokenInv'
    BY DEF TokenInv
  <2>2. Connecting = {}
    BY <2>1
  <2>3. \A d \in Callbacks : d # c => call'[d].at \notin Later
    BY <1>1, <2>1, <2>2 DEF Connecting, Later, OthersStay
  <2>4. Connecting' = {c}
    BY <2>1, <2>3 DEF Connecting, Later
  <2>5. \A d \in Callbacks : call'[d].at \notin {"setup-look", "setup-write"}
    BY <2>1, <2>3 DEF Later
  <2> QED
    BY <2>4, <2>5 DEF TokenInv
<1>4. CASE InsertToken(c)
  <2>1. /\ call'[c].at = "setup-look" /\ call'[c].flow = call[c].flow /\ OthersStay(c)
        /\ call[c].at = "token" /\ torn' = torn
        /\ creds' = [creds EXCEPT ![call[c].flow] = [status |-> "active", user |-> call[c].user]]
    BY <1>1, <1>4 DEF InsertToken, At, Goes, OthersStay, Frame, hist
  <2>2. call[c].flow \in Flows
    BY <1>1, <2>1 DEF Fits, CallbackFits, Busy, Before
  <2>3. creds'[call'[c].flow].status = "active"
    BY <2>1, <2>2 DEF IInv, Typed
  <2> SUFFICES ASSUME "token" \notin torn'
               PROVE  TokenInv'
    BY DEF TokenInv
  <2>4. Connecting' = Connecting /\ c \in Connecting
    BY <1>1, <2>1 DEF Connecting, OthersStay
  <2>5. \A d \in Callbacks : d # c => d \notin Connecting /\ call'[d] = call[d]
    BY <1>1, <2>1, <2>4 DEF TokenInv, OthersStay
  <2>6. \A d \in Callbacks : call'[d].at \in {"setup-look", "setup-write"} => d = c
    BY <2>5 DEF Connecting
  <2>7. \A x, d \in Connecting' : x = d
    BY <2>1, <2>4 DEF TokenInv
  <2> QED
    BY <2>3, <2>4, <2>6, <2>7 DEF TokenInv
<1>5. CASE SetupLook(c)
  <2>1. UNCHANGED <<creds, torn, rows>> /\ OthersStay(c) /\ call[c].at = "setup-look"
        /\ call'[c].at = "setup-write" /\ call'[c].flow = call[c].flow
    BY <1>1, <1>5 DEF SetupLook, At, OthersStay, Frame, hist, db
  <2>2. Connecting' = Connecting
    BY <1>1, <2>1 DEF Connecting, OthersStay
  <2>3. \A d \in Callbacks : call'[d].at \in {"setup-look", "setup-write"} =>
           call[d].at \in {"setup-look", "setup-write"} /\ call'[d].flow = call[d].flow
    BY <1>1, <2>1 DEF OthersStay
  <2> QED
    BY <2>1, <2>2, <2>3 DEF TokenInv
<1>6. CASE ConnectWrite(c)
  <2>1. /\ call'[c].at = "done" /\ OthersStay(c) /\ call[c].at = "setup-write"
        /\ "token" \in torn' <=> "token" \in torn
        /\ creds' = creds
    BY <1>1, <1>6, NoFrameFits DEF ConnectWrite, At, Ends, OthersStay
  <2> SUFFICES ASSUME "token" \notin torn
               PROVE  TokenInv'
    BY <2>1 DEF TokenInv
  <2>2. c \in Connecting /\ creds[call[c].flow].status = "active"
    BY <2>1 DEF Connecting, TokenInv
  <2>3. \A d \in Callbacks : call'[d].at \notin Later
    BY <1>1, <2>1, <2>2 DEF Connecting, OthersStay, TokenInv, Later
  <2>4. Len(rows') = 1 => rows'[1].cred = call[c].flow
    <3>1. rows \in Seq(Row) /\ call[c].id \in {0} \cup DOMAIN rows
      BY <1>1 DEF IInv, Typed, Fits
    <3>2. CASE call[c].id = 0
      <4>1. NoRow \in Row
        BY DEF NoRow, Row
      <4>2. PICK r : rows' = Append(rows, r) /\ r.cred = call[c].flow
        BY <1>6, <3>2, <4>1, ConnectedRow DEF ConnectWrite
      <4> QED
        BY <3>1, <4>2
    <3>3. CASE call[c].id # 0
      <4>1. call[c].id \in DOMAIN rows /\ rows[call[c].id] \in Row
        BY <3>1, <3>3
      <4>2. PICK r : rows' = [rows EXCEPT ![call[c].id] = r] /\ r.cred = call[c].flow
        BY <1>6, <3>3, <4>1, ConnectedRow DEF ConnectWrite
      <4>3. Len(rows') = 1 => call[c].id = 1
        BY <3>1, <4>1, <4>2
      <4> QED
        BY <4>1, <4>2, <4>3
    <3> QED
      BY <3>2, <3>3
  <2>5. \A x, d \in Connecting' : x = d
    BY <2>3 DEF Connecting, Later
  <2>6. \A d \in Callbacks : call'[d].at \notin {"setup-look", "setup-write"}
    BY <2>3 DEF Later
  <2>7. Len(rows') = 1 => creds'[rows'[1].cred].status = "active"
    BY <2>1, <2>2, <2>4
  <2> QED
    BY <2>5, <2>6, <2>7 DEF TokenInv
<1> QED
  BY <1>2, <1>3, <1>4, <1>5, <1>6 DEF Callback

LEMMA TokenStep ==
    ASSUME IInv, IInv', TokenInv, [Next]_vars
    PROVE  TokenInv'
<1>1. ASSUME NEW c \in Calls \ Callbacks, OthersStay(c), RowsStay, UNCHANGED <<creds, torn>>
      PROVE  TokenInv'
  BY <1>1, TokenStays DEF OthersStay, Calls
<1>2. CASE \E c \in KeyPosts : KeyPost(c)
  BY <1>1, <1>2, KeyPostStays, SetupAssumption DEF Calls
<1>3. CASE \E c \in Views : View(c)
  BY <1>1, <1>3, ViewStays, SetupAssumption DEF Calls
<1>4. CASE \E c \in Binds : Bind(c)
  BY <1>1, <1>4, BindStays, SetupAssumption DEF Calls
<1>5. CASE \E f \in Flows : Start(f, TRUE) \/ Start(f, FALSE) \/ Expire(f)
  <2>1. UNCHANGED <<rows, creds, call, torn>>
    BY <1>5 DEF Start, Expire, hist
  <2> QED
    BY <2>1, RowsUnchanged, TokenStays
<1>6. CASE \E c \in Callbacks : Callback(c)
  BY <1>6, TokenCallback
<1>7. CASE \E c \in Trusts : Trust(c)
  <2>1. PICK c \in Trusts : Trust(c)
    BY <1>7
  <2>2. c \in Calls \ Callbacks /\ call \in [Calls -> Frame]
    BY SetupAssumption DEF Calls, IInv, CallsFit
  <2>3. OthersStay(c) /\ UNCHANGED <<rows, creds, torn>>
    BY <2>1, <2>2 DEF Trust, TrustRead, TrustActive, TrustToken, TrustUsed, Goes, OthersStay,
                      db, hist
  <2> QED
    BY <1>1, <2>2, <2>3, RowsUnchanged
<1>8. CASE \E c \in KeyPosts \cup Callbacks : BreaksOff(c)
  <2>1. PICK c \in KeyPosts \cup Callbacks : BreaksOff(c)
    BY <1>8
  <2>2. c \in Calls /\ call \in [Calls -> Frame] /\ Callbacks \subseteq Calls
    BY DEF Calls, IInv, CallsFit
  <2>3. OthersStay(c) /\ UNCHANGED <<rows, creds>> /\ call'[c].at = "done"
    BY <2>1, <2>2, NoFrameFits DEF BreaksOff, Ends, OthersStay, db
  <2>4. CASE c \in Connecting
    BY <2>1, <2>4 DEF BreaksOff, TokenInv
  <2>5. CASE c \notin Connecting
    <3>1. torn' = torn
      BY <2>1, <2>5 DEF BreaksOff
    <3>2. c \in Callbacks => call[c].at \notin Later /\ call'[c].at \notin Later
      BY <2>3, <2>5 DEF Connecting, Later
    <3> QED
      BY <2>2, <2>3, <3>1, <3>2, RowsUnchanged, TokenStays DEF OthersStay
  <2> QED
    BY <2>4, <2>5
<1>9. CASE UNCHANGED vars
  BY <1>9, RowsUnchanged, TokenStays DEF vars, db, hist
<1> QED
  BY <1>2, <1>3, <1>4, <1>5, <1>6, <1>7, <1>8, <1>9 DEF Next

\* The setup row refers to an active token unless callbacks overlapped or
\* one broke off (github-oauth-callback.ts:119).
THEOREM TokenStaysUsable == Spec => []TokenUsable
<1>1. Init => TokenInv
  <2> SUFFICES ASSUME Init PROVE TokenInv
    OBVIOUS
  <2>1. \A c \in Callbacks : call[c].at = "idle"
    BY NoFrameFits DEF Init, Calls
  <2>2. Len(rows) = 0
    BY DEF Init
  <2> QED
    BY <2>1, <2>2 DEF TokenInv, Connecting
<1>2. IInv /\ IInv' /\ TokenInv /\ [Next]_vars => TokenInv'
  BY TokenStep
<1>3. TokenInv => TokenUsable
  BY DEF TokenInv, TokenUsable
<1> QED
  BY <1>1, <1>2, <1>3, Invariance, PTL DEF Spec

-----------------------------------------------------------------------------
(* The repository of the setup row.  A bind writes a repository that the    *)
(* user of its token may push to; as long as no account was connected       *)
(* meanwhile, that is the user of its row.                                  *)

Binding == {"decrypt", "check", "write"}

MayPush(row) == row.repo # None => <<row.user, row.repo>> \in CanWrite

BindFits(p) ==
    /\ p.at \in Binding /\ "repo" \notin torn => rows[p.id].cred = p.flow
    /\ p.at \in {"check", "write"} =>
          creds[p.flow].status # "none" /\ creds[p.flow].user = p.user
    /\ p.at = "write" => <<p.user, p.repo>> \in CanWrite

TrustFits(p) ==
    /\ p.at \in {"active", "decrypt"} =>
          /\ creds[p.flow].status # "none"
          /\ p.clean => <<creds[p.flow].user, p.repo>> \in CanWrite
    /\ p.at = "trusted" /\ p.clean => <<p.user, p.repo>> \in CanWrite

RepoInv ==
    /\ "repo" \notin torn => \A i \in DOMAIN rows : MayPush(rows[i])
    /\ \A b \in Binds : BindFits(call[b])
    /\ \A c \in Trusts : TrustFits(call[c])

\* A token that is there keeps its user.
CredsStay ==
    \A f \in Flows : creds[f].status # "none" =>
        creds'[f].status # "none" /\ creds'[f].user = creds[f].user

\* No bind and no trust is disturbed, unless an account is connected.
LEMMA RepoStays ==
    ASSUME IInv, RepoInv, CredsStay, NEW d \in Binds \cup Trusts, call'[d] = call[d],
           "repo" \notin torn' => /\ "repo" \notin torn \/ call[d].at \notin Binding
                                  /\ RowsStay \/ d \notin Binds \/ call[d].at \notin Binding
    PROVE  (d \in Binds => BindFits(call[d])') /\ (d \in Trusts => TrustFits(call[d])')
<1>1. d \in Calls /\ Fits(d, call[d])
  BY DEF Calls, IInv, CallsFit
<1>2. ASSUME d \in Binds
      PROVE  BindFits(call[d])'
  <2>1. BindFits(call[d])
    BY <1>2 DEF RepoInv
  <2>2. call[d].at \in Binding => call[d].flow \in Flows /\ call[d].id \in DOMAIN rows
    BY <1>1, <1>2 DEF Fits, Binding
  <2>3. call[d].at \in Binding /\ "repo" \notin torn' => rows'[call[d].id].cred = call[d].flow
    BY <1>2, <2>1, <2>2 DEF BindFits, RowsStay, Same
  <2>4. call[d].at \in {"check", "write"} =>
           creds'[call[d].flow].status # "none" /\ creds'[call[d].flow].user = call[d].user
    BY <2>1, <2>2 DEF BindFits, CredsStay, Binding
  <2> QED
    BY <2>1, <2>3, <2>4 DEF BindFits
<1>3. ASSUME d \in Trusts
      PROVE  TrustFits(call[d])'
  <2>1. TrustFits(call[d])
    BY <1>3 DEF RepoInv
  <2>2. call[d].at \in {"active", "decrypt"} => call[d].flow \in Flows
    BY <1>1, <1>3 DEF Fits
  <2> QED
    BY <2>1, <2>2 DEF TrustFits, CredsStay
<1> QED
  BY <1>2, <1>3

\* A step of another call that binds no repository and connects no account.
LEMMA RepoQuiet ==
    ASSUME IInv, RepoInv, CredsStay, RowsStay, ReposStay,
           "repo" \in torn' <=> "repo" \in torn,
           \A d \in Binds \cup Trusts : call'[d] = call[d]
    PROVE  RepoInv'
<1>1. \A d \in Binds \cup Trusts :
         (d \in Binds => BindFits(call[d])') /\ (d \in Trusts => TrustFits(call[d])')
  BY RepoStays
<1>2. ASSUME "repo" \notin torn', NEW i \in DOMAIN rows'
      PROVE  MayPush(rows[i])'
  <2>1. CASE rows'[i].repo = None
    BY <2>1 DEF MayPush
  <2>2. CASE rows'[i].repo # None
    <3>1. i \in DOMAIN rows /\ rows'[i].repo = rows[i].repo
      BY <2>2 DEF ReposStay
    <3>2. MayPush(rows[i]) /\ rows'[i].user = rows[i].user
      BY <1>2, <3>1 DEF RepoInv, RowsStay, Same
    <3> QED
      BY <3>1, <3>2 DEF MayPush
  <2> QED
    BY <2>1, <2>2
<1> QED
  BY <1>1, <1>2 DEF RepoInv

LEMMA RepoCallback ==
    ASSUME IInv, RepoInv, NEW c \in Callbacks, Callback(c)
    PROVE  RepoInv'
<1>1. c \in Calls /\ call \in [Calls -> Frame] /\ Fits(c, call[c])
      /\ \A d \in Binds \cup Trusts : d \in Calls /\ d # c
  BY SetupAssumption DEF Calls, IInv, CallsFit
<1>2. OthersStay(c)
  BY <1>1 DEF Callback, Consume, Exchange, Rotate, InsertToken, SetupLook, ConnectWrite,
              Ends, Goes, OthersStay
<1>3. CredsStay
  <2>1. CASE Rotate(c)
    <3>1. creds' = [f \in Flows |-> [creds[f] EXCEPT
                      !.status = IF creds[f].status = "active" THEN "rotated"
                                 ELSE creds[f].status]]
      BY <2>1 DEF Rotate
    <3> QED
      BY <3>1 DEF CredsStay, IInv, Typed
  <2>2. CASE InsertToken(c)
    <3>1. creds[call[c].flow].status = "none"
      BY <1>1, <2>2 DEF InsertToken, At, Fits, CallbackFits, Before
    <3>2. \A f \in Flows : f # call[c].flow => creds'[f] = creds[f]
      BY <2>2 DEF InsertToken, IInv, Typed
    <3> QED
      BY <3>1, <3>2 DEF CredsStay
  <2>3. CASE ~Rotate(c) /\ ~InsertToken(c)
    <3>1. creds' = creds
      BY <2>3 DEF Callback, Consume, Exchange, SetupLook, ConnectWrite, db
    <3> QED
      BY <3>1 DEF CredsStay
  <2> QED
    BY <2>1, <2>2, <2>3
<1>4. CASE ~ConnectWrite(c)
  <2>1. rows' = rows /\ ("repo" \in torn' <=> "repo" \in torn)
    BY <1>4 DEF Callback, Consume, Exchange, Rotate, InsertToken, SetupLook, hist, db
  <2> QED
    BY <1>1, <1>2, <1>3, <2>1, RowsUnchanged, RepoQuiet DEF OthersStay
<1>5. CASE ConnectWrite(c)
  <2>1. torn' = IF \E b \in Binds : call[b].at \in Binding
                THEN torn \cup {"repo"}
                ELSE IF \E i \in DOMAIN rows : i # call[c].id /\ Bound(rows[i])
                THEN torn ELSE torn \ {"repo"}
    BY <1>5 DEF ConnectWrite, Binding
  <2>2. "repo" \notin torn' => \A b \in Binds : call[b].at \notin Binding
    BY <2>1
  <2>3. \A d \in Binds \cup Trusts :
           (d \in Binds => BindFits(call[d])') /\ (d \in Trusts => TrustFits(call[d])')
    <3> SUFFICES ASSUME NEW d \in Binds \cup Trusts
                 PROVE  (d \in Binds => BindFits(call[d])') /\ (d \in Trusts => TrustFits(call[d])')
      OBVIOUS
    <3>1. call'[d] = call[d] /\ d \in Calls
      BY <1>1, <1>2 DEF OthersStay
    <3>2. CASE d \in Binds
      <4>1. d \notin Trusts /\ ("repo" \notin torn' => call[d].at \notin Binding)
        BY <2>2, <3>2, SetupAssumption
      <4> QED
        BY <1>3, <3>1, <4>1, RepoStays
    <3>3. CASE d \in Trusts
      <4>1. d \notin Binds /\ TrustFits(call[d]) /\ Fits(d, call[d])
        BY <3>1, <3>3, SetupAssumption DEF RepoInv, IInv, CallsFit
      <4>2. call[d].at \in {"active", "decrypt"} => call[d].flow \in Flows
        BY <3>3, <4>1 DEF Fits
      <4>3. TrustFits(call[d])'
        BY <1>3, <3>1, <4>1, <4>2 DEF TrustFits, CredsStay
      <4> QED
        BY <4>1, <4>3
    <3> QED
      BY <3>2, <3>3
  <2>4. ASSUME "repo" \notin torn', NEW i \in DOMAIN rows'
        PROVE  MayPush(rows[i])'
    <3>1. \A j \in DOMAIN rows : j # call[c].id => MayPush(rows[j])
      BY <2>1, <2>4 DEF RepoInv, MayPush, Bound
    <3>2. rows \in Seq(Row) /\ call[c].id \in {0} \cup DOMAIN rows
      BY <1>1 DEF IInv, Typed, Fits
    <3>3. rows'[i].repo = None \/ (i \in DOMAIN rows /\ i # call[c].id /\ rows'[i] = rows[i])
      <4>1. CASE call[c].id = 0
        <5>1. NoRow \in Row
          BY DEF NoRow, Row
        <5>2. PICK r : rows' = Append(rows, r) /\ r.repo = None
          BY <1>5, <4>1, <5>1, ConnectedRow DEF ConnectWrite
        <5> QED
          BY <3>2, <4>1, <5>2
      <4>2. CASE call[c].id # 0
        <5>1. call[c].id \in DOMAIN rows /\ rows[call[c].id] \in Row
          BY <3>2, <4>2
        <5>2. PICK r : rows' = [rows EXCEPT ![call[c].id] = r] /\ r.repo = None
          BY <1>5, <4>2, <5>1, ConnectedRow DEF ConnectWrite
        <5> QED
          BY <3>2, <5>1, <5>2
      <4> QED
        BY <4>1, <4>2
    <3> QED
      BY <3>1, <3>3 DEF MayPush
  <2> QED
    BY <2>3, <2>4 DEF RepoInv
<1> QED
  BY <1>4, <1>5

LEMMA RepoBind ==
    ASSUME IInv, RepoInv, NEW c \in Binds, Bind(c)
    PROVE  RepoInv'
<1>1. c \in Calls /\ call \in [Calls -> Frame] /\ call[c] \in Frame /\ Fits(c, call[c])
      /\ BindFits(call[c]) /\ c \notin Callbacks \cup Trusts
      /\ \A d \in Binds \cup Trusts : d \in Calls
  BY SetupAssumption DEF Calls, IInv, CallsFit, RepoInv
<1>2. /\ RowsStay /\ OthersStay(c) /\ UNCHANGED <<creds, torn>>
      /\ \/ UNCHANGED rows
         \/ /\ BindWrite(c)
            /\ rows'[call[c].id].repo = call[c].repo
            /\ \A j \in DOMAIN rows' : j # call[c].id =>
                  j \in DOMAIN rows /\ rows'[j] = rows[j]
  BY BindStays
<1>3. CredsStay
  BY <1>2 DEF CredsStay
<1>4. \A d \in Binds \cup Trusts : d # c =>
         (d \in Binds => BindFits(call[d])') /\ (d \in Trusts => TrustFits(call[d])')
  BY <1>1, <1>2, <1>3, RepoStays DEF OthersStay
<1>5. BindFits(call[c])'
  <2>1. CASE BindRead(c)
    <3>1. PICK i \in DOMAIN rows :
            /\ rows[i].connected /\ rows[i].cred # None
            /\ call' = [call EXCEPT ![c].at = "decrypt", ![c].id = i,
                                    ![c].flow = rows[i].cred, ![c].key = rows[i].key]
      BY <2>1 DEF BindRead
    <3>2. call'[c].at = "decrypt" /\ call'[c].id = i /\ call'[c].flow = rows[i].cred
      BY <1>1, <3>1 DEF Frame
    <3>3. rows' = rows
      BY <2>1 DEF BindRead, db
    <3> QED
      BY <3>2, <3>3 DEF BindFits
  <2>2. CASE BindDecrypt(c)
    <3>1. call[c].flow \in Flows /\ call[c].at = "decrypt"
      BY <1>1, <2>2 DEF BindDecrypt, At, Fits
    <3>2. UNCHANGED <<rows, creds, torn>>
      BY <2>2 DEF BindDecrypt, db, hist
    <3>3. CASE Ends(c)
      <4>1. call'[c].at = "done"
        BY <1>1, <3>3, NoFrameFits DEF Ends
      <4> QED
        BY <4>1 DEF BindFits, Binding
    <3>4. CASE /\ creds[call[c].flow].status = "active"
               /\ call' = [call EXCEPT ![c].at = "check", ![c].user = creds[call[c].flow].user]
      <4>1. /\ call'[c].at = "check" /\ call'[c].user = creds[call[c].flow].user
            /\ call'[c].flow = call[c].flow /\ call'[c].id = call[c].id
        BY <1>1, <3>4 DEF Frame
      <4> QED
        BY <1>1, <3>1, <3>2, <3>4, <4>1 DEF BindFits, Binding
    <3> QED
      BY <2>2, <3>3, <3>4 DEF BindDecrypt
  <2>3. CASE BindCheck(c)
    <3>1. call[c].at = "check"
      BY <2>3 DEF BindCheck, At
    <3>2. UNCHANGED <<rows, creds, torn>>
      BY <2>3 DEF BindCheck, db, hist
    <3>3. CASE Ends(c)
      <4>1. call'[c].at = "done"
        BY <1>1, <3>3, NoFrameFits DEF Ends
      <4> QED
        BY <4>1 DEF BindFits, Binding
    <3>4. CASE \E r \in Repos : /\ <<call[c].user, r>> \in CanWrite
                                /\ call' = [call EXCEPT ![c].at = "write", ![c].repo = r]
      <4>1. PICK r \in Repos : /\ <<call[c].user, r>> \in CanWrite
                               /\ call' = [call EXCEPT ![c].at = "write", ![c].repo = r]
        BY <3>4
      <4>2. /\ call'[c].at = "write" /\ call'[c].user = call[c].user /\ call'[c].repo = r
            /\ call'[c].flow = call[c].flow /\ call'[c].id = call[c].id
        BY <1>1, <4>1 DEF Frame
      <4> QED
        BY <1>1, <3>1, <3>2, <4>1, <4>2 DEF BindFits, Binding
    <3> QED
      BY <2>3, <3>3, <3>4 DEF BindCheck
  <2>4. CASE BindWrite(c)
    <3>1. call'[c].at = "done"
      BY <1>1, <2>4, NoFrameFits DEF BindWrite, Ends
    <3> QED
      BY <3>1 DEF BindFits, Binding
  <2> QED
    BY <2>1, <2>2, <2>3, <2>4 DEF Bind
<1>6. ASSUME "repo" \notin torn', NEW i \in DOMAIN rows'
      PROVE  MayPush(rows[i])'
  <2>1. CASE rows' = rows
    BY <1>2, <1>6, <2>1 DEF RepoInv, MayPush
  <2>2. CASE i # call[c].id /\ rows' # rows
    BY <1>2, <1>6, <2>2 DEF RepoInv, MayPush
  <2>3. CASE i = call[c].id /\ rows' # rows
    <3>1. BindWrite(c) /\ rows'[i].repo = call[c].repo /\ call[c].at = "write"
      BY <1>2, <2>3 DEF BindWrite, At
    <3>2. i \in DOMAIN rows /\ rows[i].connected /\ RowFits(rows[i]) /\ call[c].flow \in Flows
      BY <1>1, <2>3, <3>1 DEF Fits, IInv, RowsFit
    <3>3. rows[i].user = call[c].user /\ <<call[c].user, call[c].repo>> \in CanWrite
      BY <1>1, <1>2, <1>6, <2>3, <3>1, <3>2 DEF BindFits, Binding, RowFits
    <3>4. rows'[i].user = rows[i].user
      BY <1>2, <3>2 DEF RowsStay, Same
    <3> QED
      BY <3>1, <3>3, <3>4 DEF MayPush
  <2> QED
    BY <2>1, <2>2, <2>3
<1> QED
  BY <1>1, <1>4, <1>5, <1>6 DEF RepoInv

LEMMA RepoTrust ==
    ASSUME IInv, RepoInv, NEW c \in Trusts, Trust(c)
    PROVE  RepoInv'
<1>1. c \in Calls /\ call \in [Calls -> Frame] /\ call[c] \in Frame /\ Fits(c, call[c])
      /\ TrustFits(call[c]) /\ c \notin Callbacks \cup Binds
      /\ \A d \in Binds \cup Trusts : d \in Calls
  BY SetupAssumption DEF Calls, IInv, CallsFit, RepoInv
<1>2. OthersStay(c) /\ UNCHANGED <<rows, creds, torn>>
  BY <1>1 DEF Trust, TrustRead, TrustActive, TrustToken, TrustUsed, Goes, OthersStay, db, hist
<1>3. CredsStay /\ RowsStay
  BY <1>2, RowsUnchanged DEF CredsStay
<1>4. \A d \in Binds \cup Trusts : d # c =>
         (d \in Binds => BindFits(call[d])') /\ (d \in Trusts => TrustFits(call[d])')
  BY <1>1, <1>2, <1>3, RepoStays DEF OthersStay
<1>5. TrustFits(call[c])'
  <2>1. CASE call' = [call EXCEPT ![c] = NoFrame]
    <3>1. call'[c].at = "idle"
      BY <1>1, <2>1, NoFrameFits
    <3> QED
      BY <3>1 DEF TrustFits
  <2>2. CASE TrustRead(c)
    <3>1. PICK i \in DOMAIN rows :
            /\ rows[i].connected /\ Bound(rows[i]) /\ rows[i].cred # None
            /\ call' = [call EXCEPT ![c].at = "active", ![c].flow = rows[i].cred,
                                    ![c].repo = rows[i].repo, ![c].clean = "repo" \notin torn]
      BY <2>2 DEF TrustRead
    <3>2. /\ call'[c].at = "active" /\ call'[c].flow = rows[i].cred
          /\ call'[c].repo = rows[i].repo /\ (call'[c].clean <=> "repo" \notin torn)
      BY <1>1, <3>1 DEF Frame
    <3>3. RowFits(rows[i])
      BY DEF IInv, RowsFit
    <3>4. /\ creds[rows[i].cred].status # "none" /\ creds[rows[i].cred].user = rows[i].user
      BY <3>1, <3>3 DEF RowFits
    <3>5. "repo" \notin torn => <<rows[i].user, rows[i].repo>> \in CanWrite
      BY <3>1 DEF RepoInv, MayPush, Bound
    <3> QED
      BY <1>2, <3>2, <3>4, <3>5 DEF TrustFits
  <2>3. CASE TrustActive(c) /\ Goes(c, "decrypt")
    <3>1. /\ call'[c].at = "decrypt" /\ call'[c].flow = call[c].flow
          /\ call'[c].repo = call[c].repo /\ call'[c].clean = call[c].clean
      BY <1>1, <2>3 DEF Goes, Frame
    <3>2. call[c].at = "active"
      BY <2>3 DEF TrustActive, At
    <3> QED
      BY <1>1, <1>2, <3>1, <3>2 DEF TrustFits
  <2>4. CASE TrustToken(c) /\ creds[call[c].flow].status = "active"
    <3>1. call' = [call EXCEPT ![c].at = "trusted", ![c].user = creds[call[c].flow].user]
      BY <2>4 DEF TrustToken
    <3>2. /\ call'[c].at = "trusted" /\ call'[c].user = creds[call[c].flow].user
          /\ call'[c].repo = call[c].repo /\ call'[c].clean = call[c].clean
      BY <1>1, <3>1 DEF Frame
    <3>3. call[c].at = "decrypt"
      BY <2>4 DEF TrustToken, At
    <3> QED
      BY <1>1, <3>2, <3>3 DEF TrustFits
  <2> QED
    BY <2>1, <2>2, <2>3, <2>4 DEF Trust, TrustActive, TrustToken, TrustUsed
<1>6. "repo" \notin torn' => \A i \in DOMAIN rows' : MayPush(rows[i])'
  BY <1>2 DEF RepoInv, MayPush
<1> QED
  BY <1>1, <1>4, <1>5, <1>6 DEF RepoInv

LEMMA RepoStep ==
    ASSUME IInv, RepoInv, [Next]_vars
    PROVE  RepoInv'
<1>1. ASSUME NEW c \in Calls \ (Binds \cup Trusts), OthersStay(c), RowsStay, ReposStay,
             UNCHANGED <<creds, torn>>
      PROVE  RepoInv'
  <2>1. \A d \in Binds \cup Trusts : call'[d] = call[d]
    BY <1>1 DEF OthersStay, Calls
  <2>2. CredsStay
    BY <1>1 DEF CredsStay
  <2> QED
    BY <1>1, <2>1, <2>2, RepoQuiet
<1>2. CASE \E c \in KeyPosts : KeyPost(c)
  BY <1>1, <1>2, KeyPostStays, SetupAssumption DEF Calls
<1>3. CASE \E c \in Views : View(c)
  BY <1>1, <1>3, ViewStays, SetupAssumption DEF Calls
<1>4. CASE \E f \in Flows : Start(f, TRUE) \/ Start(f, FALSE) \/ Expire(f)
  <2>1. UNCHANGED <<rows, creds, call, torn>>
    BY <1>4 DEF Start, Expire, hist
  <2> QED
    BY <2>1, RowsUnchanged, RepoQuiet DEF CredsStay
<1>5. CASE \E c \in KeyPosts \cup Callbacks : BreaksOff(c)
  <2>1. PICK c \in KeyPosts \cup Callbacks : BreaksOff(c)
    BY <1>5
  <2>2. c \in Calls \ (Binds \cup Trusts) /\ call \in [Calls -> Frame]
    BY SetupAssumption DEF Calls, IInv, CallsFit
  <2>3. OthersStay(c) /\ UNCHANGED <<rows, creds>> /\ ("repo" \in torn' <=> "repo" \in torn)
    BY <2>1, <2>2 DEF BreaksOff, Ends, OthersStay, db
  <2>4. \A d \in Binds \cup Trusts : call'[d] = call[d]
    BY <2>2, <2>3 DEF OthersStay, Calls
  <2> QED
    BY <2>3, <2>4, RowsUnchanged, RepoQuiet DEF CredsStay
<1>6. CASE UNCHANGED vars
  BY <1>6, RowsUnchanged, RepoQuiet DEF CredsStay, vars, db, hist
<1> QED
  BY <1>2, <1>3, <1>4, <1>5, <1>6, RepoCallback, RepoBind, RepoTrust DEF Next

\* The agent is given a repository its token's user may push to, though row,
\* status and token are read at different times, unless the row it read was
\* bound while another account was being connected
\* (github-trust-guard.ts:124).
THEOREM TrustIsJustified == Spec => []TrustHolds
<1>1. Init => RepoInv
  <2> SUFFICES ASSUME Init PROVE RepoInv
    OBVIOUS
  <2>1. \A c \in Binds \cup Trusts : call[c].at = "idle"
    BY NoFrameFits DEF Init, Calls
  <2>2. DOMAIN rows = {}
    BY DEF Init
  <2> QED
    BY <2>1, <2>2 DEF RepoInv, BindFits, TrustFits, Binding
<1>2. IInv /\ RepoInv /\ [Next]_vars => RepoInv'
  BY RepoStep
<1>3. RepoInv => TrustHolds
  BY DEF RepoInv, TrustFits, TrustHolds, At
<1> QED
  BY <1>1, <1>2, <1>3, Invariance, PTL DEF Spec

=============================================================================
