------------------------------- MODULE Mailbox -------------------------------
(* What the chat promises of a request, whatever polls, ticks and restarts  *)
(* there are: it is asked once, taken once, answered, and withdrawn when it *)
(* is answered.  An answer may be revised to a failure as long as it is not *)
(* withdrawn.  The code has no such module: it is the protocol that         *)
(* routes/chat.ts and operator-chat-relay.ts agree on by the status of a    *)
(* row.  ChatRelay is shown to implement it.                                *)

CONSTANT Requests

VARIABLE request   \* request -> how far it is

Stages == {"new", "pending", "processing", "completed", "failed", "gone"}

MailInit == request = [r \in Requests |-> "new"]

Moves(r, from, to) ==
    /\ request[r] = from
    /\ request' = [request EXCEPT ![r] = to]

Ask(r)      == Moves(r, "new", "pending")
Take(r)     == Moves(r, "pending", "processing")
Answer(r)   == Moves(r, "processing", "completed") \/ Moves(r, "processing", "failed")
Revise(r)   == Moves(r, "completed", "failed")
Withdraw(r) == Moves(r, "completed", "gone") \/ Moves(r, "failed", "gone")

MailNext == \E r \in Requests : Ask(r) \/ Take(r) \/ Answer(r) \/ Revise(r) \/ Withdraw(r)

MailSpec == MailInit /\ [][MailNext]_request
=============================================================================
