------------------------------ MODULE Session ------------------------------
(***************************************************************************)
(* What the client owes the Bayeux protocol and the application, however   *)
(* many goroutines, queues and timers it takes: one handshake, one session,*)
(* one /meta/connect request at a time, and each response worked through,  *)
(* batch after batch, before the next request.                             *)
(***************************************************************************)
EXTENDS Integers, Sequences

CONSTANTS
  Receiver,    \* where the application receives messages
  MetaConnect, \* the channel of the client's own messages
  ClientIDs,   \* the session ids a server may grant
  NoID         \* no session

VARIABLES
  phase,       \* "UNCONNECTED", "CONNECTING", "CONNECTED"
  sid,         \* the session
  outstanding, \* whether a /meta/connect request is unanswered
  pending,     \* what remains of the last response
  served,      \* the number of messages the server has sent
  received     \* what each receiver has got

session == <<phase, sid>>
vars    == <<session, outstanding, pending, served, received>>

Init ==
  /\ phase = "UNCONNECTED" /\ sid = NoID
  /\ outstanding = FALSE /\ pending = <<>> /\ served = 0
  /\ received = [r \in Receiver |-> <<>>]

Begin ==
  /\ phase = "UNCONNECTED" /\ phase' = "CONNECTING"
  /\ UNCHANGED <<sid, outstanding, pending, served, received>>

Grant ==
  /\ phase = "CONNECTING" /\ phase' = "CONNECTED" /\ sid' \in ClientIDs
  /\ UNCHANGED <<outstanding, pending, served, received>>

Request ==
  /\ phase = "CONNECTED" /\ sid # NoID
  /\ ~ outstanding /\ pending = <<>>
  /\ outstanding' = TRUE
  /\ UNCHANGED <<session, pending, served, received>>

\* The response holds the messages served + 1 .. served' in this order,
\* before or after the reply on /meta/connect.
Answer ==
  /\ outstanding /\ ~ outstanding'
  /\ served' \in Nat /\ Len(pending') = 1 + served' - served
  /\ \E reply \in {1, Len(pending')} :
       /\ pending'[reply].ch = MetaConnect
       /\ \A i \in 1 .. Len(pending') \ {reply} :
            /\ pending'[i].ch # MetaConnect
            /\ pending'[i].n = served + i - (IF i > reply THEN 1 ELSE 0)
  /\ UNCHANGED <<session, received>>

Fail ==
  /\ outstanding /\ ~ outstanding'
  /\ UNCHANGED <<session, pending, served, received>>

\* A batch: the next messages of pending that share their channel.
HandOver ==
  /\ \E k \in 1 .. Len(pending) :
       /\ \A i \in 1 .. k : pending[i].ch = pending[1].ch
       /\ pending' = SubSeq(pending, k + 1, Len(pending))
       /\ IF pending[1].ch = MetaConnect
          THEN UNCHANGED received
          ELSE \E r \in Receiver :
                 received' = [received EXCEPT ![r] = @ \o SubSeq(pending, 1, k)]
  /\ UNCHANGED <<session, outstanding, served>>

\* The rest of a response is given up.
Abandon ==
  /\ pending # <<>> /\ pending' = <<>>
  /\ UNCHANGED <<session, outstanding, served, received>>

Next == Begin \/ Grant \/ Request \/ Answer \/ Fail \/ HandOver \/ Abandon

Spec == Init /\ [][Next]_vars
=============================================================================
