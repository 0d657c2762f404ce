---------------------------- MODULE BayeuxClient ----------------------------
(***************************************************************************)
(* The low-level client (v2/bayeux_client.go) under any number of calling  *)
(* goroutines.  The client id, behind its lock, and the state machine, an  *)
(* atomic integer, are read and written one at a time: one action is one   *)
(* such access, the sending of a request or the arrival of a response.     *)
(***************************************************************************)
EXTENDS StateTable, Integers, Sequences, FiniteSets

CONSTANTS
  Caller,     \* the goroutines that use the client
  Channel,    \* the Bayeux channels they use
  Invalid,    \* those that Channel.IsValid refuses
  NoChannel,  \* the subscription field of a message that has none
  ClientIDs,  \* the session ids the server may grant
  NoID,       \* the empty clientID
  Extension,  \* the extensions that may be registered
  Nil,        \* the ext field of a message that has none
  Operations, \* the operations they call
  MaxCalls    \* bound: calls

Operation == {"handshake", "connect", "subscribe", "unsubscribe", "disconnect"}
Message   == [op : Operation, id : ClientIDs \cup {NoID},
              ch : Channel \cup {NoChannel}, ext : {Nil} \cup SUBSET Extension]
Reply     == [op : Operation \cup {"data"}, ok : BOOLEAN,
              id : ClientIDs \cup {NoID}, ch : Channel \cup {NoChannel}]
Result    == {"none", "ok", "refused", "invalid", "failed"}

ASSUME SetAssumption ==
  /\ NoID \notin ClientIDs /\ NoChannel \notin Channel
  /\ Invalid \subseteq Channel /\ Operations \subseteq Operation
  /\ MaxCalls \in Nat

VARIABLES
  csm,        \* ConnectionStateMachine.currentState
  clientID,   \* clientState.clientID
  exts,       \* the registered extensions
  pc,         \* where each caller is
  op,         \* what it has called
  arg,        \* with these channels
  id,         \* the client id it has read
  out,        \* the messages of its request
  response,   \* the messages of the response to it
  result,     \* what its last call has returned
  calls,      \* the number of calls
  handshakes, \* history: the number of handshake requests sent
  granted,    \* the sessions the server has granted
  srvSubs     \* the channels each session is subscribed to

local  == <<op, arg, id, out, response>>
server == <<granted, srvSubs>>
vars   == <<csm, clientID, exts, pc, local, result, calls, handshakes, server>>

Pc == {"idle", "event", "readID", "readState", "build", "wait", "served",
       "setID", "established"}

TypeOK ==
  /\ csm \in ConnState /\ clientID \in ClientIDs \cup {NoID}
  /\ exts \subseteq Extension
  /\ pc \in [Caller -> Pc] /\ op \in [Caller -> Operation]
  /\ arg \in [Caller -> SUBSET Channel]
  /\ id \in [Caller -> ClientIDs \cup {NoID}]
  /\ out \in [Caller -> SUBSET Message]
  /\ response \in [Caller -> SUBSET Reply]
  /\ result \in [Caller -> Result]
  /\ calls \in Nat /\ handshakes \in Nat
  /\ granted \subseteq ClientIDs
  /\ srvSubs \in [ClientIDs -> SUBSET Channel]

\* NewBayeuxClient.
Init ==
  /\ csm = Unconnected /\ clientID = NoID /\ exts = {}
  /\ pc = [c \in Caller |-> "idle"] /\ op = [c \in Caller |-> "handshake"]
  /\ arg = [c \in Caller |-> {}] /\ id = [c \in Caller |-> NoID]
  /\ out = [c \in Caller |-> {}] /\ response = [c \in Caller |-> {}]
  /\ result = [c \in Caller |-> "none"] /\ calls = 0 /\ handshakes = 0
  /\ granted = {} /\ srvSubs = [i \in ClientIDs |-> {}]

-----------------------------------------------------------------------------
\* A caller that is at place p, or goes there.
At(c, p) == pc[c] = p
Go(c, p) == pc' = [pc EXCEPT ![c] = p]

\* The call returns; its locals are gone.
Return(c, r) ==
  /\ Go(c, "idle") /\ result' = [result EXCEPT ![c] = r]
  /\ arg' = [arg EXCEPT ![c] = {}] /\ id' = [id EXCEPT ![c] = NoID]
  /\ out' = [out EXCEPT ![c] = {}] /\ response' = [response EXCEPT ![c] = {}]
  /\ UNCHANGED op

\* Not synchronized with the requests, hence before or between them.
UseExtension(e) ==
  /\ \A c \in Caller : At(c, "idle")
  /\ e \notin exts /\ exts' = exts \cup {e}
  /\ UNCHANGED <<csm, clientID, pc, local, result, calls, handshakes, server>>

\* A repeated channel is dropped by AddSubscription: a slice is a set here.
Call(c, o, a) ==
  /\ At(c, "idle") /\ calls < MaxCalls
  /\ o \in {"subscribe", "unsubscribe"} \/ a = {}
  /\ calls' = calls + 1
  /\ op' = [op EXCEPT ![c] = o] /\ arg' = [arg EXCEPT ![c] = a]
  /\ result' = [result EXCEPT ![c] = "none"]
  /\ Go(c, IF o = "handshake" THEN "event" ELSE "readID")
  /\ UNCHANGED <<csm, clientID, exts, id, out, response, handshakes, server>>

\* ProcessEvent(handshakeSent), one compare-and-swap.
HandshakeEvent(c) ==
  /\ At(c, "event")
  /\ csm' = After("handshakeSent", csm)
  /\ IF Accepts("handshakeSent", csm)
     THEN Go(c, "build") /\ UNCHANGED <<local, result>>
     ELSE Return(c, "refused")
  /\ UNCHANGED <<clientID, exts, calls, handshakes, server>>

ReadID(c) ==
  /\ At(c, "readID")
  /\ id' = [id EXCEPT ![c] = clientID]
  /\ Go(c, "readState")
  /\ UNCHANGED <<csm, clientID, exts, op, arg, out, response, result, calls,
                 handshakes, server>>

\* Faulty variant: the state alone decides.
ReadStateOnly(c) ==
  /\ At(c, "readState")
  /\ IF csm = Connected
     THEN Go(c, "build") /\ UNCHANGED <<local, result>>
     ELSE Return(c, "refused")
  /\ UNCHANGED <<csm, clientID, exts, calls, handshakes, server>>

ReadState(c) ==
  /\ At(c, "readState")
  /\ IF csm = Connected /\ id[c] # NoID
     THEN Go(c, "build") /\ UNCHANGED <<local, result>>
     ELSE Return(c, "refused")
  /\ UNCHANGED <<csm, clientID, exts, calls, handshakes, server>>

-----------------------------------------------------------------------------
\* The builders: one message, or one for each channel.
Build(o, i, a) ==
  {[op |-> o, id |-> i, ch |-> x, ext |-> Nil] :
     x \in IF o \in {"subscribe", "unsubscribe"} THEN a ELSE {NoChannel}}

BuildFails(o, a) ==
  o \in {"subscribe", "unsubscribe"} /\ (a = {} \/ a \cap Invalid # {})

\* Outgoing of every extension, on a copy of the message: an ext map that it
\* makes for the copy is lost, one that was there is shared.
Outgoing(m) == IF m.ext = Nil THEN m ELSE [m EXCEPT !.ext = @ \cup exts]

Send(c) ==
  /\ At(c, "build")
  /\ IF BuildFails(op[c], arg[c])
     THEN Return(c, "invalid") /\ UNCHANGED handshakes
     ELSE /\ out' = [out EXCEPT ![c] = {Outgoing(m) : m \in Build(op[c], id[c], arg[c])}]
          /\ handshakes' = handshakes + (IF op[c] = "handshake" THEN 1 ELSE 0)
          /\ Go(c, "wait")
          /\ UNCHANGED <<op, arg, id, response, result>>
  /\ UNCHANGED <<csm, clientID, exts, calls, server>>

-----------------------------------------------------------------------------
\* The server: a fresh session, a refusal, or a response of another shape.
Answer(o, b, i, x) == [op |-> o, ok |-> b, id |-> i, ch |-> x]

ServeHandshake(c) ==
  /\ At(c, "wait") /\ op[c] = "handshake"
  /\ \/ \E i \in ClientIDs \ granted :
          /\ granted' = granted \cup {i}
          /\ \E more \in SUBSET {Answer("data", TRUE, NoID, NoChannel)} :
               response' = [response EXCEPT ![c] =
                 {Answer("handshake", TRUE, i, NoChannel)} \cup more]
     \/ /\ \E r \in SUBSET {Answer("handshake", FALSE, NoID, NoChannel)} :
               response' = [response EXCEPT ![c] = r]
        /\ UNCHANGED granted
  /\ Go(c, "served")
  /\ UNCHANGED <<csm, clientID, exts, op, arg, id, out, result, calls, handshakes,
                 srvSubs>>

\* What a response holds besides the replies to a request: data messages of
\* the session's channels, when it is one to a /meta/connect request.
Data(o, s) == IF o = "connect" THEN {Answer("data", TRUE, NoID, x) : x \in s} ELSE {}

\* Every message of the request is accepted or not: nothing in the client
\* depends on whether a server refuses the requests of a session it has ended.
ServeRequest(c) ==
  /\ At(c, "wait") /\ op[c] # "handshake"
  /\ \E accepted \in SUBSET out[c], data \in SUBSET Data(op[c], srvSubs[id[c]]) :
       LET channels == {m.ch : m \in accepted} \cap Channel
           before   == srvSubs[id[c]] IN
       /\ response' = [response EXCEPT ![c] =
            {Answer(m.op, m \in accepted, NoID, m.ch) : m \in out[c]} \cup data]
       /\ \E after \in SUBSET Channel :
            /\ srvSubs' = [srvSubs EXCEPT ![id[c]] = after]
            /\ \/ op[c] = "connect" /\ after = before
               \/ op[c] = "subscribe" /\ after = before \cup channels
               \/ op[c] = "unsubscribe" /\ after = before \ channels
               \/ op[c] = "disconnect" /\ after = IF accepted = {} THEN before ELSE {}
  /\ Go(c, "served")
  /\ UNCHANGED <<csm, clientID, exts, op, arg, id, out, result, calls, handshakes,
                 granted>>

\* No response, or one that is not a list of messages: the server may have
\* done what it was asked to all the same.
Lost(c) ==
  /\ At(c, "wait") \/ At(c, "served")
  /\ Return(c, "failed")
  /\ UNCHANGED <<csm, clientID, exts, calls, handshakes, server>>

-----------------------------------------------------------------------------
\* A handshake wants exactly one message, and that one of its channel.
Granting(ms) ==
  Cardinality(ms) = 1 /\ \A m \in ms : m.op = "handshake" /\ m.ok

\* Faulty variant: one successful reply is enough.
SomeSucceeded(o, ms) == \E m \in ms : m.op = o /\ m.ok

\* The other requests want no unsuccessful reply of their channel.
Succeeded(o, ms) == \A m \in ms : m.op = o => m.ok

ReceiveHandshake(c) ==
  /\ At(c, "served") /\ op[c] = "handshake"
  /\ IF Granting(response[c])
     THEN Go(c, "setID") /\ UNCHANGED <<local, result>>
     ELSE Return(c, "failed")
  /\ UNCHANGED <<csm, clientID, exts, calls, handshakes, server>>

\* Faulty variant: the state machine before the client id.
SetIDLate(c) ==
  /\ At(c, "setID")
  /\ csm' = After("successfullyConnected", csm)
  /\ Go(c, "established")
  /\ UNCHANGED <<clientID, exts, local, result, calls, handshakes, server>>

SetID(c) ==
  /\ At(c, "setID")
  /\ \E m \in response[c] : clientID' = m.id
  /\ Go(c, "established")
  /\ UNCHANGED <<csm, exts, local, result, calls, handshakes, server>>

Established(c) ==
  /\ At(c, "established")
  /\ csm' = After("successfullyConnected", csm)
  /\ Return(c, "ok")
  /\ UNCHANGED <<clientID, exts, calls, handshakes, server>>

Receive(c) ==
  /\ At(c, "served") /\ op[c] # "handshake"
  /\ Return(c, IF Succeeded(op[c], response[c]) THEN "ok" ELSE "failed")
  /\ UNCHANGED <<csm, clientID, exts, calls, handshakes, server>>

-----------------------------------------------------------------------------
Step(c) ==
  \/ HandshakeEvent(c) \/ ReadID(c) \/ ReadState(c) \/ Send(c)
  \/ ServeHandshake(c) \/ ServeRequest(c) \/ Lost(c)
  \/ ReceiveHandshake(c) \/ SetID(c) \/ Established(c) \/ Receive(c)

Next ==
  \/ \E c \in Caller : Step(c)
  \/ \E c \in Caller, o \in Operations, a \in SUBSET Channel : Call(c, o, a)
  \/ \E e \in Extension : UseExtension(e)

Spec == Init /\ [][Next]_vars
=============================================================================
