----------------------------- MODULE TestServer -----------------------------
(***************************************************************************)
(* The server of the tests (v2/internal/gobayeuxtest/server.go) under the  *)
(* goroutines of one low-level client, whose http.Client has it as its     *)
(* transport.  RoundTrip holds the server's mutex from beginning to end:   *)
(* one action.  The client's own steps are those of BayeuxClient.          *)
(***************************************************************************)
EXTENDS Integers, FiniteSets

CONSTANTS Caller, Channel, Invalid, NoChannel, ClientIDs, NoID, Extension, Nil,
          Operations, MaxCalls   \* as in BayeuxClient

VARIABLES
  csm, clientID, exts, pc, op, arg, id, out, response, result, calls,
  handshakes, granted,           \* as in BayeuxClient
  running,        \* Server.running
  handshakeError, \* Server.handshakeError, an option of NewServer
  entries,        \* Server.subs: how often a channel is in a session's list
  status          \* the status code of the response to each caller's request

server == <<running, handshakeError, entries>>
vars   == <<csm, clientID, exts, pc, op, arg, id, out, response, result, calls,
            handshakes, granted, server, status>>

\* The subscriptions of a session: what its list holds at least once.
Subscribed == [i \in ClientIDs |-> {x \in Channel : entries[i][x] > 0}]
Client     == INSTANCE BayeuxClient WITH srvSubs <- Subscribed

ASSUME ServerAssumption == Client!SetAssumption

TypeOK ==
  /\ running \in BOOLEAN /\ handshakeError \in BOOLEAN
  /\ entries \in [ClientIDs -> [Channel -> Nat]]
  /\ status \in [Caller -> {"none", "200", "400"}]

NoEntries == [x \in Channel |-> 0]

\* NewServer, NewBayeuxClient.
Init ==
  /\ running = FALSE /\ handshakeError \in BOOLEAN
  /\ entries = [i \in ClientIDs |-> NoEntries]
  /\ status = [c \in Caller |-> "none"]
  /\ Client!Init

-----------------------------------------------------------------------------
Start == running' = TRUE
Stop  == running' = FALSE

StartStop ==
  /\ Start \/ Stop
  /\ UNCHANGED <<csm, clientID, exts, pc, op, arg, id, out, response, result, calls,
                 handshakes, granted, handshakeError, entries, status>>

\* RoundTrip answers with these messages.
Respond(c, code, messages) ==
  /\ running /\ Client!At(c, "wait") /\ Client!Go(c, "served")
  /\ status' = [status EXCEPT ![c] = code]
  /\ response' = [response EXCEPT ![c] = messages]
  /\ UNCHANGED <<csm, clientID, exts, op, arg, id, out, result, calls, handshakes,
                 running, handshakeError>>

ServeHandshake(c) ==
  /\ op[c] = "handshake"
  /\ \/ /\ handshakeError /\ Respond(c, "400", {})
        /\ UNCHANGED granted
     \/ /\ ~ handshakeError
        /\ \E i \in ClientIDs \ granted :
             /\ Respond(c, "200", {Client!Answer("handshake", TRUE, i, NoChannel)})
             /\ granted' = granted \cup {i}
  /\ UNCHANGED entries

\* A connect request is answered at once, with a message for each entry.
ServeConnect(c) ==
  /\ op[c] = "connect"
  /\ Respond(c, "200", {Client!Answer("connect", TRUE, NoID, NoChannel)} \cup
                       Client!Data("connect", Subscribed[id[c]]))
  /\ UNCHANGED <<entries, granted>>

Replies(c, ok) == {Client!Answer(m.op, m.ch \in ok, NoID, m.ch) : m \in out[c]}
Channels(c)    == {m.ch : m \in out[c]}
Code(c, ok)    == IF Channels(c) \subseteq ok THEN "200" ELSE "400"
Holds(c, e)    == entries' = [entries EXCEPT ![id[c]] = e]

\* A channel that is subscribed already is refused, and entered once more.
ServeSubscribe(c) ==
  LET e == entries[id[c]]
      ok == {x \in Channels(c) : e[x] = 0} IN
  /\ op[c] = "subscribe"
  /\ Respond(c, Code(c, ok), Replies(c, ok))
  /\ Holds(c, [x \in Channel |-> IF x \in Channels(c) THEN e[x] + 1 ELSE e[x]])
  /\ UNCHANGED granted

\* Faulty variant: the first entry of a channel is removed, not all of them.
RemoveOne(e, xs) == [x \in Channel |-> IF x \in xs /\ e[x] > 0 THEN e[x] - 1 ELSE e[x]]

Remove(e, xs) == [x \in Channel |-> IF x \in xs THEN 0 ELSE e[x]]

ServeUnsubscribe(c) ==
  LET e == entries[id[c]]
      ok == {x \in Channels(c) : e[x] > 0} IN
  /\ op[c] = "unsubscribe"
  /\ Respond(c, Code(c, ok), Replies(c, ok))
  /\ Holds(c, Remove(e, Channels(c)))
  /\ UNCHANGED granted

ServeDisconnect(c) ==
  /\ op[c] = "disconnect"
  /\ Respond(c, "200", Replies(c, {NoChannel}))
  /\ Holds(c, NoEntries)
  /\ UNCHANGED granted

RoundTrip(c) ==
  \/ ServeHandshake(c) \/ ServeConnect(c) \/ ServeSubscribe(c)
  \/ ServeUnsubscribe(c) \/ ServeDisconnect(c)

-----------------------------------------------------------------------------
\* The client before it sends.
Ask(c) ==
  /\ UNCHANGED <<server, status>>
  /\ \/ Client!HandshakeEvent(c) \/ Client!ReadID(c) \/ Client!ReadState(c)
     \/ Client!Send(c) \/ Client!SetID(c) \/ Client!Established(c)

\* Faulty variant: a server that is down does not answer at all.
FailLate(c) ==
  /\ UNCHANGED server /\ status' = [status EXCEPT ![c] = "none"]
  /\ status[c] = "400" /\ Client!Lost(c)

\* The client with a response, or with the error of a server that is down.
Fail(c) ==
  /\ UNCHANGED server /\ status' = [status EXCEPT ![c] = "none"]
  /\ (pc[c] = "wait" /\ ~ running) \/ status[c] = "400"
  /\ Client!Lost(c)

Receive(c) ==
  /\ UNCHANGED server /\ status' = [status EXCEPT ![c] = "none"]
  /\ status[c] = "200"
  /\ Client!ReceiveHandshake(c) \/ Client!Receive(c)

Call ==
  /\ UNCHANGED <<server, status>>
  /\ \E c \in Caller, o \in Operations, a \in SUBSET Channel : Client!Call(c, o, a)

Working(c) == Ask(c) \/ RoundTrip(c) \/ Fail(c) \/ Receive(c)

Next == (\E c \in Caller : Working(c)) \/ Call \/ StartStop

\* Goroutines run; nobody owes a call, or to start or stop the server.
Spec == Init /\ [][Next]_vars /\ \A c \in Caller : WF_vars(Working(c))

-----------------------------------------------------------------------------
\* The server keeps what BayeuxClient expects of one, although it refuses a
\* subscription and records it all the same, once more than before: what one
\* session is subscribed to changes by the requests it accepts and only by
\* them (server.go:151-206).
ImplementsBayeux == Client!Spec

\* Every call returns, to a server that is stopped at any moment as well: no
\* request is left without a response or an error (server.go:83-85).
EveryCallReturns == \A c \in Caller : pc[c] # "idle" ~> pc[c] = "idle"
=============================================================================
