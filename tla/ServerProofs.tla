----------------------------- MODULE ServerProofs -----------------------------
(***************************************************************************)
(* Theorems: the server of the tests keeps to what BayeuxClient expects of *)
(* one, and its clients have what BayeuxClient promises.  The invariant of *)
(* the client is that of BayeuxProofs, with what the server's lists hold   *)
(* for the subscriptions.                                                  *)
(***************************************************************************)
EXTENDS TestServer, TLAPS

P == INSTANCE BayeuxProofs WITH srvSubs <- Subscribed

\* Counters of entries.
EntriesOK == entries \in [ClientIDs -> [Channel -> Nat]]
\* A request on its way is made of messages of its kind.
Asking ==
  \A c \in Caller : pc[c] = "wait" /\ op[c] # "handshake" =>
    /\ out[c] # {}
    /\ \A m \in out[c] :
         /\ m.op = op[c]
         /\ m.ch \in IF op[c] \in {"subscribe", "unsubscribe"}
                     THEN Channel ELSE {NoChannel}

SInv == P!IInv /\ EntriesOK /\ Asking

\* The two instances of BayeuxClient are one.
LEMMA SameStep ==
  ASSUME NEW c \in Caller, Client!Step(c) PROVE P!Step(c)
<1> USE DEF Client!At, P!At, Client!Go, P!Go, Client!Return, P!Return,
            Client!local, P!local, Client!server, P!server,
            Client!After, P!After, Client!Accepts, P!Accepts,
            Client!Unconnected, P!Unconnected, Client!Connecting, P!Connecting,
            Client!Connected, P!Connected, Client!Answer, P!Answer, P!Step
<1>1. CASE Client!HandshakeEvent(c)
  BY <1>1 DEF Client!HandshakeEvent, P!HandshakeEvent
<1>2. CASE Client!ReadID(c)    BY <1>2 DEF Client!ReadID, P!ReadID
<1>3. CASE Client!ReadState(c) BY <1>3 DEF Client!ReadState, P!ReadState
<1>4. CASE Client!Send(c)
  BY <1>4 DEF Client!Send, P!Send, Client!BuildFails, P!BuildFails, Client!Build,
     P!Build, Client!Outgoing, P!Outgoing
<1>5. CASE Client!ServeHandshake(c)
  BY <1>5 DEF Client!ServeHandshake, P!ServeHandshake
<1>6. CASE Client!ServeRequest(c)
  BY <1>6 DEF Client!ServeRequest, P!ServeRequest, Client!Data, P!Data
<1>7. CASE Client!Lost(c) BY <1>7 DEF Client!Lost, P!Lost
<1>8. CASE Client!ReceiveHandshake(c)
  BY <1>8 DEF Client!ReceiveHandshake, P!ReceiveHandshake, Client!Granting, P!Granting,
     Client!Cardinality, P!Cardinality
<1>9. CASE Client!SetID(c) BY <1>9 DEF Client!SetID, P!SetID
<1>10. CASE Client!Established(c) BY <1>10 DEF Client!Established, P!Established
<1>11. CASE Client!Receive(c)
  BY <1>11 DEF Client!Receive, P!Receive, Client!Succeeded, P!Succeeded
<1>12. QED BY <1>1, <1>2, <1>3, <1>4, <1>5, <1>6, <1>7, <1>8, <1>9, <1>10, <1>11
           DEF Client!Step

\* So are their next-state relations.
LEMMA SameNext ==
  ASSUME [Client!Next]_(Client!vars) PROVE [P!Next]_(P!vars)
<1>1. ASSUME NEW c \in Caller, NEW o \in Operations, NEW a \in SUBSET Channel,
             Client!Call(c, o, a)
      PROVE  P!Call(c, o, a)
  BY <1>1 DEF Client!Call, P!Call, Client!At, P!At, Client!Go, P!Go, Client!server,
     P!server
<1>2. ASSUME NEW e \in Extension, Client!UseExtension(e) PROVE P!UseExtension(e)
  BY <1>2 DEF Client!UseExtension, P!UseExtension, Client!At, P!At, Client!local,
     P!local, Client!server, P!server
<1>3. UNCHANGED Client!vars => UNCHANGED P!vars
  BY DEF Client!vars, P!vars, Client!local, P!local, Client!server, P!server
<1>4. QED BY <1>1, <1>2, <1>3, SameStep DEF Client!Next, P!Next

-----------------------------------------------------------------------------
\* What the invariant of the client says of the state.
LEMMA Types ==
  ASSUME SInv
  PROVE  /\ pc \in [Caller -> P!Pc] /\ op \in [Caller -> P!Operation]
         /\ arg \in [Caller -> SUBSET Channel]
         /\ id \in [Caller -> ClientIDs \cup {NoID}]
         /\ out \in [Caller -> SUBSET P!Message]
         /\ response \in [Caller -> SUBSET P!Reply]
BY DEF SInv, P!IInv, P!TypeOK

\* A request that is on its way names a session.
LEMMA NamesSession ==
  ASSUME SInv, NEW c \in Caller, pc[c] = "wait", op[c] # "handshake"
  PROVE  id[c] \in ClientIDs
BY Types DEF SInv, P!IInv, P!ReadKnown

\* Entries of one session.
LEMMA SubscribedHolds ==
  ASSUME EntriesOK, NEW i \in ClientIDs, NEW e \in [Channel -> Nat],
         entries' = [entries EXCEPT ![i] = e]
  PROVE  /\ EntriesOK'
         /\ Subscribed' = [Subscribed EXCEPT ![i] = {x \in Channel : e[x] > 0}]
BY DEF EntriesOK, Subscribed

\* The server's answers are those that BayeuxClient expects.
LEMMA ServeRequestStep ==
  ASSUME SInv, NEW c \in Caller,
         ServeConnect(c) \/ ServeSubscribe(c) \/ ServeUnsubscribe(c) \/ ServeDisconnect(c)
  PROVE  Client!ServeRequest(c) /\ EntriesOK'
<1> DEFINE i == id[c]
           before == Subscribed[i]
<1>1. /\ pc[c] = "wait" /\ Client!At(c, "wait") /\ Client!Go(c, "served")
      /\ op[c] \in {"connect", "subscribe", "unsubscribe", "disconnect"}
      /\ UNCHANGED <<csm, clientID, exts, op, arg, id, out, result, calls, handshakes,
                     granted>>
  BY DEF ServeConnect, ServeSubscribe, ServeUnsubscribe, ServeDisconnect, Respond,
     Client!At
<1>2. id[c] \in ClientIDs BY <1>1, NamesSession
<1>3. /\ out[c] # {} /\ \A m \in out[c] : m.op = op[c]
      /\ op[c] \in {"subscribe", "unsubscribe"} => Channels(c) \subseteq Channel
      /\ op[c] \in {"connect", "disconnect"} => \A m \in out[c] : m.ch = NoChannel
  BY <1>1 DEF SInv, Asking, Channels
<1>4. /\ entries[i] \in [Channel -> Nat]
      /\ before = {x \in Channel : entries[i][x] > 0} /\ before \subseteq Channel
      /\ Subscribed \in [ClientIDs -> SUBSET Channel]
  BY <1>2 DEF SInv, EntriesOK, Subscribed
<1> DEFINE
  Served(accepted, data, after) ==
    /\ response' = [response EXCEPT ![c] =
         {Client!Answer(m.op, m \in accepted, NoID, m.ch) : m \in out[c]} \cup data]
    /\ Subscribed' = [Subscribed EXCEPT ![i] = after]
    /\ \/ op[c] = "connect" /\ after = before
       \/ op[c] = "subscribe" /\ after = before \cup ({m.ch : m \in accepted} \cap Channel)
       \/ op[c] = "unsubscribe" /\ after = before \ ({m.ch : m \in accepted} \cap Channel)
       \/ op[c] = "disconnect" /\ after = IF accepted = {} THEN before ELSE {}
<1>5. ASSUME NEW accepted \in SUBSET out[c],
             NEW data \in SUBSET Client!Data(op[c], before),
             NEW after \in SUBSET Channel, Served(accepted, data, after)
      PROVE  Client!ServeRequest(c)
  BY <1>1, <1>5 DEF Client!ServeRequest
<1>6. CASE ServeConnect(c)
  <2>1. /\ op[c] = "connect" /\ UNCHANGED entries
        /\ response' = [response EXCEPT ![c] =
             {Client!Answer("connect", TRUE, NoID, NoChannel)}
             \cup Client!Data("connect", before)]
    BY <1>6 DEF ServeConnect, Respond
  <2>2. {Client!Answer(m.op, m \in out[c], NoID, m.ch) : m \in out[c]}
          = {Client!Answer("connect", TRUE, NoID, NoChannel)}
    BY <1>3, <2>1 DEF Client!Answer
  <2>3. Subscribed' = Subscribed /\ EntriesOK'
    BY <2>1 DEF Subscribed, SInv, EntriesOK
  <2>4. Subscribed = [Subscribed EXCEPT ![i] = before] BY <1>4
  <2>5. Served(out[c], Client!Data("connect", before), before)
    BY <2>1, <2>2, <2>3, <2>4
  <2> HIDE DEF Served, before
  <2>6. Client!Data("connect", before) \in SUBSET Client!Data(op[c], before)
    BY <2>1
  <2>7. before \in SUBSET Channel BY <1>4
  <2>8. QED BY <1>5, <2>3, <2>5, <2>6, <2>7
<1>7. CASE ServeSubscribe(c)
  <2> DEFINE e == entries[i]
             ok == {x \in Channels(c) : e[x] = 0}
             f == [x \in Channel |-> IF x \in Channels(c) THEN e[x] + 1 ELSE e[x]]
             accepted == {m \in out[c] : m.ch \in ok}
  <2>1. /\ op[c] = "subscribe" /\ entries' = [entries EXCEPT ![i] = f]
        /\ response' = [response EXCEPT ![c] = Replies(c, ok)]
    BY <1>7 DEF ServeSubscribe, Respond, Holds
  <2>2. f \in [Channel -> Nat] BY <1>4
  <2>3. /\ EntriesOK'
        /\ Subscribed' = [Subscribed EXCEPT ![i] = {x \in Channel : f[x] > 0}]
    BY <1>2, <2>1, <2>2, SubscribedHolds DEF SInv
  <2>4. {m.ch : m \in accepted} \cap Channel = ok
    BY <1>3, <2>1 DEF Channels
  <2>5. {x \in Channel : f[x] > 0} = before \cup ok
    BY <1>3, <1>4, <2>1
  <2>6. Replies(c, ok) = {Client!Answer(m.op, m \in accepted, NoID, m.ch) : m \in out[c]}
    BY DEF Replies, Client!Answer
  <2>7. before \cup ok \in SUBSET Channel BY <1>3, <1>4, <2>1
  <2>8. Served(accepted, {}, before \cup ok)
    <3> HIDE DEF ok, f, accepted, before
    <3>1. QED BY <2>1, <2>3, <2>4, <2>5, <2>6
  <2> HIDE DEF Served
  <2>9. QED BY <1>5, <2>3, <2>7, <2>8
<1>8. CASE ServeUnsubscribe(c)
  <2> DEFINE e == entries[i]
             ok == {x \in Channels(c) : e[x] > 0}
             f == Remove(e, Channels(c))
             accepted == {m \in out[c] : m.ch \in ok}
  <2>1. /\ op[c] = "unsubscribe" /\ entries' = [entries EXCEPT ![i] = f]
        /\ response' = [response EXCEPT ![c] = Replies(c, ok)]
    BY <1>8 DEF ServeUnsubscribe, Respond, Holds
  <2>2. f \in [Channel -> Nat] BY <1>4 DEF Remove
  <2>3. /\ EntriesOK'
        /\ Subscribed' = [Subscribed EXCEPT ![i] = {x \in Channel : f[x] > 0}]
    BY <1>2, <2>1, <2>2, SubscribedHolds DEF SInv
  <2>4. {m.ch : m \in accepted} \cap Channel = ok
    BY <1>3, <2>1 DEF Channels
  <2>5. {x \in Channel : f[x] > 0} = before \ ok
    BY <1>3, <1>4, <2>1 DEF Remove
  <2>6. Replies(c, ok) = {Client!Answer(m.op, m \in accepted, NoID, m.ch) : m \in out[c]}
    BY DEF Replies, Client!Answer
  <2>7. before \ ok \in SUBSET Channel BY <1>4
  <2>8. Served(accepted, {}, before \ ok)
    <3> HIDE DEF ok, f, accepted, before
    <3>1. QED BY <2>1, <2>3, <2>4, <2>5, <2>6
  <2> HIDE DEF Served
  <2>9. QED BY <1>5, <2>3, <2>7, <2>8
<1>9. CASE ServeDisconnect(c)
  <2>1. /\ op[c] = "disconnect" /\ entries' = [entries EXCEPT ![i] = NoEntries]
        /\ response' = [response EXCEPT ![c] = Replies(c, {NoChannel})]
    BY <1>9 DEF ServeDisconnect, Respond, Holds
  <2>2. /\ NoEntries \in [Channel -> Nat]
        /\ {x \in Channel : NoEntries[x] > 0} = {}
    BY DEF NoEntries
  <2>3. EntriesOK' /\ Subscribed' = [Subscribed EXCEPT ![i] = {}]
    BY <1>2, <2>1, <2>2, SubscribedHolds DEF SInv
  <2>4. Replies(c, {NoChannel})
          = {Client!Answer(m.op, m \in out[c], NoID, m.ch) : m \in out[c]}
    BY <1>3, <2>1 DEF Replies, Client!Answer
  <2>5. Served(out[c], {}, {}) BY <1>3, <2>1, <2>3, <2>4
  <2> HIDE DEF Served
  <2>6. QED BY <1>5, <2>3, <2>5
<1>10. QED BY <1>6, <1>7, <1>8, <1>9

\* So is the answer to a handshake, with and without the option.
LEMMA ServeHandshakeStep ==
  ASSUME SInv, NEW c \in Caller, ServeHandshake(c)
  PROVE  Client!ServeHandshake(c) /\ EntriesOK'
<1>1. /\ op[c] = "handshake" /\ Client!At(c, "wait") /\ Client!Go(c, "served")
      /\ UNCHANGED <<csm, clientID, exts, op, arg, id, out, result, calls, handshakes,
                     entries>>
  BY DEF ServeHandshake, Respond
<1>2. UNCHANGED Subscribed /\ EntriesOK' BY <1>1 DEF Subscribed, SInv, EntriesOK
<1>3. CASE \E i \in ClientIDs \ granted :
             /\ response' = [response EXCEPT ![c] =
                  {Client!Answer("handshake", TRUE, i, NoChannel)}]
             /\ granted' = granted \cup {i}
  <2>1. PICK i \in ClientIDs \ granted :
             /\ response' = [response EXCEPT ![c] =
                  {Client!Answer("handshake", TRUE, i, NoChannel)}]
             /\ granted' = granted \cup {i}
    BY <1>3
  <2>2. response' = [response EXCEPT ![c] =
          {Client!Answer("handshake", TRUE, i, NoChannel)} \cup {}]
    BY <2>1
  <2>3. {} \in SUBSET {Client!Answer("data", TRUE, NoID, NoChannel)} OBVIOUS
  <2>4. QED BY <1>1, <1>2, <2>1, <2>2, <2>3 DEF Client!ServeHandshake
<1>4. CASE response' = [response EXCEPT ![c] = {}] /\ UNCHANGED granted
  BY <1>1, <1>2, <1>4 DEF Client!ServeHandshake
<1>5. QED BY <1>3, <1>4 DEF ServeHandshake, Respond

\* A step of the server's callers is a step of BayeuxClient, and leaves the
\* entries numbers.
LEMMA NextClient ==
  ASSUME SInv, [Next]_vars
  PROVE  [Client!Next]_(Client!vars) /\ EntriesOK'
<1>1. ASSUME NEW c \in Caller, Working(c)
      PROVE  Client!Step(c) /\ EntriesOK'
  <2>1. CASE RoundTrip(c)
    BY <2>1, ServeRequestStep, ServeHandshakeStep DEF RoundTrip, Client!Step
  <2>2. CASE Ask(c) \/ Fail(c) \/ Receive(c)
    <3>1. Client!Step(c) BY <2>2 DEF Ask, Fail, Receive, Client!Step
    <3>2. UNCHANGED entries BY <2>2 DEF Ask, Fail, Receive, server
    <3>3. QED BY <3>1, <3>2 DEF SInv, EntriesOK
  <2>3. QED BY <1>1, <2>1, <2>2 DEF Working
<1>2. CASE Call
  <2>1. Client!Next BY <1>2 DEF Call, Client!Next
  <2>2. QED BY <1>2, <2>1 DEF Call, server, SInv, EntriesOK
<1>3. CASE StartStop \/ UNCHANGED vars
  <2>1. /\ UNCHANGED <<csm, clientID, exts, pc, op, arg, id, out, response, result,
                       calls, handshakes, granted, entries>>
    BY <1>3 DEF StartStop, vars, server
  <2>2. UNCHANGED Subscribed BY <2>1 DEF Subscribed
  <2>3. QED
    BY <2>1, <2>2 DEF Client!vars, Client!local, Client!server, SInv, EntriesOK
<1>4. QED BY <1>1, <1>2, <1>3 DEF Next, Client!Next

\* A request stays what it was sent as.
LEMMA NextAsking ==
  ASSUME SInv, [Next]_vars
  PROVE  Asking'
<1>1. ASSUME NEW c \in Caller, Client!Step(c) PROVE Asking'
  <2>1. CASE Client!Send(c)
    <3>1. CASE Client!BuildFails(op[c], arg[c])
      BY <2>1, <3>1, Types DEF Client!Send, Client!Return, Client!Go, SInv, Asking
    <3>2. CASE ~ Client!BuildFails(op[c], arg[c])
      <4> DEFINE ms == Client!Build(op[c], id[c], arg[c])
      <4>1. /\ out' = [out EXCEPT ![c] = {Client!Outgoing(m) : m \in ms}]
            /\ op' = op /\ pc' = [pc EXCEPT ![c] = "wait"]
        BY <2>1, <3>2 DEF Client!Send, Client!Go
      <4>2. \A m \in ms : Client!Outgoing(m) = m
        BY DEF Client!Build, Client!Outgoing
      <4>3. {Client!Outgoing(m) : m \in ms} = ms BY <4>2
      <4>4. \A m \in ms :
              /\ m.op = op[c]
              /\ m.ch \in IF op[c] \in {"subscribe", "unsubscribe"}
                          THEN arg[c] ELSE {NoChannel}
        BY DEF Client!Build
      <4>5. ms # {} BY <3>2 DEF Client!Build, Client!BuildFails
      <4>6. arg[c] \subseteq Channel /\ out'[c] = ms
        BY <4>1, <4>3, Types
      <4> HIDE DEF ms
      <4>7. QED BY <4>1, <4>4, <4>5, <4>6, Types DEF SInv, Asking
    <3>3. QED BY <3>1, <3>2
  <2>2. CASE ~ Client!Send(c)
    <3>1. \A d \in Caller :
            pc'[d] = "wait" => pc[d] = "wait" /\ op'[d] = op[d] /\ out'[d] = out[d]
      BY <1>1, <2>2, Types DEF Client!Step, Client!HandshakeEvent, Client!ReadID,
         Client!ReadState, Client!ServeHandshake, Client!ServeRequest, Client!Lost,
         Client!ReceiveHandshake, Client!SetID, Client!Established, Client!Receive,
         Client!Return, Client!Go, Client!At, Client!local
    <3>2. QED BY <3>1 DEF SInv, Asking
  <2>3. QED BY <2>1, <2>2
<1>2. ASSUME NEW c \in Caller, NEW o \in Operations, NEW a \in SUBSET Channel,
             Client!Call(c, o, a)
      PROVE  Asking'
  BY <1>2, Types DEF Client!Call, Client!Go, SInv, Asking
<1>3. ASSUME NEW e \in Extension, Client!UseExtension(e) PROVE Asking'
  BY <1>3 DEF Client!UseExtension, Client!local, SInv, Asking
<1>4. CASE UNCHANGED Client!vars
  BY <1>4 DEF Client!vars, Client!local, SInv, Asking
<1>5. QED BY <1>1, <1>2, <1>3, <1>4, NextClient DEF Client!Next

\* The sets of TestServer are those that BayeuxClient assumes.
LEMMA SetsOK == P!SetAssumption
  BY ServerAssumption DEF Client!SetAssumption, P!SetAssumption, Client!Operation,
     P!Operation

\* The invariant holds at first and every step keeps it.
LEMMA InitSInv == Init => SInv /\ Client!Init
<1> SUFFICES ASSUME Init PROVE SInv /\ Client!Init OBVIOUS
<1>1. EntriesOK BY DEF Init, EntriesOK, NoEntries
<1>2. Client!Init BY DEF Init
<1>3. P!Init
  BY <1>2 DEF Client!Init, P!Init, Client!Unconnected, P!Unconnected
<1>4. P!IInv BY <1>3, P!InitIInv, SetsOK
<1>5. Asking BY <1>2 DEF Client!Init, Asking
<1>6. QED BY <1>1, <1>2, <1>4, <1>5 DEF SInv

\* A step of the server or a caller keeps it and is one of BayeuxClient.
LEMMA NextSInv ==
  ASSUME SInv, [Next]_vars
  PROVE  SInv' /\ [Client!Next]_(Client!vars)
<1>1. [Client!Next]_(Client!vars) /\ EntriesOK' BY NextClient
<1>2. [P!Next]_(P!vars) BY <1>1, SameNext
<1>3. P!IInv' BY <1>2, P!NextIInv, SetsOK DEF SInv
<1>4. QED BY <1>1, <1>3, NextAsking DEF SInv

\* For every number of goroutines, channels and sessions, and a server that is
\* started and stopped at any time: what the server does to a session is what
\* the requests that it accepts ask for.
THEOREM ServerImplementsBayeux == Spec => ImplementsBayeux
<1>1. SInv /\ [Next]_vars => SInv' /\ [Client!Next]_(Client!vars) BY NextSInv
<1>2. QED BY InitSInv, <1>1, PTL DEF Spec, ImplementsBayeux, Client!Spec

\* What is proved of BayeuxClient for any server is true with this one: one
\* handshake request at most, the session known to whoever sees the connected
\* state, and the server holds a subscription for every channel of a subscribe
\* request that it answers with success.
THEOREM ServerKeepsPromises ==
  Spec => []P!OneHandshake /\ []P!ConnectedHasSession /\ P!SubscribeHolds
<1>1. Client!Init => P!Init
  BY DEF Client!Init, P!Init, Client!Unconnected, P!Unconnected
<1>2. [Client!Next]_(Client!vars) => [P!Next]_(P!vars) BY SameNext
<1>3. Spec => P!Spec
  BY ServerImplementsBayeux, <1>1, <1>2, PTL
  DEF ImplementsBayeux, Client!Spec, P!Spec
<1>4. P!Spec => []P!OneHandshake /\ []P!ConnectedHasSession /\ P!SubscribeHolds
  BY SetsOK, P!BayeuxOneHandshake, P!BayeuxConnectedHasSession,
     P!BayeuxSubscribeHolds
<1>5. QED BY <1>3, <1>4
=============================================================================
