-------------------------- MODULE ClientProperties --------------------------
(***************************************************************************)
(* What the high-level client promises, and what its documentation says it *)
(* does although the code does not.                                        *)
(***************************************************************************)
EXTENDS Client

Polling(l)  == pc[l] \in PollingPc
AtSelect(l) == pc[l] = "select"
Got(r)      == {received[r][i].n : i \in DOMAIN received[r]}

\* At most one goroutine is past its handshake, however often Start() is
\* called: the transition table is the only thing that keeps two poll loops
\* off the same queues and two /meta/connect requests off the server
\* (bayeux_client.go:119, client.go:195).
OneLoop == \A k, l \in Loops : Polling(k) /\ Polling(l) => k = l

\* A session is granted once: no second handshake, of another Start() or of
\* the poll loop, replaces the client id under requests that carry the old
\* one (bayeux_client.go:113).
SessionKept == [][clientID' # clientID => clientID = NoID]_vars

\* A receiver gets a message only of a channel the application subscribed it
\* to: batching by lastChannel never mixes the messages of two channels
\* (client.go:310-326).
Routing ==
  \A r \in Receiver : \A i \in DOMAIN received[r] :
    [ch |-> received[r][i].ch, to |-> r] \in asked

\* A receiver gets the messages of a channel in the order of the server and
\* none of them twice, over batches, connect responses and subscriptions
\* (client.go:307-327).
InOrder ==
  \A r \in Receiver : \A i, j \in DOMAIN received[r] :
    i < j => received[r][i].n < received[r][j].n

\* When the loop is back at its select statement, every message the server
\* has sent has reached a receiver; for responses that end with their reply
\* on /meta/connect (client.go:317-325).
NoLoss ==
  \A l \in Loops : AtSelect(l) =>
    \A n \in 1 .. served : \E r \in Receiver : n \in Got(r)

\* Between two rounds of the loop the server's subscriptions are exactly the
\* entries of the application in subscriptionsMap, while there is a session: a
\* failed batch ends the loop and a duplicate in it hides no other request
\* (client.go:249-258, 275-277).
Coherent ==
  \A l \in Loops : AtSelect(l) /\ ~ acked =>
    srvSubs = {c \in Channel : subs[c] \in Receiver}

\* No message arrives for a channel without an entry: such a message ends the
\* loop (client.go:318-321).
NeverOrphaned == \A l \in Loops : err[l] # "orphan"

\* An entry of the application never changes hands: it goes to another
\* receiver only by way of an acknowledged unsubscribe request
\* (subscriptions_map.go:20-24).
SubscriptionStable ==
  [][\A c \in Channel : subs[c] # None /\ subs'[c] # subs[c] =>
       /\ subs'[c] = None
       /\ \E l \in Loops : pc[l] = "unsubWait" /\ c \in gone[l]]_vars

\* Where a loop is stuck by itself, whatever server and application do: sending
\* on handshakeRequestChannel, which only it receives from (client.go:290), or
\* on its own full connectMessageChannel (323), or draining a closed channel
\* (341-349, 367-374).  A cancelled context is not looked at in these places.
WaitsForItself(l) == pc[l] = "sendHs"
WaitsForRoom(l) ==
  /\ pc[l] = "deliver" /\ "message" \notin closed /\ Len(messageQ) = MessageCap
  /\ \E k \in DOMAIN rest[l] :
       BatchEnds(rest[l], k) /\ subs[LastChannel(rest[l], k)] = Inner
DrainsForEver(l) == pc[l] = "spin"
Stuck(l) == WaitsForItself(l) \/ WaitsForRoom(l) \/ DrainsForEver(l)

\* Once its context is cancelled a loop ends, unless it is stuck by itself or a
\* panic ends the process: nothing else keeps it from the select statement for
\* good, and no other case is preferred to the context for ever
\* (client.go:223-226).
CancelStops ==
  \A l \in Loops : l \in cancelled ~> (pc[l] = "stopped" \/ Stuck(l) \/ ~ Running)

\* A request that Subscribe() has queued is taken from the queue, however busy
\* the connection is, unless the loop ends, is stuck by itself or the process
\* panics: the default case and the other cases do not starve it
\* (client.go:230, 343).
Waiting(q) == \E i \in DOMAIN subQ : subQ[i] = q
SubscribeServed ==
  \A q \in Request : \A l \in Loops :
    (Polling(l) /\ Waiting(q)) ~>
      (~ Waiting(q) \/ ~ Polling(l) \/ Stuck(l) \/ ~ Running)

\* From the select statement the loop comes to the next /meta/connect request
\* or ends, unless it is stuck by itself or the process panics: no advice, lost
\* timer or failed batch leaves it without a reason to connect (client.go:260,
\* 284, 296, 330).
KeepsConnecting ==
  \A l \in Loops : AtSelect(l) ~>
    (pc[l] \in {"connWait", "fail", "stopped"} \/ Stuck(l) \/ ~ Running)

\* What it takes to end the process or to get a loop stuck by itself, whatever
\* the loops, timers and calls do at the same time.  The process panics only
\* after Disconnect() or at a reply without advice, and two close() of one
\* channel take two calls of Disconnect() (client.go:164-168, 288, 356).  A loop
\* drains for ever only after Disconnect(), waits for itself only if the server
\* advises a handshake, and waits for room in its own queue only if the server
\* puts its reply before the data and has sent more data than that queue has
\* places (client.go:290, 323, 341).
PanicsExplained ==
  crash # "no" =>
    IF crash = "advice" THEN "absent" \in Advices
    ELSE disconnects > (IF crash = "close" THEN 1 ELSE 0)
LoopsExplained ==
  \A l \in Loops :
    /\ DrainsForEver(l)  => disconnects > 0
    /\ WaitsForItself(l) => "handshake" \in Advices
RoomExplained ==
  \A l \in Loops :
    WaitsForRoom(l) => "first" \in ReplyAt /\ served > MessageCap
TroubleExplained == PanicsExplained /\ LoopsExplained /\ RoomExplained

\* A client whose handshake has failed is stranded: neither the goroutine that
\* failed nor a later Start() ever handshakes again (bayeux_client.go:71, 86).
Stranded == csm = Connecting /\ \A l \in Loops : pc[l] # "hsWait"
StrandedForGood == [][Stranded => Stranded']_vars

\* The goroutines, queues and timers together implement Session: the only
\* loop that may poll owns the request and what remains of its response.
OutstandingConnect == \E l \in Loops : pc[l] = "connWait"
Remaining(r) ==
  IF \E l \in Loops : r[l] # <<>>
  THEN r[CHOOSE l \in Loops : r[l] # <<>>]
  ELSE <<>>
Abstract == INSTANCE Session WITH
  phase <- csm, sid <- clientID, outstanding <- OutstandingConnect,
  pending <- Remaining(rest)
ImplementsSession == Abstract!Spec

-----------------------------------------------------------------------------
\* The inductive invariant behind OneLoop and SessionKept.  The state machine
\* never returns to Unconnected, so that one handshake is accepted in all and
\* the re-handshake of the poll loop never is.
Draining == \A l \in Loops : pc[l] = "drainSub" => todo[l] # <<>>
ClosingInRange == dpc \in {"wait", "closing"} => closing \in DOMAIN CloseOrder
PollingIsConnecting == \A l \in Loops : Polling(l) => csm # Unconnected
HandshakePending ==
  \A l \in Loops : (pc[l] = "hsWait" => csm = Connecting) /\ pc[l] # "rehsWait"
SessionIsConnected == clientID # NoID => csm = Connected

IInv ==
  /\ TypeOK /\ Draining /\ ClosingInRange
  /\ OneLoop /\ PollingIsConnecting /\ HandshakePending /\ SessionIsConnected

\* What the refinement needs besides: only a delivering loop has messages left,
\* and the entry of /meta/connect is the client's own and nobody else's.
RestOwner == \A l \in Loops : rest[l] # <<>> => pc[l] = "deliver"
MetaEntry ==
  subs[MetaConnect] \in {None, Inner} /\ \A c \in Channel : subs[c] # Inner
RInv == IInv /\ RestOwner /\ MetaEntry

\* Behind Routing: requests are asked for wherever they wait, and entries are
\* made of requests.
AskedFor ==
  /\ subQ \in Seq(asked) /\ \A l \in Loops : todo[l] \in Seq(asked)
  /\ \A c \in Channel : subs[c] \in Receiver =>
       [ch |-> c, to |-> subs[c]] \in asked

\* Behind InOrder: the data that remains of a response is in order and newer
\* than what anybody has got.
Remains(l) == {i \in DOMAIN rest[l] : rest[l][i].ch \in Channel}
Ahead ==
  /\ \A r \in Receiver : \A j \in DOMAIN received[r] : received[r][j].n <= served
  /\ \A l \in Loops : \A i \in Remains(l) :
       /\ rest[l][i].n <= served
       /\ \A j \in Remains(l) : i < j => rest[l][i].n < rest[l][j].n
       /\ \A r \in Receiver : \A j \in DOMAIN received[r] :
            received[r][j].n < rest[l][i].n

DeliveryInv == RInv /\ AskedFor /\ Ahead /\ Routing /\ InOrder

\* Behind NoLoss: while a loop polls, each message has reached a receiver or
\* remains to be delivered, in front of the reply that ends its response.
RepliesLast   == "first" \notin ReplyAt
Unserved      == csm = Unconnected => served = 0
Accounted ==
  \A l \in Loops : Polling(l) => \A n \in 1 .. served :
    \/ \E r \in Receiver : n \in Got(r)
    \/ \E i \in Remains(l) : rest[l][i].n = n
EndsWithReply ==
  \A l \in Loops : rest[l] # <<>> => rest[l][Len(rest[l])].ch = MetaConnect

LossInv == RInv /\ Unserved /\ Accounted /\ EndsWithReply

\* Behind Coherent and NeverOrphaned, when the IgnoreErrorFunc accepts no failed
\* request: a loop that goes on agrees with the server but for what it has to
\* add, and every message that waits has an entry.
FailuresEnd == Ignored \cap {"subscribe", "unsubscribe"} = {}
Entries     == {c \in Channel : subs[c] \in Receiver}
Adding(l)   == IF pc[l] \in {"adding", "reportDup"} THEN Names(todo[l]) ELSE {}
Agreed ==
  \A l \in Loops : Polling(l) /\ ~ acked => srvSubs = Entries \cup Adding(l)
Fresh       == csm = Unconnected => srvSubs = {} /\ Entries = {}
Ended       == acked => srvSubs = {}
NoFailures  == \A l \in Loops : pc[l] # "reportFail"
MetaKnown ==
  \A l \in Loops : Polling(l) /\ pc[l] # "hsWait" => subs[MetaConnect] # None
Deliverable == \A l \in Loops : \A i \in DOMAIN rest[l] : subs[rest[l][i].ch] # None

CoherenceInv ==
  /\ RInv /\ Agreed /\ Fresh /\ Ended /\ NoFailures /\ MetaKnown /\ Deliverable
  /\ NeverOrphaned

\* Behind TroubleExplained: a first Disconnect() has closed what precedes its
\* place in CloseOrder, and every reply carries an advice the server may give.
Closed(n) == {CloseOrder[i] : i \in 1 .. n - 1}
FirstCloses ==
  CASE disconnects = 0 -> closed = {} /\ dpc = "idle"
    [] disconnects = 1 -> closed = Closed(closing) /\ dpc # "idle"
    [] OTHER           -> dpc # "idle"
Advised ==
  /\ \A i \in DOMAIN messageQ : messageQ[i] \in Advices
  /\ \A l \in Loops : \A i \in DOMAIN rest[l] :
       rest[l][i].ch = MetaConnect => rest[l][i].advice \in Advices

TroubleInv ==
  RInv /\ FirstCloses /\ Advised /\ PanicsExplained /\ LoopsExplained

\* Behind RoomExplained: of the replies that wait in the queue or are about to
\* get there, each was the first message of a response with data after it.
ReplyAhead(ms) == \E i \in DOMAIN ms : ms[i].ch = MetaConnect /\ i < Len(ms)
OneReply(ms) ==
  \A i, j \in DOMAIN ms : ms[i].ch = MetaConnect /\ ms[j].ch = MetaConnect => i = j
RepliesCounted ==
  /\ Len(messageQ) <= served
  /\ messageQ # <<>> => "first" \in ReplyAt
  /\ \A l \in Loops :
       /\ OneReply(rest[l])
       /\ ReplyAhead(rest[l]) => "first" \in ReplyAt /\ Len(messageQ) < served

RoomInv == RInv /\ RepliesCounted

-----------------------------------------------------------------------------
\* client.go:220 "When the user calls the Disconnect() method": Disconnect()
\* makes the poll loop end.  Nothing is ever sent on shutdown.
DisconnectStopsLoop ==
  dpc = "done" ~> (~ Running \/ \A l \in Loops : ~ Polling(l))

\* doc.go:21 "You can subscribe to a Bayeux Channel with a chan to receive
\* messages on": what the server sends for a subscription is received.
AllReceived == NoLoss
=============================================================================
