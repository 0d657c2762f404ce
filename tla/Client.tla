------------------------------- MODULE Client -------------------------------
(***************************************************************************)
(* The high-level client (v2/client.go) on top of the low-level one        *)
(* (v2/bayeux_client.go): the background goroutines that Start() spawns,   *)
(* the Go channels between them and the application, the timer goroutines  *)
(* of the connect advice, Disconnect(), and a server that answers the      *)
(* requests.  Each goroutine l of Loops has a program counter pc[l]; one   *)
(* action is the code between two points where another goroutine can run   *)
(* and be noticed: a channel operation, an HTTP request, an HTTP response. *)
(***************************************************************************)
EXTENDS StateTable, Integers, Sequences, FiniteSets, SequencesExt

CONSTANTS
  Loops,         \* the calls of Start(), one goroutine each
  Channel,       \* the Bayeux channels the application uses
  Invalid,       \* those that Channel.IsValid refuses
  Receiver,      \* the Go channels the application receives messages on
  MetaConnect,   \* the Bayeux channel /meta/connect
  None,          \* the absence of an entry in subscriptionsMap
  Inner,         \* connectMessageChannel, as an entry of subscriptionsMap
  ClientIDs,     \* the session ids the server may grant
  NoID,          \* the empty clientID
  QueueCap,      \* capacity of subscribe- and unsubscribeRequestChannel (10)
  MessageCap,    \* capacity of connectMessageChannel (5)
  Ignored,       \* the kinds of error the IgnoreErrorFunc accepts
  Advices,       \* the advice the server may put in a /meta/connect reply
  ReplyAt,       \* where a response may hold that reply: "first", "last"
  Faults,        \* the requests that may fail
  MaxCalls,      \* bound: calls of Subscribe and Unsubscribe
  MaxBatch,      \* bound: data messages in one connect response
  MaxServed,     \* bound: data messages in all connect responses
  MaxDisconnects \* bound: calls of Disconnect, one after the other

AdviceKind == {"retry", "handshake", "none", "absent"}
Request    == [ch : Channel, to : Receiver]
Message    == [ch : Channel \cup {MetaConnect}, n : Nat, advice : AdviceKind]
GoChannel  == {"sub", "unsub", "conn", "message", "handshake"}
\* Faulty variant: one of the five channels closed in place of another.
CloseOrderSubTwice == <<"sub", "unsub", "conn", "message", "sub">>

CloseOrder == <<"sub", "unsub", "conn", "message", "handshake">>
ErrorKind  == {"no", "handshake", "cancelled", "subscribe", "duplicate",
               "unsubscribe", "connect", "orphan"}
Operation  == {"handshake", "subscribe", "unsubscribe", "connect", "disconnect"}

ASSUME SetAssumption ==
  /\ MetaConnect \notin Channel
  /\ None # Inner /\ None \notin Receiver /\ Inner \notin Receiver
  /\ NoID \notin ClientIDs
  /\ Invalid \subseteq Channel
  /\ Advices \subseteq AdviceKind
  /\ ReplyAt \subseteq {"first", "last"}
  /\ Ignored \subseteq {"subscribe", "duplicate", "unsubscribe"}
  /\ Faults \subseteq Operation

ASSUME BoundAssumption ==
  /\ QueueCap \in Nat \ {0} /\ MessageCap \in Nat \ {0}
  /\ MaxCalls \in Nat /\ MaxBatch \in Nat /\ MaxServed \in Nat
  /\ MaxDisconnects \in Nat

VARIABLES
  csm,        \* ConnectionStateMachine.currentState
  clientID,   \* clientState.clientID
  subs,       \* subscriptionsMap.subs, total, None where there is no entry
  subQ,       \* subscribeRequestChannel
  unsubQ,     \* unsubscribeRequestChannel
  connReq,    \* whether connectRequestChannel (capacity 1) is full
  messageQ,   \* connectMessageChannel: the advice of each waiting reply
  closed,     \* the Go channels that Disconnect() has closed
  pc,         \* where each goroutine of Start() is
  err,        \* the error each of these goroutines has returned with
  todo,       \* poll's subReqs still to be added
  gone,       \* poll's channels to be removed
  rest,       \* poll's ms: what remains of the connect response
  timers,     \* goroutines waiting for an advised interval to pass
  crash,      \* the panic that ended the process, or "no"
  dpc,        \* where Disconnect() is: "idle", "wait", "closing", "done"
  closing,    \* the place in CloseOrder Disconnect() has come to
  acked,      \* whether the server has ended the session at our request
  disconnects, calls, cancelled, \* calls made; contexts cancelled
  asked,      \* history: the requests handed to Subscribe()
  received,   \* history: the messages each receiver has got
  srvSubs,    \* the channels the server has subscribed this session to
  served      \* the number of data messages the server has put in responses

session == <<csm, clientID>>
queues  == <<subQ, unsubQ, connReq, messageQ>>
work    == <<todo, gone, rest>>
ending  == <<closed, dpc, closing, acked, disconnects>>
app     == <<calls, cancelled, asked, received>>
server  == <<srvSubs, served>>
vars    == <<session, subs, queues, pc, err, work, timers, crash, ending, app, server>>

-----------------------------------------------------------------------------
\* A goroutine of Start() that has won the handshake and has not returned.
PollingPc == {"hsWait", "select", "restart", "rehsWait", "drainSub", "subWait",
              "adding", "drainUnsub", "unsubWait", "connWait", "deliver",
              "sendHs", "reportFail", "reportDup", "spin"}
Pc == PollingPc \cup {"new", "start", "fail", "stopped"}

SessionType == csm \in ConnState /\ clientID \in ClientIDs \cup {NoID}
SubsType    == subs \in [Channel \cup {MetaConnect} -> Receiver \cup {None, Inner}]
QueuesType  ==
  /\ subQ \in Seq(Request) /\ unsubQ \in Seq(Channel)
  /\ connReq \in BOOLEAN /\ messageQ \in Seq(AdviceKind)
LoopsType ==
  /\ pc \in [Loops -> Pc] /\ err \in [Loops -> ErrorKind]
  /\ todo \in [Loops -> Seq(Request)]
  /\ gone \in [Loops -> SUBSET Channel]
  /\ rest \in [Loops -> Seq(Message)]
EndingType ==
  /\ timers \in Nat
  /\ crash \in {"no", "enqueue", "queue", "send", "close", "advice"}
  /\ closed \subseteq GoChannel
  /\ dpc \in {"idle", "wait", "closing", "done"} /\ closing \in 1 .. 6
  /\ acked \in BOOLEAN /\ disconnects \in Nat
AppType ==
  /\ calls \in Nat /\ cancelled \subseteq Loops /\ asked \subseteq Request
  /\ received \in [Receiver -> Seq(Message)]
ServerType == srvSubs \subseteq Channel /\ served \in Nat

TypeOK ==
  /\ SessionType /\ SubsType /\ QueuesType /\ LoopsType /\ EndingType
  /\ AppType /\ ServerType

\* NewClient, before any call of Start().
Init ==
  /\ csm = Unconnected /\ clientID = NoID
  /\ subs = [c \in Channel \cup {MetaConnect} |-> None]
  /\ subQ = <<>> /\ unsubQ = <<>> /\ connReq = FALSE /\ messageQ = <<>>
  /\ closed = {}
  /\ pc = [l \in Loops |-> "new"] /\ err = [l \in Loops |-> "no"]
  /\ todo = [l \in Loops |-> <<>>]
  /\ gone = [l \in Loops |-> {}]
  /\ rest = [l \in Loops |-> <<>>]
  /\ timers = 0 /\ crash = "no"
  /\ dpc = "idle" /\ closing = 1 /\ acked = FALSE /\ disconnects = 0
  /\ calls = 0 /\ cancelled = {} /\ asked = {}
  /\ received = [r \in Receiver |-> <<>>]
  /\ srvSubs = {} /\ served = 0

-----------------------------------------------------------------------------
\* A panic that nothing recovers ends the process.
Running == crash = "no"

\* Goroutine l runs and is at one of these places.
At(l, places) == Running /\ pc[l] \in places

Go(l, p) == pc' = [pc EXCEPT ![l] = p] /\ UNCHANGED err

\* return err: start() goes on to offer it on its errors channel.
Fail(l, e) == pc' = [pc EXCEPT ![l] = "fail"] /\ err' = [err EXCEPT ![l] = e]

\* The IgnoreErrorFunc: report the error and stay in the loop, or return it.
ReportOrFail(l, e, p) == IF e \in Ignored THEN Go(l, p) ELSE Fail(l, e)

\* A request fails when server or network fail, when its context is cancelled,
\* and when the session it names has ended.
MayFail(l, op) == op \in Faults \/ l \in cancelled \/ (acked /\ op # "handshake")

\* The server's subscriptions for this session, none once it has ended.
Grant(s) == srvSubs' = IF acked THEN {} ELSE s

\* The check at the head of every BayeuxClient request but Handshake.
CanSend == csm = Connected /\ clientID # NoID

\* Faulty variant: connectRequestChannel without a buffer, so that the poll
\* loop's own send never succeeds.
EnqueueUnbuffered ==
  IF "conn" \in closed THEN crash' = "enqueue" /\ UNCHANGED connReq
                       ELSE UNCHANGED <<connReq, crash>>

\* enqueueConnectRequest: a full channel is left alone, a closed one panics.
Enqueue ==
  IF "conn" \in closed THEN crash' = "enqueue" /\ UNCHANGED connReq
                       ELSE connReq' = TRUE /\ UNCHANGED crash

-----------------------------------------------------------------------------
\* Start and BayeuxClient.Handshake, from start() and from the poll loop.

Start(l) ==
  /\ At(l, {"new"})
  /\ Go(l, "start")
  /\ UNCHANGED <<session, subs, queues, work, timers, crash, ending, app, server>>

Handshake(l) ==
  /\ At(l, {"start", "restart"})
  /\ csm' = After("handshakeSent", csm)
  /\ IF Accepts("handshakeSent", csm)
     THEN Go(l, IF pc[l] = "start" THEN "hsWait" ELSE "rehsWait")
     ELSE Fail(l, "handshake")
  /\ UNCHANGED <<clientID, subs, queues, work, timers, crash, ending, app, server>>

HandshakeOk(l) ==
  /\ At(l, {"hsWait", "rehsWait"})
  /\ clientID' \in ClientIDs
  /\ csm' = After("successfullyConnected", csm)
  /\ IF At(l, {"hsWait"})
     THEN /\ subs' = [subs EXCEPT ![MetaConnect] = IF @ = None THEN Inner ELSE @]
          /\ UNCHANGED <<connReq, crash>>
     ELSE Enqueue /\ UNCHANGED subs
  /\ Go(l, "select")
  /\ UNCHANGED <<subQ, unsubQ, messageQ, work, timers, ending, app, server>>

HandshakeError(l) ==
  /\ At(l, {"hsWait", "rehsWait"})
  /\ MayFail(l, "handshake")
  /\ Fail(l, "handshake")
  /\ UNCHANGED <<session, subs, queues, work, timers, crash, ending, app, server>>

-----------------------------------------------------------------------------
\* poll: the cases that wait for nothing but the select statement.

\* Faulty variant: break without its label leaves the select, not the loop.
PollCancelledBreak(l) ==
  /\ At(l, {"select"}) /\ l \in cancelled
  /\ Go(l, "select")
  /\ UNCHANGED <<session, subs, queues, work, timers, crash, ending, app, server>>

PollCancelled(l) ==
  /\ At(l, {"select"}) /\ l \in cancelled
  /\ Fail(l, "cancelled")
  /\ UNCHANGED <<session, subs, queues, work, timers, crash, ending, app, server>>

\* A receive from the closed handshakeRequestChannel.  Nobody else can make
\* it ready: its only sender is the poll loop itself, which is blocked in
\* SendHandshake until Disconnect() closes the channel.
PollHandshake(l) ==
  /\ At(l, {"select"}) /\ "handshake" \in closed
  /\ Go(l, "restart")
  /\ UNCHANGED <<session, subs, queues, work, timers, crash, ending, app, server>>

\* A reply that reached connectMessageChannel.  A nil Advice is dereferenced;
\* a receive from the closed, empty channel yields no message: no change.
PollMessage(l) ==
  /\ At(l, {"select"}) /\ messageQ # <<>>
  /\ messageQ' = Tail(messageQ)
  /\ \/ /\ Head(messageQ) = "absent"
        /\ crash' = "advice"
        /\ UNCHANGED <<pc, err, timers>>
     \/ /\ Head(messageQ) = "handshake"
        /\ Go(l, "sendHs")
        /\ UNCHANGED <<crash, timers>>
     \/ /\ Head(messageQ) \in {"retry", "none"}
        /\ timers' = timers + 1
        /\ UNCHANGED <<pc, err, crash>>
  /\ UNCHANGED <<session, subs, subQ, unsubQ, connReq, work, ending, app, server>>

\* handshakeRequestChannel <- struct{}{}, blocked until the channel is closed.
SendHandshake(l) ==
  /\ At(l, {"sendHs"}) /\ "handshake" \in closed
  /\ crash' = "send"
  /\ UNCHANGED <<session, subs, queues, pc, err, work, timers, ending, app, server>>

\* The default case, when no other case of the select is ready.
NothingReady(l) ==
  /\ subQ = <<>> /\ unsubQ = <<>> /\ messageQ = <<>> /\ ~ connReq
  /\ closed = {} /\ l \notin cancelled

PollDefault(l) ==
  /\ At(l, {"select"}) /\ NothingReady(l)
  /\ Enqueue
  /\ UNCHANGED <<session, subs, subQ, unsubQ, messageQ, pc, err, work, timers,
                 ending, app, server>>

-----------------------------------------------------------------------------
\* poll: subscribing.  The request received first ends up last in subReqs.

BeforeLast(s, q) == SubSeq(s, 1, Len(s) - 1) \o <<q, s[Len(s)]>>
Names(s) == {s[i].ch : i \in DOMAIN s}

PollSubscribe(l) ==
  /\ At(l, {"select"}) /\ subQ # <<>>
  /\ todo' = [todo EXCEPT ![l] = <<Head(subQ)>>]
  /\ subQ' = Tail(subQ)
  /\ Go(l, "drainSub")
  /\ UNCHANGED <<session, subs, unsubQ, connReq, messageQ, gone, rest, timers,
                 crash, ending, app, server>>

DrainSubscribe(l) ==
  /\ At(l, {"drainSub"}) /\ subQ # <<>>
  /\ todo' = [todo EXCEPT ![l] = BeforeLast(@, Head(subQ))]
  /\ subQ' = Tail(subQ)
  /\ UNCHANGED <<session, subs, unsubQ, connReq, messageQ, pc, err, gone, rest,
                 timers, crash, ending, app, server>>

\* A closed channel never runs empty: getSubscriptionRequests and
\* getUnsubscriptionRequests append zero values to their slices for ever.
DrainClosed(l) ==
  /\ \/ At(l, {"select", "drainSub"}) /\ subQ = <<>> /\ "sub" \in closed
     \/ At(l, {"select", "drainUnsub"}) /\ unsubQ = <<>> /\ "unsub" \in closed
  /\ Go(l, "spin")
  /\ UNCHANGED <<session, subs, queues, work, timers, crash, ending, app, server>>

\* The batch as a whole is dropped when the request for it fails.
DropSubscribe(l) ==
  /\ todo' = [todo EXCEPT ![l] = <<>>]
  /\ ReportOrFail(l, "subscribe", "reportFail")

SubscribeSend(l) ==
  /\ At(l, {"drainSub"}) /\ subQ = <<>> /\ "sub" \notin closed
  /\ IF CanSend /\ Names(todo[l]) \cap Invalid = {}
     THEN Go(l, "subWait") /\ UNCHANGED todo
     ELSE DropSubscribe(l)
  /\ UNCHANGED <<session, subs, queues, gone, rest, timers, crash, ending, app,
                 server>>

SubscribeOk(l) ==
  /\ At(l, {"subWait"})
  /\ Grant(srvSubs \cup Names(todo[l]))
  /\ Go(l, "adding")
  /\ UNCHANGED <<session, subs, queues, work, timers, crash, ending, app, served>>

\* One refused channel fails the batch; the server keeps those it accepted.
SubscribeError(l) ==
  /\ At(l, {"subWait"})
  /\ MayFail(l, "subscribe")
  /\ \E accepted \in SUBSET Names(todo[l]) : Grant(srvSubs \cup accepted)
  /\ DropSubscribe(l)
  /\ UNCHANGED <<session, subs, queues, gone, rest, timers, crash, ending, app,
                 served>>

\* Faulty variant: Add replaces an entry.
FreeAlways(q) == subs[q.ch] # q.to

\* subscriptionsMap.Add, for the next of subReqs.
Free(q) == subs[q.ch] = None

\* Faulty variant: the first duplicate ends the loop over subReqs.
AddSubscriptionBreak(l) ==
  /\ At(l, {"adding"}) /\ todo[l] # <<>>
  /\ LET q == Head(todo[l]) IN
       IF Free(q)
       THEN /\ subs' = [subs EXCEPT ![q.ch] = q.to]
            /\ todo' = [todo EXCEPT ![l] = Tail(@)]
            /\ UNCHANGED <<pc, err>>
       ELSE /\ ReportOrFail(l, "duplicate", "reportDup")
            /\ todo' = [todo EXCEPT ![l] = <<>>]
            /\ UNCHANGED subs
  /\ UNCHANGED <<session, queues, gone, rest, timers, crash, ending, app, server>>

AddSubscription(l) ==
  /\ At(l, {"adding"}) /\ todo[l] # <<>>
  /\ LET q == Head(todo[l]) IN
       IF Free(q)
       THEN subs' = [subs EXCEPT ![q.ch] = q.to] /\ UNCHANGED <<pc, err>>
       ELSE ReportOrFail(l, "duplicate", "reportDup") /\ UNCHANGED subs
  /\ todo' = [todo EXCEPT ![l] = Tail(@)]
  /\ UNCHANGED <<session, queues, gone, rest, timers, crash, ending, app, server>>

\* Faulty variant: back to the select before every entry is added.
AddDoneEarly(l) ==
  /\ At(l, {"adding"})
  /\ Enqueue
  /\ Go(l, "select")
  /\ UNCHANGED <<session, subs, subQ, unsubQ, messageQ, work, timers, ending, app,
                 server>>

AddDone(l) ==
  /\ At(l, {"adding"}) /\ todo[l] = <<>>
  /\ Enqueue
  /\ Go(l, "select")
  /\ UNCHANGED <<session, subs, subQ, unsubQ, messageQ, work, timers, ending, app,
                 server>>

-----------------------------------------------------------------------------
\* poll: unsubscribing.

PollUnsubscribe(l) ==
  /\ At(l, {"select"}) /\ unsubQ # <<>>
  /\ gone' = [gone EXCEPT ![l] = {Head(unsubQ)}]
  /\ unsubQ' = Tail(unsubQ)
  /\ Go(l, "drainUnsub")
  /\ UNCHANGED <<session, subs, subQ, connReq, messageQ, todo, rest, timers,
                 crash, ending, app, server>>

DrainUnsubscribe(l) ==
  /\ At(l, {"drainUnsub"}) /\ unsubQ # <<>>
  /\ gone' = [gone EXCEPT ![l] = @ \cup {Head(unsubQ)}]
  /\ unsubQ' = Tail(unsubQ)
  /\ UNCHANGED <<session, subs, subQ, connReq, messageQ, pc, err, todo, rest,
                 timers, crash, ending, app, server>>

UnsubscribeSend(l) ==
  /\ At(l, {"drainUnsub"}) /\ unsubQ = <<>> /\ "unsub" \notin closed
  /\ IF CanSend /\ gone[l] \cap Invalid = {}
     THEN Go(l, "unsubWait")
     ELSE ReportOrFail(l, "unsubscribe", "reportFail")
  /\ UNCHANGED <<session, subs, queues, work, timers, crash, ending, app, server>>

UnsubscribeOk(l) ==
  /\ At(l, {"unsubWait"})
  /\ Grant(srvSubs \ gone[l])
  /\ subs' = [c \in DOMAIN subs |-> IF c \in gone[l] THEN None ELSE subs[c]]
  /\ Go(l, "select")
  /\ UNCHANGED <<session, queues, work, timers, crash, ending, app, served>>

UnsubscribeError(l) ==
  /\ At(l, {"unsubWait"})
  /\ MayFail(l, "unsubscribe")
  /\ \E removed \in SUBSET gone[l] : Grant(srvSubs \ removed)
  /\ ReportOrFail(l, "unsubscribe", "reportFail")
  /\ UNCHANGED <<session, subs, queues, work, timers, crash, ending, app, served>>

-----------------------------------------------------------------------------
\* poll: connecting and delivering.

ConnectSend(l) ==
  /\ At(l, {"select"}) /\ (connReq \/ "conn" \in closed)
  /\ connReq' = FALSE
  /\ IF CanSend THEN Go(l, "connWait") ELSE Fail(l, "connect")
  /\ UNCHANGED <<session, subs, subQ, unsubQ, messageQ, work, timers, crash,
                 ending, app, server>>

\* A response: new messages of the server's subscriptions, numbered in the
\* order the server sends them, and one reply on /meta/connect.
Data(s) ==
  [i \in DOMAIN s |-> [ch |-> s[i], n |-> served + i, advice |-> "absent"]]
Reply(a) == <<[ch |-> MetaConnect, n |-> 0, advice |-> a]>>
Responses(s) ==
  {Data(s) \o Reply(a) : a \in IF "last" \in ReplyAt THEN Advices ELSE {}}
  \cup {Reply(a) \o Data(s) : a \in IF "first" \in ReplyAt THEN Advices ELSE {}}

ConnectOk(l) ==
  /\ At(l, {"connWait"})
  /\ \E s \in BoundedSeq(srvSubs, MaxBatch) :
       /\ served' = served + Len(s) /\ served' <= MaxServed
       /\ \E ms \in Responses(s) : rest' = [rest EXCEPT ![l] = ms]
  /\ Go(l, "deliver")
  /\ UNCHANGED <<session, subs, queues, todo, gone, timers, crash, ending, app,
                 srvSubs>>

\* No response, a bad one, or a /meta/connect reply that is not successful.
ConnectError(l) ==
  /\ At(l, {"connWait"})
  /\ MayFail(l, "connect")
  /\ Fail(l, "connect")
  /\ UNCHANGED <<session, subs, queues, work, timers, crash, ending, app, server>>

\* The first k of ms form a batch when the channel changes after them: only
\* then does the loop look up lastChannel and send the batch.
BatchEnds(ms, k) ==
  /\ k < Len(ms)
  /\ \A i \in 1 .. k : ms[i].ch = ms[1].ch
  /\ ms[k + 1].ch # ms[1].ch

\* Faulty variants: every message starts a new batch; the message that ends
\* a batch is taken for its last; the lookup uses the channel of the next.
BatchOfOne(ms, k)    == <<ms[k]>>
OthersAndLast(ms, k) == SubSeq(ms, k, Len(ms))
NextChannel(ms, k)   == ms[k + 1].ch

Batch(ms, k)  == SubSeq(ms, 1, k)
Others(ms, k) == SubSeq(ms, k + 1, Len(ms))
LastChannel(ms, k) == ms[k].ch

\* msgChan <- batch for a channel the application subscribed to: the send
\* and the application's receive are one step.
DeliverToApp(l) ==
  /\ At(l, {"deliver"})
  /\ \E k \in DOMAIN rest[l] :
       /\ BatchEnds(rest[l], k)
       /\ LET r == subs[LastChannel(rest[l], k)] IN
            /\ r \in Receiver
            /\ received' = [received EXCEPT ![r] = @ \o Batch(rest[l], k)]
       /\ rest' = [rest EXCEPT ![l] = Others(@, k)]
  /\ UNCHANGED <<session, subs, queues, pc, err, todo, gone, timers, crash,
                 ending, calls, cancelled, asked, server>>

\* msgChan <- batch for /meta/connect: blocked while the channel is full.
DeliverToSelf(l) ==
  /\ At(l, {"deliver"})
  /\ \E k \in DOMAIN rest[l] :
       /\ BatchEnds(rest[l], k)
       /\ subs[LastChannel(rest[l], k)] = Inner
       /\ IF "message" \in closed
          THEN crash' = "send" /\ UNCHANGED <<messageQ, rest>>
          ELSE /\ Len(messageQ) < MessageCap
               /\ messageQ' = Append(messageQ, rest[l][1].advice)
               /\ rest' = [rest EXCEPT ![l] = Others(@, k)]
               /\ UNCHANGED crash
  /\ UNCHANGED <<session, subs, subQ, unsubQ, connReq, pc, err, todo, gone,
                 timers, ending, app, server>>

\* subscriptionsMap.Get finds no entry.
DeliverOrphan(l) ==
  /\ At(l, {"deliver"})
  /\ \E k \in DOMAIN rest[l] :
       BatchEnds(rest[l], k) /\ subs[LastChannel(rest[l], k)] = None
  /\ rest' = [rest EXCEPT ![l] = <<>>]
  /\ Fail(l, "orphan")
  /\ UNCHANGED <<session, subs, queues, todo, gone, timers, crash, ending, app,
                 server>>

\* Faulty variant: the loop goes on only when every batch has been sent.
DeliverAll(l) ==
  /\ At(l, {"deliver"}) /\ rest[l] = <<>>
  /\ Go(l, "select")
  /\ UNCHANGED <<session, subs, queues, work, timers, crash, ending, app, server>>

\* The messages are used up; the batch collected last is never sent.
DeliverDone(l) ==
  /\ At(l, {"deliver"})
  /\ \A k \in DOMAIN rest[l] : ~ BatchEnds(rest[l], k)
  /\ rest' = [rest EXCEPT ![l] = <<>>]
  /\ Go(l, "select")
  /\ UNCHANGED <<session, subs, queues, todo, gone, timers, crash, ending, app,
                 server>>

\* The application receives from the errors channel of Start().
ReadError(l) ==
  /\ \/ At(l, {"reportFail"}) /\ Go(l, "select")
     \/ At(l, {"reportDup"})  /\ Go(l, "adding")
     \/ At(l, {"fail"})       /\ Go(l, "stopped")
  /\ UNCHANGED <<session, subs, queues, work, timers, crash, ending, app, server>>

\* Faulty variant: a timer that was never started.
TimerFiresUnstarted ==
  /\ Running
  /\ timers' = timers - 1
  /\ Enqueue
  /\ UNCHANGED <<session, subs, subQ, unsubQ, messageQ, pc, err, work, ending, app,
                 server>>

\* A goroutine spawned for an advice wakes up.
TimerFires ==
  /\ Running /\ timers > 0
  /\ timers' = timers - 1
  /\ Enqueue
  /\ UNCHANGED <<session, subs, subQ, unsubQ, messageQ, pc, err, work, ending, app,
                 server>>

-----------------------------------------------------------------------------
\* The application: calls from any goroutine, at any time.

\* Subscribe and SubscribeWithContext: the caller is blocked while the queue
\* is full; the context variant can give up, which changes nothing.
UserSubscribe(q) ==
  /\ Running /\ calls < MaxCalls
  /\ IF "sub" \in closed
     THEN crash' = "queue" /\ UNCHANGED <<subQ, asked, calls>>
     ELSE /\ Len(subQ) < QueueCap
          /\ subQ' = Append(subQ, q)
          /\ asked' = asked \cup {q}
          /\ calls' = calls + 1
          /\ UNCHANGED crash
  /\ UNCHANGED <<session, subs, unsubQ, connReq, messageQ, pc, err, work, timers,
                 ending, cancelled, received, server>>

UserUnsubscribe(c) ==
  /\ Running /\ calls < MaxCalls
  /\ IF "unsub" \in closed
     THEN crash' = "queue" /\ UNCHANGED <<unsubQ, calls>>
     ELSE /\ Len(unsubQ) < QueueCap
          /\ unsubQ' = Append(unsubQ, c)
          /\ calls' = calls + 1
          /\ UNCHANGED crash
  /\ UNCHANGED <<session, subs, subQ, connReq, messageQ, pc, err, work, timers,
                 ending, cancelled, asked, received, server>>

\* The context given to Start() is cancelled.
Cancel(l) ==
  /\ Running /\ pc[l] # "new"
  /\ cancelled' = cancelled \cup {l}
  /\ UNCHANGED <<session, subs, queues, pc, err, work, timers, crash, ending,
                 calls, asked, received, server>>

DisconnectCall ==
  /\ Running /\ dpc \in {"idle", "done"} /\ disconnects < MaxDisconnects
  /\ disconnects' = disconnects + 1
  /\ dpc' = IF CanSend THEN "wait" ELSE "closing"
  /\ closing' = 1
  /\ UNCHANGED <<session, subs, queues, pc, err, work, timers, crash, closed,
                 acked, app, server>>

\* The state machine and the client id are left as they are.
DisconnectOk ==
  /\ Running /\ dpc = "wait"
  /\ dpc' = "closing" /\ acked' = TRUE /\ srvSubs' = {}
  /\ UNCHANGED <<session, subs, queues, pc, err, work, timers, crash, closed,
                 closing, disconnects, app, served>>

DisconnectError ==
  /\ Running /\ dpc = "wait" /\ ("disconnect" \in Faults \/ acked)
  /\ dpc' = "closing"
  /\ UNCHANGED <<session, subs, queues, pc, err, work, timers, crash, closed,
                 closing, acked, disconnects, app, server>>

\* The five close() calls, whatever the request returned.
Close ==
  /\ Running /\ dpc = "closing"
  /\ IF CloseOrder[closing] \in closed
     THEN crash' = "close" /\ UNCHANGED <<closed, closing, dpc>>
     ELSE /\ closed' = closed \cup {CloseOrder[closing]}
          /\ closing' = closing + 1
          /\ dpc' = IF closing = Len(CloseOrder) THEN "done" ELSE dpc
          /\ UNCHANGED crash
  /\ UNCHANGED <<session, subs, queues, pc, err, work, timers, acked, disconnects,
                 app, server>>

-----------------------------------------------------------------------------
\* What a goroutine does at the select statement, and elsewhere.

Select(l) ==
  \/ PollCancelled(l) \/ PollHandshake(l) \/ PollMessage(l) \/ PollDefault(l)
  \/ PollSubscribe(l) \/ PollUnsubscribe(l) \/ ConnectSend(l)

Step(l) ==
  \/ Handshake(l) \/ HandshakeOk(l) \/ HandshakeError(l) \/ SendHandshake(l)
  \/ DrainSubscribe(l) \/ DrainClosed(l) \/ SubscribeSend(l) \/ SubscribeOk(l)
  \/ SubscribeError(l) \/ AddSubscription(l) \/ AddDone(l)
  \/ DrainUnsubscribe(l) \/ UnsubscribeSend(l) \/ UnsubscribeOk(l)
  \/ UnsubscribeError(l) \/ ConnectOk(l) \/ ConnectError(l)
  \/ DeliverToApp(l) \/ DeliverToSelf(l) \/ DeliverOrphan(l) \/ DeliverDone(l)
  \/ ReadError(l)

Disconnecting == DisconnectOk \/ DisconnectError \/ Close

User ==
  \/ \E q \in Request : UserSubscribe(q)
  \/ \E c \in Channel : UserUnsubscribe(c)
  \/ \E l \in Loops : Start(l) \/ Cancel(l)
  \/ DisconnectCall

Next ==
  \/ \E l \in Loops : Select(l) \/ Step(l)
  \/ TimerFires \/ Disconnecting \/ User

Spec == Init /\ [][Next]_vars

\* The scheduler runs every goroutine, the server or the HTTP client ends
\* every request, timers fire and the application reads what it is sent:
\* weak fairness.  select picks among the ready cases at random: a case that
\* is ready at infinitely many rounds is picked, strong fairness.  The
\* application owes no call.
Fairness ==
  /\ \A l \in Loops :
       /\ WF_vars(Step(l))
       /\ WF_vars(Select(l))
       /\ SF_vars(PollCancelled(l))
       /\ SF_vars(PollSubscribe(l))
       /\ SF_vars(PollUnsubscribe(l))
       /\ SF_vars(PollMessage(l))
       /\ SF_vars(ConnectSend(l))
       /\ SF_vars(PollHandshake(l))
       /\ SF_vars(DrainClosed(l))
  /\ WF_vars(TimerFires)
  /\ WF_vars(Disconnecting)

LiveSpec == Spec /\ Fairness
=============================================================================
