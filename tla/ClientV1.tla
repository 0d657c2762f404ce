------------------------------ MODULE ClientV1 ------------------------------
(***************************************************************************)
(* The client of version 1 of the module (src/client.go on top of          *)
(* src/bayeux_client.go).  It has no IgnoreErrorFunc, so that every error  *)
(* ends the loop, and no Unsubscribe: nothing is ever put into             *)
(* unsubscribeRequestChannel, whose case of the select serves Disconnect() *)
(* alone.  What is the same in both versions, to the line, is the action   *)
(* of Client that models it; what differs is defined here.                 *)
(***************************************************************************)
EXTENDS ClientProperties

\* NewClient, Start and Subscribe.
Init1            == Init
Start1(l)        == Start(l)
UserSubscribe1   == \E q \in Request : UserSubscribe(q)

\* Disconnect: the request, then the five channels, whatever came of it.
UserDisconnect1  == DisconnectCall
Disconnect1      == DisconnectOk \/ DisconnectError \/ Close

\* BayeuxClient.Handshake, from start() and from the loop, and Connect.
Handshake1(l)    == Handshake(l) \/ HandshakeOk(l) \/ HandshakeError(l)
Connect1(l)      == ConnectSend(l) \/ ConnectOk(l) \/ ConnectError(l)

\* The cases of the select that make no request.
Cancelled1(l)    == PollCancelled(l)
Rehandshake1(l)  == PollHandshake(l)
Message1(l)      == PollMessage(l) \/ SendHandshake(l)
Default1(l)      == PollDefault(l)
Enqueue1         == TimerFires

-----------------------------------------------------------------------------
\* The case for subscribe requests, and the two loops that drain a queue.
DrainSubscribe1(l) == PollSubscribe(l) \/ DrainSubscribe(l)
DrainClosed1(l)    == DrainClosed(l)

\* Faulty variant: the batch is dropped and the loop goes on.
DropOnly1(l) == todo' = [todo EXCEPT ![l] = <<>>] /\ Go(l, "select")

\* return err: the batch goes with the loop.
Drop1(l) == todo' = [todo EXCEPT ![l] = <<>>] /\ Fail(l, "subscribe")

\* Subscribe up to its request: a client that is not connected and an invalid
\* channel are errors.
SubscribeSend1(l) ==
  /\ At(l, {"drainSub"}) /\ subQ = <<>> /\ "sub" \notin closed
  /\ IF CanSend /\ Names(todo[l]) \cap Invalid = {}
     THEN Go(l, "subWait") /\ UNCHANGED todo
     ELSE Drop1(l)
  /\ UNCHANGED <<session, subs, queues, gone, rest, timers, crash, ending, app,
                 server>>

\* No response or a bad one, or a reply that refuses: the server may have
\* subscribed the session to some of the channels.
SubscribeError1(l) ==
  /\ At(l, {"subWait"}) /\ MayFail(l, "subscribe")
  /\ \E accepted \in SUBSET Names(todo[l]) : Grant(srvSubs \cup accepted)
  /\ Drop1(l)
  /\ UNCHANGED <<session, subs, queues, gone, rest, timers, crash, ending, app,
                 served>>

SubscribeOk1(l) == SubscribeOk(l)

\* Faulty variant: an entry that is there already is passed over.
AddSubscriptionNext1(l) ==
  /\ At(l, {"adding"}) /\ todo[l] # <<>>
  /\ LET q == Head(todo[l]) IN
       subs' = IF Free(q) THEN [subs EXCEPT ![q.ch] = q.to] ELSE subs
  /\ todo' = [todo EXCEPT ![l] = Tail(@)]
  /\ UNCHANGED <<session, queues, pc, err, gone, rest, timers, crash, ending, app,
                 server>>

\* subscriptionsMap.Add for the next request: the first duplicate is returned.
AddSubscription1(l) ==
  /\ At(l, {"adding"}) /\ todo[l] # <<>>
  /\ LET q == Head(todo[l]) IN
       IF Free(q)
       THEN subs' = [subs EXCEPT ![q.ch] = q.to] /\ UNCHANGED <<pc, err>>
       ELSE Fail(l, "duplicate") /\ UNCHANGED subs
  /\ todo' = [todo EXCEPT ![l] = Tail(@)]
  /\ UNCHANGED <<session, queues, gone, rest, timers, crash, ending, app, server>>

AddDone1(l) == AddDone(l)

-----------------------------------------------------------------------------
\* The messages of a response, in batches by channel.
Deliver1(l) ==
  DeliverToApp(l) \/ DeliverToSelf(l) \/ DeliverOrphan(l) \/ DeliverDone(l)

\* start() offers the error on its errors channel.
ReadError1(l) == ReadError(l)

Loop1(l) ==
  \/ Handshake1(l) \/ Cancelled1(l) \/ Rehandshake1(l) \/ Message1(l) \/ Default1(l)
  \/ DrainSubscribe1(l) \/ DrainClosed1(l) \/ SubscribeSend1(l) \/ SubscribeOk1(l)
  \/ SubscribeError1(l) \/ AddSubscription1(l) \/ AddDone1(l)
  \/ Connect1(l) \/ Deliver1(l) \/ ReadError1(l)

Next1 ==
  \/ \E l \in Loops : Loop1(l) \/ Start1(l) \/ Cancel(l)
  \/ Enqueue1 \/ Disconnect1 \/ UserSubscribe1 \/ UserDisconnect1

Spec1 == Init1 /\ [][Next1]_vars

-----------------------------------------------------------------------------
\* A program that only subscribes may move to version 2 without an
\* IgnoreErrorFunc: what version 1 does, version 2 may do (v2/client.go:242).
V2 == INSTANCE Client WITH Ignored <- {}
ImplementsV2 == V2!Spec

\* An entry that has been made stays as it is, whatever requests for its channel
\* follow, in the same batch or a later one, refused or duplicated; of a batch the
\* request received first is added last (client.go:196-210,
\* subscriptions_map.go:20-24).
EntriesKept ==
  [][\A c \in Channel : subs[c] # None => subs'[c] = subs[c]]_vars
=============================================================================
