------------------------------- MODULE V1Proofs -------------------------------
(***************************************************************************)
(* Theorems about the loop of version 1, for every number of goroutines,   *)
(* channels and receivers: it is a loop of version 2 that ignores no kind  *)
(* of error, so that what is proved of version 2 under that condition is   *)
(* true of it, and its map only grows.                                     *)
(***************************************************************************)
EXTENDS ClientV1, TLAPS

\* The steps that the versions share are the same actions of both instances.
LEMMA SharedStep ==
  ASSUME NEW l \in Loops,
         \/ PollCancelled(l) \/ PollHandshake(l) \/ PollMessage(l) \/ PollDefault(l)
         \/ PollSubscribe(l) \/ ConnectSend(l)
         \/ Handshake(l) \/ HandshakeOk(l) \/ HandshakeError(l) \/ SendHandshake(l)
         \/ DrainSubscribe(l) \/ DrainClosed(l) \/ SubscribeOk(l) \/ AddDone(l)
         \/ ConnectOk(l) \/ ConnectError(l)
         \/ DeliverToApp(l) \/ DeliverToSelf(l) \/ DeliverOrphan(l) \/ DeliverDone(l)
         \/ ReadError(l)
  PROVE  V2!Select(l) \/ V2!Step(l)
<1> USE DEF session, queues, work, ending, app, server, V2!session, V2!queues,
            V2!work, V2!ending, V2!app, V2!server,
            At, V2!At, Running, V2!Running, Go, V2!Go, Fail, V2!Fail,
            Enqueue, V2!Enqueue, CanSend, V2!CanSend, MayFail, V2!MayFail,
            Grant, V2!Grant, Accepts, V2!Accepts, After, V2!After,
            Unconnected, V2!Unconnected, Connecting, V2!Connecting,
            Connected, V2!Connected
<1>1. CASE PollCancelled(l) BY <1>1 DEF PollCancelled, V2!PollCancelled, V2!Select
<1>2. CASE PollHandshake(l) BY <1>2 DEF PollHandshake, V2!PollHandshake, V2!Select
<1>3. CASE PollMessage(l)   BY <1>3 DEF PollMessage, V2!PollMessage, V2!Select
<1>4. CASE PollDefault(l)
  BY <1>4 DEF PollDefault, V2!PollDefault, NothingReady, V2!NothingReady, V2!Select
<1>5. CASE PollSubscribe(l) BY <1>5 DEF PollSubscribe, V2!PollSubscribe, V2!Select
<1>6. CASE ConnectSend(l)   BY <1>6 DEF ConnectSend, V2!ConnectSend, V2!Select
<1>7. CASE Handshake(l)     BY <1>7 DEF Handshake, V2!Handshake, V2!Step
<1>8. CASE HandshakeOk(l)   BY <1>8 DEF HandshakeOk, V2!HandshakeOk, V2!Step
<1>9. CASE HandshakeError(l) BY <1>9 DEF HandshakeError, V2!HandshakeError, V2!Step
<1>10. CASE SendHandshake(l) BY <1>10 DEF SendHandshake, V2!SendHandshake, V2!Step
<1>11. CASE DrainSubscribe(l)
  BY <1>11 DEF DrainSubscribe, V2!DrainSubscribe, BeforeLast, V2!BeforeLast, V2!Step
<1>12. CASE DrainClosed(l)  BY <1>12 DEF DrainClosed, V2!DrainClosed, V2!Step
<1>13. CASE SubscribeOk(l)
  BY <1>13 DEF SubscribeOk, V2!SubscribeOk, Names, V2!Names, V2!Step
<1>14. CASE AddDone(l)      BY <1>14 DEF AddDone, V2!AddDone, V2!Step
<1>15. CASE ConnectOk(l)
  BY <1>15 DEF ConnectOk, V2!ConnectOk, Responses, V2!Responses, Data, V2!Data,
     Reply, V2!Reply, BoundedSeq, V2!BoundedSeq, SeqOf, V2!SeqOf, V2!Step
<1>16. CASE ConnectError(l) BY <1>16 DEF ConnectError, V2!ConnectError, V2!Step
<1>17. CASE DeliverToApp(l)
  BY <1>17 DEF DeliverToApp, V2!DeliverToApp, BatchEnds, V2!BatchEnds, LastChannel,
     V2!LastChannel, Batch, V2!Batch, Others, V2!Others, V2!Step
<1>18. CASE DeliverToSelf(l)
  BY <1>18 DEF DeliverToSelf, V2!DeliverToSelf, BatchEnds, V2!BatchEnds, LastChannel,
     V2!LastChannel, Others, V2!Others, V2!Step
<1>19. CASE DeliverOrphan(l)
  BY <1>19 DEF DeliverOrphan, V2!DeliverOrphan, BatchEnds, V2!BatchEnds, LastChannel,
     V2!LastChannel, V2!Step
<1>20. CASE DeliverDone(l)
  BY <1>20 DEF DeliverDone, V2!DeliverDone, BatchEnds, V2!BatchEnds, V2!Step
<1>21. CASE ReadError(l)    BY <1>21 DEF ReadError, V2!ReadError, V2!Step
<1>22. QED BY <1>1, <1>2, <1>3, <1>4, <1>5, <1>6, <1>7, <1>8, <1>9, <1>10, <1>11,
              <1>12, <1>13, <1>14, <1>15, <1>16, <1>17, <1>18, <1>19, <1>20, <1>21

\* The three steps that differ are steps of version 2 without ignored errors.
LEMMA OwnStep ==
  ASSUME NEW l \in Loops,
         SubscribeSend1(l) \/ SubscribeError1(l) \/ AddSubscription1(l)
  PROVE  V2!Step(l)
<1> USE DEF session, queues, work, ending, app, server, V2!session, V2!queues,
            V2!work, V2!ending, V2!app, V2!server,
            At, V2!At, Running, V2!Running, Go, V2!Go, Fail, V2!Fail,
            V2!ReportOrFail, CanSend, V2!CanSend, MayFail, V2!MayFail,
            Grant, V2!Grant, Connected, V2!Connected, Names, V2!Names,
            Free, V2!Free, Drop1, V2!DropSubscribe, V2!Step
<1>1. CASE SubscribeSend1(l)  BY <1>1 DEF SubscribeSend1, V2!SubscribeSend
<1>2. CASE SubscribeError1(l) BY <1>2 DEF SubscribeError1, V2!SubscribeError
<1>3. CASE AddSubscription1(l) BY <1>3 DEF AddSubscription1, V2!AddSubscription
<1>4. QED BY <1>1, <1>2, <1>3

\* So are the steps of timers, of Disconnect() and of the application.
LEMMA OthersStep ==
  ASSUME \/ TimerFires \/ Disconnecting \/ DisconnectCall
         \/ \E q \in Request : UserSubscribe(q)
         \/ \E l \in Loops : Start(l) \/ Cancel(l)
  PROVE  V2!Next
<1> USE DEF session, queues, work, ending, app, server, V2!session, V2!queues,
            V2!work, V2!ending, V2!app, V2!server, At, V2!At, Running, V2!Running,
            Go, V2!Go, Enqueue, V2!Enqueue, CanSend, V2!CanSend, Connected,
            V2!Connected, CloseOrder, V2!CloseOrder, V2!Next, V2!Disconnecting,
            V2!User
<1>1. CASE TimerFires      BY <1>1 DEF TimerFires, V2!TimerFires
<1>2. CASE DisconnectOk    BY <1>2 DEF DisconnectOk, V2!DisconnectOk
<1>3. CASE DisconnectError BY <1>3 DEF DisconnectError, V2!DisconnectError
<1>4. CASE Close           BY <1>4 DEF Close, V2!Close
<1>5. CASE DisconnectCall  BY <1>5 DEF DisconnectCall, V2!DisconnectCall
<1>6. ASSUME NEW q \in Request, UserSubscribe(q) PROVE V2!Next
  BY <1>6 DEF UserSubscribe, V2!UserSubscribe, Request, V2!Request
<1>7. ASSUME NEW l \in Loops, Start(l) PROVE V2!Next
  BY <1>7 DEF Start, V2!Start
<1>8. ASSUME NEW l \in Loops, Cancel(l) PROVE V2!Next
  BY <1>8 DEF Cancel, V2!Cancel
<1>9. QED BY <1>1, <1>2, <1>3, <1>4, <1>5, <1>6, <1>7, <1>8 DEF Disconnecting

\* A step of version 1 is one of version 2.
LEMMA NextV2 == [Next1]_vars => [V2!Next]_(V2!vars)
<1> SUFFICES ASSUME [Next1]_vars PROVE [V2!Next]_(V2!vars) OBVIOUS
<1>1. ASSUME NEW l \in Loops, Loop1(l) PROVE V2!Next
  <2>1. V2!Select(l) \/ V2!Step(l)
    BY <1>1, SharedStep, OwnStep
    DEF Loop1, Handshake1, Cancelled1, Rehandshake1, Message1, Default1,
        DrainSubscribe1, DrainClosed1, SubscribeOk1, AddDone1, Connect1, Deliver1,
        ReadError1
  <2>2. QED BY <2>1 DEF V2!Next
<1>2. CASE \E l \in Loops : Start1(l) \/ Cancel(l)
  BY <1>2, OthersStep DEF Start1
<1>3. CASE Enqueue1 \/ Disconnect1 \/ UserSubscribe1 \/ UserDisconnect1
  BY <1>3, OthersStep
  DEF Enqueue1, Disconnect1, Disconnecting, UserSubscribe1, UserDisconnect1
<1>4. CASE UNCHANGED vars
  BY <1>4 DEF vars, session, queues, work, ending, app, server, V2!vars, V2!session,
     V2!queues, V2!work, V2!ending, V2!app, V2!server
<1>5. QED BY <1>1, <1>2, <1>3, <1>4 DEF Next1

\* Whatever version 1 does, version 2 may do that ignores no kind of error.
THEOREM V1ImplementsV2 == Spec1 => ImplementsV2
<1>1. Init1 => V2!Init
  BY DEF Init1, Init, V2!Init, Unconnected, V2!Unconnected
<1>2. QED BY <1>1, NextV2, PTL DEF Spec1, ImplementsV2, V2!Spec

-----------------------------------------------------------------------------
\* What is proved of the client of version 2, with nothing ignored.
P == INSTANCE ClientDelivery WITH Ignored <- {}

\* The client of the proofs is the one that version 1 implements.
LEMMA OneClient == [V2!Next]_(V2!vars) => [P!Next]_(P!vars)
BY DEF
     V2!Next, P!Next, V2!vars, P!vars, V2!session, P!session, V2!queues,
     P!queues, V2!work, P!work, V2!ending, P!ending, V2!app, P!app, V2!server,
     P!server, V2!Select, P!Select, V2!Step, P!Step, V2!Disconnecting,
     P!Disconnecting, V2!User, P!User, V2!At, P!At, V2!Running, P!Running, V2!Go,
     P!Go, V2!Fail, P!Fail, V2!ReportOrFail, P!ReportOrFail, V2!Enqueue,
     P!Enqueue, V2!CanSend, P!CanSend, V2!MayFail, P!MayFail, V2!Grant, P!Grant,
     V2!Accepts, P!Accepts, V2!After, P!After, V2!Unconnected, P!Unconnected,
     V2!Connecting, P!Connecting, V2!Connected, P!Connected, V2!Request,
     P!Request, V2!CloseOrder, P!CloseOrder, V2!PollCancelled, P!PollCancelled,
     V2!PollHandshake, P!PollHandshake, V2!PollMessage, P!PollMessage,
     V2!PollDefault, P!PollDefault, V2!PollSubscribe, P!PollSubscribe,
     V2!PollUnsubscribe, P!PollUnsubscribe, V2!ConnectSend, P!ConnectSend,
     V2!NothingReady, P!NothingReady, V2!Handshake, P!Handshake, V2!HandshakeOk,
     P!HandshakeOk, V2!HandshakeError, P!HandshakeError, V2!SendHandshake,
     P!SendHandshake, V2!DrainSubscribe, P!DrainSubscribe, V2!DrainClosed,
     P!DrainClosed, V2!SubscribeSend, P!SubscribeSend, V2!SubscribeOk,
     P!SubscribeOk, V2!SubscribeError, P!SubscribeError, V2!AddSubscription,
     P!AddSubscription, V2!AddDone, P!AddDone, V2!DrainUnsubscribe,
     P!DrainUnsubscribe, V2!UnsubscribeSend, P!UnsubscribeSend, V2!UnsubscribeOk,
     P!UnsubscribeOk, V2!UnsubscribeError, P!UnsubscribeError, V2!ConnectOk,
     P!ConnectOk, V2!ConnectError, P!ConnectError, V2!DeliverToApp,
     P!DeliverToApp, V2!DeliverToSelf, P!DeliverToSelf, V2!DeliverOrphan,
     P!DeliverOrphan, V2!DeliverDone, P!DeliverDone, V2!ReadError, P!ReadError,
     V2!Names, P!Names, V2!BeforeLast, P!BeforeLast, V2!DropSubscribe,
     P!DropSubscribe, V2!Free, P!Free, V2!Responses, P!Responses, V2!Data,
     P!Data, V2!Reply, P!Reply, V2!BoundedSeq, P!BoundedSeq, V2!SeqOf, P!SeqOf,
     V2!BatchEnds, P!BatchEnds, V2!Batch, P!Batch, V2!Others, P!Others,
     V2!LastChannel, P!LastChannel, V2!TimerFires, P!TimerFires, V2!DisconnectOk,
     P!DisconnectOk, V2!DisconnectError, P!DisconnectError, V2!Close, P!Close,
     V2!UserSubscribe, P!UserSubscribe, V2!UserUnsubscribe, P!UserUnsubscribe,
     V2!Start, P!Start, V2!Cancel, P!Cancel, V2!DisconnectCall, P!DisconnectCall

\* Version 1 is a client of the proofs.
LEMMA V1IsClient == Spec1 => P!Spec
<1>1. Init1 => P!Init
  BY DEF Init1, Init, P!Init, Unconnected, P!Unconnected
<1>2. [Next1]_vars => [P!Next]_(P!vars) BY NextV2, OneClient
<1>3. QED BY <1>1, <1>2, PTL DEF Spec1, P!Spec

\* Its constants are those of version 1, and nothing is ignored, so that every
\* failed request ends the loop.
LEMMA V1Constants == P!SetAssumption /\ P!BoundAssumption /\ P!FailuresEnd
<1>1. P!SetAssumption
  BY SetAssumption DEF SetAssumption, P!SetAssumption, AdviceKind, P!AdviceKind,
     Operation, P!Operation
<1>2. P!BoundAssumption BY BoundAssumption DEF BoundAssumption, P!BoundAssumption
<1>3. P!FailuresEnd BY DEF P!FailuresEnd
<1>4. QED BY <1>1, <1>2, <1>3

\* In version 1, too, one goroutine polls, and a receiver gets only messages of
\* its channels, in the order of the server and none twice.
THEOREM V1Delivers == Spec1 => [](OneLoop /\ Routing /\ InOrder)
<1>1. P!OneLoop /\ P!Routing /\ P!InOrder => OneLoop /\ Routing /\ InOrder
  BY DEF P!OneLoop, OneLoop, P!Polling, Polling, P!PollingPc, PollingPc, P!Routing,
     Routing, P!InOrder, InOrder
<1>2. P!Spec => []P!OneLoop BY V1Constants, P!ClientOneLoop
<1>3. P!Spec => []P!Routing /\ []P!InOrder
  BY V1Constants, P!ClientRouting, P!ClientInOrder
<1>4. QED BY V1IsClient, <1>1, <1>2, <1>3, PTL

\* However many batches have failed before: between two rounds of the loop, the
\* server's subscriptions are the entries of the map.
THEOREM V1Coherent == Spec1 => []Coherent
<1>1. P!Coherent => Coherent BY DEF P!Coherent, Coherent, P!AtSelect, AtSelect
<1>2. P!Spec => []P!Coherent BY V1Constants, P!ClientCoherent
<1>3. QED BY V1IsClient, <1>1, <1>2, PTL

\* No response of version 1's server holds a message without an entry.
THEOREM V1NeverOrphaned == Spec1 => []NeverOrphaned
<1>1. P!NeverOrphaned => NeverOrphaned BY DEF P!NeverOrphaned, NeverOrphaned
<1>2. P!Spec => []P!NeverOrphaned BY V1Constants, P!ClientNeverOrphaned
<1>3. QED BY V1IsClient, <1>1, <1>2, PTL

\* What it takes in version 2 to end the process, and to get a loop stuck by
\* itself in each of the three ways, it takes in version 1: its queue of replies
\* is filled by replies before data alone, too (src/client.go:269).
THEOREM V1TroubleExplained == Spec1 => []TroubleExplained
<1>1. P!PanicsExplained => PanicsExplained
  BY DEF P!PanicsExplained, PanicsExplained
<1>2. P!LoopsExplained => LoopsExplained
  BY DEF P!LoopsExplained, LoopsExplained, P!DrainsForEver, DrainsForEver,
     P!WaitsForItself, WaitsForItself
<1>3. P!RoomExplained => RoomExplained
  BY DEF P!RoomExplained, RoomExplained, P!WaitsForRoom, WaitsForRoom, P!BatchEnds,
     BatchEnds, P!LastChannel, LastChannel
<1>4. P!TroubleExplained => TroubleExplained
  BY <1>1, <1>2, <1>3 DEF P!TroubleExplained, TroubleExplained
<1>5. P!Spec => []P!TroubleExplained BY V1Constants, P!ClientTroubleExplained
<1>6. QED BY V1IsClient, <1>4, <1>5, PTL

\* A session is granted once in version 1, too.
THEOREM V1SessionKept == Spec1 => SessionKept
<1>1. [clientID' # clientID => clientID = NoID]_(P!vars)
        => [clientID' # clientID => clientID = NoID]_vars
  BY DEF P!vars, vars, P!session, session, P!queues, queues, P!work, work, P!ending,
     ending, P!app, app, P!server, server
<1>2. P!Spec => P!SessionKept BY V1Constants, P!ClientSessionKept
<1>3. QED BY V1IsClient, <1>1, <1>2, PTL DEF P!SessionKept, SessionKept

\* And a handshake that fails is the last.
THEOREM V1StrandedForGood == Spec1 => StrandedForGood
<1>1. [P!Stranded => P!Stranded']_(P!vars) => [Stranded => Stranded']_vars
  BY DEF P!vars, vars, P!session, session, P!queues, queues, P!work, work, P!ending,
     ending, P!app, app, P!server, server, P!Stranded, Stranded, P!Connecting,
     Connecting
<1>2. P!Spec => P!StrandedForGood BY V1Constants, P!ClientStrandedForGood
<1>3. QED BY V1IsClient, <1>1, <1>2, PTL DEF P!StrandedForGood, StrandedForGood

\* Version 1 implements the one session of module Session.
THEOREM V1ImplementsSession == Spec1 => ImplementsSession
<1>1. /\ P!OutstandingConnect = OutstandingConnect
      /\ P!Remaining(rest) = Remaining(rest)
      /\ P!Remaining(rest)' = Remaining(rest)'
      /\ P!OutstandingConnect' = OutstandingConnect'
  BY DEF P!OutstandingConnect, OutstandingConnect, P!Remaining, Remaining
<1>2. P!Abstract!Init => Abstract!Init
  BY <1>1 DEF P!Abstract!Init, Abstract!Init
<1>3. [P!Abstract!Next]_(P!Abstract!vars) => [Abstract!Next]_(Abstract!vars)
  BY <1>1 DEF P!Abstract!Next, Abstract!Next, P!Abstract!vars, Abstract!vars,
     P!Abstract!session, Abstract!session, P!Abstract!Begin, Abstract!Begin,
     P!Abstract!Grant, Abstract!Grant, P!Abstract!Request, Abstract!Request,
     P!Abstract!Answer, Abstract!Answer, P!Abstract!Fail, Abstract!Fail,
     P!Abstract!HandOver, Abstract!HandOver, P!Abstract!Abandon, Abstract!Abandon
<1>4. P!Spec => P!ImplementsSession BY V1Constants, P!ClientImplementsSession
<1>5. QED
  BY V1IsClient, <1>2, <1>3, <1>4, PTL
  DEF P!ImplementsSession, ImplementsSession, P!Abstract!Spec, Abstract!Spec

\* The loop of version 1 adds entries and removes none.
LEMMA LoopKeepsEntries ==
  ASSUME SubsType, NEW l \in Loops, Loop1(l), NEW c \in Channel, subs[c] # None
  PROVE  subs'[c] = subs[c]
<1>1. CASE Handshake1(l)
  <2>1. CASE HandshakeOk(l)
    BY <2>1, SetAssumption DEF HandshakeOk, SubsType
  <2>2. CASE Handshake(l) \/ HandshakeError(l)
    BY <2>2 DEF Handshake, HandshakeError
  <2>3. QED BY <1>1, <2>1, <2>2 DEF Handshake1
<1>2. CASE \/ Cancelled1(l) \/ Rehandshake1(l) \/ Message1(l) \/ Default1(l)
           \/ Connect1(l)
  BY <1>2 DEF Cancelled1, Rehandshake1, Message1, Default1, Connect1, PollCancelled,
     PollHandshake, PollMessage, SendHandshake, PollDefault, ConnectSend, ConnectOk,
     ConnectError
<1>3. CASE \/ DrainSubscribe1(l) \/ DrainClosed1(l) \/ SubscribeSend1(l)
           \/ SubscribeOk1(l) \/ SubscribeError1(l) \/ AddDone1(l)
  BY <1>3 DEF DrainSubscribe1, DrainClosed1, SubscribeSend1, SubscribeOk1,
     SubscribeError1, AddDone1, PollSubscribe, DrainSubscribe, DrainClosed,
     SubscribeOk, AddDone
<1>4. CASE AddSubscription1(l)
  BY <1>4 DEF AddSubscription1, Free, SubsType
<1>5. CASE Deliver1(l) \/ ReadError1(l)
  BY <1>5 DEF Deliver1, ReadError1, DeliverToApp, DeliverToSelf, DeliverOrphan,
     DeliverDone, ReadError
<1>6. QED BY <1>1, <1>2, <1>3, <1>4, <1>5 DEF Loop1

\* Version 1 never changes an entry of its map.
THEOREM V1EntriesKept == Spec1 => EntriesKept
<1>1. ASSUME SubsType, [Next1]_vars, NEW c \in Channel, subs[c] # None
      PROVE  subs'[c] = subs[c]
  <2>1. CASE \E l \in Loops : Loop1(l) BY <1>1, <2>1, LoopKeepsEntries
  <2>2. CASE \/ \E l \in Loops : Start1(l) \/ Cancel(l)
             \/ Enqueue1 \/ Disconnect1 \/ UserSubscribe1 \/ UserDisconnect1
             \/ UNCHANGED vars
    BY <2>2 DEF Start1, Start, Cancel, Enqueue1, TimerFires, Disconnect1,
       DisconnectOk, DisconnectError, Close, UserSubscribe1, UserSubscribe,
       UserDisconnect1, DisconnectCall, vars
  <2>3. QED BY <1>1, <2>1, <2>2 DEF Next1
<1>2. SubsType /\ [Next1]_vars =>
        [\A c \in Channel : subs[c] # None => subs'[c] = subs[c]]_vars
  BY <1>1
<1>3. P!TypeOK => SubsType BY DEF P!TypeOK, P!SubsType, SubsType
<1>4. P!Spec => []P!TypeOK BY V1Constants, P!ClientTypeOK
<1>5. QED BY V1IsClient, <1>2, <1>3, <1>4, PTL DEF Spec1, EntriesKept
=============================================================================
