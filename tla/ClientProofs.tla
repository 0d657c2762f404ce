----------------------------- MODULE ClientProofs -----------------------------
(***************************************************************************)
(* Theorems about the client, for every number of goroutines, channels,    *)
(* receivers and calls, every queue capacity and every choice of server.   *)
(***************************************************************************)
EXTENDS ClientProperties, TLAPS

-----------------------------------------------------------------------------
\* The operators on sequences of requests and of messages.

\* The channels of a sequence of requests.
LEMMA NamesType ==
  ASSUME NEW s \in Seq(Request) PROVE Names(s) \subseteq Channel
<1>1. \A i \in DOMAIN s : s[i] \in Request OBVIOUS
<1>2. \A q \in Request : q.ch \in Channel BY DEF Request
<1>3. QED BY <1>1, <1>2, Zenon DEF Names

\* A request put before the last leaves a nonempty sequence of requests.
LEMMA BeforeLastType ==
  ASSUME NEW s \in Seq(Request), s # <<>>, NEW q \in Request
  PROVE  BeforeLast(s, q) \in Seq(Request) /\ BeforeLast(s, q) # <<>>
<1>1. Len(s) \in Nat \ {0} /\ s[Len(s)] \in Request OBVIOUS
<1>2. SubSeq(s, 1, Len(s) - 1) \in Seq(Request) BY <1>1
<1>3. <<q, s[Len(s)]>> \in Seq(Request) BY <1>1
<1>4. QED BY <1>2, <1>3 DEF BeforeLast

\* A response of the server is a sequence of messages.
LEMMA ResponseType ==
  ASSUME served \in Nat, srvSubs \subseteq Channel,
         NEW s \in BoundedSeq(srvSubs, MaxBatch), NEW ms \in Responses(s)
  PROVE  /\ s \in Seq(Channel)
         /\ ms \in Seq(Message)
<1>1. s \in Seq(Channel)
  BY BoundAssumption DEF BoundedSeq, SeqOf
<1>2. Data(s) \in Seq(Message)
  <2>1. DOMAIN s = 1 .. Len(s) /\ Len(s) \in Nat BY <1>1
  <2>2. \A i \in 1 .. Len(s) :
          [ch |-> s[i], n |-> served + i, advice |-> "absent"] \in Message
    BY <1>1 DEF Message, AdviceKind
  <2>3. QED BY <2>1, <2>2 DEF Data
<1>3. \A a \in Advices : Reply(a) \in Seq(Message)
  <2>1. \A a \in Advices : [ch |-> MetaConnect, n |-> 0, advice |-> a] \in Message
    BY SetAssumption DEF Message
  <2>2. QED BY <2>1 DEF Reply
<1>4. \/ \E a \in Advices : ms = Data(s) \o Reply(a)
      \/ \E a \in Advices : ms = Reply(a) \o Data(s)
  BY Zenon DEF Responses
<1>5. ASSUME NEW a \in Seq(Message), NEW b \in Seq(Message)
      PROVE  a \o b \in Seq(Message)
  OBVIOUS
<1>6. ms \in Seq(Message)
   BY <1>2, <1>3, <1>4, <1>5
<1>7. QED BY <1>1, <1>6

\* Cutting a response into batches.
LEMMA BatchType ==
  ASSUME NEW ms \in Seq(Message), NEW k \in DOMAIN ms
  PROVE  /\ Batch(ms, k) \in Seq(Message)
         /\ Others(ms, k) \in Seq(Message)
         /\ LastChannel(ms, k) \in Channel \cup {MetaConnect}
<1>1. k \in 1 .. Len(ms) /\ Len(ms) \in Nat OBVIOUS
<1>2. Batch(ms, k) \in Seq(Message) BY <1>1 DEF Batch
<1>3. Others(ms, k) \in Seq(Message) BY <1>1 DEF Others
<1>4. LastChannel(ms, k) \in Channel \cup {MetaConnect}
  <2>1. ms[k] \in Message OBVIOUS
  <2>2. QED BY <2>1 DEF LastChannel, Message
<1>5. QED BY <1>2, <1>3, <1>4
-----------------------------------------------------------------------------
\* Type correctness.

\* A new client is well typed.
LEMMA InitTypeOK == Init => TypeOK
<1> SUFFICES ASSUME Init PROVE TypeOK OBVIOUS
<1>1. SessionType BY DEF Init, SessionType, ConnState
<1>2. SubsType    BY DEF Init, SubsType
<1>3. QueuesType
  <2>1. connReq \in BOOLEAN BY Zenon DEF Init
  <2>2. QED BY <2>1 DEF Init, QueuesType
<1>4. LoopsType   BY DEF Init, LoopsType, Pc, ErrorKind
<1>5. EndingType
  <2>1. acked \in BOOLEAN BY Zenon DEF Init
  <2>2. QED BY <2>1 DEF Init, EndingType
<1>6. AppType     BY DEF Init, AppType
<1>7. ServerType  BY DEF Init, ServerType
<1>8. QED BY <1>1, <1>2, <1>3, <1>4, <1>5, <1>6, <1>7 DEF TypeOK

\* The cases of the select statement keep the types.
LEMMA SelectTypeOK ==
  ASSUME NEW l \in Loops, TypeOK, Select(l)
  PROVE  TypeOK'
<1> USE DEF TypeOK, SessionType, SubsType, QueuesType, LoopsType, EndingType,
            AppType, ServerType, session, queues, work, ending, app, server,
            At, Running, Go, Fail, ReportOrFail, Enqueue, Pc, PollingPc, ErrorKind
<1>1. CASE PollCancelled(l)   BY <1>1 DEF PollCancelled
<1>2. CASE PollHandshake(l)   BY <1>2 DEF PollHandshake
<1>3. CASE PollMessage(l)
  <2>1. messageQ' \in Seq(AdviceKind) BY <1>3 DEF PollMessage
  <2>2. pc' \in [Loops -> Pc] /\ err' \in [Loops -> ErrorKind] /\ timers' \in Nat
    <3>1. CASE Head(messageQ) = "absent" BY <1>3, <3>1 DEF PollMessage
    <3>2. CASE Head(messageQ) = "handshake" BY <1>3, <3>2 DEF PollMessage
    <3>3. CASE Head(messageQ) \in {"retry", "none"} BY <1>3, <3>3 DEF PollMessage
    <3>4. QED BY <1>3, <3>1, <3>2, <3>3 DEF PollMessage
  <2>3. crash' \in {"no", "enqueue", "queue", "send", "close", "advice"}
    BY <1>3 DEF PollMessage
  <2>4. QED BY <1>3, <2>1, <2>2, <2>3 DEF PollMessage
<1>4. CASE PollDefault(l)     BY <1>4 DEF PollDefault
<1>5. CASE PollSubscribe(l)   BY <1>5 DEF PollSubscribe
<1>6. CASE PollUnsubscribe(l) BY <1>6 DEF PollUnsubscribe
<1>7. CASE ConnectSend(l)     BY <1>7 DEF ConnectSend
<1>8. QED BY <1>1, <1>2, <1>3, <1>4, <1>5, <1>6, <1>7 DEF Select

\* So do the other steps of a loop; Draining says that BeforeLast has a last.
LEMMA StepTypeOK ==
  ASSUME NEW l \in Loops, TypeOK, Draining, Step(l)
  PROVE  TypeOK'
<1> USE DEF TypeOK, SessionType, SubsType, QueuesType, LoopsType, EndingType,
            AppType, ServerType, session, queues, work, ending, app, server,
            At, Running, Go, Fail, ReportOrFail, Enqueue, Pc, PollingPc, ErrorKind
<1>1. CASE Handshake(l)        BY <1>1 DEF Handshake, After, ConnState
<1>2. CASE HandshakeOk(l)      BY <1>2 DEF HandshakeOk, After, ConnState
<1>3. CASE HandshakeError(l)   BY <1>3 DEF HandshakeError
<1>4. CASE SendHandshake(l)    BY <1>4 DEF SendHandshake
<1>5. CASE DrainSubscribe(l)
  <2>1. Head(subQ) \in Request /\ Tail(subQ) \in Seq(Request)
    BY <1>5 DEF DrainSubscribe
  <2>2. BeforeLast(todo[l], Head(subQ)) \in Seq(Request)
    BY <1>5, <2>1, BeforeLastType DEF DrainSubscribe, Draining
  <2>3. QED BY <1>5, <2>1, <2>2 DEF DrainSubscribe
<1>6. CASE DrainClosed(l)      BY <1>6 DEF DrainClosed
<1>7. CASE SubscribeSend(l)    BY <1>7 DEF SubscribeSend, DropSubscribe
<1>8. CASE SubscribeOk(l)
  <2>1. srvSubs' \subseteq Channel
    BY <1>8, NamesType DEF SubscribeOk, Grant
  <2>2. QED BY <1>8, <2>1 DEF SubscribeOk
<1>9. CASE SubscribeError(l)
  <2>1. srvSubs' \subseteq Channel
    BY <1>9, NamesType DEF SubscribeError, Grant
  <2>2. LoopsType'
    <3>1. DropSubscribe(l) /\ UNCHANGED <<gone, rest>> BY <1>9 DEF SubscribeError
    <3>2. <<>> \in Seq(Request) OBVIOUS
    <3>3. todo' \in [Loops -> Seq(Request)] BY <3>1, <3>2 DEF DropSubscribe
    <3>4. pc' \in [Loops -> Pc] /\ err' \in [Loops -> ErrorKind]
      BY <3>1 DEF DropSubscribe
    <3>5. gone' \in [Loops -> SUBSET Channel] /\ rest' \in [Loops -> Seq(Message)]
      BY <3>1
    <3>6. QED BY <3>3, <3>4, <3>5
  <2>3. QED BY <1>9, <2>1, <2>2 DEF SubscribeError
<1>10. CASE AddSubscription(l)
  <2>1. Head(todo[l]) \in Request /\ Tail(todo[l]) \in Seq(Request)
    BY <1>10 DEF AddSubscription
  <2>2. Head(todo[l]).ch \in Channel /\ Head(todo[l]).to \in Receiver
    BY <2>1 DEF Request
  <2>3. SubsType' BY <1>10, <2>2 DEF AddSubscription
  <2>4. LoopsType' BY <1>10, <2>1 DEF AddSubscription
  <2>5. QED BY <1>10, <2>3, <2>4 DEF AddSubscription
<1>11. CASE AddDone(l)         BY <1>11 DEF AddDone
<1>12. CASE DrainUnsubscribe(l) BY <1>12 DEF DrainUnsubscribe
<1>13. CASE UnsubscribeSend(l) BY <1>13 DEF UnsubscribeSend
<1>14. CASE UnsubscribeOk(l)   BY <1>14 DEF UnsubscribeOk, Grant
<1>15. CASE UnsubscribeError(l) BY <1>15 DEF UnsubscribeError, Grant
<1>16. CASE ConnectOk(l)
  <2>1. PICK s \in BoundedSeq(srvSubs, MaxBatch) :
          /\ served' = served + Len(s)
          /\ \E ms \in Responses(s) : rest' = [rest EXCEPT ![l] = ms]
    BY <1>16 DEF ConnectOk
  <2>2. PICK ms \in Responses(s) : rest' = [rest EXCEPT ![l] = ms] BY <2>1
  <2>3. s \in Seq(Channel) /\ ms \in Seq(Message) BY ResponseType
  <2>4. served' \in Nat BY <2>1, <2>3
  <2>5. rest' \in [Loops -> Seq(Message)] BY <2>2, <2>3
  <2>6. QED BY <1>16, <2>4, <2>5 DEF ConnectOk
<1>17. CASE ConnectError(l)    BY <1>17 DEF ConnectError
<1>18. CASE DeliverToApp(l)
  <2>1. PICK k \in DOMAIN rest[l] :
          /\ \E r \in Receiver :
               received' = [received EXCEPT ![r] = @ \o Batch(rest[l], k)]
          /\ rest' = [rest EXCEPT ![l] = Others(@, k)]
    BY <1>18 DEF DeliverToApp
  <2>2. Batch(rest[l], k) \in Seq(Message) /\ Others(rest[l], k) \in Seq(Message)
    BY BatchType
  <2>3. received' \in [Receiver -> Seq(Message)] BY <2>1, <2>2
  <2>4. rest' \in [Loops -> Seq(Message)] BY <2>1, <2>2
  <2>5. QED BY <1>18, <2>3, <2>4 DEF DeliverToApp
<1>19. CASE DeliverToSelf(l)
  <2>1. PICK k \in DOMAIN rest[l] :
          \/ crash' = "send" /\ UNCHANGED <<messageQ, rest>>
          \/ /\ messageQ' = Append(messageQ, rest[l][1].advice)
             /\ rest' = [rest EXCEPT ![l] = Others(@, k)]
             /\ UNCHANGED crash
    BY <1>19 DEF DeliverToSelf
  <2>2. Others(rest[l], k) \in Seq(Message) BY BatchType
  <2>3. rest[l][1] \in Message BY <2>1
  <2>4. rest[l][1].advice \in AdviceKind BY <2>3 DEF Message
  <2>5. messageQ' \in Seq(AdviceKind)
    <3>1. Append(messageQ, rest[l][1].advice) \in Seq(AdviceKind) BY <2>4
    <3>2. QED BY <2>1, <3>1, Zenon
  <2>6. rest' \in [Loops -> Seq(Message)] BY <2>1, <2>2
  <2>7. crash' \in {"no", "enqueue", "queue", "send", "close", "advice"} BY <2>1
  <2>8. QED BY <1>19, <2>5, <2>6, <2>7 DEF DeliverToSelf
<1>20. CASE DeliverOrphan(l)   BY <1>20 DEF DeliverOrphan
<1>21. CASE DeliverDone(l)     BY <1>21 DEF DeliverDone
<1>22. CASE ReadError(l)       BY <1>22 DEF ReadError
<1>23. QED BY <1>1, <1>2, <1>3, <1>4, <1>5, <1>6, <1>7, <1>8, <1>9, <1>10,
              <1>11, <1>12, <1>13, <1>14, <1>15, <1>16, <1>17, <1>18, <1>19,
              <1>20, <1>21, <1>22 DEF Step

\* So do timers, Disconnect() and the application.
LEMMA OthersTypeOK ==
  ASSUME TypeOK, ClosingInRange, TimerFires \/ Disconnecting \/ User
  PROVE  TypeOK'
<1> USE DEF TypeOK, SessionType, SubsType, QueuesType, LoopsType, EndingType,
            AppType, ServerType, session, queues, work, ending, app, server,
            Running, Go, Enqueue, Pc, PollingPc, GoChannel
<1>1. CASE TimerFires
  <2>1. QueuesType' BY <1>1 DEF TimerFires
  <2>2. EndingType' BY <1>1 DEF TimerFires
  <2>3. QED BY <1>1, <2>1, <2>2 DEF TimerFires
<1>2. CASE DisconnectOk    BY <1>2 DEF DisconnectOk
<1>3. CASE DisconnectError BY <1>3 DEF DisconnectError
<1>4. CASE Close
  <2>1. CloseOrder[closing] \in GoChannel /\ closing \in 1 .. 5
    BY <1>4 DEF Close, CloseOrder, ClosingInRange
  <2>2. CASE CloseOrder[closing] \in closed BY <1>4, <2>2 DEF Close
  <2>3. CASE CloseOrder[closing] \notin closed
    <3>1. closed' \subseteq GoChannel BY <1>4, <2>1, <2>3 DEF Close
    <3>2. closing' \in 1 .. 6 BY <1>4, <2>1, <2>3 DEF Close
    <3>3. dpc' \in {"closing", "done"} BY <1>4, <2>3 DEF Close
    <3>4. QED BY <1>4, <2>3, <3>1, <3>2, <3>3 DEF Close
  <2>4. QED BY <2>2, <2>3
<1>5. CASE DisconnectCall  BY <1>5 DEF DisconnectCall
<1>6. ASSUME NEW q \in Request, UserSubscribe(q) PROVE TypeOK'
  <2>1. QueuesType'
    <3>1. CASE "sub" \in closed BY <1>6, <3>1 DEF UserSubscribe
    <3>2. CASE "sub" \notin closed
      <4>1. Append(subQ, q) \in Seq(Request) OBVIOUS
      <4>2. QED BY <1>6, <3>2, <4>1, Zenon DEF UserSubscribe
    <3>3. QED BY <3>1, <3>2
  <2>2. EndingType' /\ AppType' BY <1>6 DEF UserSubscribe
  <2>3. QED BY <1>6, <2>1, <2>2 DEF UserSubscribe
<1>7. ASSUME NEW c \in Channel, UserUnsubscribe(c) PROVE TypeOK'
  <2>1. QueuesType'
    <3>1. CASE "unsub" \in closed BY <1>7, <3>1 DEF UserUnsubscribe
    <3>2. CASE "unsub" \notin closed
      <4>1. Append(unsubQ, c) \in Seq(Channel) OBVIOUS
      <4>2. QED BY <1>7, <3>2, <4>1, Zenon DEF UserUnsubscribe
    <3>3. QED BY <3>1, <3>2
  <2>2. EndingType' /\ AppType' BY <1>7 DEF UserUnsubscribe
  <2>3. QED BY <1>7, <2>1, <2>2 DEF UserUnsubscribe
<1>8. ASSUME NEW l \in Loops, Start(l) PROVE TypeOK'
  BY <1>8 DEF Start, At
<1>9. ASSUME NEW l \in Loops, Cancel(l) PROVE TypeOK'
  BY <1>9 DEF Cancel
<1>10. QED BY <1>1, <1>2, <1>3, <1>4, <1>5, <1>6, <1>7, <1>8, <1>9
           DEF Disconnecting, User

-----------------------------------------------------------------------------
\* One poll loop, one session.

\* A step that neither handshakes nor starts to poll keeps the invariant.
Quiet ==
  /\ UNCHANGED <<csm, clientID>>
  /\ \A k \in Loops :
       /\ pc'[k] \in PollingPc => pc[k] \in PollingPc
       /\ pc'[k] \in {"hsWait", "rehsWait"} => pc'[k] = pc[k]
       /\ pc'[k] = "drainSub" => todo'[k] # <<>>

\* A quiet step keeps the invariant.
LEMMA QuietKeeps ==
  ASSUME IInv, TypeOK', ClosingInRange', Quiet
  PROVE  IInv'
BY DEF IInv, Quiet, Draining, OneLoop, PollingIsConnecting, HandshakePending,
       SessionIsConnected, Polling

\* The select statement is quiet.
LEMMA SelectQuiet ==
  ASSUME NEW l \in Loops, TypeOK, Draining, Select(l)
  PROVE  Quiet /\ UNCHANGED <<dpc, closing>>
<1> USE DEF TypeOK, LoopsType, Draining, Quiet, session, work, ending, app,
            server, At, Go, Fail, PollingPc
<1>1. CASE PollCancelled(l)   BY <1>1 DEF PollCancelled
<1>2. CASE PollHandshake(l)   BY <1>2 DEF PollHandshake
<1>3. CASE PollMessage(l)     BY <1>3 DEF PollMessage
<1>4. CASE PollDefault(l)     BY <1>4 DEF PollDefault
<1>5. CASE PollSubscribe(l)   BY <1>5 DEF PollSubscribe
<1>6. CASE PollUnsubscribe(l) BY <1>6 DEF PollUnsubscribe
<1>7. CASE ConnectSend(l)     BY <1>7 DEF ConnectSend
<1>8. QED BY <1>1, <1>2, <1>3, <1>4, <1>5, <1>6, <1>7 DEF Select

\* So is every other step of a loop but the two of the handshake.
LEMMA StepQuiet ==
  ASSUME NEW l \in Loops, TypeOK, Draining, Step(l),
         ~ Handshake(l), ~ HandshakeOk(l)
  PROVE  Quiet /\ UNCHANGED <<dpc, closing>>
<1> USE DEF TypeOK, LoopsType, QueuesType, Draining, Quiet, session, work, ending,
            app, server, At, Go, Fail, ReportOrFail, PollingPc
<1>1. CASE HandshakeError(l)   BY <1>1 DEF HandshakeError
<1>2. CASE SendHandshake(l)    BY <1>2 DEF SendHandshake
<1>3. CASE DrainSubscribe(l)
  <2>1. Head(subQ) \in Request BY <1>3 DEF DrainSubscribe
  <2>2. BeforeLast(todo[l], Head(subQ)) # <<>>
    BY <1>3, <2>1, BeforeLastType DEF DrainSubscribe
  <2>3. QED BY <1>3, <2>2 DEF DrainSubscribe
<1>4. CASE DrainClosed(l)      BY <1>4 DEF DrainClosed
<1>5. CASE SubscribeSend(l)    BY <1>5 DEF SubscribeSend, DropSubscribe
<1>6. CASE SubscribeOk(l)      BY <1>6 DEF SubscribeOk
<1>7. CASE SubscribeError(l)   BY <1>7 DEF SubscribeError, DropSubscribe
<1>8. CASE AddSubscription(l)  BY <1>8 DEF AddSubscription
<1>9. CASE AddDone(l)          BY <1>9 DEF AddDone
<1>10. CASE DrainUnsubscribe(l) BY <1>10 DEF DrainUnsubscribe
<1>11. CASE UnsubscribeSend(l) BY <1>11 DEF UnsubscribeSend
<1>12. CASE UnsubscribeOk(l)   BY <1>12 DEF UnsubscribeOk
<1>13. CASE UnsubscribeError(l) BY <1>13 DEF UnsubscribeError
<1>14. CASE ConnectOk(l)       BY <1>14 DEF ConnectOk
<1>15. CASE ConnectError(l)    BY <1>15 DEF ConnectError
<1>16. CASE DeliverToApp(l)    BY <1>16 DEF DeliverToApp
<1>17. CASE DeliverToSelf(l)   BY <1>17 DEF DeliverToSelf
<1>18. CASE DeliverOrphan(l)   BY <1>18 DEF DeliverOrphan
<1>19. CASE DeliverDone(l)     BY <1>19 DEF DeliverDone
<1>20. CASE ReadError(l)       BY <1>20 DEF ReadError
<1>21. QED BY <1>1, <1>2, <1>3, <1>4, <1>5, <1>6, <1>7, <1>8, <1>9, <1>10,
              <1>11, <1>12, <1>13, <1>14, <1>15, <1>16, <1>17, <1>18, <1>19,
              <1>20 DEF Step

\* So are timers, Disconnect() and the application.
LEMMA OthersQuiet ==
  ASSUME TypeOK, Draining, ClosingInRange, TimerFires \/ Disconnecting \/ User
  PROVE  Quiet /\ ClosingInRange'
<1> USE DEF TypeOK, LoopsType, EndingType, Draining, ClosingInRange, CloseOrder,
            Quiet, session, work, ending, app, server, Go, PollingPc
<1>1. CASE TimerFires      BY <1>1 DEF TimerFires
<1>2. CASE DisconnectOk    BY <1>2 DEF DisconnectOk
<1>3. CASE DisconnectError BY <1>3 DEF DisconnectError
<1>4. CASE Close           BY <1>4 DEF Close
<1>5. CASE DisconnectCall  BY <1>5 DEF DisconnectCall
<1>6. ASSUME NEW q \in Request, UserSubscribe(q) PROVE Quiet /\ ClosingInRange'
  BY <1>6 DEF UserSubscribe
<1>7. ASSUME NEW c \in Channel, UserUnsubscribe(c) PROVE Quiet /\ ClosingInRange'
  BY <1>7 DEF UserUnsubscribe
<1>8. ASSUME NEW l \in Loops, Start(l) PROVE Quiet /\ ClosingInRange'
  BY <1>8 DEF Start, At
<1>9. ASSUME NEW l \in Loops, Cancel(l) PROVE Quiet /\ ClosingInRange'
  BY <1>9 DEF Cancel
<1>10. QED BY <1>1, <1>2, <1>3, <1>4, <1>5, <1>6, <1>7, <1>8, <1>9
           DEF Disconnecting, User

\* Only an unconnected client begins a handshake, and then nobody polls.
LEMMA HandshakeKeeps ==
  ASSUME NEW l \in Loops, IInv, TypeOK', Handshake(l)
  PROVE  IInv'
<1>1. UNCHANGED <<clientID, todo, dpc, closing>>
  BY DEF Handshake, work, ending
<1>2. CASE csm = Unconnected
  <2>1. \A k \in Loops : pc[k] \notin PollingPc
    BY <1>2 DEF IInv, PollingIsConnecting, Polling
  <2>2. pc' = [pc EXCEPT ![l] = "hsWait"] /\ csm' = Connecting
    BY <1>2, <2>1 DEF Handshake, Accepts, After, Go, At, PollingPc
  <2>3. QED
    BY <1>1, <1>2, <2>1, <2>2 DEF IInv, TypeOK, LoopsType, Draining, ClosingInRange,
       OneLoop, PollingIsConnecting, HandshakePending, SessionIsConnected, Polling,
       PollingPc, Unconnected, Connecting, Connected
<1>3. CASE csm # Unconnected
  <2>1. pc' = [pc EXCEPT ![l] = "fail"] /\ csm' = csm
    BY <1>3 DEF Handshake, Accepts, After, Fail
  <2>2. Quiet
    BY <1>1, <2>1 DEF Quiet, IInv, TypeOK, LoopsType, Draining, PollingPc
  <2>3. ClosingInRange' BY <1>1 DEF IInv, ClosingInRange
  <2>4. QED BY <2>2, <2>3, QuietKeeps
<1>4. QED BY <1>2, <1>3

\* The one handshake that is under way ends and grants the first session.
LEMMA HandshakeOkKeeps ==
  ASSUME NEW l \in Loops, IInv, TypeOK', HandshakeOk(l)
  PROVE  IInv' /\ clientID = NoID
<1>1. pc[l] = "hsWait" /\ csm = Connecting
  BY DEF HandshakeOk, At, IInv, HandshakePending
<1>2. clientID = NoID
  BY <1>1 DEF IInv, SessionIsConnected, Connecting, Connected
<1>3. pc' = [pc EXCEPT ![l] = "select"] /\ csm' = Connected
  BY <1>1 DEF HandshakeOk, Go, Accepts, After, Connecting, Connected
<1>4. UNCHANGED <<todo, dpc, closing>> BY DEF HandshakeOk, work, ending
<1>5. \A k \in Loops : pc[k] = "hsWait" => k = l
  BY <1>1 DEF IInv, OneLoop, Polling, PollingPc
<1>6. IInv'
  BY <1>1, <1>3, <1>4, <1>5 DEF IInv, TypeOK, LoopsType, Draining, ClosingInRange,
     OneLoop, PollingIsConnecting, HandshakePending, SessionIsConnected, Polling,
     PollingPc, Unconnected, Connecting, Connected
<1>7. QED BY <1>2, <1>6

\* IInv holds at first and every step keeps it; only a handshake changes the
\* session, and only from none.
LEMMA InitIInv == Init => IInv
<1> SUFFICES ASSUME Init PROVE IInv OBVIOUS
<1>1. TypeOK BY InitTypeOK
<1>2. \A l \in Loops : pc[l] = "new" BY DEF Init
<1>3. QED
  BY <1>1, <1>2 DEF Init, IInv, Draining, ClosingInRange, OneLoop,
     PollingIsConnecting, HandshakePending, SessionIsConnected, Polling, PollingPc

\* Every step keeps the invariant, and none replaces a session.
LEMMA NextIInv ==
  ASSUME IInv, [Next]_vars
  PROVE  IInv' /\ (clientID' # clientID => clientID = NoID)
<1>1. ASSUME NEW l \in Loops, Select(l)
      PROVE  IInv' /\ (clientID' # clientID => clientID = NoID)
  <2>1. TypeOK' BY <1>1, SelectTypeOK DEF IInv
  <2>2. Quiet /\ UNCHANGED <<dpc, closing>> BY <1>1, SelectQuiet DEF IInv
  <2>3. ClosingInRange' BY <2>2 DEF IInv, ClosingInRange
  <2>4. QED BY <2>1, <2>2, <2>3, QuietKeeps DEF Quiet
<1>2. ASSUME NEW l \in Loops, Step(l)
      PROVE  IInv' /\ (clientID' # clientID => clientID = NoID)
  <2>1. TypeOK' BY <1>2, StepTypeOK DEF IInv
  <2>2. CASE Handshake(l)
    <3>1. clientID' = clientID BY <2>2 DEF Handshake
    <3>2. QED BY <2>1, <2>2, <3>1, HandshakeKeeps
  <2>3. CASE HandshakeOk(l) BY <2>1, <2>3, HandshakeOkKeeps
  <2>4. CASE ~ Handshake(l) /\ ~ HandshakeOk(l)
    <3>1. Quiet /\ UNCHANGED <<dpc, closing>> BY <1>2, <2>4, StepQuiet DEF IInv
    <3>2. ClosingInRange' BY <3>1 DEF IInv, ClosingInRange
    <3>3. QED BY <2>1, <3>1, <3>2, QuietKeeps DEF Quiet
  <2>5. QED BY <2>2, <2>3, <2>4
<1>3. ASSUME TimerFires \/ Disconnecting \/ User
      PROVE  IInv' /\ (clientID' # clientID => clientID = NoID)
  <2>1. TypeOK' BY <1>3, OthersTypeOK DEF IInv
  <2>2. Quiet /\ ClosingInRange' BY <1>3, OthersQuiet DEF IInv
  <2>3. QED BY <2>1, <2>2, QuietKeeps DEF Quiet
<1>4. CASE UNCHANGED vars
  BY <1>4 DEF vars, session, queues, work, ending, app, server, IInv, TypeOK,
     SessionType, SubsType, QueuesType, LoopsType, EndingType, AppType, ServerType,
     Draining, ClosingInRange, OneLoop, PollingIsConnecting, HandshakePending,
     SessionIsConnected, Polling
<1>5. QED BY <1>1, <1>2, <1>3, <1>4 DEF Next

\* The inductive invariant holds in every reachable state.
THEOREM ClientInvariant == Spec => []IInv
<1>1. IInv /\ [Next]_vars => IInv' BY NextIInv
<1>2. QED BY InitIInv, <1>1, PTL DEF Spec

\* Every variable keeps its type.
THEOREM ClientTypeOK == Spec => []TypeOK
<1>1. IInv => TypeOK BY DEF IInv
<1>2. QED BY ClientInvariant, <1>1, PTL

\* However many times Start() is called, and whatever the server, the
\* application and the network do, at most one goroutine polls.
THEOREM ClientOneLoop == Spec => []OneLoop
<1>1. IInv => OneLoop BY DEF IInv
<1>2. QED BY ClientInvariant, <1>1, PTL

\* The client id is set once.
THEOREM ClientSessionKept == Spec => SessionKept
<1>1. IInv /\ [Next]_vars => [clientID' # clientID => clientID = NoID]_vars
  BY NextIInv
<1>2. QED BY ClientInvariant, <1>1, PTL DEF Spec, SessionKept

\* A handshake that has failed is the last: a goroutine waits for the answer to one
\* only after the state machine has left Unconnected, where it never returns.
THEOREM ClientStrandedForGood == Spec => StrandedForGood
<1>1. ASSUME IInv, Stranded, Next PROVE Stranded'
  <2>1. csm = Connecting /\ \A k \in Loops : pc[k] \notin {"hsWait", "rehsWait"}
    BY <1>1 DEF IInv, HandshakePending, Stranded
  <2>2. ASSUME Quiet PROVE Stranded' BY <2>1, <2>2 DEF Quiet, Stranded
  <2>3. ASSUME NEW l \in Loops, Handshake(l) PROVE Stranded'
    <3>1. pc' = [pc EXCEPT ![l] = "fail"] /\ csm' = csm
      BY <2>1, <2>3 DEF Handshake, Accepts, After, Fail, Unconnected, Connecting,
         Connected
    <3>2. QED BY <1>1, <2>1, <3>1 DEF Stranded, IInv, TypeOK, LoopsType
  <2>4. ASSUME NEW l \in Loops, HandshakeOk(l) PROVE Stranded'
    BY <2>1, <2>4 DEF HandshakeOk, At
  <2>5. ASSUME NEW l \in Loops, Select(l) \/ Step(l) PROVE Stranded'
    BY <1>1, <2>2, <2>3, <2>4, <2>5, SelectQuiet, StepQuiet DEF IInv
  <2>6. CASE TimerFires \/ Disconnecting \/ User
    BY <1>1, <2>2, <2>6, OthersQuiet DEF IInv
  <2>7. QED BY <1>1, <2>5, <2>6 DEF Next
<1>2. IInv /\ [Next]_vars => [Stranded => Stranded']_vars BY <1>1
<1>3. QED BY ClientInvariant, <1>2, PTL DEF Spec, StrandedForGood

-----------------------------------------------------------------------------
\* The client implements Session.  Most steps are aside: they touch neither
\* response nor request nor receiver.  Those that are not are steps of the
\* only loop that may poll, and it owns both.

\* A step that leaves responses, connect requests and receivers alone.
Aside ==
  /\ UNCHANGED <<rest, served, received>>
  /\ \A k \in Loops :
       /\ pc'[k] = "connWait" <=> pc[k] = "connWait"
       /\ pc[k] = "deliver" => pc'[k] = "deliver"

\* What Session sees of the state is left as it is by a step that is aside.
LEMMA AsideKeeps ==
  ASSUME RestOwner, Aside
  PROVE  /\ RestOwner'
         /\ Remaining(rest)' = Remaining(rest)
         /\ OutstandingConnect' <=> OutstandingConnect
         /\ UNCHANGED <<served, received>>
<1>1. RestOwner' BY DEF RestOwner, Aside
<1>2. Remaining(rest)' = Remaining(rest) BY DEF Remaining, Aside
<1>3. OutstandingConnect' <=> OutstandingConnect BY DEF OutstandingConnect, Aside
<1>4. QED BY <1>1, <1>2, <1>3 DEF Aside

\* What remains of the one response that is being worked through.
LEMMA RemainingOne ==
  ASSUME NEW r, NEW l \in Loops, \A k \in Loops : k # l => r[k] = <<>>
  PROVE  Remaining(r) = r[l]
<1>1. CASE r[l] = <<>> BY <1>1 DEF Remaining
<1>2. CASE r[l] # <<>>
  <2>1. (CHOOSE k \in Loops : r[k] # <<>>) = l BY <1>2
  <2>2. QED BY <1>2, <2>1 DEF Remaining
<1>3. QED BY <1>1, <1>2

\* The cases of the select statement are aside, all but the connect request.
LEMMA SelectAside ==
  ASSUME NEW l \in Loops, TypeOK, Select(l), ~ ConnectSend(l)
  PROVE  Aside /\ UNCHANGED <<csm, clientID, subs>>
<1> USE DEF TypeOK, LoopsType, Aside, session, work, app, server, At, Go, Fail
<1>1. CASE PollCancelled(l)   BY <1>1 DEF PollCancelled
<1>2. CASE PollHandshake(l)   BY <1>2 DEF PollHandshake
<1>3. CASE PollMessage(l)     BY <1>3 DEF PollMessage
<1>4. CASE PollDefault(l)     BY <1>4 DEF PollDefault
<1>5. CASE PollSubscribe(l)   BY <1>5 DEF PollSubscribe
<1>6. CASE PollUnsubscribe(l) BY <1>6 DEF PollUnsubscribe
<1>7. QED BY <1>1, <1>2, <1>3, <1>4, <1>5, <1>6 DEF Select

\* The steps of a loop that are neither a handshake nor part of a connect.
LEMMA StepAside ==
  ASSUME NEW l \in Loops, TypeOK, MetaEntry,
         \/ HandshakeError(l) \/ SendHandshake(l) \/ DrainSubscribe(l)
         \/ DrainClosed(l) \/ SubscribeSend(l) \/ SubscribeOk(l)
         \/ SubscribeError(l) \/ AddSubscription(l) \/ AddDone(l)
         \/ DrainUnsubscribe(l) \/ UnsubscribeSend(l) \/ UnsubscribeOk(l)
         \/ UnsubscribeError(l) \/ ReadError(l)
  PROVE  Aside /\ MetaEntry' /\ UNCHANGED <<csm, clientID>>
<1> USE DEF TypeOK, LoopsType, QueuesType, MetaEntry, Aside, session, work,
            app, server, At, Go, Fail, ReportOrFail
<1>1. CASE HandshakeError(l)   BY <1>1 DEF HandshakeError
<1>2. CASE SendHandshake(l)    BY <1>2 DEF SendHandshake
<1>3. CASE DrainSubscribe(l)   BY <1>3 DEF DrainSubscribe
<1>4. CASE DrainClosed(l)      BY <1>4 DEF DrainClosed
<1>5. CASE SubscribeSend(l)    BY <1>5 DEF SubscribeSend, DropSubscribe
<1>6. CASE SubscribeOk(l)      BY <1>6 DEF SubscribeOk
<1>7. CASE SubscribeError(l)   BY <1>7 DEF SubscribeError, DropSubscribe
<1>8. CASE AddSubscription(l)
  <2>1. Head(todo[l]) \in Request BY <1>8 DEF AddSubscription
  <2>2. Head(todo[l]).ch \in Channel /\ Head(todo[l]).to \in Receiver
    BY <2>1 DEF Request
  <2>3. MetaEntry'
    BY <1>8, <2>2, SetAssumption DEF AddSubscription, SubsType
  <2>4. Aside BY <1>8 DEF AddSubscription
  <2>5. QED BY <1>8, <2>3, <2>4 DEF AddSubscription
<1>9. CASE AddDone(l)          BY <1>9 DEF AddDone
<1>10. CASE DrainUnsubscribe(l) BY <1>10 DEF DrainUnsubscribe
<1>11. CASE UnsubscribeSend(l) BY <1>11 DEF UnsubscribeSend
<1>12. CASE UnsubscribeOk(l)
  <2>1. MetaEntry' BY <1>12, SetAssumption DEF UnsubscribeOk, SubsType
  <2>2. Aside BY <1>12 DEF UnsubscribeOk
  <2>3. QED BY <1>12, <2>1, <2>2 DEF UnsubscribeOk
<1>13. CASE UnsubscribeError(l) BY <1>13 DEF UnsubscribeError
<1>14. CASE ReadError(l)       BY <1>14 DEF ReadError
<1>15. QED BY <1>1, <1>2, <1>3, <1>4, <1>5, <1>6, <1>7, <1>8, <1>9, <1>10,
              <1>11, <1>12, <1>13, <1>14

\* Timers, Disconnect() and the calls of the application are aside.
LEMMA OthersAside ==
  ASSUME TypeOK, TimerFires \/ Disconnecting \/ User
  PROVE  Aside /\ UNCHANGED <<csm, clientID, subs>>
<1> USE DEF TypeOK, LoopsType, Aside, session, work, ending, app, server, Go
<1>1. CASE TimerFires      BY <1>1 DEF TimerFires
<1>2. CASE DisconnectOk    BY <1>2 DEF DisconnectOk
<1>3. CASE DisconnectError BY <1>3 DEF DisconnectError
<1>4. CASE Close           BY <1>4 DEF Close
<1>5. CASE DisconnectCall  BY <1>5 DEF DisconnectCall
<1>6. ASSUME NEW q \in Request, UserSubscribe(q)
      PROVE  Aside /\ UNCHANGED <<csm, clientID, subs>>
  BY <1>6 DEF UserSubscribe
<1>7. ASSUME NEW c \in Channel, UserUnsubscribe(c)
      PROVE  Aside /\ UNCHANGED <<csm, clientID, subs>>
  BY <1>7 DEF UserUnsubscribe
<1>8. ASSUME NEW l \in Loops, Start(l)
      PROVE  Aside /\ UNCHANGED <<csm, clientID, subs>>
  BY <1>8 DEF Start, At
<1>9. ASSUME NEW l \in Loops, Cancel(l)
      PROVE  Aside /\ UNCHANGED <<csm, clientID, subs>>
  BY <1>9 DEF Cancel
<1>10. QED BY <1>1, <1>2, <1>3, <1>4, <1>5, <1>6, <1>7, <1>8, <1>9
           DEF Disconnecting, User

-----------------------------------------------------------------------------
\* A step that is aside and leaves the session alone is a stutter of Session.
LEMMA Stutter ==
  ASSUME RestOwner, Aside, UNCHANGED <<csm, clientID>>
  PROVE  RestOwner' /\ UNCHANGED Abstract!vars
<1>1. /\ RestOwner'
      /\ Remaining(rest)' = Remaining(rest)
      /\ OutstandingConnect' <=> OutstandingConnect
      /\ UNCHANGED <<served, received>>
  BY AsideKeeps
<1>2. OutstandingConnect' = OutstandingConnect BY <1>1 DEF OutstandingConnect
<1>3. QED BY <1>1, <1>2 DEF Abstract!vars, Abstract!session

\* The loop that may poll owns the request and the response, before and after
\* its own steps.
LEMMA Owner ==
  ASSUME OneLoop, RestOwner, NEW l \in Loops, Polling(l),
         \A k \in Loops : k # l => rest'[k] = rest[k] /\ pc'[k] = pc[k],
         rest'[l] # <<>> => pc'[l] = "deliver"
  PROVE  /\ RestOwner'
         /\ Remaining(rest) = rest[l] /\ Remaining(rest)' = rest'[l]
         /\ OutstandingConnect <=> pc[l] = "connWait"
         /\ OutstandingConnect' <=> pc'[l] = "connWait"
<1>1. \A k \in Loops : k # l => rest[k] = <<>> /\ pc[k] # "connWait"
  BY DEF OneLoop, RestOwner, Polling, PollingPc
<1>2. Remaining(rest) = rest[l] BY <1>1, RemainingOne
<1>3. Remaining(rest') = rest'[l] BY <1>1, RemainingOne
<1>4. RestOwner' BY <1>1 DEF RestOwner
<1>5. OutstandingConnect <=> pc[l] = "connWait" BY <1>1 DEF OutstandingConnect
<1>6. OutstandingConnect' <=> pc'[l] = "connWait"
  BY <1>1 DEF OutstandingConnect
<1>7. Remaining(rest)' = rest'[l] BY <1>3 DEF Remaining
<1>8. QED BY <1>2, <1>4, <1>5, <1>6, <1>7

\* The handshake of start() begins the session, or fails before it is sent.
LEMMA HandshakeStep ==
  ASSUME RInv, NEW l \in Loops, Handshake(l)
  PROVE  RestOwner' /\ MetaEntry' /\ [Abstract!Next]_(Abstract!vars)
<1> USE DEF RInv, IInv
<1>1. Aside
  BY DEF Aside, Handshake, TypeOK, LoopsType, server, app, work, At, Go, Fail
<1>2. MetaEntry' BY DEF MetaEntry, Handshake
<1>3. CASE Accepts("handshakeSent", csm)
  <2>1. csm = "UNCONNECTED" /\ csm' = "CONNECTING" /\ clientID' = clientID
    BY <1>3 DEF Handshake, Accepts, After, Unconnected, Connecting
  <2>2. /\ RestOwner'
        /\ Remaining(rest)' = Remaining(rest)
        /\ OutstandingConnect' <=> OutstandingConnect
        /\ UNCHANGED <<served, received>>
    BY <1>1, AsideKeeps
  <2>3. OutstandingConnect' = OutstandingConnect BY <2>2 DEF OutstandingConnect
  <2>4. Abstract!Begin BY <2>1, <2>2, <2>3 DEF Abstract!Begin
  <2>5. QED BY <1>2, <2>2, <2>4 DEF Abstract!Next
<1>4. CASE ~ Accepts("handshakeSent", csm)
  <2>1. UNCHANGED <<csm, clientID>> BY <1>4 DEF Handshake, After
  <2>2. QED BY <1>1, <1>2, <2>1, Stutter
<1>5. QED BY <1>3, <1>4

\* An accepted handshake grants the session.
LEMMA HandshakeOkStep ==
  ASSUME RInv, NEW l \in Loops, HandshakeOk(l)
  PROVE  RestOwner' /\ MetaEntry' /\ [Abstract!Next]_(Abstract!vars)
<1> USE DEF RInv, IInv
<1>1. pc[l] = "hsWait" /\ csm = Connecting
  BY DEF HandshakeOk, HandshakePending, At
<1>2. Aside
  BY DEF Aside, HandshakeOk, TypeOK, LoopsType, server, app, work, At, Go
<1>3. MetaEntry'
  <2>1. subs' = [subs EXCEPT ![MetaConnect] = IF @ = None THEN Inner ELSE @]
    BY <1>1 DEF HandshakeOk, At
  <2>2. QED BY <2>1, SetAssumption DEF MetaEntry, TypeOK, SubsType
<1>4. csm = "CONNECTING" /\ csm' = "CONNECTED" /\ clientID' \in ClientIDs
  BY <1>1 DEF HandshakeOk, Accepts, After, Connecting, Connected
<1>5. /\ RestOwner'
      /\ Remaining(rest)' = Remaining(rest)
      /\ OutstandingConnect' <=> OutstandingConnect
      /\ UNCHANGED <<served, received>>
  BY <1>2, AsideKeeps
<1>6. OutstandingConnect' = OutstandingConnect BY <1>5 DEF OutstandingConnect
<1>7. Abstract!Grant BY <1>4, <1>5, <1>6 DEF Abstract!Grant
<1>8. QED BY <1>3, <1>5, <1>7 DEF Abstract!Next

\* A request is sent only while none is outstanding and nothing remains of the
\* last response.
LEMMA ConnectSendStep ==
  ASSUME RInv, NEW l \in Loops, ConnectSend(l)
  PROVE  RestOwner' /\ MetaEntry' /\ [Abstract!Next]_(Abstract!vars)
<1> USE DEF RInv, IInv
<1>1. pc[l] = "select" /\ Polling(l)
  BY DEF ConnectSend, At, Polling, PollingPc
<1>2. /\ UNCHANGED <<csm, clientID, subs, rest, served, received>>
      /\ \A k \in Loops : k # l => pc'[k] = pc[k]
  BY DEF ConnectSend, session, work, server, app, Go, Fail, TypeOK, LoopsType
<1>3. rest[l] = <<>> BY <1>1 DEF RestOwner
<1>4. /\ RestOwner'
      /\ Remaining(rest) = rest[l] /\ Remaining(rest)' = rest'[l]
      /\ OutstandingConnect <=> pc[l] = "connWait"
      /\ OutstandingConnect' <=> pc'[l] = "connWait"
  BY <1>1, <1>2, <1>3, Owner
<1>5. MetaEntry' BY <1>2 DEF MetaEntry
<1>6. CASE CanSend
  <2>1. pc'[l] = "connWait" BY <1>6 DEF ConnectSend, Go, TypeOK, LoopsType
  <2>2. csm = "CONNECTED" /\ clientID # NoID
    BY <1>6 DEF CanSend, Connected
  <2>3. OutstandingConnect' = TRUE BY <1>4, <2>1 DEF OutstandingConnect
  <2>4. ~ OutstandingConnect BY <1>1, <1>4
  <2>5. Abstract!Request
    BY <1>2, <1>3, <1>4, <2>2, <2>3, <2>4 DEF Abstract!Request, Abstract!session
  <2>6. QED BY <1>4, <1>5, <2>5 DEF Abstract!Next
<1>7. CASE ~ CanSend
  <2>1. pc'[l] = "fail" BY <1>7 DEF ConnectSend, Fail, TypeOK, LoopsType
  <2>2. OutstandingConnect' = OutstandingConnect
    BY <1>1, <1>4, <2>1 DEF OutstandingConnect
  <2>3. UNCHANGED Abstract!vars
    BY <1>2, <1>4, <2>2 DEF Abstract!vars, Abstract!session
  <2>4. QED BY <1>4, <1>5, <2>3
<1>8. QED BY <1>6, <1>7

\* One element in front of or behind a sequence.
LEMMA Ends ==
  ASSUME NEW S, NEW d \in Seq(S), NEW x \in S
  PROVE  /\ Len(d \o <<x>>) = Len(d) + 1
         /\ (d \o <<x>>)[Len(d) + 1] = x
         /\ \A i \in 1 .. Len(d) : (d \o <<x>>)[i] = d[i]
         /\ Len(<<x>> \o d) = Len(d) + 1
         /\ (<<x>> \o d)[1] = x
         /\ \A i \in 2 .. Len(d) + 1 : (<<x>> \o d)[i] = d[i - 1]
<1>1. /\ <<x>> \in Seq(S) /\ Len(<<x>>) = 1 /\ <<x>>[1] = x
      /\ Len(d) \in Nat
  OBVIOUS
<1>2. /\ Len(d \o <<x>>) = Len(d) + 1
      /\ (d \o <<x>>)[Len(d) + 1] = x
      /\ \A i \in 1 .. Len(d) : (d \o <<x>>)[i] = d[i]
  BY <1>1
<1>3. /\ Len(<<x>> \o d) = Len(d) + 1
      /\ (<<x>> \o d)[1] = x
      /\ \A i \in 2 .. Len(d) + 1 : (<<x>> \o d)[i] = d[i - 1]
  BY <1>1
<1>4. QED BY <1>2, <1>3

\* What a response holds: one reply at one end, and the data in order.
LEMMA ResponseShape ==
  ASSUME served \in Nat, srvSubs \subseteq Channel,
         NEW s \in Seq(Channel), NEW ms \in Responses(s)
  PROVE  /\ Len(ms) = 1 + Len(s)
         /\ \E reply \in {1, Len(ms)} :
              /\ ms[reply].ch = MetaConnect
              /\ \A i \in 1 .. Len(ms) \ {reply} :
                   /\ ms[i].ch # MetaConnect
                   /\ ms[i].n = served + i - (IF i > reply THEN 1 ELSE 0)
<1> DEFINE d == Data(s)
           S == [ch : Channel \cup {MetaConnect}, n : Nat, advice : Advices \cup {"absent"}]
<1>1. Len(s) \in Nat /\ DOMAIN s = 1 .. Len(s) OBVIOUS
<1>2. \A i \in 1 .. Len(s) : s[i] \in Channel OBVIOUS
<1>3. d = [i \in 1 .. Len(s) |-> [ch |-> s[i], n |-> served + i, advice |-> "absent"]]
  BY <1>1 DEF Data
<1>4. /\ d \in Seq(S) /\ Len(d) = Len(s)
      /\ \A i \in 1 .. Len(s) : d[i].ch \in Channel /\ d[i].n = served + i
  BY <1>1, <1>2, <1>3
<1>5. PICK a \in Advices : ms = d \o Reply(a) \/ ms = Reply(a) \o d
  BY DEF Responses
<1> DEFINE x == [ch |-> MetaConnect, n |-> 0, advice |-> a]
<1>6. x \in S /\ x.ch = MetaConnect /\ Reply(a) = <<x>> BY DEF Reply
<1> HIDE DEF d, S, x
<1>7. CASE ms = d \o <<x>>
  <2>1. Len(ms) = 1 + Len(s) /\ ms[Len(ms)] = x BY <1>1, <1>4, <1>6, <1>7, Ends
  <2>2. \A i \in 1 .. Len(s) : ms[i] = d[i] BY <1>4, <1>6, <1>7, Ends
  <2>3. ASSUME NEW i \in 1 .. Len(ms) \ {Len(ms)}
        PROVE  /\ ms[i].ch # MetaConnect
               /\ ms[i].n = served + i - (IF i > Len(ms) THEN 1 ELSE 0)
    <3>1. i \in 1 .. Len(s) /\ ~ (i > Len(ms)) BY <1>1, <2>1
    <3>2. d[i].ch # MetaConnect /\ d[i].n = served + i
      BY <1>4, <3>1, SetAssumption
    <3>3. QED BY <2>2, <3>1, <3>2
  <2>4. QED BY <1>6, <2>1, <2>3
<1>8. CASE ms = <<x>> \o d
  <2>1. Len(ms) = 1 + Len(s) /\ ms[1] = x BY <1>1, <1>4, <1>6, <1>8, Ends
  <2>2. \A i \in 2 .. Len(s) + 1 : ms[i] = d[i - 1] BY <1>4, <1>6, <1>8, Ends
  <2>3. ASSUME NEW i \in 1 .. Len(ms) \ {1}
        PROVE  /\ ms[i].ch # MetaConnect
               /\ ms[i].n = served + i - (IF i > 1 THEN 1 ELSE 0)
    <3>1. i \in 2 .. Len(s) + 1 /\ i > 1 /\ i - 1 \in 1 .. Len(s)
      BY <1>1, <2>1
    <3>2. d[i - 1].ch # MetaConnect /\ d[i - 1].n = served + (i - 1)
      BY <1>4, <3>1, SetAssumption
    <3>3. ms[i] = d[i - 1] BY <2>2, <3>1
    <3>4. QED BY <3>1, <3>2, <3>3
  <2>4. QED BY <1>6, <2>1, <2>3
<1>9. QED BY <1>5, <1>6, <1>7, <1>8

\* The response answers the request.
LEMMA ConnectOkStep ==
  ASSUME RInv, NEW l \in Loops, ConnectOk(l)
  PROVE  RestOwner' /\ MetaEntry' /\ [Abstract!Next]_(Abstract!vars)
<1> USE DEF RInv, IInv
<1>1. pc[l] = "connWait" /\ Polling(l)
  BY DEF ConnectOk, At, Polling, PollingPc
<1>2. PICK s \in BoundedSeq(srvSubs, MaxBatch) :
        /\ served' = served + Len(s)
        /\ \E ms \in Responses(s) : rest' = [rest EXCEPT ![l] = ms]
  BY DEF ConnectOk
<1>3. PICK ms \in Responses(s) : rest' = [rest EXCEPT ![l] = ms] BY <1>2
<1>4. served \in Nat /\ srvSubs \subseteq Channel BY DEF TypeOK, ServerType
<1>5. s \in Seq(Channel) BY <1>4, ResponseType
<1>6. /\ UNCHANGED <<csm, clientID, subs, received>>
      /\ rest'[l] = ms /\ pc'[l] = "deliver"
      /\ \A k \in Loops : k # l => rest'[k] = rest[k] /\ pc'[k] = pc[k]
  BY <1>3 DEF ConnectOk, session, app, Go, TypeOK, LoopsType
<1>7. /\ RestOwner'
      /\ Remaining(rest)' = rest'[l]
      /\ OutstandingConnect <=> pc[l] = "connWait"
      /\ OutstandingConnect' <=> pc'[l] = "connWait"
  BY <1>1, <1>6, Owner
<1>8. MetaEntry' BY <1>6 DEF MetaEntry
<1>9. OutstandingConnect /\ ~ OutstandingConnect' BY <1>1, <1>6, <1>7
<1>10. Len(s) \in Nat BY <1>5
<1>11. served' \in Nat /\ Len(ms) = 1 + served' - served
  BY <1>2, <1>4, <1>5, <1>10, ResponseShape
<1>12. \E reply \in {1, Len(ms)} :
         /\ ms[reply].ch = MetaConnect
         /\ \A i \in 1 .. Len(ms) \ {reply} :
              /\ ms[i].ch # MetaConnect
              /\ ms[i].n = served + i - (IF i > reply THEN 1 ELSE 0)
  BY <1>4, <1>5, ResponseShape
<1>13. Abstract!Answer
  BY <1>6, <1>7, <1>9, <1>11, <1>12 DEF Abstract!Answer, Abstract!session
<1>14. QED BY <1>7, <1>8, <1>13 DEF Abstract!Next

\* A request without a good response ends it.
LEMMA ConnectErrorStep ==
  ASSUME RInv, NEW l \in Loops, ConnectError(l)
  PROVE  RestOwner' /\ MetaEntry' /\ [Abstract!Next]_(Abstract!vars)
<1> USE DEF RInv, IInv
<1>1. pc[l] = "connWait" /\ Polling(l)
  BY DEF ConnectError, At, Polling, PollingPc
<1>2. /\ UNCHANGED <<csm, clientID, subs, rest, served, received>>
      /\ pc'[l] = "fail" /\ \A k \in Loops : k # l => pc'[k] = pc[k]
  BY DEF ConnectError, session, work, server, app, Fail, TypeOK, LoopsType
<1>3. rest'[l] = <<>> BY <1>1, <1>2 DEF RestOwner
<1>4. /\ RestOwner'
      /\ Remaining(rest) = rest[l] /\ Remaining(rest)' = rest'[l]
      /\ OutstandingConnect <=> pc[l] = "connWait"
      /\ OutstandingConnect' <=> pc'[l] = "connWait"
  BY <1>1, <1>2, <1>3, Owner
<1>5. MetaEntry' BY <1>2 DEF MetaEntry
<1>6. OutstandingConnect /\ ~ OutstandingConnect' BY <1>1, <1>2, <1>4
<1>7. Abstract!Fail
  BY <1>2, <1>4, <1>6 DEF Abstract!Fail, Abstract!session
<1>8. QED BY <1>4, <1>5, <1>7 DEF Abstract!Next

\* A batch holds messages of the one channel it is looked up by.
LEMMA BatchShape ==
  ASSUME NEW ms \in Seq(Message), NEW k \in DOMAIN ms, BatchEnds(ms, k)
  PROVE  /\ k \in 1 .. Len(ms)
         /\ \A i \in 1 .. k : ms[i].ch = ms[1].ch
         /\ LastChannel(ms, k) = ms[1].ch
         /\ ms[1].ch \in Channel \cup {MetaConnect}
<1>1. k \in 1 .. Len(ms) OBVIOUS
<1>2. \A i \in 1 .. k : ms[i].ch = ms[1].ch BY DEF BatchEnds
<1>3. LastChannel(ms, k) = ms[1].ch BY <1>1, <1>2 DEF LastChannel
<1>4. QED BY <1>1, <1>2, <1>3, BatchType

\* A batch reaches the application.
LEMMA DeliverToAppStep ==
  ASSUME RInv, NEW l \in Loops, DeliverToApp(l)
  PROVE  RestOwner' /\ MetaEntry' /\ [Abstract!Next]_(Abstract!vars)
<1> USE DEF RInv, IInv
<1> DEFINE ms == rest[l]
<1>1. pc[l] = "deliver" /\ Polling(l)
  BY DEF DeliverToApp, At, Polling, PollingPc
<1>2. PICK k \in DOMAIN ms :
        /\ BatchEnds(ms, k)
        /\ subs[LastChannel(ms, k)] \in Receiver
        /\ received' = [received EXCEPT ![subs[LastChannel(ms, k)]] = @ \o Batch(ms, k)]
        /\ rest' = [rest EXCEPT ![l] = Others(@, k)]
  BY Zenon DEF DeliverToApp
<1>3. ms \in Seq(Message) BY DEF TypeOK, LoopsType
<1>4. /\ UNCHANGED <<csm, clientID, subs, served, pc>>
      /\ rest'[l] = SubSeq(ms, k + 1, Len(ms))
      /\ \A j \in Loops : j # l => rest'[j] = rest[j] /\ pc'[j] = pc[j]
  BY <1>2 DEF DeliverToApp, session, server, TypeOK, LoopsType, Others
<1>5. /\ RestOwner'
      /\ Remaining(rest) = rest[l] /\ Remaining(rest)' = rest'[l]
      /\ OutstandingConnect <=> pc[l] = "connWait"
      /\ OutstandingConnect' <=> pc'[l] = "connWait"
  BY <1>1, <1>4, Owner
<1>6. MetaEntry' BY <1>4 DEF MetaEntry
<1>7. OutstandingConnect' = OutstandingConnect BY <1>4 DEF OutstandingConnect
<1>8. /\ k \in 1 .. Len(ms)
      /\ \A i \in 1 .. k : ms[i].ch = ms[1].ch
      /\ LastChannel(ms, k) = ms[1].ch
      /\ ms[1].ch \in Channel \cup {MetaConnect}
  BY <1>2, <1>3, BatchShape
<1>9. ms[1].ch # MetaConnect BY <1>2, <1>8, SetAssumption DEF MetaEntry
<1>10. \E r \in Receiver :
         received' = [received EXCEPT ![r] = @ \o SubSeq(ms, 1, k)]
  BY <1>2 DEF Batch
<1>11. Abstract!HandOver
  BY <1>4, <1>5, <1>7, <1>8, <1>9, <1>10 DEF Abstract!HandOver, Abstract!session
<1>12. QED BY <1>5, <1>6, <1>11 DEF Abstract!Next

\* A batch reaches the client's own channel, or the process ends.
LEMMA DeliverToSelfStep ==
  ASSUME RInv, NEW l \in Loops, DeliverToSelf(l)
  PROVE  RestOwner' /\ MetaEntry' /\ [Abstract!Next]_(Abstract!vars)
<1> USE DEF RInv, IInv
<1> DEFINE ms == rest[l]
<1>1. pc[l] = "deliver" /\ Polling(l)
  BY DEF DeliverToSelf, At, Polling, PollingPc
<1>2. PICK k \in DOMAIN ms :
        /\ BatchEnds(ms, k)
        /\ subs[LastChannel(ms, k)] = Inner
        /\ \/ rest' = rest
           \/ rest' = [rest EXCEPT ![l] = Others(@, k)]
  BY DEF DeliverToSelf
<1>3. ms \in Seq(Message) BY DEF TypeOK, LoopsType
<1>4. /\ UNCHANGED <<csm, clientID, subs, served, pc, received>>
      /\ rest'[l] = ms \/ rest'[l] = SubSeq(ms, k + 1, Len(ms))
      /\ \A j \in Loops : j # l => rest'[j] = rest[j] /\ pc'[j] = pc[j]
  BY <1>2 DEF DeliverToSelf, session, server, app, TypeOK, LoopsType, Others
<1>5. /\ RestOwner'
      /\ Remaining(rest) = rest[l] /\ Remaining(rest)' = rest'[l]
      /\ OutstandingConnect <=> pc[l] = "connWait"
      /\ OutstandingConnect' <=> pc'[l] = "connWait"
  BY <1>1, <1>4, Owner
<1>6. MetaEntry' BY <1>4 DEF MetaEntry
<1>7. OutstandingConnect' = OutstandingConnect BY <1>4 DEF OutstandingConnect
<1>8. /\ k \in 1 .. Len(ms)
      /\ \A i \in 1 .. k : ms[i].ch = ms[1].ch
      /\ LastChannel(ms, k) = ms[1].ch
      /\ ms[1].ch \in Channel \cup {MetaConnect}
  BY <1>2, <1>3, BatchShape
<1>9. ms[1].ch = MetaConnect BY <1>2, <1>8 DEF MetaEntry
<1>10. CASE rest'[l] = ms
  BY <1>4, <1>5, <1>6, <1>7, <1>10 DEF Abstract!vars, Abstract!session
<1>11. CASE rest'[l] = SubSeq(ms, k + 1, Len(ms))
  <2>1. Abstract!HandOver
    BY <1>4, <1>5, <1>7, <1>8, <1>9, <1>11
    DEF Abstract!HandOver, Abstract!session
  <2>2. QED BY <1>5, <1>6, <2>1 DEF Abstract!Next
<1>12. QED BY <1>4, <1>10, <1>11

\* The rest of a response is dropped: no entry for it, or no batch in it.
LEMMA DeliverEndStep ==
  ASSUME RInv, NEW l \in Loops, DeliverOrphan(l) \/ DeliverDone(l)
  PROVE  RestOwner' /\ MetaEntry' /\ [Abstract!Next]_(Abstract!vars)
<1> USE DEF RInv, IInv
<1>1. pc[l] = "deliver" /\ Polling(l)
  BY DEF DeliverOrphan, DeliverDone, At, Polling, PollingPc
<1>2. /\ UNCHANGED <<csm, clientID, subs, served, received>>
      /\ rest'[l] = <<>> /\ pc'[l] \in {"fail", "select"}
      /\ \A j \in Loops : j # l => rest'[j] = rest[j] /\ pc'[j] = pc[j]
  <2>1. CASE DeliverOrphan(l)
    BY <2>1 DEF DeliverOrphan, session, server, app, Fail, TypeOK, LoopsType
  <2>2. CASE DeliverDone(l)
    BY <2>2 DEF DeliverDone, session, server, app, Go, TypeOK, LoopsType
  <2>3. QED BY <2>1, <2>2
<1>3. /\ RestOwner'
      /\ Remaining(rest) = rest[l] /\ Remaining(rest)' = rest'[l]
      /\ OutstandingConnect <=> pc[l] = "connWait"
      /\ OutstandingConnect' <=> pc'[l] = "connWait"
  BY <1>1, <1>2, Owner
<1>4. MetaEntry' BY <1>2 DEF MetaEntry
<1>5. OutstandingConnect' = OutstandingConnect
  BY <1>1, <1>2, <1>3 DEF OutstandingConnect
<1>6. CASE rest[l] = <<>>
  BY <1>2, <1>3, <1>4, <1>5, <1>6 DEF Abstract!vars, Abstract!session
<1>7. CASE rest[l] # <<>>
  <2>1. Abstract!Abandon
    BY <1>2, <1>3, <1>5, <1>7 DEF Abstract!Abandon, Abstract!session
  <2>2. QED BY <1>3, <1>4, <2>1 DEF Abstract!Next
<1>8. QED BY <1>6, <1>7

-----------------------------------------------------------------------------
\* A new client is a new session.
LEMMA InitRefines == Init => RInv /\ Abstract!Init
<1> SUFFICES ASSUME Init PROVE RInv /\ Abstract!Init OBVIOUS
<1>1. IInv BY InitIInv
<1>2. RestOwner /\ MetaEntry BY SetAssumption DEF Init, RestOwner, MetaEntry
<1>3. /\ \A l \in Loops : pc[l] = "new" /\ rest[l] = <<>>
      /\ csm = "UNCONNECTED" /\ clientID = NoID /\ served = 0
      /\ received = [r \in Receiver |-> <<>>]
  BY DEF Init, Unconnected
<1>4. Remaining(rest) = <<>> BY <1>3 DEF Remaining
<1>5. OutstandingConnect = FALSE BY <1>3 DEF OutstandingConnect
<1>6. Abstract!Init BY <1>3, <1>4, <1>5 DEF Abstract!Init
<1>7. QED BY <1>1, <1>2, <1>6 DEF RInv

\* Every step of the client is a step of Session or a stutter of it.
LEMMA NextRefines ==
  ASSUME RInv, [Next]_vars
  PROVE  RInv' /\ [Abstract!Next]_(Abstract!vars)
<1> SUFFICES RestOwner' /\ MetaEntry' /\ [Abstract!Next]_(Abstract!vars)
  BY NextIInv DEF RInv
<1>1. TypeOK /\ RestOwner /\ MetaEntry BY DEF RInv, IInv
<1>2. ASSUME NEW l \in Loops, Select(l), ~ ConnectSend(l)
      PROVE  RestOwner' /\ MetaEntry' /\ [Abstract!Next]_(Abstract!vars)
  <2>1. Aside /\ UNCHANGED <<csm, clientID, subs>> BY <1>1, <1>2, SelectAside
  <2>2. MetaEntry' BY <1>1, <2>1 DEF MetaEntry
  <2>3. QED BY <1>1, <2>1, <2>2, Stutter
<1>3. ASSUME NEW l \in Loops, Step(l)
      PROVE  RestOwner' /\ MetaEntry' /\ [Abstract!Next]_(Abstract!vars)
  <2>1. CASE \/ HandshakeError(l) \/ SendHandshake(l) \/ DrainSubscribe(l)
             \/ DrainClosed(l) \/ SubscribeSend(l) \/ SubscribeOk(l)
             \/ SubscribeError(l) \/ AddSubscription(l) \/ AddDone(l)
             \/ DrainUnsubscribe(l) \/ UnsubscribeSend(l) \/ UnsubscribeOk(l)
             \/ UnsubscribeError(l) \/ ReadError(l)
    BY <1>1, <2>1, StepAside, Stutter
  <2>2. CASE Handshake(l)     BY <2>2, HandshakeStep
  <2>3. CASE HandshakeOk(l)   BY <2>3, HandshakeOkStep
  <2>4. CASE ConnectOk(l)     BY <2>4, ConnectOkStep
  <2>5. CASE ConnectError(l)  BY <2>5, ConnectErrorStep
  <2>6. CASE DeliverToApp(l)  BY <2>6, DeliverToAppStep
  <2>7. CASE DeliverToSelf(l) BY <2>7, DeliverToSelfStep
  <2>8. CASE DeliverOrphan(l) \/ DeliverDone(l) BY <2>8, DeliverEndStep
  <2>9. QED
    BY <1>3, <2>1, <2>2, <2>3, <2>4, <2>5, <2>6, <2>7, <2>8 DEF Step
<1>4. CASE TimerFires \/ Disconnecting \/ User
  <2>1. Aside /\ UNCHANGED <<csm, clientID, subs>> BY <1>1, <1>4, OthersAside
  <2>2. MetaEntry' BY <1>1, <2>1 DEF MetaEntry
  <2>3. QED BY <1>1, <2>1, <2>2, Stutter
<1>5. CASE UNCHANGED vars
  <2>1. Aside /\ UNCHANGED <<csm, clientID, subs>>
    BY <1>5 DEF vars, Aside, session, work, app, server
  <2>2. MetaEntry' BY <1>1, <2>1 DEF MetaEntry
  <2>3. QED BY <1>1, <2>1, <2>2, Stutter
<1>6. ASSUME NEW l \in Loops, ConnectSend(l)
      PROVE  RestOwner' /\ MetaEntry' /\ [Abstract!Next]_(Abstract!vars)
  BY <1>6, ConnectSendStep
<1>7. QED BY <1>2, <1>3, <1>4, <1>5, <1>6 DEF Next

\* However many loops are started, and whatever server, network, application
\* and timers do, the client behaves as the one session of module Session.
THEOREM ClientImplementsSession == Spec => ImplementsSession
<1>1. RInv /\ [Next]_vars => RInv' /\ [Abstract!Next]_(Abstract!vars)
  BY NextRefines
<1>2. QED BY InitRefines, <1>1, PTL DEF Spec, ImplementsSession, Abstract!Spec
=============================================================================
