---------------------------- MODULE ClientDelivery ----------------------------
(***************************************************************************)
(* Theorems about what the client does with subscriptions and messages:    *)
(* who receives what, in which order, what is lost, how far the map of     *)
(* subscriptions and the server's agree, and what it takes to panic.       *)
(***************************************************************************)
EXTENDS ClientProofs, WellFoundedInduction

-----------------------------------------------------------------------------
\* Which steps touch responses and receivers, and which the subscriptions.
Responding(l) ==
  ConnectOk(l) \/ DeliverToApp(l) \/ DeliverToSelf(l) \/ DeliverOrphan(l)
  \/ DeliverDone(l)
Requesting(l) ==
  PollSubscribe(l) \/ DrainSubscribe(l) \/ SubscribeSend(l) \/ SubscribeError(l)
  \/ AddSubscription(l)
Mapping(l) == HandshakeOk(l) \/ AddSubscription(l) \/ UnsubscribeOk(l)

\* The cases of the select statement.
LEMMA SelectFootprint ==
  ASSUME NEW l \in Loops, Select(l)
  PROVE  /\ UNCHANGED <<subs, rest, served, received, asked>>
         /\ UNCHANGED <<subQ, todo>> \/ PollSubscribe(l)
<1> USE DEF session, work, app, server, queues
<1>1. CASE PollCancelled(l)   BY <1>1 DEF PollCancelled
<1>2. CASE PollHandshake(l)   BY <1>2 DEF PollHandshake
<1>3. CASE PollMessage(l)     BY <1>3 DEF PollMessage
<1>4. CASE PollDefault(l)     BY <1>4 DEF PollDefault
<1>5. CASE PollSubscribe(l)   BY <1>5 DEF PollSubscribe
<1>6. CASE PollUnsubscribe(l) BY <1>6 DEF PollUnsubscribe
<1>7. CASE ConnectSend(l)     BY <1>7 DEF ConnectSend
<1>8. QED BY <1>1, <1>2, <1>3, <1>4, <1>5, <1>6, <1>7 DEF Select

\* The other steps of a loop.
LEMMA StepFootprint ==
  ASSUME NEW l \in Loops, Step(l)
  PROVE  /\ UNCHANGED <<rest, served, received>> \/ Responding(l)
         /\ UNCHANGED <<subQ, todo>> \/ Requesting(l)
         /\ UNCHANGED subs \/ Mapping(l)
         /\ UNCHANGED asked
<1> USE DEF session, work, app, server, queues, Responding, Requesting, Mapping
<1>1. CASE Handshake(l)        BY <1>1 DEF Handshake
<1>2. CASE HandshakeOk(l)      BY <1>2 DEF HandshakeOk
<1>3. CASE HandshakeError(l)   BY <1>3 DEF HandshakeError
<1>4. CASE SendHandshake(l)    BY <1>4 DEF SendHandshake
<1>5. CASE DrainSubscribe(l)   BY <1>5 DEF DrainSubscribe
<1>6. CASE DrainClosed(l)      BY <1>6 DEF DrainClosed
<1>7. CASE SubscribeSend(l)    BY <1>7 DEF SubscribeSend
<1>8. CASE SubscribeOk(l)      BY <1>8 DEF SubscribeOk
<1>9. CASE SubscribeError(l)   BY <1>9 DEF SubscribeError
<1>10. CASE AddSubscription(l) BY <1>10 DEF AddSubscription
<1>11. CASE AddDone(l)         BY <1>11 DEF AddDone
<1>12. CASE DrainUnsubscribe(l) BY <1>12 DEF DrainUnsubscribe
<1>13. CASE UnsubscribeSend(l) BY <1>13 DEF UnsubscribeSend
<1>14. CASE UnsubscribeOk(l)   BY <1>14 DEF UnsubscribeOk
<1>15. CASE UnsubscribeError(l) BY <1>15 DEF UnsubscribeError
<1>16. CASE ConnectOk(l)       BY <1>16 DEF ConnectOk
<1>17. CASE ConnectError(l)    BY <1>17 DEF ConnectError
<1>18. CASE DeliverToApp(l)    BY <1>18 DEF DeliverToApp
<1>19. CASE DeliverToSelf(l)   BY <1>19 DEF DeliverToSelf
<1>20. CASE DeliverOrphan(l)   BY <1>20 DEF DeliverOrphan
<1>21. CASE DeliverDone(l)     BY <1>21 DEF DeliverDone
<1>22. CASE ReadError(l)       BY <1>22 DEF ReadError
<1>23. QED BY <1>1, <1>2, <1>3, <1>4, <1>5, <1>6, <1>7, <1>8, <1>9, <1>10,
              <1>11, <1>12, <1>13, <1>14, <1>15, <1>16, <1>17, <1>18, <1>19,
              <1>20, <1>21, <1>22 DEF Step

\* Timers, Disconnect() and the application, which only adds requests.
LEMMA OthersFootprint ==
  ASSUME TimerFires \/ Disconnecting \/ User
  PROVE  /\ UNCHANGED <<subs, rest, served, received, todo>>
         /\ UNCHANGED <<subQ, asked>> \/ \E q \in Request : UserSubscribe(q)
<1> USE DEF session, work, app, server, queues
<1>1. CASE TimerFires      BY <1>1 DEF TimerFires
<1>2. CASE DisconnectOk    BY <1>2 DEF DisconnectOk
<1>3. CASE DisconnectError BY <1>3 DEF DisconnectError
<1>4. CASE Close           BY <1>4 DEF Close
<1>5. CASE DisconnectCall  BY <1>5 DEF DisconnectCall
<1>6. CASE \E q \in Request : UserSubscribe(q)   BY <1>6 DEF UserSubscribe
<1>7. CASE \E c \in Channel : UserUnsubscribe(c) BY <1>7 DEF UserUnsubscribe
<1>8. CASE \E l \in Loops : Start(l) BY <1>8 DEF Start
<1>9. CASE \E l \in Loops : Cancel(l) BY <1>9 DEF Cancel
<1>10. QED BY <1>1, <1>2, <1>3, <1>4, <1>5, <1>6, <1>7, <1>8, <1>9
           DEF Disconnecting, User

\* All steps.
LEMMA Footprint ==
  ASSUME [Next]_vars
  PROVE  /\ \/ UNCHANGED <<rest, served, received>>
            \/ \E l \in Loops : Responding(l)
         /\ \/ UNCHANGED <<subQ, todo, asked>>
            \/ UNCHANGED asked /\ \E l \in Loops : Requesting(l)
            \/ UNCHANGED todo /\ \E q \in Request : UserSubscribe(q)
         /\ \/ UNCHANGED subs
            \/ \E l \in Loops : Mapping(l)
<1>1. CASE UNCHANGED vars BY <1>1 DEF vars, work, app, server, queues
<1>2. CASE \E l \in Loops : Select(l) BY <1>2, SelectFootprint DEF Requesting
<1>3. CASE \E l \in Loops : Step(l)   BY <1>3, StepFootprint
<1>4. CASE TimerFires \/ Disconnecting \/ User BY <1>4, OthersFootprint
<1>5. QED BY <1>1, <1>2, <1>3, <1>4 DEF Next

-----------------------------------------------------------------------------
\* A map of subscriptions that never changes hands.

\* The entries of the application change where it subscribes or unsubscribes.
LEMMA EntryStep ==
  ASSUME TypeOK, [Next]_vars, NEW c \in Channel, subs'[c] # subs[c]
  PROVE  \/ /\ subs[c] = None
            /\ \E l \in Loops : AddSubscription(l)
         \/ /\ subs'[c] = None
            /\ \E l \in Loops : UnsubscribeOk(l) /\ c \in gone[l]
<1>1. PICK l \in Loops : Mapping(l) BY Footprint
<1>2. subs \in [Channel \cup {MetaConnect} -> Receiver \cup {None, Inner}]
  BY DEF TypeOK, SubsType
<1>3. CASE HandshakeOk(l) BY <1>2, <1>3, SetAssumption DEF HandshakeOk
<1>4. CASE AddSubscription(l)
  <2>1. subs[c] = None BY <1>2, <1>4 DEF AddSubscription, Free
  <2>2. QED BY <1>4, <2>1
<1>5. CASE UnsubscribeOk(l)
  <2>1. c \in gone[l] /\ subs'[c] = None BY <1>2, <1>5 DEF UnsubscribeOk
  <2>2. QED BY <1>5, <2>1
<1>6. QED BY <1>1, <1>3, <1>4, <1>5 DEF Mapping

\* An entry goes to another receiver only by way of an unsubscribe request that
\* the server has acknowledged, whatever else goes on (subscriptions_map.go:20).
THEOREM ClientSubscriptionStable == Spec => SubscriptionStable
<1>1. TypeOK /\ [Next]_vars =>
        [\A c \in Channel : subs[c] # None /\ subs'[c] # subs[c] =>
           /\ subs'[c] = None
           /\ \E l \in Loops : pc[l] = "unsubWait" /\ c \in gone[l]]_vars
  BY EntryStep DEF UnsubscribeOk, At
<1>2. QED BY ClientTypeOK, <1>1, PTL DEF Spec, SubscriptionStable

-----------------------------------------------------------------------------
\* Sequences that are put together and cut.

\* A sequence over a set is one over every larger set.
LEMMA SeqGrows ==
  ASSUME NEW S, NEW T, S \subseteq T, NEW s \in Seq(S)
  PROVE  s \in Seq(T)
OBVIOUS

\* Each place in s \o t is one of s or one of t.
LEMMA Joined ==
  ASSUME NEW S, NEW s \in Seq(S), NEW t \in Seq(S), NEW i \in DOMAIN (s \o t)
  PROVE  /\ Len(s) \in Nat /\ i \in Nat
         /\ \/ /\ i <= Len(s) /\ i \in DOMAIN s
               /\ (s \o t)[i] = s[i]
            \/ /\ i > Len(s) /\ i - Len(s) \in DOMAIN t
               /\ (s \o t)[i] = t[i - Len(s)]
OBVIOUS

\* Each place of s and of t is one of s \o t.
LEMMA Joins ==
  ASSUME NEW S, NEW s \in Seq(S), NEW t \in Seq(S)
  PROVE  /\ \A i \in DOMAIN s : i \in DOMAIN (s \o t) /\ (s \o t)[i] = s[i]
         /\ \A i \in DOMAIN t : /\ Len(s) + i \in DOMAIN (s \o t)
                                /\ (s \o t)[Len(s) + i] = t[i]
<1>1. /\ Len(s) \in Nat /\ Len(t) \in Nat
      /\ DOMAIN s = 1 .. Len(s) /\ DOMAIN t = 1 .. Len(t)
  OBVIOUS
<1>2. \A i \in DOMAIN s : i \in DOMAIN (s \o t) /\ (s \o t)[i] = s[i] BY <1>1
<1>3. \A i \in DOMAIN t : /\ Len(s) + i \in DOMAIN (s \o t)
                         /\ (s \o t)[Len(s) + i] = t[i]
  BY <1>1
<1>4. QED BY <1>2, <1>3

\* The first k elements of s, and those after them.
LEMMA Cut ==
  ASSUME NEW S, NEW s \in Seq(S), NEW k \in DOMAIN s
  PROVE  /\ k \in Nat /\ DOMAIN s \subseteq Nat
         /\ DOMAIN SubSeq(s, 1, k) = 1 .. k
         /\ \A i \in 1 .. k : i \in DOMAIN s /\ SubSeq(s, 1, k)[i] = s[i]
         /\ DOMAIN SubSeq(s, k + 1, Len(s)) \subseteq Nat \ {0}
         /\ \A i \in DOMAIN SubSeq(s, k + 1, Len(s)) :
              /\ i + k \in DOMAIN s
              /\ SubSeq(s, k + 1, Len(s))[i] = s[i + k]
<1>1. /\ k \in 1 .. Len(s) /\ Len(s) \in Nat /\ DOMAIN s = 1 .. Len(s)
  OBVIOUS
<1>2. /\ DOMAIN SubSeq(s, 1, k) = 1 .. k
      /\ \A i \in 1 .. k : SubSeq(s, 1, k)[i] = s[i]
  BY <1>1
<1>3. /\ DOMAIN SubSeq(s, k + 1, Len(s)) = 1 .. Len(s) - k
      /\ \A i \in 1 .. Len(s) - k : SubSeq(s, k + 1, Len(s))[i] = s[i + k]
  BY <1>1
<1>4. \A i \in 1 .. k : i \in 1 .. Len(s) BY <1>1
<1>5. \A i \in 1 .. Len(s) - k : i \in Nat \ {0} /\ i + k \in 1 .. Len(s) BY <1>1
<1> DEFINE first == SubSeq(s, 1, k)
           others == SubSeq(s, k + 1, Len(s))
<1>6. /\ k \in Nat /\ DOMAIN s \subseteq Nat /\ DOMAIN first = 1 .. k
      /\ \A i \in 1 .. k : i \in DOMAIN s /\ first[i] = s[i]
  BY <1>1, <1>2, <1>4
<1>7. /\ DOMAIN others \subseteq Nat \ {0}
      /\ \A i \in DOMAIN others : i + k \in DOMAIN s /\ others[i] = s[i + k]
  BY <1>1, <1>3, <1>5
<1>8. QED BY <1>6, <1>7

-----------------------------------------------------------------------------
\* Requests, entries and receivers.

\* Wherever a request waits, it was asked for.
LEMMA RequestsStep ==
  ASSUME RInv, AskedFor, [Next]_vars
  PROVE  /\ asked \subseteq asked'
         /\ subQ' \in Seq(asked') /\ \A l \in Loops : todo'[l] \in Seq(asked')
<1> USE DEF RInv, IInv, TypeOK, LoopsType, QueuesType, AskedFor
<1>1. CASE UNCHANGED <<subQ, todo, asked>> BY <1>1
<1>2. CASE UNCHANGED todo /\ \E q \in Request : UserSubscribe(q)
  <2>1. PICK q \in Request :
          \/ UNCHANGED <<subQ, asked>>
          \/ subQ' = Append(subQ, q) /\ asked' = asked \cup {q}
    BY <1>2 DEF UserSubscribe
  <2>2. asked \subseteq asked' BY <2>1
  <2>3. subQ \in Seq(asked') /\ \A l \in Loops : todo[l] \in Seq(asked')
    BY <2>2, SeqGrows
  <2>4. CASE UNCHANGED <<subQ, asked>> BY <1>2, <2>4
  <2>5. CASE subQ' = Append(subQ, q) /\ asked' = asked \cup {q}
    <3>1. q \in asked' BY <2>5
    <3>2. Append(subQ, q) \in Seq(asked') BY <2>3, <3>1
    <3>3. QED BY <1>2, <2>2, <2>3, <2>5, <3>2
  <2>6. QED BY <2>1, <2>4, <2>5
<1>3. CASE UNCHANGED asked /\ \E l \in Loops : Requesting(l)
  <2>1. PICK l \in Loops : Requesting(l) BY <1>3
  <2>2. SUFFICES subQ' \in Seq(asked) /\ \A k \in Loops : todo'[k] \in Seq(asked)
    BY <1>3
  <2>3. CASE PollSubscribe(l)
    <3>1. subQ' = Tail(subQ) /\ todo' = [todo EXCEPT ![l] = <<Head(subQ)>>] /\ subQ # <<>>
      BY <2>3 DEF PollSubscribe
    <3>2. Head(subQ) \in asked /\ Tail(subQ) \in Seq(asked) BY <3>1
    <3>3. QED BY <3>1, <3>2
  <2>4. CASE DrainSubscribe(l)
    <3>1. /\ subQ' = Tail(subQ) /\ subQ # <<>>
          /\ todo' = [todo EXCEPT ![l] = BeforeLast(@, Head(subQ))]
      BY <2>4 DEF DrainSubscribe
    <3>2. Head(subQ) \in asked /\ Tail(subQ) \in Seq(asked) BY <3>1
    <3>3. todo[l] # <<>> BY <2>4 DEF DrainSubscribe, At, Draining
    <3>4. BeforeLast(todo[l], Head(subQ)) \in Seq(asked)
      <4>1. Len(todo[l]) \in Nat \ {0} /\ todo[l][Len(todo[l])] \in asked BY <3>3
      <4>2. SubSeq(todo[l], 1, Len(todo[l]) - 1) \in Seq(asked) BY <4>1
      <4>3. <<Head(subQ), todo[l][Len(todo[l])]>> \in Seq(asked) BY <3>2, <4>1
      <4>4. QED BY <4>2, <4>3 DEF BeforeLast
    <3>5. QED BY <3>1, <3>2, <3>4
  <2>5. CASE SubscribeSend(l) \/ SubscribeError(l)
    <3>1. subQ' = subQ /\ (todo' = todo \/ todo' = [todo EXCEPT ![l] = <<>>])
      BY <2>5 DEF SubscribeSend, SubscribeError, DropSubscribe, queues
    <3>2. <<>> \in Seq(asked) OBVIOUS
    <3>3. QED BY <3>1, <3>2
  <2>6. CASE AddSubscription(l)
    <3>1. subQ' = subQ /\ todo' = [todo EXCEPT ![l] = Tail(@)] /\ todo[l] # <<>>
      BY <2>6 DEF AddSubscription, queues
    <3>2. Tail(todo[l]) \in Seq(asked) BY <3>1
    <3>3. QED BY <3>1, <3>2
  <2>7. QED BY <2>1, <2>3, <2>4, <2>5, <2>6 DEF Requesting
<1>4. QED BY <1>1, <1>2, <1>3, Footprint

\* An entry is made of a request that was asked for.
LEMMA AskedForStep ==
  ASSUME RInv, AskedFor, [Next]_vars
  PROVE  AskedFor' /\ asked \subseteq asked'
<1>1. /\ asked \subseteq asked'
      /\ subQ' \in Seq(asked') /\ \A l \in Loops : todo'[l] \in Seq(asked')
  BY RequestsStep
<1>2. ASSUME NEW c \in Channel, subs'[c] \in Receiver
      PROVE  [ch |-> c, to |-> subs'[c]] \in asked
  <2>1. CASE subs'[c] = subs[c] BY <1>2, <2>1 DEF AskedFor
  <2>2. CASE subs'[c] # subs[c]
    <3>1. subs'[c] # None BY <1>2, SetAssumption
    <3>2. PICK l \in Loops : AddSubscription(l)
      BY <2>2, <3>1, EntryStep DEF RInv, IInv
    <3>3. todo[l] # <<>> /\ todo[l] \in Seq(asked) /\ todo[l] \in Seq(Request)
      BY <3>2 DEF AddSubscription, AskedFor, RInv, IInv, TypeOK, LoopsType
    <3> DEFINE q == Head(todo[l])
    <3>4. q \in asked /\ q \in Request BY <3>3
    <3>5. q.ch = c /\ q.to = subs'[c]
      BY <2>2, <3>2, <3>4 DEF AddSubscription, RInv, IInv, TypeOK, SubsType, Request
    <3>6. q = [ch |-> c, to |-> subs'[c]] BY <3>4, <3>5 DEF Request
    <3>7. QED BY <3>4, <3>6
  <2>3. QED BY <2>1, <2>2
<1>3. QED BY <1>1, <1>2 DEF AskedFor

-----------------------------------------------------------------------------
\* Messages, from the server's responses to the receivers.

\* Whatever leaves responses and receivers alone leaves the order alone.
LEMMA QuietDelivery ==
  ASSUME Ahead, InOrder, Routing, asked \subseteq asked',
         UNCHANGED <<rest, served, received>>
  PROVE  Ahead' /\ InOrder' /\ Routing'
BY DEF Ahead, InOrder, Routing, Remains

\* A loop that polls is the only one with a response to deliver.
LEMMA OneResponse ==
  ASSUME RInv, NEW l \in Loops, Polling(l)
  PROVE  \A k \in Loops : k # l => rest[k] = <<>> /\ Remains(k) = {}
<1>1. \A k \in Loops : k # l => rest[k] = <<>>
  BY DEF RInv, IInv, OneLoop, RestOwner, Polling, PollingPc
<1>2. DOMAIN <<>> = {} OBVIOUS
<1>3. QED BY <1>1, <1>2 DEF Remains

\* The messages of a new response are newer than all that were served before.
LEMMA ConnectOkAhead ==
  ASSUME RInv, Ahead, NEW l \in Loops, ConnectOk(l)
  PROVE  Ahead' /\ received' = received
<1> USE DEF RInv, IInv
<1>1. pc[l] = "connWait" /\ Polling(l)
  BY DEF ConnectOk, At, Polling, PollingPc
<1>2. PICK s \in BoundedSeq(srvSubs, MaxBatch) :
        /\ served' = served + Len(s)
        /\ \E ms \in Responses(s) : rest' = [rest EXCEPT ![l] = ms]
  BY DEF ConnectOk
<1>3. PICK ms \in Responses(s) : rest' = [rest EXCEPT ![l] = ms] BY <1>2
<1>4. served \in Nat /\ srvSubs \subseteq Channel BY DEF TypeOK, ServerType
<1>5. s \in Seq(Channel) /\ ms \in Seq(Message) BY <1>4, ResponseType
<1>6. received' = received BY DEF ConnectOk, app
<1>7. rest'[l] = ms /\ \A k \in Loops : k # l => rest'[k] = rest[k]
  BY <1>3 DEF TypeOK, LoopsType
<1>8. \A k \in Loops : k # l => Remains(k)' = {}
  BY <1>1, <1>7, OneResponse DEF Remains
<1>9. Len(s) \in Nat /\ served' \in Nat /\ served <= served'
  BY <1>2, <1>4, <1>5
<1>10. /\ Len(ms) = 1 + Len(s)
       /\ \E reply \in {1, Len(ms)} :
            /\ ms[reply].ch = MetaConnect
            /\ \A i \in 1 .. Len(ms) \ {reply} :
                 /\ ms[i].ch # MetaConnect
                 /\ ms[i].n = served + i - (IF i > reply THEN 1 ELSE 0)
  BY <1>4, <1>5, ResponseShape
<1>11. PICK reply \in {1, Len(ms)} :
         /\ ms[reply].ch = MetaConnect
         /\ \A i \in 1 .. Len(ms) \ {reply} :
              ms[i].n = served + i - (IF i > reply THEN 1 ELSE 0)
  BY <1>10
<1>12. ASSUME NEW i \in Remains(l)'
       PROVE  /\ i \in 1 .. Len(ms) /\ i # reply
              /\ ms[i].n = served + i - (IF i > reply THEN 1 ELSE 0)
  <2>1. i \in DOMAIN ms /\ ms[i].ch \in Channel BY <1>7, <1>12 DEF Remains
  <2>2. i # reply BY <1>11, <2>1, SetAssumption
  <2>3. i \in 1 .. Len(ms) BY <1>5, <2>1
  <2>4. QED BY <1>11, <2>2, <2>3
<1>13. reply \in {1, 1 + Len(s)} /\ Len(ms) = 1 + Len(s) BY <1>10, <1>11
<1> HIDE DEF RInv, IInv
<1>14. ASSUME NEW i \in Remains(l)'
       PROVE  ms[i].n \in Nat /\ served < ms[i].n /\ ms[i].n <= served'
  <2>1. /\ i \in 1 .. 1 + Len(s) /\ i # reply
        /\ ms[i].n = served + i - (IF i > reply THEN 1 ELSE 0)
    BY <1>12, <1>13, <1>14
  <2>2. QED BY <1>2, <1>4, <1>9, <1>13, <2>1
<1>15. ASSUME NEW i \in Remains(l)', NEW j \in Remains(l)', i < j
       PROVE  ms[i].n < ms[j].n
  <2>1. /\ i \in 1 .. 1 + Len(s) /\ i # reply /\ j \in 1 .. 1 + Len(s) /\ j # reply
        /\ ms[i].n = served + i - (IF i > reply THEN 1 ELSE 0)
        /\ ms[j].n = served + j - (IF j > reply THEN 1 ELSE 0)
    BY <1>12, <1>13, <1>15
  <2>2. QED BY <1>4, <1>9, <1>13, <1>15, <2>1
<1>16. ASSUME NEW r \in Receiver, NEW j \in DOMAIN received[r]
       PROVE  received[r][j].n \in Nat /\ received[r][j].n <= served
  <2>1. received[r] \in Seq(Message) BY DEF RInv, IInv, TypeOK, AppType
  <2>2. received[r][j] \in Message BY <2>1
  <2>3. QED BY <2>2 DEF Ahead, Message
<1>17. \A r \in Receiver : \A j \in DOMAIN received[r] : received[r][j].n <= served'
  BY <1>4, <1>9, <1>16
<1>18. ASSUME NEW i \in Remains(l)', NEW r \in Receiver, NEW j \in DOMAIN received[r]
       PROVE  received[r][j].n < ms[i].n
  BY <1>4, <1>14, <1>16, <1>18
<1>19. QED BY <1>6, <1>7, <1>8, <1>14, <1>15, <1>17, <1>18 DEF Ahead

\* What is dropped from a response, or taken by the client itself, changes
\* nothing for what remains.
LEMMA DropAhead ==
  ASSUME RInv, Ahead, NEW l \in Loops,
         DeliverToSelf(l) \/ DeliverOrphan(l) \/ DeliverDone(l)
  PROVE  Ahead' /\ received' = received
<1> DEFINE ms == rest[l]
<1>1. ms \in Seq(Message) /\ rest \in [Loops -> Seq(Message)]
  BY DEF RInv, IInv, TypeOK, LoopsType
<1>2. UNCHANGED <<served, received>>
  BY DEF DeliverToSelf, DeliverOrphan, DeliverDone, app, server
<1>3. \/ rest' = rest
      \/ rest' = [rest EXCEPT ![l] = <<>>]
      \/ \E k \in DOMAIN ms : rest' = [rest EXCEPT ![l] = SubSeq(ms, k + 1, Len(ms))]
  BY DEF DeliverToSelf, DeliverOrphan, DeliverDone, Others
<1>4. CASE rest' = rest BY <1>2, <1>4 DEF Ahead, Remains
<1>5. CASE rest' = [rest EXCEPT ![l] = <<>>]
  <2>1. rest'[l] = <<>> /\ \A k \in Loops : k # l => rest'[k] = rest[k]
    BY <1>1, <1>5
  <2>2. DOMAIN <<>> = {} OBVIOUS
  <2>3. Remains(l)' = {} /\ \A k \in Loops : k # l => Remains(k)' = Remains(k)
    BY <2>1, <2>2 DEF Remains
  <2>4. QED BY <1>2, <2>1, <2>3 DEF Ahead
<1>6. ASSUME NEW k \in DOMAIN ms,
             rest' = [rest EXCEPT ![l] = SubSeq(ms, k + 1, Len(ms))]
      PROVE  Ahead'
  <2> DEFINE others == SubSeq(ms, k + 1, Len(ms))
  <2>1. rest'[l] = others /\ \A j \in Loops : j # l => rest'[j] = rest[j]
    BY <1>1, <1>6
  <2>2. /\ k \in Nat /\ DOMAIN ms \subseteq Nat /\ DOMAIN others \subseteq Nat
        /\ \A i \in DOMAIN others : i + k \in DOMAIN ms /\ others[i] = ms[i + k]
    BY <1>1, Cut
  <2>3. \A j \in Loops : j # l => Remains(j)' = Remains(j) BY <2>1 DEF Remains
  <2> HIDE DEF others
  <2>4. ASSUME NEW i \in Remains(l)'
        PROVE  i \in Nat /\ i + k \in Remains(l) /\ rest'[l][i] = ms[i + k]
    BY <2>1, <2>2, <2>4 DEF Remains
  <2>5. ASSUME NEW i \in Remains(l)', NEW j \in Remains(l)', i < j
        PROVE  rest'[l][i].n < rest'[l][j].n
    <3>1. i + k < j + k BY <2>2, <2>4, <2>5
    <3>2. QED BY <2>4, <3>1 DEF Ahead
  <2>6. QED BY <1>2, <2>1, <2>3, <2>4, <2>5 DEF Ahead
<1>7. QED BY <1>2, <1>3, <1>4, <1>5, <1>6

\* A batch that is handed over: what its messages are, and to whom they go.
LEMMA BatchGoes ==
  ASSUME RInv, NEW l \in Loops, DeliverToApp(l)
  PROVE  \E k \in DOMAIN rest[l] : \E r \in Receiver :
           /\ rest[l][1].ch \in Channel /\ subs[rest[l][1].ch] = r
           /\ \A i \in 1 .. k : rest[l][i].ch = rest[l][1].ch
           /\ received' = [received EXCEPT ![r] = @ \o SubSeq(rest[l], 1, k)]
           /\ rest' = [rest EXCEPT ![l] = SubSeq(rest[l], k + 1, Len(rest[l]))]
<1>1. PICK k \in DOMAIN rest[l] :
        /\ BatchEnds(rest[l], k)
        /\ subs[LastChannel(rest[l], k)] \in Receiver
        /\ received' = [received EXCEPT ![subs[LastChannel(rest[l], k)]]
                          = @ \o Batch(rest[l], k)]
        /\ rest' = [rest EXCEPT ![l] = Others(@, k)]
  BY Zenon DEF DeliverToApp
<1>2. rest[l] \in Seq(Message) BY DEF RInv, IInv, TypeOK, LoopsType
<1>3. /\ \A i \in 1 .. k : rest[l][i].ch = rest[l][1].ch
      /\ LastChannel(rest[l], k) = rest[l][1].ch
      /\ rest[l][1].ch \in Channel \cup {MetaConnect}
  BY <1>1, <1>2, BatchShape
<1>4. rest[l][1].ch \in Channel
  BY <1>1, <1>3, SetAssumption DEF RInv, MetaEntry
<1>5. QED BY <1>1, <1>3, <1>4 DEF Batch, Others

\* A batch goes to the receiver of its channel, in order, after all that the
\* receiver has got and before all that remains.
LEMMA DeliverToAppKeeps ==
  ASSUME DeliveryInv, UNCHANGED asked, NEW l \in Loops, DeliverToApp(l)
  PROVE  Ahead' /\ InOrder' /\ Routing'
<1> DEFINE ms == rest[l]
<1>1. /\ ms \in Seq(Message) /\ rest \in [Loops -> Seq(Message)]
      /\ received \in [Receiver -> Seq(Message)]
  BY DEF DeliveryInv, RInv, IInv, TypeOK, LoopsType, AppType
<1>2. PICK k \in DOMAIN ms, r \in Receiver :
        /\ ms[1].ch \in Channel /\ subs[ms[1].ch] = r
        /\ \A i \in 1 .. k : ms[i].ch = ms[1].ch
        /\ received' = [received EXCEPT ![r] = @ \o SubSeq(ms, 1, k)]
        /\ rest' = [rest EXCEPT ![l] = SubSeq(ms, k + 1, Len(ms))]
  BY BatchGoes DEF DeliveryInv
<1> DEFINE batch  == SubSeq(ms, 1, k)
           others == SubSeq(ms, k + 1, Len(ms))
<1>3. /\ k \in Nat /\ DOMAIN ms \subseteq Nat /\ DOMAIN batch = 1 .. k
      /\ \A i \in 1 .. k : i \in DOMAIN ms /\ batch[i] = ms[i]
      /\ DOMAIN others \subseteq Nat \ {0}
      /\ \A i \in DOMAIN others : i + k \in DOMAIN ms /\ others[i] = ms[i + k]
  BY <1>1, Cut
<1>4. batch \in Seq(Message) /\ served' = served
  BY <1>1, <1>3 DEF DeliverToApp, server
<1>5. /\ rest'[l] = others /\ \A j \in Loops : j # l => rest'[j] = rest[j]
      /\ received'[r] = received[r] \o batch
      /\ \A u \in Receiver : u # r => received'[u] = received[u]
  BY <1>1, <1>2
<1>6. Polling(l) BY DEF DeliverToApp, At, Polling, PollingPc
<1>7. \A j \in Loops : j # l => Remains(j)' = {}
  BY <1>5, <1>6, OneResponse DEF DeliveryInv, Remains
<1> HIDE DEF batch, others
<1>8. ASSUME NEW i \in Remains(l)'
      PROVE  i \in Nat \ {0} /\ i + k \in Remains(l) /\ rest'[l][i] = ms[i + k]
  BY <1>3, <1>5, <1>8 DEF Remains
<1>9. ASSUME NEW i \in 1 .. k PROVE i \in Remains(l) /\ batch[i] = ms[i]
  BY <1>2, <1>3 DEF Remains
<1>10. ASSUME NEW i \in DOMAIN received'[r]
       PROVE  /\ Len(received[r]) \in Nat /\ i \in Nat
              /\ \/ /\ i <= Len(received[r]) /\ i \in DOMAIN received[r]
                    /\ received'[r][i] = received[r][i]
                 \/ /\ i > Len(received[r]) /\ i - Len(received[r]) \in 1 .. k
                    /\ received'[r][i] = ms[i - Len(received[r])]
                    /\ i - Len(received[r]) \in Remains(l)
  <2>1. received[r] \in Seq(Message) BY <1>1
  <2>2. /\ Len(received[r]) \in Nat /\ i \in Nat
        /\ \/ /\ i <= Len(received[r]) /\ i \in DOMAIN received[r]
              /\ received'[r][i] = received[r][i]
           \/ /\ i > Len(received[r]) /\ i - Len(received[r]) \in DOMAIN batch
              /\ received'[r][i] = batch[i - Len(received[r])]
    BY <1>4, <1>5, <1>10, <2>1, Joined
  <2>3. QED BY <1>3, <1>9, <2>2
<1>11. InOrder'
  <2>1. ASSUME NEW i \in DOMAIN received'[r], NEW j \in DOMAIN received'[r], i < j
        PROVE  received'[r][i].n < received'[r][j].n
    <3>1. CASE i \in DOMAIN received[r] /\ received'[r][i] = received[r][i]
      <4>1. CASE j \in DOMAIN received[r] /\ received'[r][j] = received[r][j]
        BY <2>1, <3>1, <4>1 DEF DeliveryInv, InOrder
      <4>2. CASE /\ received'[r][j] = ms[j - Len(received[r])]
                 /\ j - Len(received[r]) \in Remains(l)
        BY <3>1, <4>2 DEF DeliveryInv, Ahead
      <4>3. QED BY <1>10, <4>1, <4>2
    <3>2. CASE /\ i > Len(received[r])
               /\ received'[r][i] = ms[i - Len(received[r])]
               /\ i - Len(received[r]) \in Remains(l)
      <4>1. j > Len(received[r]) BY <1>10, <2>1, <3>2
      <4>2. /\ received'[r][j] = ms[j - Len(received[r])]
            /\ j - Len(received[r]) \in Remains(l)
        BY <1>10, <4>1
      <4>3. i - Len(received[r]) < j - Len(received[r]) BY <1>10, <2>1
      <4>4. QED BY <3>2, <4>2, <4>3 DEF DeliveryInv, Ahead
    <3>3. QED BY <1>10, <3>1, <3>2
  <2>2. QED BY <1>5, <2>1 DEF DeliveryInv, InOrder
<1>12. Ahead'
  <2>1. ASSUME NEW j \in DOMAIN received'[r] PROVE received'[r][j].n <= served
    BY <1>10 DEF DeliveryInv, Ahead
  <2>2. ASSUME NEW i \in Remains(l)', NEW j \in Remains(l)', i < j
        PROVE  rest'[l][i].n < rest'[l][j].n
    <3>1. i + k < j + k BY <1>3, <1>8, <2>2
    <3>2. QED BY <1>8, <3>1 DEF DeliveryInv, Ahead
  <2>3. ASSUME NEW i \in Remains(l)', NEW j \in DOMAIN received'[r]
        PROVE  received'[r][j].n < rest'[l][i].n
    <3>1. CASE j \in DOMAIN received[r] /\ received'[r][j] = received[r][j]
      BY <1>8, <3>1 DEF DeliveryInv, Ahead
    <3>2. CASE /\ j - Len(received[r]) \in 1 .. k
               /\ received'[r][j] = ms[j - Len(received[r])]
               /\ j - Len(received[r]) \in Remains(l)
      <4>1. j - Len(received[r]) < i + k BY <1>3, <1>8, <1>10, <3>2
      <4>2. QED BY <1>8, <3>2, <4>1 DEF DeliveryInv, Ahead
    <3>3. QED BY <1>10, <3>1, <3>2
  <2>4. \A i \in Remains(l)' : rest'[l][i].n <= served
    BY <1>8 DEF DeliveryInv, Ahead
  <2>5. ASSUME NEW i \in Remains(l)', NEW u \in Receiver, NEW j \in DOMAIN received'[u]
        PROVE  received'[u][j].n < rest'[l][i].n
    <3>1. CASE u = r BY <2>3, <3>1
    <3>2. CASE u # r BY <1>5, <1>8, <3>2 DEF DeliveryInv, Ahead
    <3>3. QED BY <3>1, <3>2
  <2>6. \A u \in Receiver : \A j \in DOMAIN received'[u] : received'[u][j].n <= served
    BY <1>5, <2>1 DEF DeliveryInv, Ahead
  <2>7. QED BY <1>4, <1>7, <2>2, <2>4, <2>5, <2>6 DEF Ahead
<1>13. Routing'
  <2>1. ASSUME NEW i \in DOMAIN received'[r]
        PROVE  [ch |-> received'[r][i].ch, to |-> r] \in asked
    <3>1. CASE i \in DOMAIN received[r] /\ received'[r][i] = received[r][i]
      BY <3>1 DEF DeliveryInv, Routing
    <3>2. CASE /\ i - Len(received[r]) \in 1 .. k
               /\ received'[r][i] = ms[i - Len(received[r])]
      BY <1>2, <3>2 DEF DeliveryInv, AskedFor
    <3>3. QED BY <1>10, <3>1, <3>2
  <2>2. QED BY <1>5, <2>1 DEF DeliveryInv, Routing
<1>14. QED BY <1>11, <1>12, <1>13

\* Nothing else changes order or receivers.
LEMMA NextDelivery ==
  ASSUME DeliveryInv, [Next]_vars PROVE DeliveryInv'
<1>1. RInv' BY NextRefines DEF DeliveryInv
<1>2. AskedFor' /\ asked \subseteq asked' BY AskedForStep DEF DeliveryInv
<1>3. CASE UNCHANGED <<rest, served, received>>
  BY <1>1, <1>2, <1>3, QuietDelivery DEF DeliveryInv
<1>4. ASSUME NEW l \in Loops, Responding(l) PROVE Ahead' /\ InOrder' /\ Routing'
  <2>1. CASE ConnectOk(l)
    BY <1>2, <2>1, ConnectOkAhead DEF DeliveryInv, InOrder, Routing
  <2>2. CASE DeliverToSelf(l) \/ DeliverOrphan(l) \/ DeliverDone(l)
    BY <1>2, <2>2, DropAhead DEF DeliveryInv, InOrder, Routing
  <2>3. CASE DeliverToApp(l)
    BY <2>3, DeliverToAppKeeps DEF DeliverToApp
  <2>4. QED BY <1>4, <2>1, <2>2, <2>3 DEF Responding
<1>5. QED BY <1>1, <1>2, <1>3, <1>4, Footprint DEF DeliveryInv

\* A new client has received nothing.
LEMMA InitDelivery == Init => DeliveryInv
<1> SUFFICES ASSUME Init PROVE DeliveryInv OBVIOUS
<1>1. RInv BY InitRefines
<1>2. /\ \A r \in Receiver : received[r] = <<>>
      /\ subQ = <<>> /\ \A l \in Loops : todo[l] = <<>>
      /\ \A c \in Channel : subs[c] \notin Receiver
  BY SetAssumption DEF Init
<1>3. DOMAIN <<>> = {} /\ <<>> \in Seq(asked) OBVIOUS
<1>4. AskedFor BY <1>2, <1>3 DEF AskedFor
<1>5. \A l \in Loops : Remains(l) = {}
  <2>1. \A l \in Loops : rest[l] = <<>> BY DEF Init
  <2>2. QED BY <1>3, <2>1 DEF Remains
<1>6. \A r \in Receiver : DOMAIN received[r] = {} BY <1>2, <1>3
<1>7. Ahead BY <1>5, <1>6, Zenon DEF Ahead
<1>8. Routing /\ InOrder BY <1>6, Zenon DEF Routing, InOrder
<1>9. QED BY <1>1, <1>4, <1>7, <1>8 DEF DeliveryInv

\* The invariant of delivery holds in every reachable state.
THEOREM ClientDelivers == Spec => []DeliveryInv
<1>1. DeliveryInv /\ [Next]_vars => DeliveryInv' BY NextDelivery
<1>2. QED BY InitDelivery, <1>1, PTL DEF Spec

\* A receiver gets only messages of channels it was subscribed to.
THEOREM ClientRouting == Spec => []Routing
<1>1. DeliveryInv => Routing BY DEF DeliveryInv
<1>2. QED BY ClientDelivers, <1>1, PTL

\* A receiver gets the messages in the order of the server, and none twice.
THEOREM ClientInOrder == Spec => []InOrder
<1>1. DeliveryInv => InOrder BY DEF DeliveryInv
<1>2. QED BY ClientDelivers, <1>1, PTL

-----------------------------------------------------------------------------
\* No message is lost, where responses end with their reply.

\* Every nonempty set of natural numbers has a least element.
LEMMA Least ==
  ASSUME NEW T, T \subseteq Nat, T # {}
  PROVE  \E x \in T : \A y \in T : x <= y
<1> DEFINE R == {p \in Nat \X Nat : p[1] < p[2]}
<1>1. IsWellFoundedOn(R, Nat) BY NatLessThanWellFounded DEF OpToRel
<1>2. PICK x \in T : \A y \in T : ~ (<<y, x>> \in R)
  <2> HIDE DEF R
  <2>1. QED BY <1>1, WFMin
<1>3. ASSUME NEW y \in T PROVE x <= y
  <2>1. x \in Nat /\ y \in Nat /\ <<y, x>> \notin R BY <1>2
  <2>2. <<y, x>> \in Nat \X Nat BY <2>1
  <2>3. ~ (y < x) BY <2>1, <2>2
  <2>4. QED BY <2>1, <2>3
<1>4. QED BY <1>3

\* A response with messages on two channels has a batch that ends.
LEMMA BatchThere ==
  ASSUME NEW ms \in Seq(Message), NEW j \in DOMAIN ms, ms[j].ch # ms[1].ch
  PROVE  \E k \in DOMAIN ms : BatchEnds(ms, k)
<1> DEFINE T == {k \in DOMAIN ms : k < Len(ms) /\ ms[k + 1].ch # ms[1].ch}
<1>1. Len(ms) \in Nat /\ DOMAIN ms = 1 .. Len(ms) OBVIOUS
<1>2. j - 1 \in DOMAIN ms /\ j - 1 < Len(ms) /\ (j - 1) + 1 = j
  <2>1. j # 1 OBVIOUS
  <2>2. QED BY <1>1, <2>1
<1>3. j - 1 \in T BY <1>2
<1>4. T \subseteq Nat BY <1>1
<1>5. PICK k \in T : \A y \in T : k <= y
  <2> HIDE DEF T
  <2>1. QED BY <1>3, <1>4, Least
<1>6. k \in DOMAIN ms /\ k < Len(ms) /\ ms[k + 1].ch # ms[1].ch OBVIOUS
<1>7. ASSUME NEW i \in 1 .. k PROVE ms[i].ch = ms[1].ch
  <2>1. CASE i = 1 BY <2>1
  <2>2. CASE i # 1
    <3>1. i - 1 \in DOMAIN ms /\ i - 1 < Len(ms) /\ (i - 1) + 1 = i /\ ~ (k <= i - 1)
      BY <1>1, <1>6, <2>2
    <3>2. i - 1 \notin T BY <1>5, <3>1
    <3>3. QED BY <3>1, <3>2
  <2>3. QED BY <2>1, <2>2
<1>8. QED BY <1>6, <1>7 DEF BatchEnds

\* A step that answers no request and handshakes not.
LEMMA QuietLoss ==
  ASSUME LossInv, RInv', Quiet, UNCHANGED <<rest, served, received>>
  PROVE  LossInv'
<1>1. Unserved' BY DEF LossInv, Unserved, Quiet
<1>2. Accounted'
  <2>1. \A l \in Loops : Polling(l)' => Polling(l) BY DEF Quiet, Polling
  <2>2. \A l \in Loops : Remains(l)' = Remains(l) BY DEF Remains
  <2>3. \A r \in Receiver : Got(r)' = Got(r) BY DEF Got
  <2>4. QED BY <2>1, <2>2, <2>3 DEF LossInv, Accounted
<1>3. EndsWithReply' BY DEF LossInv, EndsWithReply
<1>4. QED BY <1>1, <1>2, <1>3 DEF LossInv

\* A handshake begins before anything is served, and ends before more is.
LEMMA HandshakeLoss ==
  ASSUME LossInv, RInv', NEW l \in Loops, Handshake(l) \/ HandshakeOk(l)
  PROVE  LossInv'
<1> USE DEF LossInv, RInv, IInv
<1>1. UNCHANGED <<rest, served, received>>
  BY DEF Handshake, HandshakeOk, work, server, app
<1>2. pc \in [Loops -> Pc] BY DEF TypeOK, LoopsType
<1>3. EndsWithReply' BY <1>1 DEF EndsWithReply
<1>4. CASE csm = Unconnected
  <2>1. served = 0 BY <1>4 DEF Unserved
  <2>2. 1 .. served' = {} BY <1>1, <2>1
  <2>3. QED BY <1>1, <1>3, <2>1, <2>2 DEF Unserved, Accounted
<1>5. CASE csm # Unconnected
  <2>1. csm' # Unconnected
    BY <1>5 DEF Handshake, HandshakeOk, After, Unconnected, Connecting, Connected
  <2>2. \A k \in Loops : Polling(k)' => Polling(k)
    BY <1>2, <1>5 DEF Handshake, HandshakeOk, Accepts, Go, Fail, At, Polling, PollingPc
  <2>3. \A k \in Loops : Remains(k)' = Remains(k) BY <1>1 DEF Remains
  <2>4. \A r \in Receiver : Got(r)' = Got(r) BY <1>1 DEF Got
  <2>5. Accounted' BY <1>1, <2>2, <2>3, <2>4 DEF Accounted
  <2>6. QED BY <1>3, <2>1, <2>5 DEF Unserved
<1>6. QED BY <1>4, <1>5

\* Without the other shape, a response ends with its reply.
LEMMA ResponseLast ==
  ASSUME RepliesLast, served \in Nat, srvSubs \subseteq Channel,
         NEW s \in BoundedSeq(srvSubs, MaxBatch), NEW ms \in Responses(s)
  PROVE  /\ Len(s) \in Nat /\ Len(ms) = Len(s) + 1 /\ DOMAIN ms = 1 .. Len(s) + 1
         /\ ms[Len(ms)].ch = MetaConnect
         /\ \A i \in 1 .. Len(s) : ms[i].ch \in Channel /\ ms[i].n = served + i
<1>1. s \in Seq(Channel) /\ ms \in Seq(Message) BY ResponseType
<1>2. Len(s) \in Nat /\ DOMAIN s = 1 .. Len(s) BY <1>1
<1>3. PICK a \in Advices : ms = Data(s) \o Reply(a) BY DEF Responses, RepliesLast
<1> DEFINE d == Data(s)
           x == [ch |-> MetaConnect, n |-> 0, advice |-> a]
<1>4. d = [i \in 1 .. Len(s) |-> [ch |-> s[i], n |-> served + i, advice |-> "absent"]]
  BY <1>2 DEF Data
<1>5. /\ d \in Seq(Message) /\ Len(d) = Len(s)
      /\ \A i \in 1 .. Len(s) : d[i].ch \in Channel /\ d[i].n = served + i
  <2>1. \A i \in 1 .. Len(s) : s[i] \in Channel BY <1>1
  <2>2. QED BY <1>2, <1>4, <2>1 DEF Message, AdviceKind
<1>6. x \in Message /\ x.ch = MetaConnect /\ ms = d \o <<x>>
  BY <1>3, SetAssumption DEF Message, Reply
<1> HIDE DEF d, x
<1>7. /\ Len(ms) = Len(s) + 1 /\ ms[Len(ms)] = x
      /\ \A i \in 1 .. Len(s) : ms[i] = d[i]
  BY <1>2, <1>5, <1>6, Ends
<1>8. DOMAIN ms = 1 .. Len(s) + 1 BY <1>1, <1>7
<1>9. QED BY <1>2, <1>5, <1>6, <1>7, <1>8

\* What is served remains to be delivered.
LEMMA ConnectOkLoss ==
  ASSUME RepliesLast, LossInv, RInv', NEW l \in Loops, ConnectOk(l)
  PROVE  LossInv'
<1> USE DEF LossInv, RInv, IInv
<1>1. pc[l] = "connWait" /\ Polling(l)
  BY DEF ConnectOk, At, Polling, PollingPc
<1>2. PICK s \in BoundedSeq(srvSubs, MaxBatch) :
        /\ served' = served + Len(s)
        /\ \E ms \in Responses(s) : rest' = [rest EXCEPT ![l] = ms]
  BY DEF ConnectOk
<1>3. PICK ms \in Responses(s) : rest' = [rest EXCEPT ![l] = ms] BY <1>2
<1>4. served \in Nat /\ srvSubs \subseteq Channel BY DEF TypeOK, ServerType
<1>5. /\ Len(s) \in Nat /\ Len(ms) = Len(s) + 1 /\ DOMAIN ms = 1 .. Len(s) + 1
      /\ ms[Len(ms)].ch = MetaConnect
      /\ \A i \in 1 .. Len(s) : ms[i].ch \in Channel /\ ms[i].n = served + i
  BY <1>4, ResponseLast
<1>6. /\ UNCHANGED <<csm, received>>
      /\ rest'[l] = ms /\ \A k \in Loops : k # l => rest'[k] = rest[k]
      /\ \A k \in Loops : k # l => pc'[k] = pc[k]
  BY <1>3 DEF ConnectOk, session, app, Go, TypeOK, LoopsType
<1>7. csm # Unconnected BY <1>1 DEF PollingIsConnecting
<1>8. Unserved' BY <1>6, <1>7 DEF Unserved
<1>9. EndsWithReply' BY <1>5, <1>6 DEF EndsWithReply
<1>10. \A r \in Receiver : Got(r)' = Got(r) BY <1>6 DEF Got
<1>11. Remains(l) = {}
  <2>1. rest[l] = <<>> BY <1>1 DEF RestOwner
  <2>2. DOMAIN <<>> = {} OBVIOUS
  <2>3. QED BY <2>1, <2>2 DEF Remains
<1>12. ASSUME NEW n \in 1 .. served'
       PROVE  \/ \E r \in Receiver : n \in Got(r)'
              \/ \E i \in Remains(l)' : rest'[l][i].n = n
  <2>1. CASE n <= served
    <3>1. n \in 1 .. served BY <1>4, <2>1
    <3>2. \E r \in Receiver : n \in Got(r) BY <1>1, <1>11, <3>1 DEF Accounted
    <3>3. QED BY <1>10, <3>2
  <2>2. CASE n > served
    <3>1. n - served \in 1 .. Len(s) /\ served + (n - served) = n
      BY <1>2, <1>4, <1>5, <2>2
    <3>2. ms[n - served].ch \in Channel /\ ms[n - served].n = n BY <1>5, <3>1
    <3>3. n - served \in DOMAIN ms BY <1>5, <3>1
    <3>4. n - served \in Remains(l)' BY <1>6, <3>2, <3>3 DEF Remains
    <3>5. QED BY <1>6, <3>2, <3>4
  <2>3. QED BY <1>2, <1>4, <1>5, <2>1, <2>2
<1>13. \A k \in Loops : Polling(k)' => k = l
  BY <1>1, <1>6 DEF OneLoop, Polling
<1>14. Accounted' BY <1>12, <1>13 DEF Accounted
<1>15. QED BY <1>8, <1>9, <1>14

\* A loop that goes on delivering: what it must show for the message that is
\* taken from the response.
LEMMA DeliveringLoss ==
  ASSUME LossInv, RInv', NEW l \in Loops, Polling(l), UNCHANGED <<csm, served>>,
         \A k \in Loops : k # l => pc'[k] = pc[k] /\ rest'[k] = rest[k],
         \A r \in Receiver : Got(r) \subseteq Got(r)',
         rest'[l] # <<>> => rest'[l][Len(rest'[l])].ch = MetaConnect,
         Polling(l)' => \A i \in Remains(l) :
           \/ \E r \in Receiver : rest[l][i].n \in Got(r)'
           \/ \E j \in Remains(l)' : rest'[l][j].n = rest[l][i].n
  PROVE  LossInv'
<1> USE DEF LossInv, RInv, IInv
<1>1. Unserved' BY DEF Unserved
<1>2. EndsWithReply' BY DEF EndsWithReply
<1>3. \A k \in Loops : Polling(k)' => k = l BY DEF OneLoop, Polling
<1>4. ASSUME Polling(l)', NEW n \in 1 .. served
      PROVE  \/ \E r \in Receiver : n \in Got(r)'
             \/ \E i \in Remains(l)' : rest'[l][i].n = n
  <2>1. CASE \E r \in Receiver : n \in Got(r) BY <2>1
  <2>2. CASE \E i \in Remains(l) : rest[l][i].n = n BY <1>4, <2>2
  <2>3. QED BY <2>1, <2>2 DEF Accounted
<1>5. Accounted' BY <1>3, <1>4 DEF Accounted
<1>6. QED BY <1>1, <1>2, <1>5

\* The last message of a response is the last of what remains of it.
LEMMA LastOfOthers ==
  ASSUME NEW ms \in Seq(Message), NEW k \in DOMAIN ms, k < Len(ms)
  PROVE  /\ Len(Others(ms, k)) = Len(ms) - k
         /\ Others(ms, k)[Len(Others(ms, k))] = ms[Len(ms)]
         /\ \A i \in DOMAIN ms : i > k =>
              i - k \in DOMAIN Others(ms, k) /\ Others(ms, k)[i - k] = ms[i]
<1>1. /\ k \in 1 .. Len(ms) /\ Len(ms) \in Nat /\ DOMAIN ms = 1 .. Len(ms)
  OBVIOUS
<1> DEFINE o == Others(ms, k)
<1>2. /\ Len(o) = Len(ms) - k /\ DOMAIN o = 1 .. Len(ms) - k
      /\ \A i \in 1 .. Len(ms) - k : o[i] = ms[i + k]
  BY <1>1 DEF Others
<1> HIDE DEF o
<1>3. o[Len(o)] = ms[Len(ms)]
  <2>1. Len(ms) - k \in 1 .. Len(ms) - k /\ (Len(ms) - k) + k = Len(ms) BY <1>1
  <2>2. QED BY <1>2, <2>1
<1>4. ASSUME NEW i \in DOMAIN ms, i > k PROVE i - k \in DOMAIN o /\ o[i - k] = ms[i]
  <2>1. i - k \in 1 .. Len(ms) - k /\ (i - k) + k = i BY <1>1, <1>4
  <2>2. QED BY <1>2, <2>1
<1>5. QED BY <1>2, <1>3, <1>4 DEF o

\* A batch reaches its receiver whole.
LEMMA DeliverToAppLoss ==
  ASSUME LossInv, RInv', NEW l \in Loops, DeliverToApp(l)
  PROVE  LossInv'
<1> DEFINE ms == rest[l]
<1>1. /\ ms \in Seq(Message) /\ rest \in [Loops -> Seq(Message)]
      /\ received \in [Receiver -> Seq(Message)]
  BY DEF LossInv, RInv, IInv, TypeOK, LoopsType, AppType
<1>2. PICK k \in DOMAIN ms :
        /\ BatchEnds(ms, k)
        /\ \E r \in Receiver : received' = [received EXCEPT ![r] = @ \o Batch(ms, k)]
        /\ rest' = [rest EXCEPT ![l] = Others(@, k)]
  BY Zenon DEF DeliverToApp
<1>3. PICK r \in Receiver : received' = [received EXCEPT ![r] = @ \o Batch(ms, k)]
  BY <1>2
<1>4. /\ rest'[l] = Others(ms, k) /\ \A j \in Loops : j # l => rest'[j] = rest[j]
      /\ received'[r] = received[r] \o Batch(ms, k)
      /\ \A u \in Receiver : u # r => received'[u] = received[u]
      /\ Polling(l) /\ UNCHANGED <<csm, served, pc>>
  BY <1>1, <1>2, <1>3
  DEF DeliverToApp, At, Polling, PollingPc, session, server
<1>5. /\ k \in Nat /\ DOMAIN ms \subseteq Nat
      /\ DOMAIN Batch(ms, k) = 1 .. k /\ \A i \in 1 .. k : Batch(ms, k)[i] = ms[i]
  <2>1. /\ k \in Nat /\ DOMAIN ms \subseteq Nat /\ DOMAIN SubSeq(ms, 1, k) = 1 .. k
        /\ \A i \in 1 .. k : i \in DOMAIN ms /\ SubSeq(ms, 1, k)[i] = ms[i]
    BY <1>1, Cut
  <2>2. QED BY <2>1 DEF Batch
<1>6. /\ Len(Others(ms, k)) = Len(ms) - k
      /\ Others(ms, k)[Len(Others(ms, k))] = ms[Len(ms)]
      /\ \A i \in DOMAIN ms : i > k =>
           i - k \in DOMAIN Others(ms, k) /\ Others(ms, k)[i - k] = ms[i]
  BY <1>1, <1>2, LastOfOthers DEF BatchEnds
<1>7. /\ \A i \in DOMAIN received[r] :
           i \in DOMAIN received'[r] /\ received'[r][i] = received[r][i]
      /\ \A i \in 1 .. k : \E j \in DOMAIN received'[r] : received'[r][j] = ms[i]
  <2>1. received[r] \in Seq(Message) /\ Batch(ms, k) \in Seq(Message)
    BY <1>1, BatchType
  <2> DEFINE old == received[r]
             batch == Batch(ms, k)
             S == Message
  <2>2. received'[r] = old \o batch /\ old \in Seq(S) /\ batch \in Seq(S)
    BY <1>4, <2>1
  <2> HIDE DEF old, batch, S
  <2>3. /\ \A i \in DOMAIN old : i \in DOMAIN (old \o batch) /\ (old \o batch)[i] = old[i]
        /\ \A i \in DOMAIN batch : /\ Len(old) + i \in DOMAIN (old \o batch)
                                   /\ (old \o batch)[Len(old) + i] = batch[i]
    BY <2>2, Joins
  <2>4. QED BY <1>5, <2>2, <2>3 DEF old, batch
<1>8. Got(r) \subseteq Got(r)' /\ \A i \in 1 .. k : ms[i].n \in Got(r)'
  <2>1. Got(r) \subseteq Got(r)' BY <1>7 DEF Got
  <2>2. ASSUME NEW i \in 1 .. k PROVE ms[i].n \in Got(r)' BY <1>7 DEF Got
  <2>3. QED BY <2>1, <2>2
<1>9. \A u \in Receiver : Got(u) \subseteq Got(u)' BY <1>4, <1>8 DEF Got
<1>10. ASSUME NEW i \in Remains(l)
       PROVE  \/ ms[i].n \in Got(r)'
              \/ \E j \in Remains(l)' : rest'[l][j].n = ms[i].n
  <2>1. i \in DOMAIN ms /\ ms[i].ch \in Channel BY DEF Remains
  <2>2. CASE i <= k
    <3>1. i \in 1 .. k BY <1>1, <1>5, <2>1, <2>2
    <3>2. QED BY <1>8, <3>1
  <2>3. CASE i > k
    <3>1. i - k \in Remains(l)' /\ rest'[l][i - k] = ms[i]
      BY <1>4, <1>6, <2>1, <2>3 DEF Remains
    <3>2. QED BY <3>1
  <2>4. QED BY <1>5, <2>1, <2>2, <2>3
<1>11. rest'[l][Len(rest'[l])].ch = MetaConnect
  <2>1. ms # <<>> BY <1>2
  <2>2. QED BY <1>4, <1>6, <2>1 DEF LossInv, EndsWithReply
<1>12. QED BY <1>4, <1>9, <1>10, <1>11, DeliveringLoss

\* The client takes nothing but replies for itself.
LEMMA DeliverToSelfLoss ==
  ASSUME LossInv, RInv', NEW l \in Loops, DeliverToSelf(l)
  PROVE  LossInv'
<1> DEFINE ms == rest[l]
<1>1. ms \in Seq(Message) /\ rest \in [Loops -> Seq(Message)]
  BY DEF LossInv, RInv, IInv, TypeOK, LoopsType
<1>2. PICK k \in DOMAIN ms :
        /\ BatchEnds(ms, k) /\ subs[LastChannel(ms, k)] = Inner
        /\ rest' = rest \/ rest' = [rest EXCEPT ![l] = Others(@, k)]
  BY DEF DeliverToSelf
<1>3. /\ Polling(l) /\ UNCHANGED <<csm, served, pc, received>>
      /\ \A j \in Loops : j # l => rest'[j] = rest[j]
  BY <1>1, <1>2 DEF DeliverToSelf, At, Polling, PollingPc, session, server, app
<1>4. \A u \in Receiver : Got(u) \subseteq Got(u)' BY <1>3 DEF Got
<1>5. \A i \in 1 .. k : ms[i].ch = MetaConnect
  <2>1. /\ \A i \in 1 .. k : ms[i].ch = ms[1].ch
        /\ LastChannel(ms, k) = ms[1].ch
        /\ ms[1].ch \in Channel \cup {MetaConnect}
    BY <1>1, <1>2, BatchShape
  <2>2. ms[1].ch = MetaConnect BY <1>2, <2>1 DEF LossInv, RInv, MetaEntry
  <2>3. QED BY <2>1, <2>2
<1>6. /\ k \in Nat /\ k < Len(ms) /\ DOMAIN ms \subseteq Nat \ {0}
      /\ ms[Len(ms)].ch = MetaConnect
  <2>1. k \in Nat /\ k < Len(ms) /\ DOMAIN ms \subseteq Nat \ {0}
    BY <1>1, <1>2 DEF BatchEnds
  <2>2. ms # <<>> BY <1>2
  <2>3. QED BY <2>1, <2>2 DEF LossInv, EndsWithReply
<1>7. CASE rest' = rest
  BY <1>3, <1>4, <1>6, <1>7, DeliveringLoss DEF Remains
<1>8. CASE rest' = [rest EXCEPT ![l] = Others(@, k)]
  <2>1. rest'[l] = Others(ms, k) BY <1>1, <1>8
  <2>2. /\ Others(ms, k)[Len(Others(ms, k))] = ms[Len(ms)]
        /\ \A i \in DOMAIN ms : i > k =>
             i - k \in DOMAIN Others(ms, k) /\ Others(ms, k)[i - k] = ms[i]
    BY <1>1, <1>6, LastOfOthers
  <2>3. ASSUME NEW i \in Remains(l)
        PROVE  \E j \in Remains(l)' : rest'[l][j].n = ms[i].n
    <3>1. i \in DOMAIN ms /\ ms[i].ch \in Channel BY DEF Remains
    <3>2. i \notin 1 .. k BY <1>5, <3>1, SetAssumption
    <3>3. i > k BY <1>6, <3>1, <3>2
    <3>4. i - k \in Remains(l)' /\ rest'[l][i - k] = ms[i]
      BY <2>1, <2>2, <3>1, <3>3 DEF Remains
    <3>5. QED BY <3>4
  <2>4. QED BY <1>3, <1>4, <1>6, <2>1, <2>2, <2>3, DeliveringLoss
<1>9. QED BY <1>2, <1>7, <1>8

\* The loop is done when nothing but the reply is left; a message without an
\* entry ends it.
LEMMA DeliverEndLoss ==
  ASSUME LossInv, RInv', NEW l \in Loops, DeliverOrphan(l) \/ DeliverDone(l)
  PROVE  LossInv'
<1> DEFINE ms == rest[l]
<1>1. ms \in Seq(Message) /\ rest \in [Loops -> Seq(Message)] /\ pc \in [Loops -> Pc]
  BY DEF LossInv, RInv, IInv, TypeOK, LoopsType
<1>2. /\ Polling(l) /\ UNCHANGED <<csm, served, received>>
      /\ rest'[l] = <<>>
      /\ \A j \in Loops : j # l => rest'[j] = rest[j] /\ pc'[j] = pc[j]
  BY <1>1 DEF DeliverOrphan, DeliverDone, Fail, Go, At, Polling, PollingPc, session,
     server, app
<1>3. \A u \in Receiver : Got(u) \subseteq Got(u)' BY <1>2 DEF Got
<1>4. CASE DeliverOrphan(l)
  <2>1. ~ Polling(l)' BY <1>1, <1>4 DEF DeliverOrphan, Fail, Polling, PollingPc
  <2>2. QED BY <1>2, <1>3, <2>1, DeliveringLoss
<1>5. CASE DeliverDone(l)
  <2>1. ASSUME NEW i \in Remains(l) PROVE FALSE
    <3>1. i \in DOMAIN ms /\ ms[i].ch \in Channel BY DEF Remains
    <3>2. ms # <<>> /\ Len(ms) \in DOMAIN ms BY <1>1, <3>1
    <3>3. ms[Len(ms)].ch # ms[i].ch
      BY <3>1, <3>2, SetAssumption DEF LossInv, EndsWithReply
    <3>4. \E j \in DOMAIN ms : ms[j].ch # ms[1].ch BY <3>1, <3>2, <3>3
    <3>5. \E k \in DOMAIN ms : BatchEnds(ms, k) BY <1>1, <3>4, BatchThere
    <3>6. QED BY <1>5, <3>5 DEF DeliverDone
  <2>2. QED BY <1>2, <1>3, <2>1, DeliveringLoss
<1>6. QED BY <1>4, <1>5

\* Every step keeps the account.
LEMMA NextLoss ==
  ASSUME RepliesLast, LossInv, [Next]_vars PROVE LossInv'
<1>1. RInv' BY NextRefines DEF LossInv
<1>2. IInv /\ TypeOK /\ Draining /\ ClosingInRange BY DEF LossInv, RInv, IInv
<1>3. ASSUME NEW l \in Loops, Select(l) PROVE LossInv'
  BY <1>1, <1>2, <1>3, SelectFootprint, SelectQuiet, QuietLoss
<1>4. ASSUME NEW l \in Loops, Step(l) PROVE LossInv'
  <2>1. CASE Handshake(l) \/ HandshakeOk(l) BY <1>1, <2>1, HandshakeLoss
  <2>2. CASE ConnectOk(l)     BY <1>1, <2>2, ConnectOkLoss
  <2>3. CASE DeliverToApp(l)  BY <1>1, <2>3, DeliverToAppLoss
  <2>4. CASE DeliverToSelf(l) BY <1>1, <2>4, DeliverToSelfLoss
  <2>5. CASE DeliverOrphan(l) \/ DeliverDone(l) BY <1>1, <2>5, DeliverEndLoss
  <2>6. CASE ~ Handshake(l) /\ ~ HandshakeOk(l) /\ ~ Responding(l)
    <3>1. UNCHANGED <<rest, served, received>> BY <1>4, <2>6, StepFootprint
    <3>2. Quiet BY <1>2, <1>4, <2>6, StepQuiet
    <3>3. QED BY <1>1, <3>1, <3>2, QuietLoss
  <2>7. QED BY <2>1, <2>2, <2>3, <2>4, <2>5, <2>6 DEF Responding
<1>5. CASE TimerFires \/ Disconnecting \/ User
  BY <1>1, <1>2, <1>5, OthersFootprint, OthersQuiet, QuietLoss
<1>6. CASE UNCHANGED vars
  <2>1. Quiet /\ UNCHANGED <<rest, served, received>>
    BY <1>2, <1>6 DEF vars, session, work, app, server, Quiet, Draining
  <2>2. QED BY <1>1, <2>1, QuietLoss
<1>7. QED BY <1>3, <1>4, <1>5, <1>6 DEF Next

\* At first nothing is served.
LEMMA InitLoss == Init => LossInv
<1> SUFFICES ASSUME Init PROVE LossInv OBVIOUS
<1>1. RInv BY InitRefines
<1>2. served = 0 /\ \A l \in Loops : rest[l] = <<>> /\ pc[l] = "new" BY DEF Init
<1>3. Unserved /\ EndsWithReply BY <1>2 DEF Unserved, EndsWithReply
<1>4. Accounted BY <1>2 DEF Accounted, Polling, PollingPc
<1>5. QED BY <1>1, <1>3, <1>4 DEF LossInv

\* No message is lost by a loop that is back at its select statement, where
\* responses end with their reply on /meta/connect.
THEOREM ClientNoLoss == ASSUME RepliesLast PROVE Spec => []NoLoss
<1>1. LossInv /\ [Next]_vars => LossInv' BY NextLoss
<1>2. LossInv => NoLoss
  <2>1. ASSUME LossInv, NEW l \in Loops, AtSelect(l), NEW n \in 1 .. served
        PROVE  \E r \in Receiver : n \in Got(r)
    <3>1. Polling(l) BY <2>1 DEF AtSelect, Polling, PollingPc
    <3>2. rest[l] = <<>> BY <2>1 DEF LossInv, RInv, RestOwner, AtSelect
    <3>3. DOMAIN <<>> = {} OBVIOUS
    <3>4. Remains(l) = {} BY <3>2, <3>3 DEF Remains
    <3>5. QED BY <2>1, <3>1, <3>4 DEF LossInv, Accounted
  <2>2. QED BY <2>1 DEF NoLoss
<1>3. QED BY InitLoss, <1>1, <1>2, PTL DEF Spec

-----------------------------------------------------------------------------
\* The map of subscriptions and the server agree, where a failed request ends
\* the loop.

\* A step that touches none of this.
Calm ==
  /\ UNCHANGED <<subs, srvSubs, csm, rest, acked>>
  /\ \A k \in Loops :
       /\ pc'[k] # "reportFail"
       /\ err'[k] = "orphan" => err[k] = "orphan"
       /\ pc'[k] \in PollingPc =>
            /\ pc[k] \in PollingPc
            /\ pc'[k] = "hsWait" <=> pc[k] = "hsWait"
            /\ pc'[k] \in {"adding", "reportDup"} <=> pc[k] \in {"adding", "reportDup"}
            /\ pc[k] \in {"adding", "reportDup"} => todo'[k] = todo[k]

\* A calm step keeps the agreement.
LEMMA CalmKeeps ==
  ASSUME CoherenceInv, RInv', Calm
  PROVE  CoherenceInv'
<1> USE DEF CoherenceInv, Calm
<1>1. Entries' = Entries BY DEF Entries
<1>2. ASSUME NEW l \in Loops, Polling(l)', ~ acked'
      PROVE  srvSubs' = Entries' \cup Adding(l)'
  <2>1. Polling(l) /\ Adding(l)' = Adding(l)
    BY <1>2 DEF Polling, Adding, Names
  <2>2. QED BY <1>1, <1>2, <2>1 DEF Agreed
<1>3. Agreed' BY <1>2 DEF Agreed
<1>4. Fresh' /\ Ended' /\ NoFailures' BY <1>1 DEF Fresh, Ended, NoFailures
<1>5. MetaKnown' BY DEF MetaKnown, Polling
<1>6. Deliverable' BY DEF Deliverable
<1>7. NeverOrphaned' BY DEF NeverOrphaned
<1>8. QED BY <1>3, <1>4, <1>5, <1>6, <1>7

\* The cases of the select statement are calm.
LEMMA SelectCalm ==
  ASSUME NEW l \in Loops, CoherenceInv, Select(l)
  PROVE  Calm
<1> USE DEF CoherenceInv, RInv, IInv, TypeOK, LoopsType, NoFailures, Calm, session,
            work, ending, app, server, At, Go, Fail, PollingPc
<1>1. CASE PollCancelled(l)   BY <1>1 DEF PollCancelled
<1>2. CASE PollHandshake(l)   BY <1>2 DEF PollHandshake
<1>3. CASE PollMessage(l)     BY <1>3 DEF PollMessage
<1>4. CASE PollDefault(l)     BY <1>4 DEF PollDefault
<1>5. CASE PollSubscribe(l)   BY <1>5 DEF PollSubscribe
<1>6. CASE PollUnsubscribe(l) BY <1>6 DEF PollUnsubscribe
<1>7. CASE ConnectSend(l)     BY <1>7 DEF ConnectSend
<1>8. QED BY <1>1, <1>2, <1>3, <1>4, <1>5, <1>6, <1>7 DEF Select

\* So are requests until their answer, errors, and the end of a report.
LEMMA StepCalm ==
  ASSUME FailuresEnd, NEW l \in Loops, CoherenceInv,
         \/ HandshakeError(l) \/ SendHandshake(l) \/ DrainSubscribe(l)
         \/ DrainClosed(l) \/ SubscribeSend(l) \/ DrainUnsubscribe(l)
         \/ UnsubscribeSend(l) \/ ConnectError(l) \/ ReadError(l)
  PROVE  Calm
<1> USE DEF CoherenceInv, RInv, IInv, TypeOK, LoopsType, NoFailures, Calm, session,
            work, ending, app, server, At, Go, Fail, PollingPc, ReportOrFail,
            FailuresEnd
<1>1. CASE HandshakeError(l) BY <1>1 DEF HandshakeError
<1>2. CASE SendHandshake(l)  BY <1>2 DEF SendHandshake
<1>3. CASE DrainSubscribe(l) BY <1>3 DEF DrainSubscribe
<1>4. CASE DrainClosed(l)    BY <1>4 DEF DrainClosed
<1>5. CASE SubscribeSend(l)  BY <1>5 DEF SubscribeSend, DropSubscribe
<1>6. CASE DrainUnsubscribe(l) BY <1>6 DEF DrainUnsubscribe
<1>7. CASE UnsubscribeSend(l) BY <1>7 DEF UnsubscribeSend
<1>8. CASE ConnectError(l)   BY <1>8 DEF ConnectError
<1>9. CASE ReadError(l)      BY <1>9 DEF ReadError
<1>10. QED BY <1>1, <1>2, <1>3, <1>4, <1>5, <1>6, <1>7, <1>8, <1>9

\* So is everybody outside the loops, until the server has answered a disconnect.
LEMMA OthersCalm ==
  ASSUME CoherenceInv, TimerFires \/ Disconnecting \/ User, ~ DisconnectOk
  PROVE  Calm
<1> USE DEF CoherenceInv, RInv, IInv, TypeOK, LoopsType, NoFailures, Calm, session,
            work, ending, app, server, Go, PollingPc
<1>1. CASE TimerFires      BY <1>1 DEF TimerFires
<1>2. CASE DisconnectError BY <1>2 DEF DisconnectError
<1>3. CASE Close           BY <1>3 DEF Close
<1>4. CASE DisconnectCall  BY <1>4 DEF DisconnectCall
<1>5. ASSUME NEW q \in Request, UserSubscribe(q) PROVE Calm
  BY <1>5 DEF UserSubscribe
<1>6. ASSUME NEW c \in Channel, UserUnsubscribe(c) PROVE Calm
  BY <1>6 DEF UserUnsubscribe
<1>7. ASSUME NEW l \in Loops, Start(l) PROVE Calm
  BY <1>7 DEF Start, At
<1>8. ASSUME NEW l \in Loops, Cancel(l) PROVE Calm
  BY <1>8 DEF Cancel
<1>9. QED BY <1>1, <1>2, <1>3, <1>4, <1>5, <1>6, <1>7, <1>8
          DEF Disconnecting, User

\* An entry that is there stays, whoever asks for its channel.
LEMMA EntriesStay ==
  ASSUME CoherenceInv,
         \A c \in Channel \cup {MetaConnect} : subs[c] # None => subs'[c] = subs[c],
         UNCHANGED rest
  PROVE  Deliverable'
<1>1. \A l \in Loops : \A i \in DOMAIN rest[l] :
        rest[l][i].ch \in Channel \cup {MetaConnect}
  <2>1. \A l \in Loops : rest[l] \in Seq(Message)
    BY DEF CoherenceInv, RInv, IInv, TypeOK, LoopsType
  <2>2. \A l \in Loops : \A i \in DOMAIN rest[l] : rest[l][i] \in Message
    BY <2>1
  <2>3. QED BY <2>2 DEF Message
<1>2. SUFFICES ASSUME NEW l \in Loops, NEW i \in DOMAIN rest'[l]
               PROVE  subs'[rest'[l][i].ch] # None
  BY DEF Deliverable
<1>3. subs[rest[l][i].ch] # None BY DEF CoherenceInv, Deliverable
<1>4. QED BY <1>1, <1>3

\* A handshake is the first.
LEMMA HandshakeCoherent ==
  ASSUME CoherenceInv, RInv', NEW l \in Loops, Handshake(l)
  PROVE  CoherenceInv'
<1> USE DEF CoherenceInv, RInv, IInv, TypeOK, LoopsType
<1>1. /\ UNCHANGED <<subs, srvSubs, rest, todo, acked>>
      /\ \A k \in Loops \ {l} : pc'[k] = pc[k] /\ err'[k] = err[k]
  BY DEF Handshake, work, ending, server, Go, Fail
<1>2. Entries' = Entries BY <1>1 DEF Entries
<1>3. CASE csm # Unconnected
  <2>1. csm' = csm /\ pc' = [pc EXCEPT ![l] = "fail"] /\ err'[l] = "handshake"
    BY <1>3 DEF Handshake, Accepts, After, Fail
  <2>2. Calm BY <1>1, <2>1 DEF Calm, NoFailures, PollingPc
  <2>3. QED BY <2>2, CalmKeeps
<1>4. CASE csm = Unconnected
  <2>1. srvSubs = {} /\ Entries = {} BY <1>4 DEF Fresh
  <2>2. \A k \in Loops : ~ Polling(k) BY <1>4 DEF PollingIsConnecting
  <2>3. pc' = [pc EXCEPT ![l] = "hsWait"] /\ csm' = Connecting /\ UNCHANGED err
    BY <1>4, <2>2 DEF Handshake, Accepts, After, Go, At, Polling, PollingPc
  <2>4. Agreed'
    BY <1>1, <1>2, <2>1, <2>2, <2>3 DEF Agreed, Adding, Polling, PollingPc
  <2>5. Fresh' /\ Ended' BY <1>1, <1>2, <2>1, <2>3 DEF Fresh, Ended
  <2>6. NoFailures' BY <2>3 DEF NoFailures
  <2>7. MetaKnown' BY <2>2, <2>3 DEF MetaKnown, Polling
  <2>8. Deliverable' BY <1>1 DEF Deliverable
  <2>9. NeverOrphaned' BY <2>3 DEF NeverOrphaned
  <2>10. QED BY <2>4, <2>5, <2>6, <2>7, <2>8, <2>9
<1>5. QED BY <1>3, <1>4

\* It is answered once, and gives /meta/connect its entry.
LEMMA HandshakeOkCoherent ==
  ASSUME CoherenceInv, RInv', NEW l \in Loops, HandshakeOk(l)
  PROVE  CoherenceInv'
<1> USE DEF CoherenceInv, RInv, IInv, TypeOK, LoopsType, SubsType
<1>1. pc[l] = "hsWait" /\ csm = Connecting /\ Polling(l)
  BY DEF HandshakeOk, At, HandshakePending, Polling, PollingPc
<1>2. /\ UNCHANGED <<srvSubs, rest, todo, acked, err>>
      /\ pc' = [pc EXCEPT ![l] = "select"] /\ csm' = Connected
      /\ subs' = [subs EXCEPT ![MetaConnect] = IF @ = None THEN Inner ELSE @]
  BY <1>1 DEF HandshakeOk, work, ending, server, Go, At, Accepts, After, Connecting,
     Connected
<1>3. Entries' = Entries BY <1>2, SetAssumption DEF Entries
<1>4. \A k \in Loops : Polling(k)' => k = l
  BY <1>1, <1>2 DEF OneLoop, Polling
<1>5. Agreed' BY <1>1, <1>2, <1>3, <1>4 DEF Agreed, Adding, Polling
<1>6. Fresh' /\ Ended' BY <1>2 DEF Fresh, Ended, Connected, Unconnected
<1>7. NoFailures' BY <1>2 DEF NoFailures
<1>8. MetaKnown' BY <1>2, SetAssumption DEF MetaKnown
<1>9. Deliverable' BY <1>2, EntriesStay
<1>10. NeverOrphaned' BY <1>2 DEF NeverOrphaned
<1>11. QED BY <1>5, <1>6, <1>7, <1>8, <1>9, <1>10

\* The steps of the one loop that polls, and leave the session alone.
LEMMA PollingKeeps ==
  ASSUME CoherenceInv, RInv', NEW l \in Loops, Polling(l), pc[l] # "hsWait",
         UNCHANGED <<csm, acked>>, acked => srvSubs' = {},
         \A k \in Loops \ {l} : pc'[k] = pc[k] /\ err'[k] = err[k],
         pc'[l] \notin {"hsWait", "reportFail"}, err'[l] # "orphan",
         Polling(l)' /\ ~ acked => srvSubs' = Entries' \cup Adding(l)',
         subs'[MetaConnect] # None, Deliverable'
  PROVE  CoherenceInv'
<1> USE DEF CoherenceInv, RInv, IInv
<1>1. \A k \in Loops : Polling(k)' => k = l BY DEF OneLoop, Polling
<1>2. csm # Unconnected BY DEF PollingIsConnecting
<1>3. Agreed' BY <1>1 DEF Agreed
<1>4. Fresh' /\ Ended' BY <1>2 DEF Fresh, Ended
<1>5. NoFailures' BY DEF NoFailures
<1>6. MetaKnown' BY DEF MetaKnown
<1>7. NeverOrphaned' BY DEF NeverOrphaned
<1>8. QED BY <1>3, <1>4, <1>5, <1>6, <1>7

\* The channels of a batch, one by one.
LEMMA NamesStep ==
  ASSUME NEW s \in Seq(Request), s # <<>>
  PROVE  Names(s) = {Head(s).ch} \cup Names(Tail(s))
<1>1. /\ Len(s) \in Nat \ {0} /\ DOMAIN s = 1 .. Len(s) /\ Head(s) = s[1]
      /\ DOMAIN Tail(s) = 1 .. Len(s) - 1
      /\ \A i \in 1 .. Len(s) - 1 : Tail(s)[i] = s[i + 1]
  OBVIOUS
<1>2. ASSUME NEW i \in DOMAIN s PROVE s[i].ch \in {Head(s).ch} \cup Names(Tail(s))
  <2>1. CASE i = 1 BY <1>1, <2>1
  <2>2. CASE i # 1
    <3>1. i - 1 \in DOMAIN Tail(s) /\ Tail(s)[i - 1] = s[i] BY <1>1, <2>2
    <3>2. QED BY <3>1 DEF Names
  <2>3. QED BY <2>1, <2>2
<1>3. ASSUME NEW i \in DOMAIN Tail(s) PROVE Tail(s)[i].ch \in Names(s)
  <2>1. i + 1 \in DOMAIN s /\ Tail(s)[i] = s[i + 1] BY <1>1
  <2>2. QED BY <2>1 DEF Names
<1>4. Head(s).ch \in Names(s) BY <1>1 DEF Names
<1>5. QED BY <1>2, <1>3, <1>4 DEF Names

\* Subscribing: the server first, the map entry by entry.
LEMMA SubscribingCoherent ==
  ASSUME FailuresEnd, CoherenceInv, RInv', NEW l \in Loops,
         SubscribeOk(l) \/ SubscribeError(l) \/ AddSubscription(l) \/ AddDone(l)
  PROVE  CoherenceInv'
<1> USE DEF CoherenceInv, RInv, IInv, TypeOK, LoopsType, SubsType
<1>1. /\ Polling(l) /\ pc[l] # "hsWait" /\ subs[MetaConnect] # None
      /\ ~ acked => srvSubs = Entries \cup Adding(l)
  <2>1. pc[l] \in {"subWait", "adding"}
    BY DEF SubscribeOk, SubscribeError, AddSubscription, AddDone, At
  <2>2. QED BY <2>1 DEF Polling, PollingPc, MetaKnown, Agreed
<1>2. acked => srvSubs = {} BY DEF Ended
<1>3. CASE SubscribeOk(l)
  <2>1. /\ pc[l] = "subWait" /\ pc' = [pc EXCEPT ![l] = "adding"]
        /\ UNCHANGED <<csm, acked, err, subs, todo, rest>>
        /\ srvSubs' = IF acked THEN {} ELSE srvSubs \cup Names(todo[l])
    BY <1>3 DEF SubscribeOk, At, Go, Grant, session, work, ending
  <2>2. Entries' = Entries /\ Adding(l)' = Names(todo[l]) /\ Adding(l) = {}
    BY <2>1 DEF Entries, Adding, Names
  <2>3. Deliverable' BY <2>1, EntriesStay
  <2>4. err'[l] # "orphan" BY <2>1 DEF NeverOrphaned
  <2>5. ~ acked => srvSubs' = Entries' \cup Adding(l)' BY <1>1, <2>1, <2>2
  <2>6. QED BY <1>1, <2>1, <2>3, <2>4, <2>5, PollingKeeps
<1>4. CASE SubscribeError(l)
  <2>1. /\ pc' = [pc EXCEPT ![l] = "fail"] /\ err' = [err EXCEPT ![l] = "subscribe"]
        /\ UNCHANGED <<csm, acked, subs, rest>>
        /\ acked => srvSubs' = {}
    BY <1>4 DEF SubscribeError, DropSubscribe, ReportOrFail, FailuresEnd, Fail, Grant,
       session, ending
  <2>2. Deliverable' BY <2>1, EntriesStay
  <2>3. ~ Polling(l)' BY <2>1 DEF Polling, PollingPc
  <2>4. QED BY <1>1, <2>1, <2>2, <2>3, PollingKeeps
<1>5. CASE AddSubscription(l)
  <2> DEFINE q == Head(todo[l])
  <2>1. /\ pc[l] = "adding" /\ todo[l] # <<>>
        /\ todo' = [todo EXCEPT ![l] = Tail(@)]
        /\ UNCHANGED <<csm, acked, rest, srvSubs>>
    BY <1>5 DEF AddSubscription, At, session, ending, server
  <2>2. q \in Request /\ Tail(todo[l]) \in Seq(Request) BY <2>1
  <2>3. q.ch \in Channel /\ q.to \in Receiver BY <2>2 DEF Request
  <2>4. Names(todo[l]) = {q.ch} \cup Names(Tail(todo[l])) BY <2>1, NamesStep
  <2>5. /\ Adding(l) = Names(todo[l])
        /\ pc'[l] \in {"adding", "reportDup"} => Adding(l)' = Names(Tail(todo[l]))
    BY <2>1 DEF Adding, Names
  <2>6. CASE Free(q)
    <3>1. subs' = [subs EXCEPT ![q.ch] = q.to] /\ UNCHANGED <<pc, err>>
      BY <1>5, <2>6 DEF AddSubscription
    <3>2. \A c \in Channel \cup {MetaConnect} : subs[c] # None => subs'[c] = subs[c]
      BY <2>3, <2>6, <3>1 DEF Free
    <3>3. Deliverable' /\ subs'[MetaConnect] # None
      BY <1>1, <2>1, <3>2, EntriesStay
    <3>4. Entries' = Entries \cup {q.ch} BY <2>3, <3>1 DEF Entries
    <3>5. pc'[l] = "adding" BY <2>1, <3>1
    <3>6. ~ acked => srvSubs' = Entries' \cup Adding(l)'
      BY <1>1, <2>1, <2>4, <2>5, <3>4, <3>5
    <3>7. err'[l] # "orphan" BY <3>1 DEF NeverOrphaned
    <3>8. QED BY <1>1, <1>2, <2>1, <3>1, <3>3, <3>5, <3>6, <3>7, PollingKeeps
  <2>7. CASE ~ Free(q)
    <3>1. /\ UNCHANGED subs
          /\ \/ pc' = [pc EXCEPT ![l] = "reportDup"] /\ UNCHANGED err
             \/ /\ pc' = [pc EXCEPT ![l] = "fail"]
                /\ err' = [err EXCEPT ![l] = "duplicate"]
      BY <1>5, <2>7 DEF AddSubscription, ReportOrFail, Go, Fail
    <3>2. Deliverable' BY <2>1, <3>1, EntriesStay
    <3>3. q.ch \in Entries /\ Entries' = Entries
      BY <2>3, <2>7, <3>1 DEF Free, Entries, MetaEntry
    <3>4. pc'[l] \in {"reportDup", "fail"} /\ err'[l] # "orphan"
      BY <3>1 DEF NeverOrphaned
    <3>5. Polling(l)' => pc'[l] = "reportDup" BY <3>4 DEF Polling, PollingPc
    <3>6. Polling(l)' /\ ~ acked => srvSubs' = Entries' \cup Adding(l)'
      BY <1>1, <2>1, <2>4, <2>5, <3>3, <3>5
    <3>7. QED
      BY <1>1, <1>2, <2>1, <3>1, <3>2, <3>4, <3>6, PollingKeeps
  <2>8. QED BY <2>6, <2>7
<1>6. CASE AddDone(l)
  <2>1. /\ pc[l] = "adding" /\ pc' = [pc EXCEPT ![l] = "select"] /\ todo[l] = <<>>
        /\ UNCHANGED <<csm, acked, err, subs, todo, rest, srvSubs>>
    BY <1>6 DEF AddDone, At, Go, session, work, ending, server
  <2>2. Entries' = Entries /\ Adding(l)' = {} /\ Adding(l) = {}
    BY <2>1 DEF Entries, Adding, Names
  <2>3. Deliverable' BY <2>1, EntriesStay
  <2>4. err'[l] # "orphan" BY <2>1 DEF NeverOrphaned
  <2>5. QED BY <1>1, <1>2, <2>1, <2>2, <2>3, <2>4, PollingKeeps
<1>7. QED BY <1>3, <1>4, <1>5, <1>6

\* Unsubscribing: server and map together, while no response is at hand.
LEMMA UnsubscribingCoherent ==
  ASSUME FailuresEnd, CoherenceInv, RInv', NEW l \in Loops,
         UnsubscribeOk(l) \/ UnsubscribeError(l)
  PROVE  CoherenceInv'
<1> USE DEF CoherenceInv, RInv, IInv, TypeOK, LoopsType, SubsType
<1>1. /\ Polling(l) /\ pc[l] = "unsubWait" /\ subs[MetaConnect] # None
      /\ ~ acked => srvSubs = Entries
  <2>1. pc[l] = "unsubWait" BY DEF UnsubscribeOk, UnsubscribeError, At
  <2>2. Polling(l) /\ Adding(l) = {} BY <2>1 DEF Polling, PollingPc, Adding
  <2>3. QED BY <2>1, <2>2 DEF MetaKnown, Agreed
<1>2. CASE UnsubscribeOk(l)
  <2>1. /\ pc' = [pc EXCEPT ![l] = "select"]
        /\ UNCHANGED <<csm, acked, err, rest>>
        /\ srvSubs' = IF acked THEN {} ELSE srvSubs \ gone[l]
        /\ subs' = [c \in DOMAIN subs |-> IF c \in gone[l] THEN None ELSE subs[c]]
    BY <1>2 DEF UnsubscribeOk, Go, Grant, session, work, ending
  <2>2. Entries' = Entries \ gone[l] BY <2>1, SetAssumption DEF Entries
  <2>3. Adding(l)' = {} BY <2>1 DEF Adding
  <2>4. subs'[MetaConnect] # None BY <1>1, <2>1, SetAssumption
  <2>5. Deliverable'
    <3>1. \A k \in Loops : rest'[k] = <<>>
      BY <1>1, <2>1 DEF RestOwner, OneLoop, Polling, PollingPc
    <3>2. DOMAIN <<>> = {} OBVIOUS
    <3>3. QED BY <3>1, <3>2 DEF Deliverable
  <2>6. err'[l] # "orphan" BY <2>1 DEF NeverOrphaned
  <2>7. QED BY <1>1, <2>1, <2>2, <2>3, <2>4, <2>5, <2>6, PollingKeeps
<1>3. CASE UnsubscribeError(l)
  <2>1. /\ pc' = [pc EXCEPT ![l] = "fail"] /\ err' = [err EXCEPT ![l] = "unsubscribe"]
        /\ UNCHANGED <<csm, acked, subs, rest>>
        /\ acked => srvSubs' = {}
    BY <1>3 DEF UnsubscribeError, ReportOrFail, FailuresEnd, Fail, Grant, session,
       work, ending
  <2>2. Deliverable' BY <2>1, EntriesStay
  <2>3. ~ Polling(l)' BY <2>1 DEF Polling, PollingPc
  <2>4. QED BY <1>1, <2>1, <2>2, <2>3, PollingKeeps
<1>4. QED BY <1>2, <1>3

\* The channels of a response are the server's and /meta/connect.
LEMMA ResponseChannels ==
  ASSUME srvSubs \subseteq Channel, served \in Nat,
         NEW s \in BoundedSeq(srvSubs, MaxBatch), NEW ms \in Responses(s)
  PROVE  \A i \in DOMAIN ms : ms[i].ch \in srvSubs \cup {MetaConnect}
<1>1. /\ Len(s) \in Nat /\ DOMAIN s = 1 .. Len(s)
      /\ \A i \in DOMAIN s : s[i] \in srvSubs
  BY BoundAssumption DEF BoundedSeq, SeqOf
<1> DEFINE S == [ch : srvSubs \cup {MetaConnect}, n : Int, advice : AdviceKind]
           d == Data(s)
<1>2. d = [i \in 1 .. Len(s) |-> [ch |-> s[i], n |-> served + i, advice |-> "absent"]]
  BY <1>1 DEF Data
<1>3. PICK a \in Advices : ms = d \o Reply(a) \/ ms = Reply(a) \o d
  BY DEF Responses
<1> DEFINE x == [ch |-> MetaConnect, n |-> 0, advice |-> a]
<1>4. x \in S /\ Reply(a) = <<x>> BY SetAssumption DEF Reply
<1>5. d \in Seq(S) BY <1>1, <1>2 DEF AdviceKind
<1> DEFINE T == S
<1>6. d \in Seq(T) /\ x \in T /\ (ms = d \o <<x>> \/ ms = <<x>> \o d)
  BY <1>3, <1>4, <1>5
<1> HIDE DEF d, x, T
<1>7. \A i \in DOMAIN ms : ms[i] \in T
  <2>1. <<x>> \in Seq(T) BY <1>6
  <2>2. d \o <<x>> \in Seq(T) /\ <<x>> \o d \in Seq(T) BY <1>6, <2>1
  <2>3. ms \in Seq(T) BY <1>6, <2>2
  <2>4. QED BY <2>3
<1>8. QED BY <1>7 DEF T

\* A response: every message in it has an entry, and keeps it to the end.
LEMMA DeliveringCoherent ==
  ASSUME CoherenceInv, RInv', NEW l \in Loops, Responding(l)
  PROVE  CoherenceInv'
<1> USE DEF CoherenceInv, RInv, IInv, TypeOK, LoopsType, ServerType, Responding
<1>1. /\ Polling(l) /\ pc[l] # "hsWait" /\ subs[MetaConnect] # None
      /\ Adding(l) = {} /\ (~ acked => srvSubs = Entries)
  <2>1. pc[l] \in {"connWait", "deliver"}
    BY DEF ConnectOk, DeliverToApp, DeliverToSelf, DeliverOrphan, DeliverDone, At
  <2>2. Polling(l) /\ Adding(l) = {} BY <2>1 DEF Polling, PollingPc, Adding
  <2>3. QED BY <2>1, <2>2 DEF MetaKnown, Agreed
<1>2. ~ DeliverOrphan(l)
  BY DEF DeliverOrphan, BatchEnds, LastChannel, Deliverable
<1>3. /\ UNCHANGED <<csm, acked, err, subs, srvSubs, todo>>
      /\ pc' \in {pc, [pc EXCEPT ![l] = "deliver"], [pc EXCEPT ![l] = "select"]}
  BY <1>2 DEF ConnectOk, DeliverToApp, DeliverToSelf, DeliverDone, session, work,
     ending, server, Go
<1>4. Deliverable'
  <2>1. CASE ConnectOk(l)
    <3>1. PICK s \in BoundedSeq(srvSubs, MaxBatch) :
            \E ms \in Responses(s) : rest' = [rest EXCEPT ![l] = ms]
      BY <2>1 DEF ConnectOk
    <3>2. PICK ms \in Responses(s) : rest' = [rest EXCEPT ![l] = ms] BY <3>1
    <3>3. \A i \in DOMAIN ms : ms[i].ch \in srvSubs \cup {MetaConnect}
      BY ResponseChannels
    <3>4. \A c \in srvSubs : subs[c] # None
      BY <1>1, SetAssumption DEF Ended, Entries
    <3>5. QED BY <1>1, <1>3, <3>2, <3>3, <3>4 DEF Deliverable
  <2>2. CASE DeliverToApp(l) \/ DeliverToSelf(l)
    <3>1. PICK k \in DOMAIN rest[l] :
            rest' = rest \/ rest' = [rest EXCEPT ![l] = Others(@, k)]
      BY <2>2 DEF DeliverToApp, DeliverToSelf
    <3>2. \A i \in DOMAIN Others(rest[l], k) :
            i + k \in DOMAIN rest[l] /\ Others(rest[l], k)[i] = rest[l][i + k]
      <4>1. rest[l] \in Seq(Message) OBVIOUS
      <4>2. QED BY <4>1, Cut DEF Others
    <3>3. \A i \in DOMAIN Others(rest[l], k) : subs[Others(rest[l], k)[i].ch] # None
      BY <3>2 DEF Deliverable
    <3>4. QED BY <1>3, <3>1, <3>3 DEF Deliverable
  <2>3. CASE DeliverDone(l)
    BY <1>3, <2>3 DEF DeliverDone, Deliverable
  <2>4. QED BY <1>2, <2>1, <2>2, <2>3
<1>5. pc'[l] \in {"connWait", "deliver", "select"}
  <2>1. pc[l] \in {"connWait", "deliver"}
    BY DEF ConnectOk, DeliverToApp, DeliverToSelf, DeliverOrphan, DeliverDone, At
  <2>2. QED BY <1>3, <2>1
<1>6. Entries' = Entries /\ Adding(l)' = {}
  BY <1>3, <1>5 DEF Entries, Adding
<1>7. err'[l] # "orphan" BY <1>3 DEF NeverOrphaned
<1>8. acked => srvSubs' = {} BY <1>3 DEF Ended
<1>9. QED
  BY <1>1, <1>3, <1>4, <1>5, <1>6, <1>7, <1>8, PollingKeeps

\* The server forgets the session.
LEMMA DisconnectCoherent ==
  ASSUME CoherenceInv, RInv', DisconnectOk
  PROVE  CoherenceInv'
<1> USE DEF CoherenceInv
<1>1. /\ UNCHANGED <<csm, subs, pc, err, todo, rest>>
      /\ acked' = TRUE /\ srvSubs' = {}
  BY DEF DisconnectOk, session, work
<1>2. Entries' = Entries BY <1>1 DEF Entries
<1>3. Agreed' /\ Fresh' /\ Ended' BY <1>1, <1>2 DEF Agreed, Fresh, Ended
<1>4. NoFailures' /\ MetaKnown' /\ Deliverable' /\ NeverOrphaned'
  BY <1>1 DEF NoFailures, MetaKnown, Polling, Deliverable, NeverOrphaned
<1>5. QED BY <1>3, <1>4

\* At first there is nothing to agree about.
LEMMA InitCoherent == Init => CoherenceInv
<1> SUFFICES ASSUME Init PROVE CoherenceInv OBVIOUS
<1>1. RInv BY InitRefines
<1>2. Entries = {} BY SetAssumption DEF Init, Entries
<1>3. \A l \in Loops : pc[l] = "new" /\ rest[l] = <<>> /\ err[l] = "no"
  BY DEF Init
<1>4. Agreed /\ NoFailures /\ MetaKnown /\ Deliverable /\ NeverOrphaned
  BY <1>3 DEF Agreed, NoFailures, MetaKnown, Deliverable, NeverOrphaned, Polling,
     PollingPc
<1>5. Fresh /\ Ended BY <1>2 DEF Init, Fresh, Ended
<1>6. QED BY <1>1, <1>4, <1>5 DEF CoherenceInv

\* Every step keeps the agreement.
LEMMA NextCoherent ==
  ASSUME FailuresEnd, CoherenceInv, [Next]_vars PROVE CoherenceInv'
<1>1. RInv' BY NextRefines DEF CoherenceInv
<1>2. ASSUME NEW l \in Loops, Select(l) PROVE CoherenceInv'
  BY <1>1, <1>2, SelectCalm, CalmKeeps
<1>3. ASSUME NEW l \in Loops, Step(l) PROVE CoherenceInv'
  <2>1. CASE Handshake(l)   BY <1>1, <2>1, HandshakeCoherent
  <2>2. CASE HandshakeOk(l) BY <1>1, <2>2, HandshakeOkCoherent
  <2>3. CASE \/ SubscribeOk(l) \/ SubscribeError(l) \/ AddSubscription(l)
             \/ AddDone(l)
    BY <1>1, <2>3, SubscribingCoherent
  <2>4. CASE UnsubscribeOk(l) \/ UnsubscribeError(l)
    BY <1>1, <2>4, UnsubscribingCoherent
  <2>5. CASE Responding(l)  BY <1>1, <2>5, DeliveringCoherent
  <2>6. CASE \/ HandshakeError(l) \/ SendHandshake(l) \/ DrainSubscribe(l)
             \/ DrainClosed(l) \/ SubscribeSend(l) \/ DrainUnsubscribe(l)
             \/ UnsubscribeSend(l) \/ ConnectError(l) \/ ReadError(l)
    BY <1>1, <2>6, StepCalm, CalmKeeps
  <2>7. QED
    BY <1>3, <2>1, <2>2, <2>3, <2>4, <2>5, <2>6 DEF Step, Responding
<1>4. CASE TimerFires \/ Disconnecting \/ User
  BY <1>1, <1>4, OthersCalm, CalmKeeps, DisconnectCoherent
<1>5. CASE UNCHANGED vars
  <2>1. Calm
    BY <1>5 DEF vars, session, work, ending, server, Calm, CoherenceInv, NoFailures
  <2>2. QED BY <1>1, <2>1, CalmKeeps
<1>6. QED BY <1>2, <1>3, <1>4, <1>5 DEF Next

\* The agreement holds in every reachable state, where a failed request ends
\* the loop.
LEMMA ClientAgrees == ASSUME FailuresEnd PROVE Spec => []CoherenceInv
<1>1. CoherenceInv /\ [Next]_vars => CoherenceInv' BY NextCoherent
<1>2. QED BY InitCoherent, <1>1, PTL DEF Spec

\* Between two rounds of a loop the server's subscriptions are the entries of
\* the map.
THEOREM ClientCoherent == ASSUME FailuresEnd PROVE Spec => []Coherent
<1>1. ASSUME CoherenceInv, NEW l \in Loops, AtSelect(l), ~ acked
      PROVE  srvSubs = {c \in Channel : subs[c] \in Receiver}
  <2>1. Polling(l) /\ Adding(l) = {}
    BY <1>1 DEF AtSelect, Polling, PollingPc, Adding
  <2>2. QED BY <1>1, <2>1 DEF CoherenceInv, Agreed, Entries
<1>2. CoherenceInv => Coherent BY <1>1 DEF Coherent
<1>3. QED BY ClientAgrees, <1>2, PTL

\* No loop ends because a message has no entry.
THEOREM ClientNeverOrphaned == ASSUME FailuresEnd PROVE Spec => []NeverOrphaned
<1>1. CoherenceInv => NeverOrphaned BY DEF CoherenceInv
<1>2. QED BY ClientAgrees, <1>1, PTL

-----------------------------------------------------------------------------
\* What it takes to end the process or to get a loop stuck by itself.

\* A step that closes nothing, brings and handles no response, and does harm only
\* because something is closed or by an advice of the server.
Harmless ==
  /\ UNCHANGED <<closed, dpc, closing, disconnects, rest, served>>
  /\ \/ messageQ' = messageQ
     \/ messageQ # <<>> /\ messageQ' = Tail(messageQ)
  /\ crash' # crash =>
       \/ closed # {} /\ crash' \notin {"close", "advice"}
       \/ crash' = "advice" /\ "absent" \in Advices
  /\ \A k \in Loops :
       /\ pc'[k] = "spin"   => pc[k] = "spin" \/ closed # {}
       /\ pc'[k] = "sendHs" => pc[k] = "sendHs" \/ "handshake" \in Advices

\* Nothing is closed before the first Disconnect().
LEMMA ClosedLate ==
  ASSUME FirstCloses, disconnects \in Nat, closed # {}
  PROVE  disconnects > 0
BY DEF FirstCloses

\* A harmless step keeps the invariant.
LEMMA HarmlessKeeps ==
  ASSUME TroubleInv, RInv', Harmless
  PROVE  TroubleInv'
<1> USE DEF TroubleInv, Harmless
<1>1. disconnects \in Nat /\ messageQ \in Seq(AdviceKind)
  BY DEF RInv, IInv, TypeOK, EndingType, QueuesType
<1>2. FirstCloses' BY DEF FirstCloses, Closed
<1>3. Advised'
  <2>1. \A i \in DOMAIN messageQ' : messageQ'[i] \in Advices
    <3>1. CASE messageQ' = messageQ BY <3>1 DEF Advised
    <3>2. CASE messageQ # <<>> /\ messageQ' = Tail(messageQ)
      <4>1. \A i \in DOMAIN Tail(messageQ) :
              i + 1 \in DOMAIN messageQ /\ Tail(messageQ)[i] = messageQ[i + 1]
        BY <1>1, <3>2
      <4>2. QED BY <3>2, <4>1 DEF Advised
    <3>3. QED BY <3>1, <3>2
  <2>2. QED BY <2>1 DEF Advised
<1>4. closed # {} => disconnects > 0 BY <1>1, ClosedLate
<1>5. (PanicsExplained /\ LoopsExplained)'
  BY <1>1, <1>4 DEF PanicsExplained, LoopsExplained, DrainsForEver, WaitsForItself
<1>6. QED BY <1>2, <1>3, <1>5

\* What is at the head of the queue of replies is an advice of the server.
LEMMA HeadAdvised ==
  ASSUME Advised, messageQ \in Seq(AdviceKind), messageQ # <<>>
  PROVE  Head(messageQ) \in Advices
<1>1. 1 \in DOMAIN messageQ /\ Head(messageQ) = messageQ[1] OBVIOUS
<1>2. QED BY <1>1 DEF Advised

\* The cases of the select statement are harmless.
LEMMA SelectHarmless ==
  ASSUME NEW l \in Loops, TroubleInv, Select(l)
  PROVE  Harmless
<1>1. pc \in [Loops -> Pc] /\ messageQ \in Seq(AdviceKind)
  BY DEF TroubleInv, RInv, IInv, TypeOK, LoopsType, QueuesType
<1> USE DEF Harmless, work, ending, queues, server, At, Go, Fail
<1>2. CASE PollCancelled(l)   BY <1>1, <1>2 DEF PollCancelled
<1>3. CASE PollHandshake(l)   BY <1>1, <1>3 DEF PollHandshake
<1>4. CASE PollMessage(l)
  <2>1. Head(messageQ) \in Advices
    BY <1>1, <1>4, HeadAdvised DEF PollMessage, TroubleInv
  <2>2. QED BY <1>1, <1>4, <2>1 DEF PollMessage
<1>5. CASE PollDefault(l)     BY <1>1, <1>5 DEF PollDefault, Enqueue
<1>6. CASE PollSubscribe(l)   BY <1>1, <1>6 DEF PollSubscribe
<1>7. CASE PollUnsubscribe(l) BY <1>1, <1>7 DEF PollUnsubscribe
<1>8. CASE ConnectSend(l)     BY <1>1, <1>8 DEF ConnectSend
<1>9. QED BY <1>2, <1>3, <1>4, <1>5, <1>6, <1>7, <1>8 DEF Select

\* So are the other steps of a loop, but those that handle a response.
LEMMA StepHarmless ==
  ASSUME NEW l \in Loops, TroubleInv, Step(l), ~ Responding(l)
  PROVE  Harmless
<1>1. pc \in [Loops -> Pc] BY DEF TroubleInv, RInv, IInv, TypeOK, LoopsType
<1> USE DEF Harmless, work, ending, queues, server, At, Go, Fail, ReportOrFail
<1>2. CASE Handshake(l)        BY <1>1, <1>2 DEF Handshake
<1>3. CASE HandshakeOk(l)      BY <1>1, <1>3 DEF HandshakeOk, Enqueue
<1>4. CASE HandshakeError(l)   BY <1>1, <1>4 DEF HandshakeError
<1>5. CASE SendHandshake(l)    BY <1>1, <1>5 DEF SendHandshake
<1>6. CASE DrainSubscribe(l)   BY <1>1, <1>6 DEF DrainSubscribe
<1>7. CASE DrainClosed(l)      BY <1>1, <1>7 DEF DrainClosed
<1>8. CASE SubscribeSend(l)    BY <1>1, <1>8 DEF SubscribeSend, DropSubscribe
<1>9. CASE SubscribeOk(l)      BY <1>1, <1>9 DEF SubscribeOk
<1>10. CASE SubscribeError(l)  BY <1>1, <1>10 DEF SubscribeError, DropSubscribe
<1>11. CASE AddSubscription(l) BY <1>1, <1>11 DEF AddSubscription
<1>12. CASE AddDone(l)         BY <1>1, <1>12 DEF AddDone, Enqueue
<1>13. CASE DrainUnsubscribe(l) BY <1>1, <1>13 DEF DrainUnsubscribe
<1>14. CASE UnsubscribeSend(l) BY <1>1, <1>14 DEF UnsubscribeSend
<1>15. CASE UnsubscribeOk(l)   BY <1>1, <1>15 DEF UnsubscribeOk
<1>16. CASE UnsubscribeError(l) BY <1>1, <1>16 DEF UnsubscribeError
<1>17. CASE ConnectError(l)    BY <1>1, <1>17 DEF ConnectError
<1>18. CASE ReadError(l)       BY <1>1, <1>18 DEF ReadError
<1>19. QED BY <1>2, <1>3, <1>4, <1>5, <1>6, <1>7, <1>8, <1>9, <1>10, <1>11,
              <1>12, <1>13, <1>14, <1>15, <1>16, <1>17, <1>18
           DEF Step, Responding

\* So are timers and the application, but for the call of Disconnect().
LEMMA OthersHarmless ==
  ASSUME TroubleInv, TimerFires \/ User, ~ DisconnectCall
  PROVE  Harmless
<1>1. pc \in [Loops -> Pc] BY DEF TroubleInv, RInv, IInv, TypeOK, LoopsType
<1> USE DEF Harmless, work, ending, queues, server, Go
<1>2. CASE TimerFires BY <1>1, <1>2 DEF TimerFires, Enqueue
<1>3. ASSUME NEW q \in Request, UserSubscribe(q) PROVE Harmless
  BY <1>1, <1>3 DEF UserSubscribe
<1>4. ASSUME NEW c \in Channel, UserUnsubscribe(c) PROVE Harmless
  BY <1>1, <1>4 DEF UserUnsubscribe
<1>5. ASSUME NEW l \in Loops, Start(l) PROVE Harmless
  BY <1>1, <1>5 DEF Start
<1>6. ASSUME NEW l \in Loops, Cancel(l) PROVE Harmless
  BY <1>1, <1>6 DEF Cancel
<1>7. QED BY <1>2, <1>3, <1>4, <1>5, <1>6 DEF User

\* Disconnect() closes each channel once, and panics when it is called twice.
LEMMA DisconnectKeeps ==
  ASSUME TroubleInv, RInv', Disconnecting \/ DisconnectCall
  PROVE  TroubleInv'
<1>1. /\ disconnects \in Nat /\ closing \in 1 .. 6
      /\ dpc \in {"wait", "closing"} => closing \in 1 .. 5
  BY DEF TroubleInv, RInv, IInv, TypeOK, EndingType, ClosingInRange, CloseOrder
<1>2. Advised'
  BY DEF TroubleInv, Advised, Disconnecting, DisconnectCall, DisconnectOk,
     DisconnectError, Close, queues, work
<1>3. UNCHANGED pc
  BY DEF Disconnecting, DisconnectCall, DisconnectOk, DisconnectError, Close
<1>4. CASE DisconnectOk \/ DisconnectError
  <2>1. /\ UNCHANGED <<closed, closing, disconnects, crash>>
        /\ dpc = "wait" /\ dpc' = "closing"
    BY <1>4 DEF DisconnectOk, DisconnectError
  <2>2. FirstCloses' BY <1>1, <2>1 DEF TroubleInv, FirstCloses, Closed
  <2>3. (PanicsExplained /\ LoopsExplained)'
    BY <1>3, <2>1 DEF TroubleInv, PanicsExplained, LoopsExplained, DrainsForEver,
       WaitsForItself
  <2>4. QED BY <1>2, <2>2, <2>3 DEF TroubleInv
<1>5. CASE DisconnectCall
  <2>1. /\ UNCHANGED <<closed, crash>> /\ disconnects' = disconnects + 1
        /\ closing' = 1 /\ dpc' # "idle" /\ crash = "no"
    BY <1>5 DEF DisconnectCall, Running
  <2>2. FirstCloses'
    <3>1. Closed(1) = {} BY DEF Closed
    <3>2. CASE disconnects = 0
      BY <1>1, <2>1, <3>1, <3>2 DEF TroubleInv, FirstCloses, Closed
    <3>3. CASE disconnects # 0
      <4>1. disconnects' # 0 /\ disconnects' # 1 BY <1>1, <2>1, <3>3
      <4>2. QED BY <2>1, <4>1 DEF FirstCloses
    <3>4. QED BY <3>2, <3>3
  <2>3. (PanicsExplained /\ LoopsExplained)'
    BY <1>1, <1>3, <2>1 DEF TroubleInv, PanicsExplained, LoopsExplained, DrainsForEver,
       WaitsForItself
  <2>4. QED BY <1>2, <2>2, <2>3 DEF TroubleInv
<1>6. CASE Close
  <2>1. /\ UNCHANGED disconnects /\ dpc = "closing" /\ crash = "no"
        /\ disconnects # 0 /\ closing \in 1 .. 5
    BY <1>1, <1>6 DEF Close, Running, TroubleInv, FirstCloses
  <2>2. CASE CloseOrder[closing] \in closed
    <3>1. UNCHANGED <<closed, closing, dpc>> /\ crash' = "close"
      BY <1>6, <2>2 DEF Close
    <3>2. disconnects # 1
      <4>1. CloseOrder[closing] \notin Closed(closing)
        BY <2>1 DEF Closed, CloseOrder
      <4>2. QED BY <2>2, <4>1 DEF TroubleInv, FirstCloses
    <3>3. FirstCloses' BY <2>1, <3>1 DEF TroubleInv, FirstCloses, Closed
    <3>4. (PanicsExplained /\ LoopsExplained)'
      BY <1>1, <1>3, <2>1, <3>1, <3>2
      DEF TroubleInv, PanicsExplained, LoopsExplained, DrainsForEver, WaitsForItself
    <3>5. QED BY <1>2, <3>3, <3>4 DEF TroubleInv
  <2>3. CASE CloseOrder[closing] \notin closed
    <3>1. /\ closed' = closed \cup {CloseOrder[closing]} /\ closing' = closing + 1
          /\ dpc' # "idle" /\ UNCHANGED crash
      BY <1>6, <2>1, <2>3 DEF Close
    <3>2. FirstCloses'
      <4>1. Closed(closing + 1) = Closed(closing) \cup {CloseOrder[closing]}
        BY <2>1 DEF Closed
      <4>2. CASE disconnects = 1
        BY <2>1, <3>1, <4>1, <4>2 DEF TroubleInv, FirstCloses, Closed
      <4>3. CASE disconnects # 1 BY <2>1, <3>1, <4>3 DEF FirstCloses
      <4>4. QED BY <4>2, <4>3
    <3>3. (PanicsExplained /\ LoopsExplained)'
      BY <1>3, <2>1, <3>1
      DEF TroubleInv, PanicsExplained, LoopsExplained, DrainsForEver, WaitsForItself
    <3>4. QED BY <1>2, <3>2, <3>3 DEF TroubleInv
  <2>4. QED BY <2>2, <2>3
<1>7. QED BY <1>4, <1>5, <1>6 DEF Disconnecting

\* The reply in a response carries an advice the server may give.
LEMMA ResponseAdvised ==
  ASSUME srvSubs \subseteq Channel, served \in Nat,
         NEW s \in BoundedSeq(srvSubs, MaxBatch), NEW ms \in Responses(s)
  PROVE  \A i \in DOMAIN ms : ms[i].ch = MetaConnect => ms[i].advice \in Advices
<1>1. /\ Len(s) \in Nat /\ DOMAIN s = 1 .. Len(s)
      /\ \A i \in DOMAIN s : s[i] \in srvSubs
  BY BoundAssumption DEF BoundedSeq, SeqOf
<1> DEFINE S == {m \in [ch : srvSubs \cup {MetaConnect}, n : Int, advice : AdviceKind] :
                   m.ch = MetaConnect => m.advice \in Advices}
           d == Data(s)
<1>2. d = [i \in 1 .. Len(s) |-> [ch |-> s[i], n |-> served + i, advice |-> "absent"]]
  BY <1>1 DEF Data
<1>3. PICK a \in Advices : ms = d \o Reply(a) \/ ms = Reply(a) \o d
  BY DEF Responses
<1> DEFINE x == [ch |-> MetaConnect, n |-> 0, advice |-> a]
<1>4. x \in S /\ Reply(a) = <<x>> BY SetAssumption DEF Reply
<1>5. d \in Seq(S)
  <2>1. \A i \in 1 .. Len(s) :
          [ch |-> s[i], n |-> served + i, advice |-> "absent"] \in S
    <3>1. SUFFICES ASSUME NEW i \in 1 .. Len(s)
                   PROVE  [ch |-> s[i], n |-> served + i, advice |-> "absent"] \in S
      OBVIOUS
    <3>2. s[i] \in srvSubs /\ s[i] # MetaConnect /\ served + i \in Int
      BY <1>1, SetAssumption
    <3>3. QED BY <3>2 DEF AdviceKind
  <2> HIDE DEF S
  <2>2. QED BY <1>1, <1>2, <2>1
<1>6. ms = d \o <<x>> \/ ms = <<x>> \o d BY <1>3, <1>4
<1> HIDE DEF d, x, S
<1>7. \A i \in DOMAIN ms : ms[i] \in S
  <2>1. <<x>> \in Seq(S) BY <1>4
  <2>2. d \o <<x>> \in Seq(S) /\ <<x>> \o d \in Seq(S) BY <1>5, <2>1
  <2>3. ms \in Seq(S) BY <1>6, <2>2
  <2>4. QED BY <2>3
<1>8. QED BY <1>7 DEF S

\* A response is taken apart: only its reply gets into the queue of replies.
LEMMA RespondingTrouble ==
  ASSUME NEW l \in Loops, TroubleInv, RInv', Responding(l)
  PROVE  TroubleInv'
<1>1. /\ pc \in [Loops -> Pc] /\ rest \in [Loops -> Seq(Message)]
      /\ messageQ \in Seq(AdviceKind) /\ disconnects \in Nat
      /\ served \in Nat /\ srvSubs \subseteq Channel
  BY DEF TroubleInv, RInv, IInv, TypeOK, LoopsType, QueuesType, EndingType, ServerType
<1>2. /\ UNCHANGED <<closed, dpc, closing, disconnects>>
      /\ \A k \in Loops : pc'[k] \in {"spin", "sendHs"} => pc'[k] = pc[k]
  BY <1>1 DEF Responding, ConnectOk, DeliverToApp, DeliverToSelf, DeliverOrphan,
     DeliverDone, ending, Go, Fail
<1>3. crash' # crash => closed # {} /\ crash' = "send"
  BY DEF Responding, ConnectOk, DeliverToApp, DeliverToSelf, DeliverOrphan,
     DeliverDone
<1>4. FirstCloses' BY <1>2 DEF TroubleInv, FirstCloses, Closed
<1>5. (PanicsExplained /\ LoopsExplained)'
  <2>1. closed # {} => disconnects > 0 BY <1>1, ClosedLate DEF TroubleInv
  <2>2. QED
    BY <1>1, <1>2, <1>3, <2>1
    DEF TroubleInv, PanicsExplained, LoopsExplained, DrainsForEver, WaitsForItself
<1>6. Advised'
  <2>1. ASSUME UNCHANGED messageQ, NEW ms, rest' = [rest EXCEPT ![l] = ms],
               \A i \in DOMAIN ms : ms[i].ch = MetaConnect => ms[i].advice \in Advices
        PROVE  Advised'
    BY <1>1, <2>1 DEF TroubleInv, Advised
  <2>2. ASSUME NEW k \in DOMAIN rest[l]
        PROVE  \A i \in DOMAIN Others(rest[l], k) :
                 Others(rest[l], k)[i].ch = MetaConnect
                   => Others(rest[l], k)[i].advice \in Advices
    <3>1. rest[l] \in Seq(Message) BY <1>1
    <3>2. \A i \in DOMAIN Others(rest[l], k) :
            i + k \in DOMAIN rest[l] /\ Others(rest[l], k)[i] = rest[l][i + k]
      BY <3>1, Cut DEF Others
    <3>3. QED BY <3>2 DEF TroubleInv, Advised
  <2>3. CASE ConnectOk(l)
    <3>1. PICK s \in BoundedSeq(srvSubs, MaxBatch) :
            \E ms \in Responses(s) : rest' = [rest EXCEPT ![l] = ms]
      BY <2>3 DEF ConnectOk
    <3>2. PICK ms \in Responses(s) : rest' = [rest EXCEPT ![l] = ms] BY <3>1
    <3>3. \A i \in DOMAIN ms : ms[i].ch = MetaConnect => ms[i].advice \in Advices
      BY <1>1, ResponseAdvised
    <3>4. UNCHANGED messageQ BY <2>3 DEF ConnectOk, queues
    <3>5. QED BY <2>1, <3>2, <3>3, <3>4
  <2>4. CASE DeliverToApp(l)
    <3>1. PICK k \in DOMAIN rest[l] : rest' = [rest EXCEPT ![l] = Others(@, k)]
      BY <2>4 DEF DeliverToApp
    <3>2. UNCHANGED messageQ BY <2>4 DEF DeliverToApp, queues
    <3>3. rest' = [rest EXCEPT ![l] = Others(rest[l], k)] BY <1>1, <3>1
    <3>4. QED BY <2>1, <2>2, <3>2, <3>3
  <2>5. CASE DeliverOrphan(l) \/ DeliverDone(l)
    <3>1. UNCHANGED messageQ /\ rest' = [rest EXCEPT ![l] = <<>>]
      BY <2>5 DEF DeliverOrphan, DeliverDone, queues
    <3>2. \A i \in DOMAIN <<>> :
            <<>>[i].ch = MetaConnect => <<>>[i].advice \in Advices
      <4>1. DOMAIN <<>> = {} OBVIOUS
      <4>2. QED BY <4>1
    <3>3. QED BY <2>1, <3>1, <3>2
  <2>6. CASE DeliverToSelf(l)
    <3>1. PICK k \in DOMAIN rest[l] :
            /\ BatchEnds(rest[l], k)
            /\ subs[LastChannel(rest[l], k)] = Inner
            /\ \/ UNCHANGED <<messageQ, rest>>
               \/ /\ messageQ' = Append(messageQ, rest[l][1].advice)
                  /\ rest' = [rest EXCEPT ![l] = Others(@, k)]
      BY <2>6 DEF DeliverToSelf
    <3>2. rest[l] \in Seq(Message) BY <1>1
    <3>3. k \in 1 .. Len(rest[l]) /\ LastChannel(rest[l], k) = rest[l][1].ch
          /\ rest[l][1].ch \in Channel \cup {MetaConnect}
      BY <3>1, <3>2, BatchShape
    <3>4. rest[l][1].ch = MetaConnect
      BY <3>1, <3>3 DEF TroubleInv, RInv, MetaEntry
    <3>5. 1 \in DOMAIN rest[l] BY <3>2, <3>3
    <3>6. rest[l][1].advice \in Advices BY <3>4, <3>5 DEF TroubleInv, Advised
    <3>7. CASE UNCHANGED <<messageQ, rest>> BY <3>7 DEF TroubleInv, Advised
    <3>8. CASE /\ messageQ' = Append(messageQ, rest[l][1].advice)
               /\ rest' = [rest EXCEPT ![l] = Others(@, k)]
      <4> DEFINE a == rest[l][1].advice
      <4>1. \A i \in DOMAIN messageQ' : messageQ'[i] \in Advices
        <5>1. a \in Advices /\ messageQ' = Append(messageQ, a) BY <3>6, <3>8
        <5>2. messageQ \in Seq(Advices) BY <1>1 DEF TroubleInv, Advised
        <5> HIDE DEF a
        <5>3. messageQ' \in Seq(Advices) BY <5>1, <5>2
        <5>4. QED BY <5>3
      <4>2. \A i \in DOMAIN rest'[l] :
              rest'[l][i].ch = MetaConnect => rest'[l][i].advice \in Advices
        BY <1>1, <2>2, <3>8
      <4>3. \A j \in Loops : j # l => rest'[j] = rest[j] BY <1>1, <3>8
      <4>4. QED BY <4>1, <4>2, <4>3 DEF TroubleInv, Advised
    <3>9. QED BY <3>1, <3>7, <3>8
  <2>7. QED BY <2>3, <2>4, <2>5, <2>6 DEF Responding
<1>7. QED BY <1>4, <1>5, <1>6 DEF TroubleInv

\* At first nothing is closed, nothing waits, and nothing has gone wrong.
LEMMA InitTrouble == Init => TroubleInv
<1> SUFFICES ASSUME Init PROVE TroubleInv OBVIOUS
<1>1. RInv BY InitRefines
<1>2. /\ disconnects = 0 /\ closed = {} /\ dpc = "idle" /\ crash = "no"
      /\ messageQ = <<>> /\ \A l \in Loops : pc[l] = "new" /\ rest[l] = <<>>
  BY DEF Init
<1>3. DOMAIN <<>> = {} OBVIOUS
<1>4. Advised BY <1>2, <1>3 DEF Advised
<1>5. FirstCloses /\ PanicsExplained /\ LoopsExplained
  BY <1>2 DEF FirstCloses, PanicsExplained, LoopsExplained, DrainsForEver,
     WaitsForItself
<1>6. QED BY <1>1, <1>4, <1>5 DEF TroubleInv

\* Every step keeps the invariant.
LEMMA NextTrouble == ASSUME TroubleInv, [Next]_vars PROVE TroubleInv'
<1>1. RInv' BY NextRefines DEF TroubleInv
<1>2. ASSUME NEW l \in Loops, Select(l) PROVE TroubleInv'
  BY <1>1, <1>2, SelectHarmless, HarmlessKeeps
<1>3. ASSUME NEW l \in Loops, Step(l) PROVE TroubleInv'
  BY <1>1, <1>3, StepHarmless, RespondingTrouble, HarmlessKeeps
<1>4. CASE TimerFires \/ Disconnecting \/ User
  BY <1>1, <1>4, OthersHarmless, DisconnectKeeps, HarmlessKeeps
<1>5. CASE UNCHANGED vars
  <2>1. Harmless BY <1>5 DEF vars, ending, work, queues, server, Harmless
  <2>2. QED BY <1>1, <2>1, HarmlessKeeps
<1>6. QED BY <1>2, <1>3, <1>4, <1>5 DEF Next

-----------------------------------------------------------------------------
\* What it takes to fill the queue of replies.

\* A response holds one reply, which has data after it only where the server
\* puts the reply first and sends data at all.
LEMMA ResponseCounted ==
  ASSUME srvSubs \subseteq Channel,
         NEW s \in BoundedSeq(srvSubs, MaxBatch), NEW ms \in Responses(s)
  PROVE  /\ Len(s) \in Nat
         /\ OneReply(ms)
         /\ ReplyAhead(ms) => "first" \in ReplyAt /\ Len(s) > 0
<1>1. /\ Len(s) \in Nat /\ DOMAIN s = 1 .. Len(s)
      /\ \A i \in DOMAIN s : s[i] \in srvSubs
  BY BoundAssumption DEF BoundedSeq, SeqOf
<1> DEFINE d == Data(s)
           n == Len(s)
<1>2. /\ d = [i \in 1 .. n |-> [ch |-> s[i], n |-> served + i, advice |-> "absent"]]
      /\ \A i \in 1 .. n : d[i].ch # MetaConnect
  BY <1>1, SetAssumption DEF Data
<1>3. d \in Seq({d[i] : i \in 1 .. n}) /\ Len(d) = n
  BY <1>1, <1>2
<1> HIDE DEF d
<1>4. PICK a \in Advices :
        \/ "last" \in ReplyAt  /\ ms = d \o Reply(a)
        \/ "first" \in ReplyAt /\ ms = Reply(a) \o d
  BY DEF Responses, d
<1> DEFINE x == [ch |-> MetaConnect, n |-> 0, advice |-> a]
<1>5. Reply(a) = <<x>> /\ x.ch = MetaConnect BY DEF Reply
<1> HIDE DEF x
<1>6. CASE ms = d \o Reply(a)
  <2>1. Len(ms) = n + 1 /\ DOMAIN ms = 1 .. n + 1 /\ \A i \in 1 .. n : ms[i] = d[i]
    BY <1>1, <1>3, <1>5, <1>6
  <2>2. \A i \in DOMAIN ms : ms[i].ch = MetaConnect => i = n + 1
    BY <1>1, <1>2, <2>1
  <2>3. QED BY <1>1, <2>1, <2>2 DEF OneReply, ReplyAhead
<1>7. CASE "first" \in ReplyAt /\ ms = Reply(a) \o d
  <2>1. /\ Len(ms) = n + 1 /\ DOMAIN ms = 1 .. n + 1
        /\ \A i \in 2 .. n + 1 : i - 1 \in 1 .. n /\ ms[i] = d[i - 1]
    BY <1>1, <1>3, <1>5, <1>7
  <2>2. \A i \in DOMAIN ms : ms[i].ch = MetaConnect => i = 1
    BY <1>1, <1>2, <2>1
  <2>3. QED BY <1>1, <1>7, <2>1, <2>2 DEF OneReply, ReplyAhead
<1>8. QED BY <1>4, <1>6, <1>7

\* What remains after a batch has no reply that was not there before, and none
\* when the batch was the reply.
LEMMA OthersCounted ==
  ASSUME NEW ms \in Seq(Message), NEW k \in DOMAIN ms, OneReply(ms)
  PROVE  /\ OneReply(Others(ms, k))
         /\ ReplyAhead(Others(ms, k)) => ReplyAhead(ms) /\ ms[1].ch # MetaConnect
<1> DEFINE o == Others(ms, k)
<1>1. k \in Nat /\ k > 0 /\ Len(ms) \in Nat /\ 1 \in DOMAIN ms OBVIOUS
<1>2. \A i \in DOMAIN o : i + k \in DOMAIN ms /\ o[i] = ms[i + k]
  BY Cut DEF Others
<1>3. o \in Seq(Message) /\ Len(o) = Len(ms) - k /\ DOMAIN o = 1 .. Len(ms) - k
  BY Cut DEF Others
<1> HIDE DEF o
<1>4. OneReply(o)
  <2>1. SUFFICES ASSUME NEW i \in DOMAIN o, NEW j \in DOMAIN o,
                        o[i].ch = MetaConnect, o[j].ch = MetaConnect
                 PROVE  i = j
    BY DEF OneReply
  <2>2. i + k = j + k BY <1>2, <2>1 DEF OneReply
  <2>3. QED BY <1>1, <1>3, <2>2
<1>5. ASSUME ReplyAhead(o) PROVE ReplyAhead(ms) /\ ms[1].ch # MetaConnect
  <2>1. PICK i \in DOMAIN o : o[i].ch = MetaConnect /\ i < Len(o)
    BY <1>5 DEF ReplyAhead
  <2>2. i + k \in DOMAIN ms /\ ms[i + k].ch = MetaConnect /\ i \in Nat /\ i > 0
    BY <1>2, <1>3, <2>1
  <2>3. i + k < Len(ms) /\ i + k # 1 BY <1>1, <1>3, <2>1, <2>2
  <2>4. QED BY <1>1, <2>2, <2>3 DEF ReplyAhead, OneReply
<1>6. QED BY <1>4, <1>5 DEF o

\* Where nothing remains there is no reply.
LEMMA NothingCounted == OneReply(<<>>) /\ ~ ReplyAhead(<<>>)
<1>1. DOMAIN <<>> = {} OBVIOUS
<1>2. QED BY <1>1 DEF OneReply, ReplyAhead

\* A step that brings and handles no response, and puts no reply into the queue.
LEMMA RoomKeeps ==
  ASSUME RoomInv, RInv', UNCHANGED <<rest, served>>,
         \/ messageQ' = messageQ
         \/ messageQ # <<>> /\ messageQ' = Tail(messageQ)
  PROVE  RoomInv'
<1>1. messageQ \in Seq(AdviceKind) /\ served \in Nat
  BY DEF RoomInv, RInv, IInv, TypeOK, QueuesType, ServerType
<1>2. Len(messageQ') \in Nat /\ Len(messageQ') <= Len(messageQ)
      /\ (messageQ' # <<>> => messageQ # <<>>) /\ Len(messageQ) \in Nat
  BY <1>1
<1>3. RepliesCounted' BY <1>1, <1>2 DEF RoomInv, RepliesCounted
<1>4. QED BY <1>3 DEF RoomInv

\* A reply that gets into the queue was counted while it was in the response.
LEMMA RespondingRoom ==
  ASSUME NEW l \in Loops, RoomInv, RInv', Responding(l)
  PROVE  RoomInv'
<1>1. /\ rest \in [Loops -> Seq(Message)] /\ messageQ \in Seq(AdviceKind)
      /\ served \in Nat /\ srvSubs \subseteq Channel /\ Len(messageQ) \in Nat
  BY DEF RoomInv, RInv, IInv, TypeOK, LoopsType, QueuesType, ServerType
<1>2. Len(messageQ) <= served /\ (messageQ # <<>> => "first" \in ReplyAt)
  BY DEF RoomInv, RepliesCounted
<1>3. \A j \in Loops :
        /\ OneReply(rest[j])
        /\ ReplyAhead(rest[j]) => "first" \in ReplyAt /\ Len(messageQ) < served
  BY DEF RoomInv, RepliesCounted
<1>4. ASSUME UNCHANGED messageQ, served' \in Nat, served' >= served, NEW ms,
             rest' = [rest EXCEPT ![l] = ms], OneReply(ms),
             ReplyAhead(ms) => "first" \in ReplyAt /\ Len(messageQ) < served'
      PROVE  RepliesCounted'
  <2>1. Len(messageQ') <= served' /\ (messageQ' # <<>> => "first" \in ReplyAt)
    BY <1>1, <1>2, <1>4
  <2>2. ASSUME NEW j \in Loops
        PROVE  /\ OneReply(rest'[j])
               /\ ReplyAhead(rest'[j])
                    => "first" \in ReplyAt /\ Len(messageQ') < served'
    <3>1. CASE j = l
      <4>1. rest'[j] = ms BY <1>1, <1>4, <3>1
      <4>2. QED BY <1>4, <4>1
    <3>2. CASE j # l
      <4>1. rest'[j] = rest[j] BY <1>1, <1>4, <3>2
      <4>2. QED BY <1>1, <1>3, <1>4, <4>1
    <3>3. QED BY <3>1, <3>2
  <2>3. QED BY <2>1, <2>2 DEF RepliesCounted, OneReply, ReplyAhead
<1>5. CASE ConnectOk(l)
  <2>1. PICK s \in BoundedSeq(srvSubs, MaxBatch) :
          /\ served' = served + Len(s)
          /\ \E ms \in Responses(s) : rest' = [rest EXCEPT ![l] = ms]
    BY <1>5 DEF ConnectOk
  <2>2. PICK ms \in Responses(s) : rest' = [rest EXCEPT ![l] = ms] BY <2>1
  <2>3. /\ Len(s) \in Nat /\ OneReply(ms)
        /\ ReplyAhead(ms) => "first" \in ReplyAt /\ Len(s) > 0
    BY <1>1, ResponseCounted
  <2>4. UNCHANGED messageQ BY <1>5 DEF ConnectOk, queues
  <2>5. served' \in Nat /\ served' >= served /\ (Len(s) > 0 => served' > served)
    BY <1>1, <2>1, <2>3
  <2>6. ReplyAhead(ms) => "first" \in ReplyAt /\ Len(messageQ) < served'
    BY <1>1, <1>2, <2>3, <2>5
  <2>7. RepliesCounted' BY <1>4, <2>2, <2>3, <2>4, <2>5, <2>6
  <2>8. QED BY <2>7 DEF RoomInv
<1>6. CASE DeliverToApp(l)
  <2>1. PICK k \in DOMAIN rest[l] : rest' = [rest EXCEPT ![l] = Others(@, k)]
    BY <1>6 DEF DeliverToApp
  <2>2. rest' = [rest EXCEPT ![l] = Others(rest[l], k)] BY <1>1, <2>1
  <2>3. /\ OneReply(Others(rest[l], k))
        /\ ReplyAhead(Others(rest[l], k)) => ReplyAhead(rest[l])
    BY <1>1, <1>3, OthersCounted
  <2>4. UNCHANGED <<messageQ, served>> BY <1>6 DEF DeliverToApp, queues, server
  <2>5. served' \in Nat /\ served' >= served BY <1>1, <2>4
  <2>6. ReplyAhead(Others(rest[l], k)) =>
          "first" \in ReplyAt /\ Len(messageQ) < served'
    BY <1>3, <2>3, <2>4
  <2>7. RepliesCounted' BY <1>4, <2>2, <2>3, <2>4, <2>5, <2>6
  <2>8. QED BY <2>7 DEF RoomInv
<1>7. CASE DeliverOrphan(l) \/ DeliverDone(l)
  <2>1. UNCHANGED <<messageQ, served>> /\ rest' = [rest EXCEPT ![l] = <<>>]
    BY <1>7 DEF DeliverOrphan, DeliverDone, queues, server
  <2>2. served' \in Nat /\ served' >= served BY <1>1, <2>1
  <2>3. RepliesCounted' BY <1>4, <2>1, <2>2, NothingCounted
  <2>4. QED BY <2>3 DEF RoomInv
<1>8. CASE DeliverToSelf(l)
  <2>1. PICK k \in DOMAIN rest[l] :
          /\ BatchEnds(rest[l], k)
          /\ subs[LastChannel(rest[l], k)] = Inner
          /\ \/ UNCHANGED <<messageQ, rest>>
             \/ /\ messageQ' = Append(messageQ, rest[l][1].advice)
                /\ rest' = [rest EXCEPT ![l] = Others(@, k)]
    BY <1>8 DEF DeliverToSelf
  <2>2. UNCHANGED served BY <1>8 DEF DeliverToSelf, server
  <2>3. /\ k \in 1 .. Len(rest[l]) /\ LastChannel(rest[l], k) = rest[l][1].ch
        /\ rest[l][1].ch \in Channel \cup {MetaConnect}
    BY <1>1, <2>1, BatchShape
  <2>4. rest[l][1].ch = MetaConnect BY <2>1, <2>3 DEF RoomInv, RInv, MetaEntry
  <2>5. 1 \in DOMAIN rest[l] /\ 1 < Len(rest[l])
    BY <1>1, <2>1, <2>3 DEF BatchEnds
  <2>6. ReplyAhead(rest[l]) BY <2>4, <2>5 DEF ReplyAhead
  <2>7. "first" \in ReplyAt /\ Len(messageQ) < served BY <1>3, <2>6
  <2>8. CASE UNCHANGED <<messageQ, rest>>
    BY <2>2, <2>8, RoomKeeps
  <2>9. CASE /\ messageQ' = Append(messageQ, rest[l][1].advice)
             /\ rest' = [rest EXCEPT ![l] = Others(@, k)]
    <3>1. Len(messageQ') = Len(messageQ) + 1 BY <1>1, <2>9
    <3>2. ASSUME NEW j \in Loops PROVE OneReply(rest'[j]) /\ ~ ReplyAhead(rest'[j])
      <4>1. CASE j = l
        <5>1. rest'[j] = Others(rest[l], k) BY <1>1, <2>9, <4>1
        <5>2. /\ OneReply(Others(rest[l], k))
              /\ ReplyAhead(Others(rest[l], k)) => rest[l][1].ch # MetaConnect
          BY <1>1, <1>3, OthersCounted
        <5>3. QED BY <2>4, <5>1, <5>2
      <4>2. CASE j # l
        <5>1. Polling(l) BY <1>8 DEF DeliverToSelf, At, Polling, PollingPc
        <5>2. rest[j] # <<>> => Polling(j)
          BY DEF RoomInv, RInv, RestOwner, Polling, PollingPc
        <5>3. rest[j] = <<>> BY <4>2, <5>1, <5>2 DEF RoomInv, RInv, IInv, OneLoop
        <5>4. rest'[j] = <<>> BY <1>1, <2>9, <4>2, <5>3
        <5>5. QED BY <5>4, NothingCounted
      <4>3. QED BY <4>1, <4>2
    <3>3. Len(messageQ') <= served' BY <1>1, <2>2, <2>7, <3>1
    <3>4. RepliesCounted'
      BY <2>7, <3>2, <3>3 DEF RepliesCounted, OneReply, ReplyAhead
    <3>5. QED BY <3>4 DEF RoomInv
  <2>10. QED BY <2>1, <2>8, <2>9
<1>9. QED BY <1>5, <1>6, <1>7, <1>8 DEF Responding

\* At first there are no replies.
LEMMA InitRoom == Init => RoomInv
<1> SUFFICES ASSUME Init PROVE RoomInv OBVIOUS
<1>1. RInv BY InitRefines
<1>2. served = 0 /\ messageQ = <<>> /\ \A l \in Loops : rest[l] = <<>> BY DEF Init
<1>3. RepliesCounted BY <1>2, NothingCounted DEF RepliesCounted
<1>4. QED BY <1>1, <1>3 DEF RoomInv

\* Every step keeps the count.
LEMMA NextRoom == ASSUME TroubleInv, RoomInv, [Next]_vars PROVE RoomInv'
<1>1. RInv' BY NextRefines DEF RoomInv
<1>2. ASSUME Harmless PROVE RoomInv' BY <1>1, <1>2, RoomKeeps DEF Harmless
<1>3. ASSUME NEW l \in Loops, Select(l) PROVE RoomInv'
  BY <1>2, <1>3, SelectHarmless
<1>4. ASSUME NEW l \in Loops, Step(l) PROVE RoomInv'
  BY <1>1, <1>2, <1>4, StepHarmless, RespondingRoom
<1>5. CASE (TimerFires \/ User) /\ ~ DisconnectCall
  BY <1>2, <1>5, OthersHarmless
<1>6. CASE Disconnecting \/ DisconnectCall
  <2>1. UNCHANGED <<rest, served, messageQ>>
    BY <1>6 DEF Disconnecting, DisconnectCall, DisconnectOk, DisconnectError, Close,
       queues, work, server
  <2>2. QED BY <1>1, <2>1, RoomKeeps
<1>7. CASE UNCHANGED vars
  <2>1. UNCHANGED <<rest, served, messageQ>>
    BY <1>7 DEF vars, queues, work, server
  <2>2. QED BY <1>1, <2>1, RoomKeeps
<1>8. QED BY <1>3, <1>4, <1>5, <1>6, <1>7 DEF Next

\* Where a loop waits for room, the reply it cannot send was counted.
LEMMA RoomCounted == RoomInv => RoomExplained
<1> SUFFICES ASSUME RoomInv, NEW l \in Loops, WaitsForRoom(l)
             PROVE  "first" \in ReplyAt /\ served > MessageCap
  BY DEF RoomExplained
<1>1. rest[l] \in Seq(Message) /\ served \in Nat /\ Len(messageQ) \in Nat
  BY DEF RoomInv, RInv, IInv, TypeOK, LoopsType, QueuesType, ServerType
<1>2. PICK k \in DOMAIN rest[l] :
        BatchEnds(rest[l], k) /\ subs[LastChannel(rest[l], k)] = Inner
  BY DEF WaitsForRoom
<1>3. /\ k \in 1 .. Len(rest[l]) /\ LastChannel(rest[l], k) = rest[l][1].ch
      /\ rest[l][1].ch \in Channel \cup {MetaConnect}
  BY <1>1, <1>2, BatchShape
<1>4. rest[l][1].ch = MetaConnect BY <1>2, <1>3 DEF RoomInv, RInv, MetaEntry
<1>5. 1 \in DOMAIN rest[l] /\ 1 < Len(rest[l]) BY <1>1, <1>2, <1>3 DEF BatchEnds
<1>6. ReplyAhead(rest[l]) BY <1>4, <1>5 DEF ReplyAhead
<1>7. QED BY <1>1, <1>6 DEF RoomInv, RepliesCounted, WaitsForRoom

\* However many loops, timers and calls there are, the process panics only after
\* Disconnect() or at a reply without advice, and closes a channel twice only at a
\* second Disconnect(); a loop drains for ever only after Disconnect(), waits for
\* itself only where the server advises a handshake, and for room in its queue only
\* where the server puts replies first and has sent more data than the queue has
\* places (client.go:162-170, 288-297, 323, 341).
THEOREM ClientTroubleExplained == Spec => []TroubleExplained
<1>1. TroubleInv /\ RoomInv /\ [Next]_vars => (TroubleInv /\ RoomInv)'
  BY NextTrouble, NextRoom
<1>2. TroubleInv /\ RoomInv => TroubleExplained
  BY RoomCounted DEF TroubleInv, TroubleExplained
<1>3. QED BY InitTrouble, InitRoom, <1>1, <1>2, PTL DEF Spec
=============================================================================
