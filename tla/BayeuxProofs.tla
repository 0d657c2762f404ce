----------------------------- MODULE BayeuxProofs -----------------------------
(***************************************************************************)
(* Theorems about the low-level client under any number of callers.        *)
(***************************************************************************)
EXTENDS BayeuxProperties, TLAPS

\* A new client satisfies the invariant.
LEMMA InitIInv == Init => IInv
<1> SUFFICES ASSUME Init PROVE IInv OBVIOUS
<1>1. TypeOK
  BY SetAssumption DEF Init, TypeOK, ConnState, Pc, Operation, Result
<1>2. \A c \in Caller : pc[c] = "idle" /\ id[c] = NoID /\ response[c] = {}
  BY DEF Init
<1>3. QED
  BY <1>1, <1>2 DEF Init, IInv, OneShaking, ShakingState, Shaking, Sent,
     SessionKnown, ReadKnown, Offered, Unconnected, Connecting, Connected

\* What a builder and the extensions make of a call are messages.
LEMMA MessagesType ==
  ASSUME TypeOK, NEW o \in Operation, NEW i \in ClientIDs \cup {NoID},
         NEW a \in SUBSET Channel
  PROVE  {Outgoing(m) : m \in Build(o, i, a)} \subseteq Message
<1>1. \A m \in Build(o, i, a) : m \in Message /\ m.ext = Nil
  BY DEF Build, Message
<1>2. QED BY <1>1 DEF Outgoing

\* What the server answers are replies.
LEMMA AnswerType ==
  ASSUME NEW o \in Operation \cup {"data"}, NEW b \in BOOLEAN,
         NEW i \in ClientIDs \cup {NoID}, NEW x \in Channel \cup {NoChannel}
  PROVE  Answer(o, b, i, x) \in Reply
BY DEF Answer, Reply

\* Every step keeps the types.
LEMMA NextTypeOK ==
  ASSUME TypeOK, ReadKnown, [Next]_vars
  PROVE  TypeOK'
<1> USE DEF TypeOK, Go, At, local, server, Pc
<1>1. ASSUME NEW c \in Caller, HandshakeEvent(c) PROVE TypeOK'
  <2>1. csm' \in ConnState BY <1>1 DEF HandshakeEvent, After, ConnState
  <2>2. QED BY <1>1, <2>1 DEF HandshakeEvent, Return, Result
<1>2. ASSUME NEW c \in Caller, ReadID(c) PROVE TypeOK' BY <1>2 DEF ReadID
<1>3. ASSUME NEW c \in Caller, ReadState(c) PROVE TypeOK'
  BY <1>3 DEF ReadState, Return, Result
<1>4. ASSUME NEW c \in Caller, Send(c) PROVE TypeOK'
  <2>1. CASE BuildFails(op[c], arg[c])
    BY <1>4, <2>1 DEF Send, Return, Result
  <2>2. CASE ~ BuildFails(op[c], arg[c])
    <3>1. {Outgoing(m) : m \in Build(op[c], id[c], arg[c])} \subseteq Message
      BY MessagesType
    <3>2. out' \in [Caller -> SUBSET Message] BY <1>4, <2>2, <3>1 DEF Send
    <3>3. QED BY <1>4, <2>2, <3>2 DEF Send
  <2>3. QED BY <2>1, <2>2
<1>5. ASSUME NEW c \in Caller, ServeHandshake(c) PROVE TypeOK'
  <2>1. /\ Answer("data", TRUE, NoID, NoChannel) \in Reply
        /\ Answer("handshake", FALSE, NoID, NoChannel) \in Reply
        /\ \A i \in ClientIDs : Answer("handshake", TRUE, i, NoChannel) \in Reply
    BY AnswerType DEF Operation
  <2>2. \E r \in SUBSET Reply : response' = [response EXCEPT ![c] = r]
    <3>1. CASE \E i \in ClientIDs \ granted :
                 \E more \in SUBSET {Answer("data", TRUE, NoID, NoChannel)} :
                   response' = [response EXCEPT ![c] =
                     {Answer("handshake", TRUE, i, NoChannel)} \cup more]
      BY <2>1, <3>1
    <3>2. CASE \E r \in SUBSET {Answer("handshake", FALSE, NoID, NoChannel)} :
                 response' = [response EXCEPT ![c] = r]
      BY <2>1, <3>2
    <3>3. QED BY <1>5, <3>1, <3>2 DEF ServeHandshake
  <2>3. response' \in [Caller -> SUBSET Reply] BY <2>2
  <2>4. granted' = granted \/ \E i \in ClientIDs : granted' = granted \cup {i}
    BY <1>5, Zenon DEF ServeHandshake
  <2>5. QED BY <1>5, <2>3, <2>4 DEF ServeHandshake
<1>6. ASSUME NEW c \in Caller, ServeRequest(c) PROVE TypeOK'
  <2>1. PICK accepted \in SUBSET out[c], data \in SUBSET Data(op[c], srvSubs[id[c]]) :
          response' = [response EXCEPT ![c] =
            {Answer(m.op, m \in accepted, NoID, m.ch) : m \in out[c]} \cup data]
    BY <1>6, Zenon DEF ServeRequest
  <2>2. \A m \in out[c] : m.op \in Operation /\ m.ch \in Channel \cup {NoChannel}
    BY DEF Message
  <2>3. \A m \in out[c] : (m \in accepted) \in BOOLEAN OBVIOUS
  <2>4. \A m \in out[c] : Answer(m.op, m \in accepted, NoID, m.ch) \in Reply
    BY <2>2, <2>3, AnswerType, Zenon
  <2>5. srvSubs[id[c]] \subseteq Channel
    BY <1>6 DEF ServeRequest, ReadKnown
  <2>6. \A x \in Channel : Answer("data", TRUE, NoID, x) \in Reply
    BY AnswerType
  <2>7. data \subseteq Reply
    <3>1. Data(op[c], srvSubs[id[c]]) \subseteq Reply BY <2>5, <2>6 DEF Data
    <3>2. QED BY <3>1
  <2>8. response' \in [Caller -> SUBSET Reply]
    <3>1. {Answer(m.op, m \in accepted, NoID, m.ch) : m \in out[c]} \cup data
            \in SUBSET Reply
      BY <2>4, <2>7, Zenon
    <3>2. QED BY <2>1, <3>1
  <2>9. srvSubs' \in [ClientIDs -> SUBSET Channel]
    BY <1>6 DEF ServeRequest
  <2>10. QED BY <1>6, <2>8, <2>9 DEF ServeRequest
<1>7. ASSUME NEW c \in Caller, Lost(c) PROVE TypeOK'
  BY <1>7 DEF Lost, Return, Result
<1>8. ASSUME NEW c \in Caller, ReceiveHandshake(c) PROVE TypeOK'
  BY <1>8 DEF ReceiveHandshake, Return, Result
<1>9. ASSUME NEW c \in Caller, SetID(c) PROVE TypeOK'
  BY <1>9 DEF SetID, Reply
<1>10. ASSUME NEW c \in Caller, Established(c) PROVE TypeOK'
  <2>1. csm' \in ConnState BY <1>10 DEF Established, After, ConnState
  <2>2. QED BY <1>10, <2>1 DEF Established, Return, Result
<1>11. ASSUME NEW c \in Caller, Receive(c) PROVE TypeOK'
  BY <1>11 DEF Receive, Return, Result
<1>12. ASSUME NEW c \in Caller, NEW o \in Operations, NEW a \in SUBSET Channel,
              Call(c, o, a)
       PROVE  TypeOK'
  BY <1>12, SetAssumption DEF Call, Result
<1>13. ASSUME NEW e \in Extension, UseExtension(e) PROVE TypeOK'
  BY <1>13 DEF UseExtension
<1>14. CASE UNCHANGED vars BY <1>14 DEF vars
<1>15. QED
  BY <1>1, <1>2, <1>3, <1>4, <1>5, <1>6, <1>7, <1>8, <1>9, <1>10, <1>11, <1>12,
     <1>13, <1>14 DEF Next, Step

\* Every step keeps who is at a handshake, what is known and what is offered.
LEMMA NextIInv ==
  ASSUME IInv, [Next]_vars
  PROVE  IInv'
<1> DEFINE Rest == /\ OneShaking /\ ShakingState /\ Sent /\ SessionKnown /\ ReadKnown
                   /\ Offered
<1> USE DEF IInv, TypeOK, OneShaking, ShakingState, Shaking, Sent, SessionKnown,
            ReadKnown, Offered, Go, At, local, server, Unconnected, Connecting,
            Connected
<1>1. ASSUME NEW c \in Caller, HandshakeEvent(c) PROVE Rest'
  BY <1>1 DEF HandshakeEvent, Accepts, After, Return
<1>2. ASSUME NEW c \in Caller, ReadID(c) PROVE Rest'
  BY <1>2 DEF ReadID
<1>3. ASSUME NEW c \in Caller, ReadState(c) PROVE Rest'
  BY <1>3 DEF ReadState, Return
<1>4. ASSUME NEW c \in Caller, Send(c) PROVE Rest'
  BY <1>4 DEF Send, Return
<1>5. ASSUME NEW c \in Caller, ServeHandshake(c) PROVE Rest'
  BY <1>5 DEF ServeHandshake, Answer
<1>6. ASSUME NEW c \in Caller, ServeRequest(c) PROVE Rest'
  BY <1>6 DEF ServeRequest
<1>7. ASSUME NEW c \in Caller, Lost(c) PROVE Rest'
  BY <1>7 DEF Lost, Return
<1>8. ASSUME NEW c \in Caller, ReceiveHandshake(c) PROVE Rest'
  BY <1>8 DEF ReceiveHandshake, Granting, Return
<1>9. ASSUME NEW c \in Caller, SetID(c) PROVE Rest'
  BY <1>9, SetAssumption DEF SetID
<1>10. ASSUME NEW c \in Caller, Established(c) PROVE Rest'
  BY <1>10 DEF Established, Accepts, After, Return
<1>11. ASSUME NEW c \in Caller, Receive(c) PROVE Rest'
  BY <1>11 DEF Receive, Return
<1>12. ASSUME NEW c \in Caller, NEW o \in Operations, NEW a \in SUBSET Channel,
              Call(c, o, a)
       PROVE  Rest'
  BY <1>12 DEF Call
<1>13. ASSUME NEW e \in Extension, UseExtension(e) PROVE Rest'
  BY <1>13 DEF UseExtension
<1>14. CASE UNCHANGED vars BY <1>14 DEF vars
<1>15. TypeOK' BY NextTypeOK
<1>16. Rest'
  BY <1>1, <1>2, <1>3, <1>4, <1>5, <1>6, <1>7, <1>8, <1>9, <1>10, <1>11, <1>12,
     <1>13, <1>14 DEF Next, Step
<1>17. QED BY <1>15, <1>16

\* In every reachable state.
THEOREM BayeuxInvariant == Spec => []IInv
<1>1. IInv /\ [Next]_vars => IInv' BY NextIInv
<1>2. QED BY InitIInv, <1>1, PTL DEF Spec

\* Of any number of racing handshakes one is sent.
THEOREM BayeuxOneHandshake == Spec => []OneHandshake
<1>1. IInv => OneHandshake BY DEF IInv, Sent, OneHandshake
<1>2. QED BY BayeuxInvariant, <1>1, PTL

\* The connected state is never seen without the session.
THEOREM BayeuxConnectedHasSession == Spec => []ConnectedHasSession
<1>1. IInv => ConnectedHasSession
  BY DEF IInv, SessionKnown, ConnectedHasSession
<1>2. QED BY BayeuxInvariant, <1>1, PTL

-----------------------------------------------------------------------------
\* Behind SubscribeHolds: a request that is on its way asks for the channels
\* its call was given.
Asked ==
  \A c \in Caller : pc[c] = "wait" /\ op[c] = "subscribe" =>
    \A x \in arg[c] : \E m \in out[c] : m.op = "subscribe" /\ m.ch = x

LEMMA NextAsked ==
  ASSUME TypeOK, Asked, [Next]_vars
  PROVE  Asked'
<1> USE DEF TypeOK, Asked, Go, At, local, Return
<1>1. ASSUME NEW c \in Caller, Send(c) PROVE Asked'
  <2>1. CASE BuildFails(op[c], arg[c]) BY <1>1, <2>1 DEF Send
  <2>2. CASE ~ BuildFails(op[c], arg[c])
    <3>1. ASSUME op[c] = "subscribe", NEW x \in arg[c]
          PROVE  \E m \in {Outgoing(n) : n \in Build(op[c], id[c], arg[c])} :
                   m.op = "subscribe" /\ m.ch = x
      <4> DEFINE n == [op |-> "subscribe", id |-> id[c], ch |-> x, ext |-> Nil]
      <4>1. n \in Build(op[c], id[c], arg[c]) BY <3>1 DEF Build
      <4>2. Outgoing(n).op = "subscribe" /\ Outgoing(n).ch = x BY DEF Outgoing
      <4>3. QED BY <4>1, <4>2
    <3>2. /\ out' = [out EXCEPT ![c] = {Outgoing(m) : m \in Build(op[c], id[c], arg[c])}]
          /\ UNCHANGED <<op, arg>> /\ pc' = [pc EXCEPT ![c] = "wait"]
      BY <1>1, <2>2 DEF Send
    <3>3. QED BY <3>1, <3>2
  <2>3. QED BY <2>1, <2>2
<1>2. ASSUME NEW c \in Caller, Step(c), ~ Send(c) PROVE Asked'
  <2>1. \A d \in Caller : pc'[d] = "wait" =>
          pc[d] = "wait" /\ op'[d] = op[d] /\ arg'[d] = arg[d] /\ out'[d] = out[d]
    <3>1. CASE HandshakeEvent(c) BY <3>1 DEF HandshakeEvent
    <3>2. CASE ReadID(c) BY <3>2 DEF ReadID
    <3>3. CASE ReadState(c) BY <3>3 DEF ReadState
    <3>4. CASE ServeHandshake(c) BY <3>4 DEF ServeHandshake
    <3>5. CASE ServeRequest(c) BY <3>5 DEF ServeRequest
    <3>6. CASE Lost(c) BY <3>6 DEF Lost
    <3>7. CASE ReceiveHandshake(c) BY <3>7 DEF ReceiveHandshake
    <3>8. CASE SetID(c) BY <3>8 DEF SetID
    <3>9. CASE Established(c) BY <3>9 DEF Established
    <3>10. CASE Receive(c) BY <3>10 DEF Receive
    <3>11. QED
      BY <1>2, <3>1, <3>2, <3>3, <3>4, <3>5, <3>6, <3>7, <3>8, <3>9, <3>10 DEF Step
  <2>2. QED BY <2>1
<1>3. ASSUME NEW c \in Caller, NEW o \in Operations, NEW a \in SUBSET Channel,
             Call(c, o, a)
      PROVE  Asked'
  BY <1>3 DEF Call
<1>4. ASSUME NEW e \in Extension, UseExtension(e) PROVE Asked'
  BY <1>4 DEF UseExtension
<1>5. CASE UNCHANGED vars BY <1>5 DEF vars
<1>6. QED BY <1>1, <1>2, <1>3, <1>4, <1>5 DEF Next

\* The step by which a request is served is ServeRequest.
LEMMA ServedStep ==
  ASSUME IInv, [Next]_vars, NEW c \in Caller,
         pc[c] = "wait", pc'[c] = "served", op[c] = "subscribe"
  PROVE  ServeRequest(c)
<1> USE DEF IInv, TypeOK, Go, At, Return
<1>1. ASSUME NEW d \in Caller, Step(d), ~ ServeRequest(d) PROVE FALSE
  <2>1. CASE HandshakeEvent(d) BY <1>1, <2>1 DEF HandshakeEvent
  <2>2. CASE ReadID(d) BY <1>1, <2>2 DEF ReadID
  <2>3. CASE ReadState(d) BY <1>1, <2>3 DEF ReadState
  <2>4. CASE Send(d) BY <1>1, <2>4 DEF Send
  <2>5. CASE ServeHandshake(d) BY <1>1, <2>5 DEF ServeHandshake
  <2>6. CASE Lost(d) BY <1>1, <2>6 DEF Lost
  <2>7. CASE ReceiveHandshake(d) BY <1>1, <2>7 DEF ReceiveHandshake
  <2>8. CASE SetID(d) BY <1>1, <2>8 DEF SetID
  <2>9. CASE Established(d) BY <1>1, <2>9 DEF Established
  <2>10. CASE Receive(d) BY <1>1, <2>10 DEF Receive
  <2>11. QED
    BY <1>1, <2>1, <2>2, <2>3, <2>4, <2>5, <2>6, <2>7, <2>8, <2>9, <2>10 DEF Step
<1>2. ASSUME NEW d \in Caller, ServeRequest(d) PROVE d = c
  BY <1>2 DEF ServeRequest
<1>3. ASSUME NEW d \in Caller, NEW o \in Operations, NEW a \in SUBSET Channel,
             Call(d, o, a)
      PROVE  FALSE
  BY <1>3 DEF Call
<1>4. ASSUME NEW e \in Extension, UseExtension(e) PROVE FALSE
  BY <1>4 DEF UseExtension
<1>5. CASE UNCHANGED vars BY <1>5 DEF vars
<1>6. QED BY <1>1, <1>2, <1>3, <1>4, <1>5 DEF Next

\* A subscribe call succeeds only on the response of a server that holds every
\* channel of it.
THEOREM BayeuxSubscribeHolds == Spec => SubscribeHolds
<1>1. Init => Asked BY DEF Init, Asked
<1>2. ASSUME IInv, Asked, [Next]_vars, NEW c \in Caller,
             At(c, "wait"), pc'[c] = "served", op[c] = "subscribe",
             Succeeded("subscribe", response'[c])
      PROVE  arg[c] \subseteq srvSubs'[id[c]]
  <2>1. ServeRequest(c) BY <1>2, ServedStep DEF At
  <2>2. PICK accepted \in SUBSET out[c], data \in SUBSET Data(op[c], srvSubs[id[c]]) :
          /\ response' = [response EXCEPT ![c] =
               {Answer(m.op, m \in accepted, NoID, m.ch) : m \in out[c]} \cup data]
          /\ \E after \in SUBSET Channel :
               /\ srvSubs' = [srvSubs EXCEPT ![id[c]] = after]
               /\ after = srvSubs[id[c]] \cup ({m.ch : m \in accepted} \cap Channel)
    BY <1>2, <2>1 DEF ServeRequest
  <2>3. ASSUME NEW x \in arg[c] PROVE x \in {m.ch : m \in accepted} \cap Channel
    <3>1. PICK m \in out[c] : m.op = "subscribe" /\ m.ch = x
      BY <1>2 DEF Asked, At
    <3>2. Answer(m.op, m \in accepted, NoID, m.ch) \in response'[c]
      BY <2>2, <1>2 DEF IInv, TypeOK
    <3>3. Answer(m.op, m \in accepted, NoID, m.ch).op = "subscribe"
      BY <3>1 DEF Answer
    <3>4. Answer(m.op, m \in accepted, NoID, m.ch).ok
      BY <1>2, <3>2, <3>3 DEF Succeeded
    <3>5. m \in accepted BY <3>4, Zenon DEF Answer
    <3>6. x \in Channel BY <1>2 DEF IInv, TypeOK
    <3>7. QED BY <3>1, <3>5, <3>6
  <2>4. id[c] \in ClientIDs
    BY <1>2 DEF IInv, TypeOK, ReadKnown, At
  <2>5. QED BY <2>2, <2>3, <2>4, <1>2 DEF IInv, TypeOK
<1>3. ASSUME IInv, Asked, [Next]_vars
      PROVE  \A c \in Caller :
               /\ At(c, "wait") /\ pc'[c] = "served" /\ op[c] = "subscribe"
               /\ Succeeded("subscribe", response'[c])
               => arg[c] \subseteq srvSubs'[id[c]]
  BY <1>2, <1>3
<1>4. IInv /\ Asked /\ [Next]_vars => Asked' BY NextAsked DEF IInv
<1>5. QED BY BayeuxInvariant, <1>1, <1>3, <1>4, PTL DEF Spec, SubscribeHolds

-----------------------------------------------------------------------------
\* A step of c is seen by Requests as a change of its own call at most.
LEMMA OwnCall ==
  ASSUME NEW c \in Caller,
         \A d \in Caller : d # c =>
           pc'[d] = pc[d] /\ op'[d] = op[d] /\ id'[d] = id[d]
  PROVE  /\ Stages' = [Stages EXCEPT ![c] = Stage(c)']
         /\ Carried' = [Carried EXCEPT
              ![c] = (IF Stage(c) = "admitted" THEN id[c] ELSE NoID)']
<1>1. \A d \in Caller : d # c => Stage(d)' = Stage(d) BY DEF Stage
<1>2. Stages' = [Stages EXCEPT ![c] = Stage(c)'] BY <1>1 DEF Stages
<1>3. Carried' = [Carried EXCEPT
        ![c] = (IF Stage(c) = "admitted" THEN id[c] ELSE NoID)']
  BY <1>1 DEF Carried
<1>4. QED BY <1>2, <1>3

\* The two compositions that most steps come to: nothing, and a return.
LEMMA Silent ==
  ASSUME TypeOK, NEW c \in Caller,
         \A d \in Caller : d # c =>
           pc'[d] = pc[d] /\ op'[d] = op[d] /\ id'[d] = id[d],
         UNCHANGED <<csm, Sid>>, Stage(c)' = Stage(c), id'[c] = id[c]
  PROVE  UNCHANGED Abstract!vars
<1>1. /\ Stages' = [Stages EXCEPT ![c] = Stage(c)']
      /\ Carried' = [Carried EXCEPT
           ![c] = (IF Stage(c) = "admitted" THEN id[c] ELSE NoID)']
  BY OwnCall
<1>2. Stages' = Stages BY <1>1 DEF Stages
<1>3. Carried' = Carried BY <1>1 DEF Carried
<1>4. QED BY <1>2, <1>3 DEF Abstract!vars

LEMMA Returns ==
  ASSUME TypeOK, NEW c \in Caller,
         \A d \in Caller : d # c =>
           pc'[d] = pc[d] /\ op'[d] = op[d] /\ id'[d] = id[d],
         UNCHANGED <<csm, Sid>>, Stage(c)' = "idle",
         Stage(c) \in {"refused", "begun", "admitted"}
  PROVE  Abstract!Next
<1>1. /\ Stages' = [Stages EXCEPT ![c] = Stage(c)']
      /\ Carried' = [Carried EXCEPT
           ![c] = (IF Stage(c) = "admitted" THEN id[c] ELSE NoID)']
  BY OwnCall
<1>2. Stages[c] = Stage(c) BY DEF Stages
<1>3. Carried' = [Carried EXCEPT ![c] = NoID] BY <1>1
<1>4. Abstract!Return(c) BY <1>1, <1>2, <1>3 DEF Abstract!Return, Abstract!Move
<1>5. QED BY <1>4 DEF Abstract!Next

\* The compare-and-swap begins the handshake or refuses it.
LEMMA HandshakeEventStep ==
  ASSUME IInv, NEW c \in Caller, HandshakeEvent(c)
  PROVE  [Abstract!Next]_(Abstract!vars)
<1>1. /\ \A d \in Caller : d # c => pc'[d] = pc[d] /\ op'[d] = op[d] /\ id'[d] = id[d]
      /\ op' = op
  BY DEF HandshakeEvent, Go, At, Return, local, IInv, TypeOK
<1>2. /\ Stages' = [Stages EXCEPT ![c] = Stage(c)']
      /\ Carried' = [Carried EXCEPT
           ![c] = (IF Stage(c) = "admitted" THEN id[c] ELSE NoID)']
  BY <1>1, OwnCall
<1>3. /\ Stages[c] = "handshake" /\ Carried[c] = NoID
      /\ Carried \in [Caller -> ClientIDs \cup {NoID}]
  BY DEF HandshakeEvent, At, Stages, Stage, Carried, IInv, TypeOK
<1>4. CASE Accepts("handshakeSent", csm)
  <2>1. csm = "UNCONNECTED" /\ csm' = "CONNECTING" /\ Stage(c)' = "begun" /\ Sid' = Sid
    BY <1>4, <1>1 DEF HandshakeEvent, Go, At, Accepts, After, Stage, Sid, Unconnected,
       Connecting, Connected, IInv, TypeOK, ReadKnown
  <2>2. Carried' = Carried BY <1>2, <1>3, <2>1
  <2>3. Abstract!Begin(c)
    BY <1>2, <1>3, <2>1, <2>2 DEF Abstract!Begin, Abstract!Move
  <2>4. QED BY <2>3 DEF Abstract!Next
<1>5. CASE ~ Accepts("handshakeSent", csm)
  <2>1. csm # "UNCONNECTED" /\ csm' = csm /\ Stage(c)' = "idle" /\ Sid' = Sid
    BY <1>5 DEF HandshakeEvent, Go, At, Accepts, After, Stage, Sid, Return, Unconnected,
       IInv, TypeOK
  <2>2. Carried' = Carried BY <1>2, <1>3, <2>1
  <2>3. Abstract!Refuse(c)
    BY <1>2, <1>3, <2>1, <2>2 DEF Abstract!Refuse, Abstract!Move
  <2>4. QED BY <2>3 DEF Abstract!Next
<1>6. QED BY <1>4, <1>5

\* A call that finds no session is refused at its first read.
LEMMA ReadIDStep ==
  ASSUME IInv, NEW c \in Caller, ReadID(c)
  PROVE  [Abstract!Next]_(Abstract!vars)
<1> USE DEF IInv, TypeOK, ReadID, At, Go
<1>1. /\ \A d \in Caller : d # c => pc'[d] = pc[d] /\ op'[d] = op[d] /\ id'[d] = id[d]
      /\ UNCHANGED <<csm, clientID, op>>
  OBVIOUS
<1>2. /\ Stages' = [Stages EXCEPT ![c] = Stage(c)']
      /\ Carried' = [Carried EXCEPT
           ![c] = (IF Stage(c) = "admitted" THEN id[c] ELSE NoID)']
  BY <1>1, OwnCall
<1>3. Stages[c] = "request" /\ Carried[c] = NoID BY DEF Stages, Stage, Carried
<1>4. Sid' = Sid BY <1>1 DEF Sid
<1>5. Stage(c)' = IF clientID = NoID THEN "refused" ELSE "request" BY DEF Stage
<1>6. Carried' = Carried BY <1>2, <1>5 DEF Carried, Stage
<1>7. CASE clientID = NoID
  <2>1. csm # "CONNECTED" BY <1>7 DEF SessionKnown, Connected
  <2>2. Abstract!Refuse(c)
    BY <1>1, <1>2, <1>3, <1>4, <1>5, <1>6, <1>7, <2>1
    DEF Abstract!Refuse, Abstract!Move
  <2>3. QED BY <2>2 DEF Abstract!Next
<1>8. CASE clientID # NoID
  <2>1. Stages' = Stages BY <1>2, <1>3, <1>5, <1>8 DEF Stages
  <2>2. QED BY <1>1, <1>4, <1>6, <2>1 DEF Abstract!vars
<1>9. QED BY <1>7, <1>8

\* The second read admits the call with the session, or refuses it.
LEMMA ReadStateStep ==
  ASSUME IInv, NEW c \in Caller, ReadState(c)
  PROVE  [Abstract!Next]_(Abstract!vars)
<1> USE DEF IInv, TypeOK, ReadState, At, Go, Return, local
<1>1. /\ \A d \in Caller : d # c => pc'[d] = pc[d] /\ op'[d] = op[d] /\ id'[d] = id[d]
      /\ UNCHANGED <<csm, clientID, op>> /\ op[c] # "handshake"
  BY DEF ReadKnown
<1>2. /\ Stages' = [Stages EXCEPT ![c] = Stage(c)']
      /\ Carried' = [Carried EXCEPT
           ![c] = (IF Stage(c) = "admitted" THEN id[c] ELSE NoID)']
  BY <1>1, OwnCall
<1>3. /\ Stages[c] = IF id[c] = NoID THEN "refused" ELSE "request"
      /\ Carried[c] = NoID
  BY DEF Stages, Stage, Carried
<1>4. Sid' = Sid BY <1>1 DEF Sid
<1>5. CASE id[c] = NoID
  <2>1. Stage(c)' = "idle" BY <1>5 DEF Stage
  <2>2. Stage(c) = "refused" BY <1>5 DEF Stage
  <2>3. QED BY <1>1, <1>4, <2>1, <2>2, Returns
<1>6. CASE id[c] # NoID /\ csm = Connected
  <2>1. Stage(c)' = "admitted" /\ id'[c] = id[c] BY <1>1, <1>6 DEF Stage
  <2>2. id[c] = Sid BY <1>6 DEF Sid, ReadKnown
  <2>3. Carried' = [Carried EXCEPT ![c] = Sid] BY <1>2, <2>1, <2>2
  <2>4. Abstract!Admit(c)
    BY <1>1, <1>2, <1>3, <1>4, <1>6, <2>1, <2>3
    DEF Abstract!Admit, Abstract!Move, Connected
  <2>5. QED BY <2>4 DEF Abstract!Next
<1>7. CASE id[c] # NoID /\ csm # Connected
  <2>1. Stage(c)' = "idle" BY <1>7 DEF Stage
  <2>2. Carried' = Carried BY <1>2, <2>1 DEF Carried, Stage
  <2>3. Abstract!Refuse(c)
    BY <1>1, <1>2, <1>3, <1>4, <1>7, <2>1, <2>2
    DEF Abstract!Refuse, Abstract!Move, Connected
  <2>4. QED BY <2>3 DEF Abstract!Next
<1>8. QED BY <1>5, <1>6, <1>7

\* Sending, serving and receiving leave the call where it is, or end it.
LEMMA RequestStep ==
  ASSUME IInv, NEW c \in Caller,
         \/ Send(c) \/ ServeHandshake(c) \/ ServeRequest(c) \/ Lost(c)
         \/ ReceiveHandshake(c) \/ Receive(c)
  PROVE  [Abstract!Next]_(Abstract!vars)
<1> USE DEF IInv, TypeOK
<1>1. /\ \A d \in Caller : d # c => pc'[d] = pc[d] /\ op'[d] = op[d] /\ id'[d] = id[d]
      /\ UNCHANGED <<csm, clientID, op>>
      /\ pc[c] \in {"build", "wait", "served"}
      /\ \/ pc'[c] \in {"wait", "served", "setID"} /\ id'[c] = id[c]
         \/ pc'[c] = "idle"
  <2>1. CASE Send(c) BY <2>1 DEF Send, Return, Go, At
  <2>2. CASE ServeHandshake(c) BY <2>2 DEF ServeHandshake, Go, At
  <2>3. CASE ServeRequest(c) BY <2>3 DEF ServeRequest, Go, At
  <2>4. CASE Lost(c) BY <2>4 DEF Lost, Return, Go, At
  <2>5. CASE ReceiveHandshake(c)
    BY <2>5 DEF ReceiveHandshake, Return, Go, At, local
  <2>6. CASE Receive(c) BY <2>6 DEF Receive, Return, Go, At
  <2>7. QED BY <2>1, <2>2, <2>3, <2>4, <2>5, <2>6
<1>2. Sid' = Sid BY <1>1 DEF Sid
<1>3. Stage(c) = IF op[c] = "handshake" THEN "begun" ELSE "admitted"
  BY <1>1 DEF Stage
<1>4. CASE pc'[c] = "idle"
  <2>1. Stage(c)' = "idle" BY <1>4 DEF Stage
  <2>2. QED BY <1>1, <1>2, <1>3, <2>1, Returns
<1>5. CASE pc'[c] \in {"wait", "served", "setID"} /\ id'[c] = id[c]
  <2>1. Stage(c)' = Stage(c) BY <1>1, <1>3, <1>5 DEF Stage
  <2>2. QED BY <1>1, <1>2, <1>5, <2>1, Silent
<1>6. QED BY <1>1, <1>4, <1>5

\* The session appears when the state machine says connected.
LEMMA EstablishStep ==
  ASSUME IInv, NEW c \in Caller, SetID(c) \/ Established(c)
  PROVE  [Abstract!Next]_(Abstract!vars)
<1> USE DEF IInv, TypeOK, At, Go
<1>1. op[c] = "handshake" /\ csm = "CONNECTING" /\ Sid = NoID
  BY DEF SetID, Established, ReadKnown, ShakingState, Shaking, Sid, Connecting, Connected
<1>2. CASE SetID(c)
  <2>1. /\ \A d \in Caller : d # c => pc'[d] = pc[d] /\ op'[d] = op[d] /\ id'[d] = id[d]
        /\ UNCHANGED <<csm, op, id>>
    BY <1>2 DEF SetID, local
  <2>2. Stage(c) = "begun" /\ Stage(c)' = "begun"
    BY <1>1, <1>2, <2>1 DEF SetID, Stage
  <2>3. Sid' = Sid BY <1>1, <2>1 DEF Sid, Connected
  <2>4. QED BY <2>1, <2>2, <2>3, Silent
<1>3. CASE Established(c)
  <2>1. \A d \in Caller : d # c => pc'[d] = pc[d] /\ op'[d] = op[d] /\ id'[d] = id[d]
    BY <1>3 DEF Established, Return
  <2>2. csm' = "CONNECTED" /\ clientID' = clientID
    BY <1>1, <1>3 DEF Established, After, Accepts, Connecting, Connected
  <2>3. clientID \in ClientIDs
    BY <1>1, <1>3 DEF Established, ShakingState, Shaking
  <2>4. Sid' \in ClientIDs BY <2>2, <2>3 DEF Sid, Connected
  <2>5. Stage(c) = "begun" /\ Stage(c)' = "idle"
    BY <1>1, <1>3 DEF Established, Return, Stage
  <2>6. /\ Stages' = [Stages EXCEPT ![c] = "idle"] /\ Stages[c] = "begun"
        /\ Carried' = [Carried EXCEPT ![c] = NoID] /\ Carried[c] = NoID
    BY <2>1, <2>5, OwnCall DEF Stages, Carried
  <2>7. Carried' = Carried BY <2>6 DEF Carried
  <2>8. Abstract!Grant(c)
    BY <1>1, <2>2, <2>4, <2>6, <2>7 DEF Abstract!Grant, Abstract!Move
  <2>9. QED BY <2>8 DEF Abstract!Next
<1>4. QED BY <1>2, <1>3

\* A new call.
LEMMA CallStep ==
  ASSUME IInv, NEW c \in Caller, NEW o \in Operations, NEW a, Call(c, o, a)
  PROVE  [Abstract!Next]_(Abstract!vars)
<1> USE DEF IInv, TypeOK, Call, At, Go
<1>1. /\ \A d \in Caller : d # c => pc'[d] = pc[d] /\ op'[d] = op[d] /\ id'[d] = id[d]
      /\ UNCHANGED <<csm, clientID>>
  OBVIOUS
<1>2. Stage(c) = "idle" /\ Stage(c)' \in {"handshake", "request"} BY DEF Stage
<1>3. /\ Stages' = [Stages EXCEPT ![c] = Stage(c)'] /\ Stages[c] = "idle"
      /\ Carried' = [Carried EXCEPT ![c] = NoID] /\ Carried[c] = NoID
  BY <1>1, <1>2, OwnCall DEF Stages, Carried
<1>4. Carried' = Carried BY <1>3 DEF Carried
<1>5. Sid' = Sid BY <1>1 DEF Sid
<1>6. Abstract!Call(c)
  BY <1>1, <1>2, <1>3, <1>4, <1>5 DEF Abstract!Call, Abstract!Move
<1>7. QED BY <1>6 DEF Abstract!Next

\* A new client owes nobody anything.
LEMMA InitAtomic == Init => Abstract!Init
<1> SUFFICES ASSUME Init PROVE Abstract!Init OBVIOUS
<1>1. \A c \in Caller : Stage(c) = "idle" BY DEF Init, Stage
<1>2. csm = "UNCONNECTED" /\ Sid = NoID BY DEF Init, Sid, Unconnected, Connected
<1>3. Stages = [c \in Caller |-> "idle"] BY <1>1 DEF Stages
<1>4. Carried = [c \in Caller |-> NoID] BY <1>1 DEF Carried
<1>5. QED BY <1>2, <1>3, <1>4 DEF Abstract!Init

\* To its callers each call is checked in one step.
THEOREM BayeuxAtomicRequests == Spec => AtomicRequests
<1>1. ASSUME IInv, [Next]_vars PROVE [Abstract!Next]_(Abstract!vars)
  <2>1. ASSUME NEW c \in Caller, Step(c) PROVE [Abstract!Next]_(Abstract!vars)
    BY <1>1, <2>1, HandshakeEventStep, ReadIDStep, ReadStateStep, RequestStep,
       EstablishStep DEF Step
  <2>2. ASSUME NEW c \in Caller, NEW o \in Operations, NEW a \in SUBSET Channel,
               Call(c, o, a)
        PROVE  [Abstract!Next]_(Abstract!vars)
    BY <1>1, <2>2, CallStep
  <2>3. CASE UNCHANGED <<csm, clientID, pc, op, id>>
    <3>1. \A c \in Caller : Stage(c)' = Stage(c) BY <2>3 DEF Stage
    <3>2. Stages' = Stages BY <3>1 DEF Stages
    <3>3. Carried' = Carried BY <2>3, <3>1 DEF Carried
    <3>4. Sid' = Sid BY <2>3 DEF Sid
    <3>5. QED BY <2>3, <3>2, <3>3, <3>4 DEF Abstract!vars
  <2>4. ASSUME NEW e \in Extension, UseExtension(e)
        PROVE  UNCHANGED <<csm, clientID, pc, op, id>>
    BY <2>4 DEF UseExtension, local
  <2>5. UNCHANGED vars => UNCHANGED <<csm, clientID, pc, op, id>> BY DEF vars, local
  <2>6. QED BY <1>1, <2>1, <2>2, <2>3, <2>4, <2>5 DEF Next
<1>2. QED
  BY InitIInv, NextIInv, InitAtomic, <1>1, PTL DEF Spec, AtomicRequests, Abstract!Spec
=============================================================================
