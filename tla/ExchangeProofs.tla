---------------------------- MODULE ExchangeProofs ----------------------------
(***************************************************************************)
(* Theorems about the replay extension and the salesforce authenticator,   *)
(* for every number of goroutines, channels and requests.                  *)
(***************************************************************************)
EXTENDS Exchange, TLAPS

\* Nothing is stored, read or waiting at first.
LEMMA InitIInv == Init => IInv
<1> SUFFICES ASSUME Init PROVE IInv OBVIOUS
<1> USE DEF Init
<1>1. TypeOK
  <2>1. /\ supported \in BOOLEAN /\ pc \in [Caller -> Pc] /\ kind \in [Caller -> Kind]
        /\ setup \in {"other", "none", "token"}
    BY DEF Pc, Kind
  <2>2. store \in Ids /\ newest \in Ids /\ copy \in [Caller -> Ids]
    BY DEF Ids, None
  <2>3. cookies \in Header /\ carried \in [Caller -> Header] BY DEF Header, NoHeader
  <2>4. /\ todo \in [Caller -> Seq(Meta \cup Event)] /\ left \in [Caller -> SUBSET Channel]
        /\ number \in [Caller -> Nat] /\ calls \in Nat
        /\ storeReaders \subseteq Caller /\ cookieReaders \subseteq Caller
    OBVIOUS
  <2>5. QED BY <2>1, <2>2, <2>3, <2>4, Zenon DEF TypeOK
<1>2. Locks BY DEF Locks
<1>3. Headers BY DEF Headers, NoHeader
<1>4. Waiting BY DEF Waiting
<1>5. SnapshotConsistent /\ OneResponse /\ NeverStale
  BY DEF SnapshotConsistent, OneResponse, NeverStale
<1>6. QED BY <1>1, <1>2, <1>3, <1>4, <1>5 DEF IInv

\* One place ahead of another that is nearer the front.
LEMMA TailOf ==
  ASSUME NEW S, NEW s \in Seq(S), s # <<>>
  PROVE  /\ Head(s) \in S /\ Head(s) = s[1] /\ 1 \in DOMAIN s
         /\ Tail(s) \in Seq(S)
         /\ \A j \in DOMAIN Tail(s) : j \in Nat /\ j + 1 \in DOMAIN s /\ j + 1 > 1
                                      /\ Tail(s)[j] = s[j + 1]
OBVIOUS

\* A goroutine's response holds a reply and, for the poll loop, newer events.
LEMMA MessagesShape ==
  ASSUME TypeOK, NEW g \in Caller, NEW s \in Messages(g)
  PROVE  /\ s \in Seq(Meta \cup Event)
         /\ \A j \in DOMAIN s : s[j].kind = "data" =>
              /\ g = Poller /\ Newer(newest[s[j].ch], s[j].id)
              /\ \A i \in 1 .. j - 1 :
                   s[i].kind = "data" /\ s[i].ch = s[j].ch => Newer(s[i].id, s[j].id)
<1>1. PICK k \in Replies(kind[g]),
           c \in IF kind[g] = "unsubscribe" THEN Channel ELSE {Slash},
           t \in BoundedSeq(Events, IF g = Poller THEN MaxSize ELSE 0) :
        Ascending(t) /\ s = <<Of(k, c)>> \o t
  BY DEF Messages
<1>2. k \in Kind \cup {"announce"} /\ k # "data"
  BY DEF Replies, TypeOK, Kind
<1>3. /\ t \in Seq(Events) /\ Len(t) \in Nat /\ DOMAIN t = 1 .. Len(t)
      /\ g # Poller => Len(t) = 0
  BY ExchangeAssumption DEF BoundedSeq, SeqOf
<1>4. Of(k, c) \in Meta /\ Of(k, c).kind = k
  BY <1>2, ExchangeAssumption DEF Of, Meta
<1>5. \A e \in Events : e \in Event BY DEF Events, Event
<1>6. t \in Seq(Meta \cup Event) BY <1>3, <1>5
<1>7. s \in Seq(Meta \cup Event) BY <1>1, <1>4, <1>6
<1>8. /\ DOMAIN s = 1 .. Len(t) + 1 /\ s[1] = Of(k, c)
      /\ \A i \in 2 .. Len(t) + 1 : i - 1 \in DOMAIN t /\ s[i] = t[i - 1]
  BY <1>1, <1>3
<1>9. ASSUME NEW j \in DOMAIN s, s[j].kind = "data"
      PROVE  /\ g = Poller /\ Newer(newest[s[j].ch], s[j].id)
             /\ \A i \in 1 .. j - 1 :
                  s[i].kind = "data" /\ s[i].ch = s[j].ch => Newer(s[i].id, s[j].id)
  <2>1. j \in 2 .. Len(t) + 1 BY <1>2, <1>3, <1>4, <1>8, <1>9
  <2>2. j - 1 \in DOMAIN t /\ s[j] = t[j - 1] BY <1>8, <2>1
  <2>3. g = Poller BY <1>3, <2>2
  <2>4. Newer(newest[s[j].ch], s[j].id) BY <1>1, <2>2 DEF Ascending
  <2>5. ASSUME NEW i \in 1 .. j - 1, s[i].kind = "data", s[i].ch = s[j].ch
        PROVE  Newer(s[i].id, s[j].id)
    <3>1. i \in 2 .. Len(t) + 1 BY <1>2, <1>3, <1>4, <1>8, <2>1, <2>5
    <3>2. i - 1 \in 1 .. (j - 1) - 1 /\ s[i] = t[i - 1] BY <1>8, <2>1, <2>5, <3>1
    <3>3. QED BY <1>1, <2>2, <2>5, <3>2 DEF Ascending
  <2>6. QED BY <2>3, <2>4, <2>5
<1>10. QED BY <1>7, <1>9

-----------------------------------------------------------------------------
\* Every step keeps the types.
LEMMA RequestTypeOK ==
  ASSUME TypeOK, NEW g \in Caller, NEW k \in Kind, Request(g, k)
  PROVE  TypeOK'
<1> USE DEF TypeOK, Go, Todo
<1>1. PICK n \in 1 .. (IF k = "subscribe" THEN MaxSize ELSE 1) :
        Todo(g, [i \in 1 .. n |-> Of(k, Slash)])
  BY DEF Request
<1>2. n \in Nat BY <1>1, ExchangeAssumption
<1>3. Of(k, Slash) \in Meta BY ExchangeAssumption DEF Of, Meta
<1>4. [i \in 1 .. n |-> Of(k, Slash)] \in Seq(Meta \cup Event) BY <1>2, <1>3
<1>5. todo' \in [Caller -> Seq(Meta \cup Event)] BY <1>1, <1>4
<1>6. /\ pc' \in [Caller -> Pc] /\ kind' \in [Caller -> Kind]
      /\ number' \in [Caller -> Nat] /\ calls' \in Nat
  BY DEF Request, Pc
<1>7. UNCHANGED <<setup, replay, auth, copies, carried, newest>> BY DEF Request
<1>8. QED BY <1>5, <1>6, <1>7, Zenon DEF replay, auth, copies

\* The step of a goroutine to its next place, with the first message handled.
LEMMA HandledType ==
  ASSUME TypeOK, NEW g \in Caller, todo[g] # <<>>, Todo(g, Tail(todo[g]))
  PROVE  /\ todo' \in [Caller -> Seq(Meta \cup Event)]
         /\ Head(todo[g]) \in Meta \cup Event
BY TailOf DEF TypeOK, Todo

\* So does every step of a request.
LEMMA StepTypeOK ==
  ASSUME TypeOK, NEW g \in Caller, Step(g)
  PROVE  TypeOK'
<1> USE DEF TypeOK, Go, Pc, request, replay, auth, copies
<1>1. CASE OutgoingSubscribe(g)
  <2>1. todo' \in [Caller -> Seq(Meta \cup Event)]
    BY <1>1, HandledType DEF OutgoingSubscribe
  <2>2. pc' \in [Caller -> Pc] /\ left' \in [Caller -> SUBSET Channel]
        /\ storeReaders' \subseteq Caller
    BY <1>1 DEF OutgoingSubscribe
  <2>3. QED BY <1>1, <2>1, <2>2, Zenon DEF OutgoingSubscribe
<1>2. CASE OutgoingOther(g)
  <2>1. todo' \in [Caller -> Seq(Meta \cup Event)]
    BY <1>2, HandledType DEF OutgoingOther
  <2>2. pc' \in [Caller -> Pc] BY <1>2 DEF OutgoingOther
  <2>3. QED BY <1>2, <2>1, <2>2, Zenon DEF OutgoingOther
<1>3. CASE CopyEntry(g)
  <2>1. PICK ch \in left[g] :
          /\ copy' = [copy EXCEPT ![g][ch] = store[ch]]
          /\ left' = [left EXCEPT ![g] = @ \ {ch}]
    BY <1>3 DEF CopyEntry
  <2>2. copy' \in [Caller -> Ids] /\ left' \in [Caller -> SUBSET Channel]
    BY <2>1 DEF Ids
  <2>3. pc' \in [Caller -> Pc] BY <1>3 DEF CopyEntry
  <2>4. QED BY <1>3, <2>2, <2>3, Zenon DEF CopyEntry
<1>4. CASE Copied(g)
  <2>1. None \in Ids BY DEF None, Ids
  <2>2. pc' \in [Caller -> Pc] /\ copy' \in [Caller -> Ids] /\ storeReaders' \subseteq Caller
    BY <1>4, <2>1 DEF Copied
  <2>3. QED BY <1>4, <2>2, Zenon DEF Copied
<1>5. CASE RoundTrip(g)
  <2>1. pc' \in [Caller -> Pc] /\ cookieReaders' \subseteq Caller
    BY <1>5 DEF RoundTrip
  <2>2. QED BY <1>5, <2>1, Zenon DEF RoundTrip
<1>6. CASE ReadData(g)
  <2>1. pc' \in [Caller -> Pc] /\ carried' \in [Caller -> Header]
    BY <1>6 DEF ReadData, Header
  <2>2. QED BY <1>6, <2>1, Zenon DEF ReadData
<1>7. CASE ReadLength(g)
  <2>1. /\ pc' \in [Caller -> Pc] /\ carried' \in [Caller -> Header]
        /\ cookieReaders' \subseteq Caller
    BY <1>7 DEF ReadLength, Header
  <2>2. QED BY <1>7, <2>1, Zenon DEF ReadLength
<1>8. CASE Respond(g)
  <2>1. PICK s \in Messages(g) \cup {<<>>} : Todo(g, s) BY <1>8 DEF Respond
  <2>2. s \in Seq(Meta \cup Event)
    <3>1. CASE s \in Messages(g) BY <3>1, MessagesShape
    <3>2. CASE s = <<>> BY <3>2
    <3>3. QED BY <3>1, <3>2
  <2>3. todo' \in [Caller -> Seq(Meta \cup Event)] BY <2>1, <2>2 DEF Todo
  <2>4. pc' \in [Caller -> Pc] /\ carried' \in [Caller -> Header]
    BY <1>8 DEF Respond, NoHeader, Header
  <2>5. QED BY <1>8, <2>3, <2>4, Zenon DEF Respond
<1>9. CASE TransportError(g)
  <2>1. pc' \in [Caller -> Pc] /\ carried' \in [Caller -> Header]
    BY <1>9 DEF TransportError, NoHeader, Header
  <2>2. QED BY <1>9, <2>1, Zenon DEF TransportError
<1>10. CASE SetCookies(g)
  <2>1. pc' \in [Caller -> Pc] /\ cookies' \in Header
    BY <1>10 DEF SetCookies, Header
  <2>2. QED BY <1>10, <2>1, Zenon DEF SetCookies
<1>11. CASE Announce(g) \/ Delete(g) \/ UpdateReplayID(g) \/ Skip(g)
  <2>1. /\ todo' \in [Caller -> Seq(Meta \cup Event)] /\ pc' \in [Caller -> Pc]
        /\ Head(todo[g]) \in Meta \cup Event
    BY <1>11, HandledType DEF Announce, Delete, UpdateReplayID, Skip, Handled
  <2>2. store' \in Ids /\ newest' \in Ids
    <3>1. CASE Announce(g) \/ Skip(g) BY <3>1 DEF Announce, Skip
    <3>2. CASE Delete(g)              BY <3>2 DEF Delete, Ids
    <3>3. CASE UpdateReplayID(g)
      <4>1. Head(todo[g]).ch \in Channel /\ Head(todo[g]).id \in Nat \cup {NoEntry}
        BY <2>1, <3>3 DEF UpdateReplayID, Meta, Event, Kind
      <4>2. QED BY <3>3, <4>1 DEF UpdateReplayID, Set, Ids
    <3>4. QED BY <1>11, <3>1, <3>2, <3>3
  <2>3. supported' \in BOOLEAN
    BY <1>11, Zenon DEF Announce, Delete, UpdateReplayID, Skip
  <2>4. UNCHANGED <<request, storeReaders, auth, copies, carried>>
    BY <1>11 DEF Announce, Delete, UpdateReplayID, Skip, Set
  <2>5. QED BY <2>1, <2>2, <2>3, <2>4, Zenon
<1>12. CASE Done(g)
  <2>1. pc' \in [Caller -> Pc] BY <1>12 DEF Done
  <2>2. QED BY <1>12, <2>1, Zenon DEF Done
<1>13. QED BY <1>1, <1>2, <1>3, <1>4, <1>5, <1>6, <1>7, <1>8, <1>9, <1>10, <1>11,
              <1>12 DEF Step

-----------------------------------------------------------------------------
\* The locks follow the places.
LEMMA LocksStep ==
  ASSUME IInv, NEW g \in Caller, Step(g) \/ \E k \in Kind : Request(g, k)
  PROVE  Locks'
<1> USE DEF IInv, TypeOK, Locks, Go, replay, auth
<1>1. CASE OutgoingSubscribe(g) BY <1>1 DEF OutgoingSubscribe
<1>2. CASE OutgoingOther(g)  BY <1>2 DEF OutgoingOther
<1>3. CASE CopyEntry(g)      BY <1>3 DEF CopyEntry
<1>4. CASE Copied(g)         BY <1>4 DEF Copied
<1>5. CASE RoundTrip(g)      BY <1>5 DEF RoundTrip
<1>6. CASE ReadData(g)       BY <1>6 DEF ReadData
<1>7. CASE ReadLength(g)     BY <1>7 DEF ReadLength
<1>8. CASE Respond(g)        BY <1>8 DEF Respond
<1>9. CASE TransportError(g) BY <1>9 DEF TransportError
<1>10. CASE SetCookies(g)    BY <1>10 DEF SetCookies
<1>11. CASE Announce(g)      BY <1>11 DEF Announce, Handled
<1>12. CASE Delete(g)        BY <1>12 DEF Delete, Handled
<1>13. CASE UpdateReplayID(g) BY <1>13 DEF UpdateReplayID, Set, Handled
<1>14. CASE Skip(g)          BY <1>14 DEF Skip, Handled
<1>15. CASE Done(g)          BY <1>15 DEF Done
<1>16. ASSUME NEW k \in Kind, Request(g, k) PROVE Locks' BY <1>16 DEF Request
<1>17. QED BY <1>1, <1>2, <1>3, <1>4, <1>5, <1>6, <1>7, <1>8, <1>9, <1>10, <1>11,
              <1>12, <1>13, <1>14, <1>15, <1>16 DEF Step

\* No header is written between the two reads of another goroutine.
LEMMA HeadersStep ==
  ASSUME IInv, NEW g \in Caller, Step(g) \/ \E k \in Kind : Request(g, k)
  PROVE  Headers'
<1> USE DEF IInv, TypeOK, Headers, Locks, Header, NoHeader, Go, replay, auth
<1>1. CASE ReadData(g)       BY <1>1 DEF ReadData
<1>2. CASE ReadLength(g)     BY <1>2 DEF ReadLength
<1>3. CASE Respond(g)        BY <1>3 DEF Respond
<1>4. CASE TransportError(g) BY <1>4 DEF TransportError
<1>5. CASE SetCookies(g)     BY <1>5 DEF SetCookies
<1>6. ASSUME ~ ReadData(g), ~ ReadLength(g), ~ Respond(g), ~ TransportError(g),
             ~ SetCookies(g)
      PROVE  Headers'
  <2>1. /\ UNCHANGED <<cookies, carried>>
        /\ \A f \in Caller : pc'[f] = "length" <=> pc[f] = "length"
    <3>1. CASE OutgoingSubscribe(g) BY <3>1 DEF OutgoingSubscribe
    <3>2. CASE OutgoingOther(g) BY <3>2 DEF OutgoingOther
    <3>3. CASE CopyEntry(g)     BY <3>3 DEF CopyEntry
    <3>4. CASE Copied(g)        BY <3>4 DEF Copied
    <3>5. CASE RoundTrip(g)     BY <3>5 DEF RoundTrip
    <3>6. CASE Announce(g)      BY <3>6 DEF Announce, Handled
    <3>7. CASE Delete(g)        BY <3>7 DEF Delete, Handled
    <3>8. CASE UpdateReplayID(g) BY <3>8 DEF UpdateReplayID, Set, Handled
    <3>9. CASE Skip(g)          BY <3>9 DEF Skip, Handled
    <3>10. CASE Done(g)         BY <3>10 DEF Done
    <3>11. ASSUME NEW k \in Kind, Request(g, k)
           PROVE  /\ UNCHANGED <<cookies, carried>>
                  /\ \A f \in Caller : pc'[f] = "length" <=> pc[f] = "length"
      BY <3>11 DEF Request
    <3>12. QED BY <1>6, <3>1, <3>2, <3>3, <3>4, <3>5, <3>6, <3>7, <3>8, <3>9, <3>10,
                  <3>11 DEF Step
  <2>2. QED BY <2>1
<1>7. QED BY <1>1, <1>2, <1>3, <1>4, <1>5, <1>6

\* What is left of a response after its first message.
LEMMA WaitingTail ==
  ASSUME IInv, NEW g \in Caller, todo[g] # <<>>, Todo(g, Tail(todo[g])),
         \A ch \in Channel : newest'[ch] # newest[ch] =>
           /\ g = Poller /\ Head(todo[g]).kind = "data" /\ Head(todo[g]).ch = ch
           /\ newest'[ch] = Head(todo[g]).id
  PROVE  Waiting'
<1> USE DEF IInv, TypeOK, Todo
<1>1. SUFFICES ASSUME NEW f \in Caller, NEW j \in DOMAIN todo'[f],
                      todo'[f][j].kind = "data"
      PROVE  /\ f = Poller /\ Newer(newest'[todo'[f][j].ch], todo'[f][j].id)
             /\ \A i \in 1 .. j - 1 :
                  todo'[f][i].kind = "data" /\ todo'[f][i].ch = todo'[f][j].ch
                    => Newer(todo'[f][i].id, todo'[f][j].id)
  BY DEF Waiting
<1>2. \A e \in Meta \cup Event : e.kind = "data" => e.ch \in Channel
  BY DEF Meta, Event, Kind
<1>3. CASE f # g
  <2>1. todo'[f] = todo[f] BY <1>3
  <2>2. todo[f][j] \in Meta \cup Event BY <2>1
  <2>3. f = Poller BY <1>1, <2>1 DEF Waiting
  <2>4. newest'[todo[f][j].ch] = newest[todo[f][j].ch]
    <3>1. todo[f][j].ch \in Channel BY <1>1, <1>2, <2>1, <2>2
    <3>2. g # Poller BY <1>3, <2>3
    <3>3. QED BY <3>1, <3>2
  <2>5. QED BY <1>1, <2>1, <2>4 DEF Waiting, Newer
<1>4. CASE f = g
  <2> DEFINE s == todo[g]
  <2>1. /\ s \in Seq(Meta \cup Event) /\ todo'[g] = Tail(s) /\ s # <<>>
        /\ DOMAIN s = 1 .. Len(s) /\ Len(s) \in Nat
    OBVIOUS
  <2>2. /\ j \in Nat /\ j + 1 \in DOMAIN s /\ Tail(s)[j] = s[j + 1]
        /\ Head(s) = s[1] /\ s[j + 1] \in Meta \cup Event
        /\ j > 0 /\ j < Len(s)
    <3>1. j \in DOMAIN Tail(s) BY <1>4, <2>1
    <3> HIDE DEF s
    <3>2. QED BY <2>1, <3>1
  <2>3. /\ g = Poller /\ Newer(newest[s[j + 1].ch], s[j + 1].id)
        /\ \A i \in 1 .. j :
             s[i].kind = "data" /\ s[i].ch = s[j + 1].ch => Newer(s[i].id, s[j + 1].id)
    <3>1. s[j + 1].kind = "data" BY <1>1, <1>4, <2>1, <2>2
    <3>2. (j + 1) - 1 = j BY <2>2
    <3>3. QED BY <2>2, <3>1, <3>2 DEF Waiting
  <2>4. \A i \in 1 .. j - 1 : Tail(s)[i] = s[i + 1] /\ i + 1 \in 1 .. j
    <3> HIDE DEF s
    <3>1. QED BY <2>1, <2>2
  <2>5. Newer(newest'[s[j + 1].ch], s[j + 1].id)
    <3>1. s[j + 1].ch \in Channel BY <1>1, <1>2, <1>4, <2>1, <2>2
    <3>2. CASE newest'[s[j + 1].ch] = newest[s[j + 1].ch] BY <2>3, <3>2
    <3>3. CASE newest'[s[j + 1].ch] # newest[s[j + 1].ch]
      <4>1. s[1].kind = "data" /\ s[1].ch = s[j + 1].ch /\ newest'[s[j + 1].ch] = s[1].id
        BY <2>2, <3>1, <3>3
      <4>2. 1 \in 1 .. j BY <2>2
      <4>3. QED BY <2>3, <4>1, <4>2
    <3>4. QED BY <3>2, <3>3
  <2>6. QED BY <1>4, <2>1, <2>2, <2>3, <2>4, <2>5
<1>5. QED BY <1>3, <1>4

\* The event that is handled is newer than those before it.
LEMMA EventNewer ==
  ASSUME IInv, NEW g \in Caller, todo[g] # <<>>, Head(todo[g]).kind = "data"
  PROVE  /\ g = Poller /\ Head(todo[g]).ch \in Channel
         /\ Newer(newest[Head(todo[g]).ch], Head(todo[g]).id)
<1>1. todo[g] \in Seq(Meta \cup Event) BY DEF IInv, TypeOK
<1>2. /\ Head(todo[g]) \in Meta \cup Event /\ Head(todo[g]) = todo[g][1]
      /\ 1 \in DOMAIN todo[g]
  BY <1>1, TailOf
<1>3. QED BY <1>2 DEF IInv, Waiting, Meta, Event, Kind

\* Steps that neither handle nor receive messages leave them waiting.
LEMMA WaitingStep ==
  ASSUME IInv, NEW g \in Caller, Step(g) \/ \E k \in Kind : Request(g, k)
  PROVE  Waiting'
<1> USE DEF IInv
<1>1. CASE \/ CopyEntry(g) \/ Copied(g) \/ RoundTrip(g) \/ ReadData(g)
           \/ ReadLength(g) \/ TransportError(g) \/ SetCookies(g) \/ Done(g)
  <2>1. UNCHANGED <<todo, newest>>
    BY <1>1 DEF CopyEntry, Copied, RoundTrip, ReadData, ReadLength, TransportError,
       SetCookies, Done
  <2>2. QED BY <2>1 DEF Waiting
<1>2. CASE \/ OutgoingSubscribe(g) \/ OutgoingOther(g) \/ Announce(g) \/ Delete(g)
           \/ Skip(g)
  <2>1. todo[g] # <<>> /\ Todo(g, Tail(todo[g])) /\ UNCHANGED newest
    BY <1>2 DEF OutgoingSubscribe, OutgoingOther, Announce, Delete, Skip, Handled
  <2>2. QED BY <2>1, WaitingTail
<1>3. CASE UpdateReplayID(g)
  <2>1. /\ todo[g] # <<>> /\ Todo(g, Tail(todo[g])) /\ Head(todo[g]).kind = "data"
        /\ newest' = [newest EXCEPT ![Head(todo[g]).ch] =
                        IF Newer(@, Head(todo[g]).id) THEN Head(todo[g]).id ELSE @]
    BY <1>3 DEF UpdateReplayID, Handled
  <2>2. g = Poller BY <2>1, EventNewer
  <2>3. newest \in [Channel -> Nat \cup {NoEntry}] BY DEF TypeOK, Ids
  <2>4. \A ch \in Channel : newest'[ch] # newest[ch] =>
          Head(todo[g]).ch = ch /\ newest'[ch] = Head(todo[g]).id
    BY <2>1, <2>3
  <2>5. QED BY <2>1, <2>2, <2>4, WaitingTail
<1>4. CASE Respond(g)
  <2>1. PICK s \in Messages(g) \cup {<<>>} : Todo(g, s) BY <1>4 DEF Respond
  <2>2. /\ todo'[g] = s /\ \A f \in Caller : f # g => todo'[f] = todo[f]
        /\ newest' = newest
    BY <1>4, <2>1 DEF Respond, Todo, TypeOK
  <2>3. \A j \in DOMAIN s : s[j].kind = "data" =>
          /\ g = Poller /\ Newer(newest[s[j].ch], s[j].id)
          /\ \A i \in 1 .. j - 1 :
               s[i].kind = "data" /\ s[i].ch = s[j].ch => Newer(s[i].id, s[j].id)
    <3>1. CASE s \in Messages(g) BY <3>1, MessagesShape
    <3>2. CASE s = <<>> BY <3>2
    <3>3. QED BY <3>1, <3>2
  <2>4. QED BY <2>2, <2>3 DEF Waiting
<1>5. ASSUME NEW k \in Kind, Request(g, k) PROVE Waiting'
  <2>1. PICK n \in 1 .. (IF k = "subscribe" THEN MaxSize ELSE 1) :
          Todo(g, [i \in 1 .. n |-> Of(k, Slash)])
    BY <1>5 DEF Request
  <2>2. /\ todo'[g] = [i \in 1 .. n |-> Of(k, Slash)] /\ newest' = newest
        /\ \A f \in Caller : f # g => todo'[f] = todo[f]
    BY <1>5, <2>1 DEF Request, Todo, TypeOK
  <2>3. Of(k, Slash).kind # "data" BY DEF Of, Kind
  <2>4. \A j \in DOMAIN todo'[g] : todo'[g][j].kind # "data" BY <2>2, <2>3
  <2>5. QED BY <2>2, <2>4 DEF Waiting
<1>6. QED BY <1>1, <1>2, <1>3, <1>4, <1>5 DEF Step

\* Entries are set and deleted while nobody copies the map.
LEMMA SnapshotStep ==
  ASSUME IInv, NEW g \in Caller, Step(g) \/ \E k \in Kind : Request(g, k)
  PROVE  SnapshotConsistent'
<1> USE DEF IInv, TypeOK, SnapshotConsistent, replay, copies
<1>1. CASE OutgoingSubscribe(g) BY <1>1 DEF OutgoingSubscribe
<1>2. CASE CopyEntry(g)
  <2>1. PICK ch \in left[g] :
          /\ copy' = [copy EXCEPT ![g][ch] = store[ch]]
          /\ left' = [left EXCEPT ![g] = @ \ {ch}]
    BY <1>2 DEF CopyEntry
  <2>2. UNCHANGED <<store, storeReaders>> BY <1>2 DEF CopyEntry
  <2>3. copy[g] \in [Channel -> Nat \cup {NoEntry}] BY DEF Ids
  <2>4. \A c \in Channel \ left'[g] : copy'[g][c] = store[c]
    <3>1. SUFFICES ASSUME NEW c \in Channel \ left'[g] PROVE copy'[g][c] = store[c]
      OBVIOUS
    <3>2. CASE c = ch BY <2>1, <2>3, <3>2
    <3>3. CASE c # ch
      <4>1. copy'[g][c] = copy[g][c] BY <2>1, <2>3, <3>3
      <4>2. c \notin left[g] BY <2>1, <3>3
      <4>3. g \in storeReaders BY <1>2 DEF CopyEntry, Go, Locks
      <4>4. QED BY <4>1, <4>2, <4>3
    <3>4. QED BY <3>2, <3>3
  <2>5. \A f \in Caller : f # g => copy'[f] = copy[f] /\ left'[f] = left[f]
    BY <2>1
  <2>6. SUFFICES ASSUME NEW f \in storeReaders, NEW c \in Channel \ left'[f]
                 PROVE  copy'[f][c] = store[c]
    BY <2>2
  <2>7. CASE f = g BY <2>4, <2>7
  <2>8. CASE f # g
    <3>1. copy'[f] = copy[f] /\ left'[f] = left[f] BY <2>5, <2>8
    <3>2. QED BY <3>1
  <2>9. QED BY <2>7, <2>8
<1>3. CASE Copied(g)            BY <1>3 DEF Copied
<1>4. CASE Delete(g)            BY <1>4 DEF Delete
<1>5. CASE UpdateReplayID(g)    BY <1>5 DEF UpdateReplayID, Set
<1>6. CASE \/ OutgoingOther(g) \/ RoundTrip(g) \/ ReadData(g) \/ ReadLength(g)
           \/ Respond(g) \/ TransportError(g) \/ SetCookies(g) \/ Announce(g)
           \/ Skip(g) \/ Done(g) \/ \E k \in Kind : Request(g, k)
  <2>1. UNCHANGED <<store, storeReaders, copy, left>>
    BY <1>6 DEF OutgoingOther, RoundTrip, ReadData, ReadLength, Respond,
       TransportError, SetCookies, Announce, Skip, Done, Request
  <2>2. QED BY <2>1
<1>7. QED BY <1>1, <1>2, <1>3, <1>4, <1>5, <1>6 DEF Step

\* What is stored is the id handled last, and what is deleted is gone.
LEMMA StaleStep ==
  ASSUME IInv, NEW g \in Caller, Step(g) \/ \E k \in Kind : Request(g, k)
  PROVE  NeverStale'
<1> USE DEF IInv, TypeOK, NeverStale, Ids, replay
<1>1. CASE Delete(g) BY <1>1 DEF Delete
<1>2. CASE UpdateReplayID(g)
  <2> DEFINE m == Head(todo[g])
  <2>1. /\ todo[g] # <<>> /\ m.kind = "data"
        /\ store' = [store EXCEPT ![m.ch] = m.id]
        /\ newest' = [newest EXCEPT ![m.ch] = IF Newer(@, m.id) THEN m.id ELSE @]
    BY <1>2 DEF UpdateReplayID, Set, Handled
  <2>2. m.ch \in Channel /\ Newer(newest[m.ch], m.id) BY <2>1, EventNewer
  <2> HIDE DEF m
  <2>3. store'[m.ch] = m.id /\ newest'[m.ch] = m.id BY <2>1, <2>2
  <2>4. \A ch \in Channel : ch # m.ch =>
          store'[ch] = store[ch] /\ newest'[ch] = newest[ch]
    BY <2>1
  <2>5. QED BY <2>3, <2>4
<1>3. ASSUME ~ Delete(g), ~ UpdateReplayID(g) PROVE NeverStale'
  <2>1. UNCHANGED <<store, newest>>
    BY <1>3 DEF Step, OutgoingSubscribe, OutgoingOther, CopyEntry, Copied, RoundTrip,
       ReadData, ReadLength, Respond, TransportError, SetCookies, Announce, Skip,
       Done, Request
  <2>2. QED BY <2>1
<1>4. QED BY <1>1, <1>2, <1>3

-----------------------------------------------------------------------------
\* Every step keeps the invariant.
LEMMA NextIInv == IInv /\ [Next]_vars => IInv'
<1> SUFFICES ASSUME IInv, [Next]_vars PROVE IInv' OBVIOUS
<1>1. ASSUME NEW g \in Caller, Step(g) \/ \E k \in Kind : Request(g, k) PROVE IInv'
  <2>1. TypeOK' BY <1>1, StepTypeOK, RequestTypeOK DEF IInv
  <2>2. Locks' BY <1>1, LocksStep
  <2>3. Headers' BY <1>1, HeadersStep
  <2>4. Waiting' BY <1>1, WaitingStep
  <2>5. SnapshotConsistent' BY <1>1, SnapshotStep
  <2>6. OneResponse' BY <2>3 DEF OneResponse, Headers
  <2>7. NeverStale' BY <1>1, StaleStep
  <2>8. QED BY <2>1, <2>2, <2>3, <2>4, <2>5, <2>6, <2>7 DEF IInv
<1>2. CASE UNCHANGED vars
  BY <1>2 DEF vars, request, replay, auth, copies, IInv, TypeOK, Locks, Headers,
     Waiting, SnapshotConsistent, OneResponse, NeverStale
<1>3. QED BY <1>1, <1>2 DEF Next

\* The inductive invariant holds in every reachable state.
THEOREM ExchangeInvariant == Spec => []IInv
BY InitIInv, NextIInv, PTL DEF Spec

\* The map of a subscribe message is the store of one moment, however many
\* goroutines store and delete ids.
THEOREM ExchangeSnapshot == Spec => []SnapshotConsistent
<1>1. IInv => SnapshotConsistent BY DEF IInv
<1>2. QED BY ExchangeInvariant, <1>1, PTL

\* The cookies of every request are those of one response.
THEOREM ExchangeOneResponse == Spec => []OneResponse
<1>1. IInv => OneResponse BY DEF IInv
<1>2. QED BY ExchangeInvariant, <1>1, PTL

\* What is stored for a channel, if anything, is the id of the newest event that
\* has been handled.
THEOREM ExchangeNeverStale == Spec => []NeverStale
<1>1. IInv => NeverStale BY DEF IInv
<1>2. QED BY ExchangeInvariant, <1>1, PTL
=============================================================================
