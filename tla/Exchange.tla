------------------------------ MODULE Exchange ------------------------------
(***************************************************************************)
(* What surrounds a request of the low-level client: the replay extension  *)
(* with its MapStorage (v2/extensions/replay), Outgoing on the messages of *)
(* the request and Incoming on those of the response, and between the two  *)
(* the StaticTokenAuthenticator (v2/extensions/salesforce) as transport of *)
(* the http.Client.  Several goroutines have requests under way.  Both     *)
(* parts guard their state by an RWMutex: a section under the write lock   *)
(* is one action, one under the read lock an action for each access.       *)
(***************************************************************************)
EXTENDS Integers, Sequences, FiniteSets, SequencesExt

CONSTANTS
  Caller,  \* the goroutines
  Poller,  \* the one that runs the poll loop: data is in its responses only
  Channel, \* the broadcast channels
  Slash,   \* the channel "/", the only one with a name of one character
  NoEntry, \* the absence of a replay id
  MaxId,   \* bound: replay ids in a channel
  MaxSize, \* bound: messages of a request, data messages of a response
  MaxCalls \* bound: requests

ASSUME ExchangeAssumption ==
  /\ Poller \in Caller /\ Slash \in Channel
  /\ NoEntry \notin Nat
  /\ MaxId \in Nat /\ MaxSize \in Nat /\ MaxCalls \in Nat

VARIABLES
  setup,         \* "other" host, or salesforce.com with a "token" or "none"
  supported,     \* Extension.supportedByServer
  store,         \* MapStorage.store, NoEntry where there is no entry
  storeReaders,  \* the goroutines that hold MapStorage.lock for reading
  cookies,       \* StaticTokenAuthenticator.cookies, the words of its header
  cookieReaders, \* the goroutines that hold mu for reading
  pc,            \* where each goroutine is
  kind,          \* the kind of its request
  todo,          \* the messages it has still to hand to Outgoing or Incoming
  copy,          \* AsMap's map under construction
  left,          \* the channels AsMap has still to copy
  carried,       \* the words of the cookies header that it has read
  number,        \* its request's number, and that of the cookies answering it
  calls,         \* requests so far
  newest         \* history: the newest id handed to Incoming

replay   == <<supported, store, storeReaders>>
auth     == <<cookies, cookieReaders>>
copies   == <<copy, left>>
request  == <<setup, kind, number, calls>>
vars     == <<request, replay, auth, pc, todo, copies, carried, newest>>

Kind      == {"handshake", "subscribe", "unsubscribe", "other"}
Meta      == [kind : Kind \cup {"announce"}, ch : Channel, id : {NoEntry}]
Event     == [kind : {"data"}, ch : Channel, id : Nat \cup {NoEntry}]
Ids       == [Channel -> Nat \cup {NoEntry}]
Header    == [data : Nat, len : Nat]
Pc        == {"idle", "outgoing", "copying", "host", "cookies", "length", "sent",
              "received", "incoming"}

TypeOK ==
  /\ setup \in {"other", "none", "token"} /\ supported \in BOOLEAN
  /\ store \in Ids /\ newest \in Ids
  /\ storeReaders \subseteq Caller /\ cookieReaders \subseteq Caller
  /\ cookies \in Header /\ carried \in [Caller -> Header]
  /\ pc \in [Caller -> Pc] /\ kind \in [Caller -> Kind]
  /\ todo \in [Caller -> Seq(Meta \cup Event)]
  /\ copy \in [Caller -> Ids] /\ left \in [Caller -> SUBSET Channel]
  /\ number \in [Caller -> Nat] /\ calls \in Nat

None     == [ch \in Channel |-> NoEntry]
NoHeader == [data |-> 0, len |-> 0]

\* New, NewMapStorage.
Init ==
  /\ setup \in {"other", "none", "token"} /\ supported = FALSE
  /\ store = None /\ newest = None /\ storeReaders = {} /\ cookieReaders = {}
  /\ cookies = NoHeader /\ carried = [g \in Caller |-> NoHeader]
  /\ pc = [g \in Caller |-> "idle"] /\ kind = [g \in Caller |-> "other"]
  /\ todo = [g \in Caller |-> <<>>]
  /\ copy = [g \in Caller |-> None] /\ left = [g \in Caller |-> {}]
  /\ number = [g \in Caller |-> 0] /\ calls = 0

-----------------------------------------------------------------------------
\* One id is newer than another, or one of them is none.
Newer(m, n) == NoEntry \in {m, n} \/ m < n

Go(g, p, q) == pc[g] = p /\ pc' = [pc EXCEPT ![g] = q]
Todo(g, s)  == todo' = [todo EXCEPT ![g] = s]
Of(k, c)    == [kind |-> k, ch |-> c, id |-> NoEntry]

\* A subscribe request has a message for each channel; the number of messages of
\* the others makes no difference here, nor which channel an outgoing one is for.
Request(g, k) ==
  /\ calls < MaxCalls /\ calls' = calls + 1
  /\ Go(g, "idle", "outgoing") /\ kind' = [kind EXCEPT ![g] = k]
  /\ number' = [number EXCEPT ![g] = calls']
  /\ \E n \in 1 .. (IF k = "subscribe" THEN MaxSize ELSE 1) :
       Todo(g, [i \in 1 .. n |-> Of(k, Slash)])
  /\ UNCHANGED <<setup, replay, auth, copies, carried, newest>>

\* Outgoing: a subscribe message wants a copy of the map from a server that
\* supports replay, the others want nothing of the store.
OutgoingSubscribe(g) ==
  /\ todo[g] # <<>> /\ kind[g] = "subscribe" /\ supported
  /\ Go(g, "outgoing", "copying") /\ Todo(g, Tail(todo[g]))
  /\ storeReaders' = storeReaders \cup {g}
  /\ left' = [left EXCEPT ![g] = Channel]
  /\ UNCHANGED <<request, supported, store, auth, copy, carried, newest>>

OutgoingOther(g) ==
  /\ todo[g] # <<>> /\ ~ (kind[g] = "subscribe" /\ supported)
  /\ Go(g, "outgoing", "outgoing") /\ Todo(g, Tail(todo[g]))
  /\ UNCHANGED <<request, replay, auth, copies, carried, newest>>

\* AsMap, under the read lock: the entries in any order.
CopyEntry(g) ==
  /\ Go(g, "copying", "copying")
  /\ \E ch \in left[g] :
       /\ copy' = [copy EXCEPT ![g][ch] = store[ch]]
       /\ left' = [left EXCEPT ![g] = @ \ {ch}]
  /\ UNCHANGED <<request, replay, auth, todo, carried, newest>>

\* Faulty variant: the lock is never released.
CopiedLocked(g) ==
  /\ left[g] = {} /\ Go(g, "copying", "outgoing")
  /\ copy' = [copy EXCEPT ![g] = None]
  /\ UNCHANGED <<request, replay, auth, todo, left, carried, newest>>

Copied(g) ==
  /\ left[g] = {} /\ Go(g, "copying", "outgoing")
  /\ storeReaders' = storeReaders \ {g} /\ copy' = [copy EXCEPT ![g] = None]
  /\ UNCHANGED <<request, supported, store, auth, todo, left, carried, newest>>

-----------------------------------------------------------------------------
\* RoundTrip: without a token an error, elsewhere the transport underneath.
RoundTrip(g) ==
  /\ todo[g] = <<>>
  /\ \/ setup = "other" /\ Go(g, "outgoing", "sent") /\ UNCHANGED cookieReaders
     \/ setup = "none"  /\ Go(g, "outgoing", "idle") /\ UNCHANGED cookieReaders
     \/ /\ setup = "token" /\ Go(g, "outgoing", "cookies")
        /\ cookieReaders' = cookieReaders \cup {g}
  /\ UNCHANGED <<request, replay, cookies, todo, copies, carried, newest>>

\* range evaluates the slice once, a header of more than one word.
ReadData(g) ==
  /\ Go(g, "cookies", "length")
  /\ carried' = [carried EXCEPT ![g].data = cookies.data]
  /\ UNCHANGED <<request, replay, auth, todo, copies, newest>>

ReadLength(g) ==
  /\ Go(g, "length", "sent")
  /\ carried' = [carried EXCEPT ![g].len = cookies.len]
  /\ cookieReaders' = cookieReaders \ {g}
  /\ UNCHANGED <<request, replay, cookies, todo, copies, newest>>

\* The server's messages: a reply, which names the channel of an unsubscribe
\* request, and events with newer ids in each channel.
Events == [kind : {"data"}, ch : Channel, id : 1 .. MaxId \cup {NoEntry}]
Ascending(s) ==
  \A j \in DOMAIN s :
    /\ Newer(newest[s[j].ch], s[j].id)
    /\ \A i \in 1 .. j - 1 : s[i].ch = s[j].ch => Newer(s[i].id, s[j].id)
Replies(k) == IF k = "handshake" THEN {"handshake", "announce"} ELSE {k}
Messages(g) ==
  {<<Of(k, c)>> \o s : k \in Replies(kind[g]),
     c \in IF kind[g] = "unsubscribe" THEN Channel ELSE {Slash},
     s \in {t \in BoundedSeq(Events, IF g = Poller THEN MaxSize ELSE 0) : Ascending(t)}}

\* A response that is not a list of messages comes as far as the transport.
Respond(g) ==
  /\ Go(g, "sent", IF setup = "token" THEN "received" ELSE "incoming")
  /\ \E s \in Messages(g) \cup {<<>>} : Todo(g, s)
  /\ carried' = [carried EXCEPT ![g] = NoHeader]
  /\ UNCHANGED <<request, replay, auth, copies, newest>>

TransportError(g) ==
  /\ Go(g, "sent", "idle")
  /\ carried' = [carried EXCEPT ![g] = NoHeader]
  /\ UNCHANGED <<request, replay, auth, todo, copies, newest>>

\* Faulty variant: no lock.
SetCookiesUnlocked(g) ==
  /\ Go(g, "received", "incoming")
  /\ cookies' = [data |-> number[g], len |-> number[g]]
  /\ UNCHANGED <<request, replay, cookieReaders, todo, copies, carried, newest>>

\* A response's own cookies, or none, take the place of those there were.
SetCookies(g) ==
  /\ Go(g, "received", "incoming") /\ cookieReaders = {}
  /\ \E n \in {0, number[g]} : cookies' = [data |-> n, len |-> n]
  /\ UNCHANGED <<request, replay, cookieReaders, todo, copies, carried, newest>>

-----------------------------------------------------------------------------
\* Incoming, for the next message of the response.
Handled(g) == todo[g] # <<>> /\ Go(g, "incoming", "incoming") /\ Todo(g, Tail(todo[g]))

Announce(g) ==
  /\ Handled(g) /\ Head(todo[g]).kind = "announce"
  /\ supported' = TRUE
  /\ UNCHANGED <<request, store, storeReaders, auth, copies, carried, newest>>

\* The range over the subscription yields its characters, of which "/" is always
\* one and the only one that is a channel: that one is deleted, and no other.
Delete(g) ==
  /\ Handled(g) /\ Head(todo[g]).kind = "unsubscribe" /\ storeReaders = {}
  /\ store' = [ch \in Channel |-> IF ch = Slash THEN NoEntry ELSE store[ch]]
  /\ UNCHANGED <<request, supported, storeReaders, auth, copies, carried, newest>>

\* Faulty variant: without the lock.
SetUnlocked(g, m) ==
  store' = [store EXCEPT ![m.ch] = m.id] /\ UNCHANGED storeReaders

\* Faulty variant: an id that is there is kept.
SetOnce(g, m) ==
  /\ storeReaders = {} /\ UNCHANGED storeReaders
  /\ store' = [store EXCEPT ![m.ch] = IF @ = NoEntry THEN m.id ELSE @]

\* MapStorage.Set.
Set(g, m) ==
  /\ storeReaders = {} /\ UNCHANGED storeReaders
  /\ store' = [store EXCEPT ![m.ch] = m.id]

UpdateReplayID(g) ==
  LET m == Head(todo[g]) IN
  /\ Handled(g) /\ m.kind = "data" /\ m.id # NoEntry
  /\ Set(g, m)
  /\ newest' = [newest EXCEPT ![m.ch] = IF Newer(@, m.id) THEN m.id ELSE @]
  /\ UNCHANGED <<request, supported, auth, copies, carried>>

\* Replies to the other requests, and data without a replay id.
Skip(g) ==
  LET m == Head(todo[g]) IN
  /\ Handled(g)
  /\ \/ m.kind \in {"handshake", "subscribe", "other"}
     \/ m.kind = "data" /\ m.id = NoEntry
  /\ UNCHANGED <<request, replay, auth, copies, carried, newest>>

Done(g) ==
  /\ todo[g] = <<>> /\ Go(g, "incoming", "idle")
  /\ UNCHANGED <<request, replay, auth, todo, copies, carried, newest>>

-----------------------------------------------------------------------------
Step(g) ==
  \/ OutgoingSubscribe(g) \/ OutgoingOther(g) \/ CopyEntry(g) \/ Copied(g)
  \/ RoundTrip(g) \/ ReadData(g) \/ ReadLength(g) \/ Respond(g) \/ TransportError(g)
  \/ SetCookies(g) \/ Announce(g) \/ Delete(g) \/ UpdateReplayID(g) \/ Skip(g)
  \/ Done(g)

Next == \E g \in Caller : Step(g) \/ \E k \in Kind : Request(g, k)

Spec == Init /\ [][Next]_vars

-----------------------------------------------------------------------------
\* A lock is held exactly where the code is between its RLock and RUnlock
\* (replay.go:190-191, salesforce.go:43-47), and nobody sees half of a header.
Locks ==
  /\ storeReaders = {g \in Caller : pc[g] = "copying"}
  /\ cookieReaders = {g \in Caller : pc[g] \in {"cookies", "length"}}
Headers ==
  /\ cookies.data = cookies.len
  /\ \A g \in Caller : carried[g].data =
       IF pc[g] = "length" THEN cookies.data ELSE carried[g].len
\* Events wait for the poll loop alone, each newer than those handled.
Waiting ==
  \A g \in Caller : \A j \in DOMAIN todo[g] : todo[g][j].kind = "data" =>
    /\ g = Poller /\ Newer(newest[todo[g][j].ch], todo[g][j].id)
    /\ \A i \in 1 .. j - 1 : todo[g][i].kind = "data" /\ todo[g][i].ch = todo[g][j].ch
                            => Newer(todo[g][i].id, todo[g][j].id)

\* The map attached to a subscribe message is the store of one moment, while
\* other goroutines set and delete entries (replay.go:189-196).
SnapshotConsistent ==
  \A g \in storeReaders : \A ch \in Channel \ left[g] : copy[g][ch] = store[ch]

\* The cookies of a request are all of one earlier response, although other
\* responses replace them meanwhile (salesforce.go:43-47, 54-56).
OneResponse == \A g \in Caller : pc[g] = "sent" => carried[g].data = carried[g].len

\* What is stored for a channel, if anything, is the id of the newest event that
\* has been handled, never that of an older one: events come to one goroutine, in
\* their order, and what others delete meanwhile does not come back (replay.go:83,
\* 133; Client!OneLoop).
NeverStale == \A ch \in Channel : store[ch] \in {NoEntry, newest[ch]}

\* The inductive invariant behind SnapshotConsistent, OneResponse and NeverStale.
IInv ==
  /\ TypeOK /\ Locks /\ Headers /\ Waiting
  /\ SnapshotConsistent /\ OneResponse /\ NeverStale
=============================================================================
