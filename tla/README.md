# A formal model of gobayeux

gobayeux is a Go client for the Bayeux protocol (CometD): it shakes hands with a
server, subscribes to channels, keeps one long-polling `/meta/connect` request
open and hands the messages that come back to Go channels of the application.
This directory holds TLA+ modules that model version 2 (`src/v2`) with its
extensions and its test server, and the client of version 1 where it differs; TLC
configurations that check them on small instances, and theorems that TLAPS
proves for instances of every size.

## The system

| Component | State | Operations | Interacts with |
|---|---|---|---|
| `Client` (`v2/client.go`) | five Go channels, `shutdown`, the subscriptions map, the poll goroutine's locals | `Start`, `Subscribe`, `Unsubscribe` (and their context variants), `Disconnect`, `UseExtension`; the goroutine `start`/`poll`; one goroutine per advised interval | the application (Go channels, contexts), `BayeuxClient`, `subscriptionsMap` |
| `subscriptionsMap` (`v2/subscriptions_map.go`) | channel to receiver, under an RWMutex | `Add`, `Remove`, `Get` | poll goroutine |
| `BayeuxClient` (`v2/bayeux_client.go`) | client id (RWMutex), state machine, extensions | `Handshake`, `Connect`, `Subscribe`, `Unsubscribe`, `Disconnect`, `UseExtension`, `request`, `parseResponse` | HTTP, extensions, any number of calling goroutines |
| `ConnectionStateMachine` (`v2/state_machine.go`) | one atomic integer | `ProcessEvent`, `IsConnected`, `CurrentState` | `BayeuxClient` |
| `Message`, `Advice`, builders (`v2/message*.go`) | the fields of a message or request under construction | accessors, `Add...`, `Build` | `BayeuxClient`, poll goroutine |
| `Channel` (`v2/channel.go`) | none | `Type`, `IsValid`, `Match` | builders, replay extension |
| replay extension (`v2/extensions/replay`) | whether the server supports it, a map of replay ids | `Outgoing`, `Incoming`, `IDStore` | `BayeuxClient.request`, `parseResponse` |
| salesforce authenticator (`v2/extensions/salesforce`) | the cookies of the last response | `RoundTrip` | HTTP client |
| test server (`v2/internal/gobayeuxtest`) | subscriptions of each session | `RoundTrip`, `Start`, `Stop` | tests |
| errors, logging, `cmd/testutil` | none that matters | texts, output, flags | everything |
| version 1 (`src/*.go`) | as version 2 | as version 2 without `IgnoreError` and context variants | |

What is hard here:

* **Concurrency.** Any number of goroutines call `Subscribe`, `Unsubscribe`,
  `Start` and `Disconnect`; the poll goroutine picks among ready cases at random;
  timers enqueue connect requests whenever they fire; `Disconnect` closes the
  channels under everybody's feet.
* **Self-communication.** The poll goroutine sends to two channels that it alone
  receives from: `handshakeRequestChannel` (unbuffered) and
  `connectMessageChannel` (capacity five).
* **Ordering.** Batches are cut out of a response by comparing each message's
  channel with the one before; subscribe and unsubscribe requests travel in
  queues of their own.
* **Partial failure.** A batch of subscriptions is one HTTP request with a message
  per channel, refused as a whole when the server refuses one.
* **Life cycle.** The state machine has no event that leads back from connected,
  and `Disconnect` does not use the one that would.

## Modules

| Module | Models | State and actions |
|---|---|---|
| `StateTable` | `ConnectionStateMachine.ProcessEvent` | `Accepts`, `After`: the transition table, no variables |
| `Client` | `v2/client.go`, the requests of `v2/bayeux_client.go`, `subscriptionsMap`, an answering server | see below |
| `Session` | what the client owes protocol and application (abstract) | one handshake, one session, one outstanding connect request, responses worked through in order |
| `ClientProperties` | properties of `Client`, its inductive invariant, and the refinement mapping to `Session` | |
| `MCClient` | `ClientProperties` for TLC (symmetry) | |
| `ClientProofs` | theorems about `Client`: its types, its one loop, and that it implements `Session` | |
| `ClientDelivery` | theorems about `Client`: subscriptions and messages | |
| `BayeuxClient` | `v2/bayeux_client.go`, the builders, `UseExtension`, any number of callers, an answering server | see below |
| `Requests` | what the low-level client owes its callers (abstract) | calls that look at client id and state in one step |
| `BayeuxProperties` | properties of `BayeuxClient`, its inductive invariant, and the mapping to `Requests` | |
| `MCBayeux` | `BayeuxProperties` for TLC (symmetry) | |
| `BayeuxProofs` | theorems about `BayeuxClient`, the refinement among them | |
| `ConnectionStateMachine` | every atomic instruction of `v2/state_machine.go` under any number of goroutines, and the mapping to `AtomicStateMachine` | `currentState`; per goroutine `pc`, `asked`, `answer` |
| `AtomicStateMachine` | what callers think an event is (abstract) | an event and its answer in one step between call and return |
| `MCStateMachine` | `ConnectionStateMachine` for TLC (symmetry) | |
| `MachineProofs` | theorems about `ConnectionStateMachine` | |
| `TestServer` | `v2/internal/gobayeuxtest` under the goroutines of a `BayeuxClient`, and the mapping to `BayeuxClient` | `running`, `handshakeError`, `entries` (`subs`), `status`; `Start`, `Stop` and one `Serve...` per branch of `RoundTrip` |
| `Exchange` | what surrounds a request: `Outgoing` and `Incoming` of the replay extension, `MapStorage`, `RoundTrip` of the salesforce authenticator | see below |
| `Channels` | `v2/channel.go`: `IsValid`, `HasWildcard`, `Match` | `pattern` and `other` grow by a character at a time |
| `ClientV1` | the loop of version 1 as differences from `Client`, and the mapping back to `Client` | the variables of `Client` |
| `MCClientV1` | `ClientV1` for TLC (symmetry) | |
| `V1Proofs`, `ServerProofs`, `ExchangeProofs`, `ChannelProofs` | theorems about `ClientV1`, `TestServer`, `Exchange` and `Channels` | |

### `Client`, state and actions

`Loops` is the set of calls of `Start()`; each is a goroutine `l` with a place
`pc[l]` in the code, an error `err[l]` it has returned with and the locals of
`poll` that live across a blocking point: `todo[l]` (`subReqs`), `gone[l]` (the
channels to unsubscribe) and `rest[l]` (what remains of `ms`).  Go channels are
sequences (`subQ`, `unsubQ`, `messageQ`), a flag (`connReq`, capacity one), or
nothing (`handshakeRequestChannel` has no buffer); `closed` holds the ones that
`Disconnect` has closed.  `timers` counts the goroutines that wait for an advised
interval.  `crash` names the panic that ended the process: no step follows one.
`asked`, `received`, `served` and `acked` are history: what the application asked
for, what receivers got, how much the server has sent, and whether it has
acknowledged a disconnect.

One action is the code between two points where another goroutine can notice:
a channel operation, the sending of an HTTP request, the arrival of its response.

| Code | Actions |
|---|---|
| `start`, `Handshake` | `Start`, `Handshake` (the state machine's check and the sending), `HandshakeOk`, `HandshakeError`, `ReadError` (the application takes the error) |
| `case <-ctx.Done()` | `PollCancelled` |
| `case <-subscribeRequestChannel` | `PollSubscribe`, `DrainSubscribe`/`DrainClosed` (`getSubscriptionRequests`), `SubscribeSend`, `SubscribeOk`, `SubscribeError`, `AddSubscription`, `AddDone` |
| `case <-unsubscribeRequestChannel` | `PollUnsubscribe`, `DrainUnsubscribe`/`DrainClosed`, `UnsubscribeSend`, `UnsubscribeOk`, `UnsubscribeError` |
| `case <-handshakeRequestChannel` | `PollHandshake`, then `Handshake` from the place "restart" |
| `case <-connectMessageChannel` | `PollMessage`, `SendHandshake`, and `TimerFires` for the goroutine it starts |
| `case <-connectRequestChannel` | `ConnectSend`, `ConnectOk`, `ConnectError`, `DeliverToApp`, `DeliverToSelf`, `DeliverOrphan`, `DeliverDone` |
| `default` | `PollDefault` |
| `Subscribe`, `Unsubscribe` | `UserSubscribe`, `UserUnsubscribe`, blocked while the queue is full |
| `Disconnect` | `DisconnectCall`, `DisconnectOk`, `DisconnectError`, then five `Close` |

The server is not under `src/`, except for the test server: the model has any
server that grants a session, keeps the set of subscribed channels, and answers a
connect request with new messages of these channels and one reply on
`/meta/connect`, before or after them (`ReplyAt`), with the advice of `Advices`.
`Faults` lists the requests that may fail; a refused batch leaves any part of it
subscribed at the server.

What is abstracted: message payloads are numbers in sending order; channels and
receivers are model values, `Invalid` those that `IsValid` refuses; an
`IgnoreErrorFunc` is the set of error kinds it accepts (`Ignored`); `shutdown` has
no sender in the code, so its case is never ready and `start`'s final
`Disconnect` is unreachable; the client id and the connection state are read in
one step, which `AtomicRequests` of the next module justifies.

### `BayeuxClient`, state and actions

`Client` has one goroutine that makes requests, or two that race to begin.  The
low-level client is public and may be called from anywhere: here every goroutine
in `Caller` calls whatever it likes, and one action is one access to what they
share, the client id behind its lock (`clientID`) or the atomic connection state
(`csm`).  `pc[c]` is the caller's place; `op`, `arg`, `id`, `out` and `response`
are the locals of its call, `result` what the last one returned.  `handshakes`
counts requests sent, `granted` and `live` are the server's sessions.

| Code | Actions |
|---|---|
| the call | `Call` |
| `Handshake` | `HandshakeEvent`, `Send`, `ServeHandshake`, `ReceiveHandshake`, `SetID`, `Established` |
| `Connect`, `Subscribe`, `Unsubscribe`, `Disconnect` | `ReadID`, `ReadState`, `Send`, `ServeRequest`, `Receive` |
| a builder that refuses | `Send` with `BuildFails`: no channel, or one that `IsValid` refuses |
| `request` fails, `parseResponse` refuses | `Lost`, before or after the server has done what it was asked |
| `UseExtension` | the same; it is not synchronized with requests, so it happens while nobody is in a call |

`AddSubscription` drops repetitions and no loop over messages depends on their
order, so slices of channels and messages are sets.  The server may grant or
refuse a handshake, answer it with no message or with too many, accept any part
of a request's messages, and put data of the session's channels into the response
to a connect request.  Nothing in the client depends on whether a server refuses
the requests of a session it has ended, so the model's server need not.

### `ConnectionStateMachine`

The other modules take an event as one step.  Here each atomic instruction is one:
`CompareAndSwap` or `CompareFails` and then `Explain` (the load that words the
error), `Timeout`, `DisconnectLoad` and then perhaps `DisconnectStore`.  The mapping
says at which instruction an event takes effect: the swap, the failing comparison,
the store, or the load that finds nothing to store.  That a disconnect is two
instructions is harmless because its store does not depend on which of the two
states it found, and because no event leads from the unconnected state to one that
`DisconnectLoad` would not have torn down as well.

### `TestServer`

The server of the repository's tests is a transport that holds a mutex for the
whole of `RoundTrip`; one action serves one request.  It extends nothing: it
instantiates `BayeuxClient` for the client's steps (`Ask`, `Fail`, `Receive`) and
replaces the server's.  `entries` counts how often a channel is in a session's
list, since a refused subscription is appended all the same; the mapping takes what
is there at least once.  `StartStop` is free to happen at any time.

### `Exchange`

`BayeuxClient` leaves out what extensions do with the messages and transports with
the requests.  Here a goroutine's request passes `OutgoingSubscribe` or
`OutgoingOther` for each message (`CopyEntry` for each entry that `AsMap` copies
under the read lock, `Copied` when it is released), `RoundTrip` with `ReadData` and
`ReadLength` (a header of several words, read under the authenticator's read lock),
`Respond` or `TransportError`, `SetCookies` under the write lock, and for each message
of the response `Announce`, `Delete`, `UpdateReplayID` or `Skip` (`Incoming`), then
`Done`.  `storeReaders` and `cookieReaders` are who holds a lock for reading.  A Go
slice header is the pair of the response's number and its length, so that a torn
read would be seen.  `newest` is history.  Data is in the responses of the goroutine
`Poller` alone, in the order of its ids: that is what `OneLoop` and the order of a
response mean for the extension.

### `Channels`

A string is a sequence of characters; two letters, the slash and the star are all
that the code tells apart.  `Match` answers "yes", "no" or "panic".  The reference
`Matches` splits both channels into segments, the stretches between the places of
two neighbouring slashes.  The segments are defined by these places and not by a
recursion over the string, so that theorems can speak of them.

### `ClientV1`

The loop of version 1 has no `IgnoreErrorFunc` and no `Unsubscribe`.  The lines that
are the same in both versions are the actions of `Client` under names that say
which lines of version 1 they stand for; `SubscribeSend1`, `SubscribeError1` and
`AddSubscription1` differ, because each error ends the loop.

## Runs

Bounds: `MaxCalls` calls of `Subscribe` or `Unsubscribe`, `MaxServed` messages in
all, `MaxBatch` in one response, `MaxDisconnects`; queue capacities are constants
and are two where the run is not about a full queue.  Two channels and two
receivers are what it takes to mix something up, a batch of three what it takes to
cut one in the middle, two loops what it takes to race.  Runs say
`CHECK_DEADLOCK FALSE`, because the process may end in a panic and the goroutines
may return.

| Run | Question | Shows |
|---|---|---|
| `client_loops` | two calls of `Start()`, two of `Disconnect()`, every fault and advice, a queue of one reply and two messages of data: can two goroutines poll at once, or begin two sessions? can a client whose handshake has failed begin again? what ends the process, and what gets a loop stuck? | `TypeOK`, `OneLoop`, `TroubleExplained`, `SessionKept`, `StrandedForGood`, `ImplementsSession` |
| `client_delivery` | who gets which message, and do the client's map and the server agree? four calls, three messages, refusals, duplicates ignored | `Routing`, `InOrder`, `NoLoss`, `Coherent`, `NeverOrphaned`, `ImplementsSession`, `SubscriptionStable` |
| `client_live` | every advice, a queue of one reply: does the loop stop when cancelled, serve every request and keep connecting? | `CancelStops`, `SubscribeServed`, `KeepsConnecting` |
| `bayeux_calls` | three goroutines, four calls of every kind, any part of a request refused: what do they see of each other, and what does success mean? | `IInv`, `OneHandshake`, `ConnectedHasSession`, `AtomicRequests`, `SubscribeHolds` |
| `machine` | three goroutines, five events or questions: is each of them atomic? | `Linearizable` |
| `server` | does the test server behave like a server the client was modelled with, and does every call return? two goroutines, two channels, four calls | `ImplementsBayeux`, `EveryCallReturns` |
| `exchange` | a poll loop and another goroutine, two channels (one of them `/`), three requests, two messages or events each, ids up to two | `IInv`, `SnapshotConsistent`, `OneResponse`, `NeverStale` |
| `channel` | every pair of channels of up to five characters: what does `Match` answer? | `MatchBySegments`, `PanicsAtParent` |
| `client_v1` | version 1 with three subscribe calls, one invalid channel, refusals, every advice and a `Disconnect()`: what does an error leave behind, and may version 2 do the same? | `Coherent`, `NeverOrphaned`, `ImplementsV2`, `EntriesKept` |

`NoLoss` holds for servers whose responses end with the reply on `/meta/connect`
(`ReplyAt = {"last"}`); for the others see `bad_last_batch`.  `Coherent` and
`NeverOrphaned` hold as long as `Ignored` has neither `"subscribe"` nor
`"unsubscribe"`: a refused batch that the application ignores leaves subscriptions
at the server that the client knows nothing of, and the first message for one of
them ends the loop.  `Coherent` speaks of the time until `Disconnect` is
acknowledged: it ends the session and its subscriptions, while the map and the loop
go on.

A loop can be stuck by itself in three places, and in none of them is a cancelled
context looked at.  On a handshake advice it sends on `handshakeRequestChannel`, which
has no buffer and no other receiver (`WaitsForItself`, `client.go:290`).  Where
connect requests are preferred to the replies that wait, six responses with the reply
in front of data fill its own queue of five (`WaitsForRoom`, `client.go:323`).  And a
loop that drains a queue after `Disconnect` has closed it goes on for ever
(`DrainsForEver`, `client.go:341`).  The model does all of this as the code does, and
no property excludes it; the test server sends handshake advice with every response.
`CancelStops`, `SubscribeServed` and `KeepsConnecting` say that nothing else stands in
the way: their outcomes are the one that is wanted, the end of the loop, a loop that
is stuck, and the end of the process by a panic.  `TroubleExplained` says what each of
the last two takes: a panic on a closed channel a `Disconnect`, one at a channel that
is closed already a second one, the nil advice a server that leaves it out; draining
for ever a `Disconnect`, waiting for itself a handshake advice, and waiting for room a
server that puts its reply in front of data and has sent more messages than the queue
has places.  The runs about this have more messages than places in the queue, every
advice, and both orders of a response.  `client_live` has three calls and no
`Disconnect`, so that no loop drains for ever there: with one `Disconnect` and two
calls TLC needs more than five minutes, with one `Disconnect` and one call the three
properties hold as well.

The default case of the select sends a connect request while an advised interval
still runs (`client.go:330`), and timers outlive `Disconnect` and then send on a
closed channel (`client.go:293`); here, too, the model does what the code does.

`EntriesKept` says that version 1 never changes an entry, not whose it is: of a batch
the request received first is added last (`src/client.go:196`), so that a later one
for the same channel in that batch gets the entry.

`SubscribeHolds` is about the replies that come: the model's server replies once for
each channel.  The code looks at the replies only, so that a response with status 200
and an empty list is a success as well (`bayeux_client.go:194`); such a server, which
the protocol does not allow, is left out here and in `Client`.

`NeverStale` says that no old replay id comes back, not that the server would resume
there: what extensions attach is not sent (`bad_extension`).  `Incoming` deletes an
entry for each character of an unsubscribed channel's name (`replay.go:83`), so that it
always deletes `/` and never the channel itself, although `replay_test.go:93`
"TestIncomingMetaUnsubscribeRemovesChannel" (which tries `/` only) expects the id of
the channel to be removed; `Delete` models what the code does.

`MatchBySegments` leaves out arguments
that continue the pattern's parent without a slash: `/foo/*` matches `/foobar`.
`PanicsAtParent` says exactly which argument makes `Match` panic.

Runs whose property is taken from a comment or document that the code does not
live up to:

| Run | Says | Does |
|---|---|---|
| `bad_disconnect_loop` | `client.go:220` "When the user calls the Disconnect() method" | nothing is sent on `shutdown`; the loop drains a closed channel for ever |
| `bad_last_batch` | `doc.go:21` "a chan to receive messages on" | the last batch of a response is never sent |
| `bad_extension` | `replay.go:54` "Outgoing attaches any additional metadata to a message" | extensions get a copy of the message; what they attach is not sent |

### Fairness

`LiveSpec` adds, for each goroutine, weak fairness of its steps outside the
`select` (the Go scheduler runs every goroutine, an HTTP request ends, the
application reads errors and messages), strong fairness of each case of the
`select` (Go picks uniformly among ready cases, so a case ready at infinitely many
rounds is picked), and weak fairness of timers and of a `Disconnect` that has been
called.  The application owes no call.  That an HTTP request ends is an assumption
about network or `http.Client`: the code sets no timeout.

`TestServer` states weak fairness of each goroutine's steps, `RoundTrip` among them:
the transport answers in the goroutine that calls it.  Nobody owes a call, or to
start or stop the server.

## Proofs

`ClientProofs` shows, for every set of goroutines, channels and receivers, every
capacity and bound and every behaviour of the server:

* `ClientTypeOK`: `Spec => []TypeOK`;
* `ClientOneLoop`: `Spec => []OneLoop`;
* `ClientSessionKept`: `Spec => SessionKept`;
* `ClientStrandedForGood`: `Spec => StrandedForGood`;
* `ClientImplementsSession`: `Spec => ImplementsSession`.

`ClientDelivery` shows, as generally:

* `ClientSubscriptionStable`: `Spec => SubscriptionStable`;
* `ClientDelivers`: `Spec => []DeliveryInv`, and from it `ClientRouting`:
  `Spec => []Routing`, and `ClientInOrder`: `Spec => []InOrder`;
* `ClientNoLoss`: `Spec => []NoLoss` if `RepliesLast`;
* `ClientCoherent`: `Spec => []Coherent` if `FailuresEnd`;
* `ClientNeverOrphaned`: `Spec => []NeverOrphaned` if `FailuresEnd`;
* `ClientTroubleExplained`: `Spec => []TroubleExplained`.

`RepliesLast` says that the server puts its reply on `/meta/connect` at the end of a
response; without it `bad_last_batch` shows the loss.  `FailuresEnd` says that the
application's `IgnoreErrorFunc` accepts no refused subscribe or unsubscribe request;
duplicates it may ignore.  Both are satisfied by the constants of `client_delivery`.

`BayeuxProofs` shows, for every set of callers, channels, sessions and extensions:

* `BayeuxInvariant`: `Spec => []IInv`;
* `BayeuxOneHandshake`: `Spec => []OneHandshake`;
* `BayeuxConnectedHasSession`: `Spec => []ConnectedHasSession`;
* `BayeuxAtomicRequests`: `Spec => AtomicRequests`;
* `BayeuxSubscribeHolds`: `Spec => SubscribeHolds`.

`MachineProofs` shows, for every number of goroutines and calls:

* `MachineTypeOK`: `Spec => []TypeOK`;
* `MachineLinearizable`: `Spec => Linearizable`.

`V1Proofs` shows of the loop of version 1, as generally as `ClientProofs`:

* `V1ImplementsV2`: `Spec1 => ImplementsV2`;
* `V1Delivers`: `Spec1 => [](OneLoop /\ Routing /\ InOrder)`;
* `V1Coherent`: `Spec1 => []Coherent`;
* `V1NeverOrphaned`: `Spec1 => []NeverOrphaned`;
* `V1TroubleExplained`: `Spec1 => []TroubleExplained`;
* `V1SessionKept`: `Spec1 => SessionKept`;
* `V1StrandedForGood`: `Spec1 => StrandedForGood`;
* `V1ImplementsSession`: `Spec1 => ImplementsSession`;
* `V1EntriesKept`: `Spec1 => EntriesKept`.

`ExchangeProofs` shows, for any number of goroutines and channels:

* `ExchangeInvariant`: `Spec => []IInv`;
* `ExchangeSnapshot`: `Spec => []SnapshotConsistent`;
* `ExchangeOneResponse`: `Spec => []OneResponse`;
* `ExchangeNeverStale`: `Spec => []NeverStale`.

`ServerProofs` shows, for any number of callers, channels and sessions:

* `ServerImplementsBayeux`: `Spec => ImplementsBayeux`;
* `ServerKeepsPromises`: the clients of this server have what `BayeuxClient` promises,
  `OneHandshake`, `ConnectedHasSession` and `SubscribeHolds`.

`ChannelProofs` shows, for every alphabet and strings of any length:

* `ChannelPanicsAtParent`: `Spec => []PanicsAtParent`;
* `ChannelMatchesBySplit`: `Match` accepts, for a valid pattern with a wildcard, the
  pattern's directory followed by what the wildcard stands for, and nothing else but
  what `Beside` excludes;
* `ChannelMatchesBySegments`: `Spec => []MatchBySegments`.

The assumptions are `SetAssumption` (the special values are distinct from the
application's; in `TestServer`, as `ServerAssumption`, those of its `BayeuxClient`),
`BoundAssumption`, `MaxCallsAssumption` and `ExchangeAssumption` (bounds and
capacities are numbers), and `ChannelsAssumption` (a slash or a star is no letter).

The argument is the inductive invariant `IInv`.  `OneLoop` alone is not inductive:
a second goroutine could pass its handshake if the state machine were unconnected
again.  `PollingIsConnecting` says that it is not while anybody polls,
`HandshakePending` that a goroutine that waits for its handshake response does so
in the connecting state, once, and never from inside the loop, and
`SessionIsConnected` that a session exists only in the connected state; together
they make the first handshake the only one.  `Draining` (a batch under
construction is not empty) and `ClosingInRange` are what `TypeOK` needs.  Almost
every action is `Quiet`: it leaves session and state machine alone and starts no
goroutine to poll; `QuietKeeps` deals with these at once, `HandshakeKeeps` and
`HandshakeOkKeeps` with the other two.  `StrandedForGood` follows: what leads out of
the connecting state is a response that somebody waits for (`HandshakePending`), and
the state machine accepts no handshake there.

The refinement maps the state machine and the client id to themselves,
`outstanding` to "a loop waits for a connect response" and `pending` to what
remains of the response of the one loop that has one.  It rests on `RInv`: `IInv`
with `RestOwner` (only a delivering loop has messages left) and `MetaEntry` (the
entry of `/meta/connect` is the client's own, no other channel has it, so a batch
for it is never given to the application).  `OneLoop` is what makes the mapping
work: the polling loop owns request and response (`Owner`), so that
`ConnectSend` finds `outstanding` false and `pending` empty.  Steps that are
`Aside` of all this are stutters.  Each of the other actions has a lemma that
says which step of `Session` it is: `Handshake` is `Begin`, `HandshakeOk` is
`Grant`, `ConnectSend` is `Request`, `ConnectOk` is `Answer`, `ConnectError` is
`Fail`, `DeliverToApp` and `DeliverToSelf` are `HandOver`, `DeliverOrphan` and
`DeliverDone` are `Abandon`; the ones that fail or crash are stutters.

Of messages and subscriptions, no property is inductive.  What each action can touch is
settled once, in the `Footprint` lemmas: five actions touch responses and receivers
(`Responding`), five the requests under way (`Requesting`), three the map
(`Mapping`); every invariant is then a matter of these.

* `DeliveryInv`.  For `Routing`, `AskedFor` follows a request from the call to the map:
  it is one the application made wherever it waits, in the queue, in a batch or as an
  entry, and only the entry of a channel decides where its messages go.  For `InOrder`,
  `Ahead` says that the messages which remain of a response are in order, and newer
  than anything that anybody has received: what is handed over is a batch of the front
  of the response, so what stays behind is newer still.
* `LossInv`.  `Accounted` says that while a loop polls each message of the server has
  reached a receiver or remains; `EndsWithReply` that what remains ends with the reply.
  The code gives a batch away when the next message is of another channel, so the
  reply at the end is what pushes out the last batch of messages: where no batch
  ends, only the reply is left (`BatchThere`, the one place where the least element of
  a set of positions is needed).
* `CoherenceInv`.  A polling loop agrees with the server but for the entries it has still
  to add (`Agreed`, `Adding`), also when a duplicate in the middle is ignored and the
  batch goes on; there is nothing to agree about before a handshake or after a
  disconnect (`Fresh`, `Ended`); nobody reports a refusal and goes on (`NoFailures`);
  `/meta/connect` has an entry while a loop polls (`MetaKnown`), and so has each message
  that waits (`Deliverable`), since the server sends for what is subscribed and the map
  does not change while a response is worked through.

* `TroubleInv` and `RoomInv`, for `TroubleExplained`.  A panic on a closed channel is explained by the
  `Disconnect` that has closed it, so `FirstCloses` follows the five `close()`: before
  the first call nothing is closed, and a first call has closed exactly what precedes
  its place in `CloseOrder`, so that it meets no closed channel itself.  `Advised`
  follows an advice from the server through the response into the queue of replies;
  `MetaEntry` keeps data out of that queue.  Together they carry the conditions on
  panics, on draining and on handshake advice (`PanicsExplained`, `LoopsExplained`).
  That on room follows from a count, `RepliesCounted`: only a reply with data after
  it is ever put into the queue, the loop that puts it there is the only one with a
  response (`OneLoop`), and its response has one reply (`OneReply`); so a reply that
  waits in the queue, or is about to get there, has a message of the server to
  itself, and a full queue means more messages than places.

The first three were checked with TLC before they were proved, on the constants of
`client_delivery` with one `Disconnect` and three calls, `TroubleInv` and `RoomInv` on
those of `client_loops` and, with one loop, two channels.

For the low-level client the invariant says that one caller at most is past its
handshake event (`OneShaking`), and only in the connecting state, with the client
id written just before the end (`ShakingState`); hence a handshake has been sent
at most once (`Sent`), the connected state has a session (`SessionKnown`), and
whatever another caller has read is that session or nothing (`ReadKnown`,
`Offered`).  The mapping to `Requests` lets the session appear with the connected
state (`Sid`), admits a request when it reads the state, and refuses one that has
read no client id when it did so: until the handshake is over that is a moment
without a session, and after it an id that was read is still the session's.

`SubscribeHolds` rests on `IInv` and on `Asked`: a request on its way asks for every
channel its call was given.  The state machine needs no more than its types: each
instruction alone is a step of `AtomicStateMachine` or none.

Version 1 differs from version 2 in three steps only: all others are the same
actions of both (`SharedStep`, `OthersStep`), and these three are steps of a version 2
that ignores no error (`OwnStep`), which is the whole refinement.  With nothing ignored
`FailuresEnd` holds, so that every theorem of `ClientDelivery` is one of version 1, by
an instance of that module (`V1IsClient`, `V1Constants`).  `EntriesKept` is more
than version 2 keeps: no step of version 1 removes an entry (`LoopKeepsEntries`).

For what surrounds a request, `IInv` of `Exchange` says which place holds which lock
(`Locks`), that what a request has read of the cookies is what is stored as long as
it holds the lock (`Headers`), and that the events which wait are newer than those
handled, in order (`Waiting`).  The loop over the cookies is two reads, the length and
the data; under the lock both belong to one response.

The refinement of `TestServer` takes its invariant from `BayeuxProofs` by an instance
with the server's lists for the subscriptions, and adds that a request on its way is
made of messages of its kind (`Asking`).  Each `Serve...` is then `ServeRequest` with the
messages that the branch accepts; starting and stopping the server are stutters,
and a stopped server is a lost request.

For `Match` the crux is that the last slash exists and is unique (`LastSlashThere`, from
`Greatest`); a string that has the parent in front, and then nothing, is the parent
(`NothingAfter`), and one that goes on with a slash is the directory and the characters
that the code cuts off (`CutIsRest`, `RestIsCut`).

The way from there to segments is counting.  A string has one segment more than
slashes, and the places of its slashes say where the segments are.  Two strings that
agree up to a slash have the same segments before it, and the other way round
(`SamePlaces`, `SegmentsTell`).  So an argument has the pattern's segments in front
exactly if it has the pattern's directory in front (`BelowIsAgree`), as many of them
if no slash follows (`OneMore`), and it is the pattern only if all of them are the same
(`SegmentsInjective`): the reference says what `ChannelMatchesBySplit` says
(`SplitIsMatches`).

Only model-checked are the properties under fairness (`KeepsConnecting`, `CancelStops`,
`SubscribeServed`, `EveryCallReturns`), for liveness is out of the prover's reach, and
the counterexamples.

## Plan

Done: `StateTable`, `Client`, `Session`; `BayeuxClient`, `Requests`;
`ConnectionStateMachine`; `TestServer`; `Exchange`; `Channels`; `ClientV1`; the theorems
above.  Left, in this order:

1. `Client` over `Exchange`: which replay ids the subscribe requests of the poll loop
   carry.
2. Messages of a session that arrive after it has ended.

## Not modelled

Errors (texts and types), logging and `cmd/testutil` have no behaviour of their
own.  `Publish` panics.  `ParseError`, timestamps, `GetExt` and `Channel.Type` are data
conversions that nothing modelled tells apart further.  Of version 1: `BayeuxClient`
under other callers than the loop (its code differs from version 2 in the texts of
errors), the `http.DefaultClient` that `NewBayeuxClient` changes, and the
authenticator without its lock, which `SetCookiesUnlocked` of `Exchange` is.  The
state machine, builders, subscriptions map, channels and replay extension of version
1 are the files of version 2.  JSON, HTTP and the network appear as what can come of
them: a response, another status, no list of messages, no response.

