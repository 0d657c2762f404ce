--------------------------- MODULE BayeuxProperties ---------------------------
(***************************************************************************)
(* What the low-level client promises the goroutines that call it.         *)
(***************************************************************************)
EXTENDS BayeuxClient

\* One handshake request is ever sent, however many callers race for it and
\* whatever becomes of it: the compare-and-swap decides (bayeux_client.go:70).
OneHandshake == handshakes <= 1

\* Whoever sees the connected state also sees the session: the client id is
\* written first, and neither is written again (bayeux_client.go:113-114).
ConnectedHasSession == csm = Connected => clientID \in granted

\* A response that makes a subscribe call succeed is one to a request by which
\* the server subscribed every one of its channels, although there is a reply
\* for each channel and some may refuse (bayeux_client.go:195-202).
SubscribeHolds ==
  [][\A c \in Caller :
       /\ At(c, "wait") /\ pc'[c] = "served" /\ op[c] = "subscribe"
       /\ Succeeded("subscribe", response'[c])
       => arg[c] \subseteq srvSubs'[id[c]]]_vars

\* To its callers the two reads of a request, and the two writes of a
\* handshake, are one step each: a call is refused only if there was no
\* session at some moment of it, and carries the session of that moment
\* (bayeux_client.go:126, 165, 209, 251).
Sid == IF csm = Connected THEN clientID ELSE NoID
Stage(c) ==
  CASE pc[c] = "idle"      -> "idle"
    [] pc[c] = "event"     -> "handshake"
    [] pc[c] = "readID"    -> "request"
    [] pc[c] = "readState" -> IF id[c] = NoID THEN "refused" ELSE "request"
    [] OTHER -> IF op[c] = "handshake" THEN "begun" ELSE "admitted"
Stages  == [c \in Caller |-> Stage(c)]
Carried == [c \in Caller |-> IF Stage(c) = "admitted" THEN id[c] ELSE NoID]
Abstract == INSTANCE Requests WITH
  phase <- csm, sid <- Sid, stage <- Stages, carried <- Carried
AtomicRequests == Abstract!Spec

-----------------------------------------------------------------------------
\* The inductive invariant behind OneHandshake and AtomicRequests: one caller
\* at most is past its handshake event and not back, only while the state is
\* connecting; what anybody has read is the session or nothing.
Shaking(c) == pc[c] \notin {"idle", "event"} /\ op[c] = "handshake"
OneShaking == \A c, d \in Caller : Shaking(c) /\ Shaking(d) => c = d
ShakingState ==
  \A c \in Caller : Shaking(c) =>
    /\ csm = Connecting
    /\ pc[c] \in {"build", "wait", "served", "setID", "established"}
    /\ clientID # NoID <=> pc[c] = "established"
Sent ==
  /\ handshakes <= 1
  /\ csm = Unconnected => handshakes = 0
  /\ \A c \in Caller : Shaking(c) /\ pc[c] = "build" => handshakes = 0
SessionKnown ==
  /\ clientID \in granted \cup {NoID}
  /\ csm = Unconnected => clientID = NoID
  /\ csm = Connected => clientID # NoID
ReadKnown ==
  \A c \in Caller :
    /\ pc[c] \notin {"idle", "event", "readID"} => id[c] \in {NoID, clientID}
    /\ pc[c] = "event" => op[c] = "handshake"
    /\ pc[c] \in {"readID", "readState"} => op[c] # "handshake"
    /\ pc[c] \in {"build", "wait", "served"} /\ op[c] # "handshake" =>
         id[c] # NoID /\ csm = Connected
    /\ pc[c] \in {"idle", "event", "readID"} => id[c] = NoID
    /\ pc[c] \in {"setID", "established"} => op[c] = "handshake"
Offered ==
  \A c \in Caller :
    /\ pc[c] = "served" /\ op[c] = "handshake" => \A m \in response[c] :
         m.op = "handshake" /\ m.ok => m.id \in granted
    /\ pc[c] = "setID" => \A m \in response[c] : m.id \in granted

IInv ==
  /\ TypeOK /\ OneShaking /\ ShakingState /\ Sent /\ SessionKnown /\ ReadKnown
  /\ Offered

-----------------------------------------------------------------------------
\* replay.go:54 "Outgoing attaches any additional metadata to a message", and
\* the extension of doc.go:33-38 does so: the server gets what registered
\* extensions attach.
ExtensionDataSent ==
  \A c \in Caller : At(c, "wait") => \A m \in out[c] : exts # {} => m.ext = exts
=============================================================================
