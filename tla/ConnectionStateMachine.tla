----------------------- MODULE ConnectionStateMachine -----------------------
(***************************************************************************)
(* v2/state_machine.go under any number of goroutines, one action for each *)
(* atomic instruction on currentState: compare-and-swap, and the load that *)
(* words the error when it failed; swap; load, and then perhaps store, for *)
(* disconnectSent.                                                         *)
(***************************************************************************)
EXTENDS StateTable, Integers

CONSTANTS
  Caller,   \* the goroutines
  MaxCalls  \* bound: calls

ASSUME MaxCallsAssumption == MaxCalls \in Nat

Question == {"IsConnected", "CurrentState"}
Asked    == Event \cup Question \cup {"unknown"}

VARIABLES
  currentState, \* the word the instructions work on
  pc,           \* where each goroutine is
  asked,        \* its event or question
  answer,       \* the answer to its last one, "none" until there is one
  calls         \* the number of calls

vars == <<currentState, pc, asked, answer, calls>>

TypeOK ==
  /\ currentState \in ConnState
  /\ pc \in [Caller -> {"idle", "begin", "explain", "store"}]
  /\ asked \in [Caller -> Asked]
  /\ answer \in [Caller -> ConnState \cup {"none", "ok", "error", "yes", "no"}]
  /\ calls \in Nat

\* NewConnectionStateMachine.
Init ==
  /\ currentState = Unconnected /\ pc = [g \in Caller |-> "idle"]
  /\ asked = [g \in Caller |-> "IsConnected"] /\ answer = [g \in Caller |-> "none"]
  /\ calls = 0

\* Goroutine g takes this step of the call of a, and goes to p.
Step(g, from, a, p) ==
  /\ pc[g] = from /\ asked[g] \in a /\ pc' = [pc EXCEPT ![g] = p]
  /\ UNCHANGED <<asked, calls>>

Answer(g, r) == answer' = [answer EXCEPT ![g] = r]

Call(g, a) ==
  /\ pc[g] = "idle" /\ calls < MaxCalls /\ calls' = calls + 1
  /\ pc' = [pc EXCEPT ![g] = "begin"] /\ asked' = [asked EXCEPT ![g] = a]
  /\ Answer(g, "none") /\ UNCHANGED currentState

-----------------------------------------------------------------------------
\* The operands of the compare-and-swap of an event.
Old(e) == IF e = "handshakeSent" THEN Unconnected ELSE Connecting
New(e) == IF e = "handshakeSent" THEN Connecting ELSE Connected
Swaps  == {"handshakeSent", "successfullyConnected"}

CompareAndSwap(g) ==
  /\ currentState = Old(asked[g])
  /\ currentState' = New(asked[g])
  /\ Step(g, "begin", Swaps, "idle") /\ Answer(g, "ok")

CompareFails(g) ==
  /\ currentState # Old(asked[g])
  /\ Step(g, "begin", Swaps, "explain") /\ Answer(g, "error")
  /\ UNCHANGED currentState

\* The second load only words the error.
Explain(g) == Step(g, "explain", Swaps, "idle") /\ UNCHANGED <<currentState, answer>>

Timeout(g) ==
  /\ currentState' = Unconnected
  /\ Step(g, "begin", {"timeout"}, "idle") /\ Answer(g, "ok")

\* Faulty variant: only a connection is torn down, not a handshake.
DisconnectsConnected(s) == s = Connected

Disconnects(s) == s \in {Connected, Connecting}

DisconnectLoad(g) ==
  /\ \/ Disconnects(currentState) /\ UNCHANGED answer
        /\ Step(g, "begin", {"disconnectSent"}, "store")
     \/ ~ Disconnects(currentState) /\ Answer(g, "ok")
        /\ Step(g, "begin", {"disconnectSent"}, "idle")
  /\ UNCHANGED currentState

DisconnectStore(g) ==
  /\ currentState' = Unconnected
  /\ Step(g, "store", {"disconnectSent"}, "idle") /\ Answer(g, "ok")

UnknownEvent(g) ==
  Step(g, "begin", {"unknown"}, "idle") /\ Answer(g, "error") /\ UNCHANGED currentState

IsConnected(g) ==
  /\ Step(g, "begin", {"IsConnected"}, "idle")
  /\ Answer(g, IF currentState = Connected THEN "yes" ELSE "no")
  /\ UNCHANGED currentState

CurrentState(g) ==
  /\ Step(g, "begin", {"CurrentState"}, "idle")
  /\ Answer(g, currentState) /\ UNCHANGED currentState

Next ==
  \E g \in Caller :
    \/ \E a \in Asked : Call(g, a)
    \/ CompareAndSwap(g) \/ CompareFails(g) \/ Explain(g) \/ Timeout(g)
    \/ DisconnectLoad(g) \/ DisconnectStore(g) \/ UnknownEvent(g)
    \/ IsConnected(g) \/ CurrentState(g)

Spec == Init /\ [][Next]_vars

-----------------------------------------------------------------------------
\* An event is one atomic step although disconnectSent is a load and a store
\* and a refusal a compare-and-swap and a load: a handshake that begins or
\* completes between the two instructions of a disconnect is torn down as if
\* the disconnect had come after it (state_machine.go:82, 88, 91-95).
Stage(g) ==
  CASE pc[g] = "idle" -> "idle" [] pc[g] = "explain" -> "applied" [] OTHER -> "called"
Stages == [g \in Caller |-> Stage(g)]
Atomic == INSTANCE AtomicStateMachine WITH
  state <- currentState, stage <- Stages
Linearizable == Atomic!Spec
=============================================================================
