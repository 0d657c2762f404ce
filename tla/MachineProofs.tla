---------------------------- MODULE MachineProofs ----------------------------
(***************************************************************************)
(* The state machine is linearizable, for any number of goroutines.        *)
(***************************************************************************)
EXTENDS ConnectionStateMachine, TLAPS

\* Every instruction leaves a state, a place and an answer of their types.
LEMMA NextTypeOK == TypeOK /\ [Next]_vars => TypeOK'
<1> SUFFICES ASSUME TypeOK, [Next]_vars PROVE TypeOK' OBVIOUS
<1> USE DEF TypeOK, Step, Answer, Asked, Event, Question, ConnState,
            Connected, Connecting, Unconnected
<1>1. ASSUME NEW g \in Caller, NEW a \in Asked, Call(g, a) PROVE TypeOK'
  BY <1>1 DEF Call
<1>2. ASSUME NEW g \in Caller, CompareAndSwap(g) PROVE TypeOK'
  BY <1>2 DEF CompareAndSwap, New
<1>3. ASSUME NEW g \in Caller, CompareFails(g) PROVE TypeOK'
  BY <1>3 DEF CompareFails
<1>4. ASSUME NEW g \in Caller, Explain(g) \/ Timeout(g) PROVE TypeOK'
  BY <1>4 DEF Explain, Timeout
<1>5. ASSUME NEW g \in Caller, DisconnectLoad(g) \/ DisconnectStore(g) PROVE TypeOK'
  BY <1>5 DEF DisconnectLoad, DisconnectStore
<1>6. ASSUME NEW g \in Caller, UnknownEvent(g) \/ IsConnected(g) \/ CurrentState(g)
      PROVE  TypeOK'
  BY <1>6 DEF UnknownEvent, IsConnected, CurrentState
<1>7. CASE UNCHANGED vars BY <1>7 DEF vars
<1>8. QED BY <1>1, <1>2, <1>3, <1>4, <1>5, <1>6, <1>7 DEF Next

\* The types of the model, for any number of goroutines and calls.
THEOREM MachineTypeOK == Spec => []TypeOK
<1>1. Init => TypeOK
  BY DEF Init, TypeOK, ConnState, Asked, Event, Question
<1>2. QED BY <1>1, NextTypeOK, PTL DEF Spec

\* A step of g that changes its stage alone changes the stages at g.
LEMMA StagesAt ==
  ASSUME TypeOK, NEW g \in Caller, NEW p \in {"idle", "begin", "explain", "store"},
         pc' = [pc EXCEPT ![g] = p]
  PROVE  Stages' = [Stages EXCEPT ![g] =
           CASE p = "idle" -> "idle" [] p = "explain" -> "applied" [] OTHER -> "called"]
BY DEF TypeOK, Stages, Stage

\* Every instruction is a step of the atomic machine or none at all: the
\* compare-and-swap, the swap, the store and the load that finds nothing to
\* store are the moments at which an event happens.
LEMMA NextAtomic == TypeOK /\ [Next]_vars => [Atomic!Next]_(Atomic!vars)
<1> SUFFICES ASSUME TypeOK, [Next]_vars PROVE [Atomic!Next]_(Atomic!vars) OBVIOUS
<1> USE DEF TypeOK, Step, Answer, Atomic!Next, Atomic!vars
<1>1. ASSUME NEW g \in Caller, NEW a \in Asked, Call(g, a) PROVE Atomic!Call(g)
  <2>1. Stages' = [Stages EXCEPT ![g] = "called"] BY <1>1, StagesAt DEF Call
  <2>2. Stages[g] = "idle" BY <1>1 DEF Call, Stages, Stage
  <2>3. a \in Atomic!Asked
    BY DEF Asked, Question, Atomic!Asked, Atomic!Question, Atomic!Event, Event
  <2>4. QED BY <1>1, <2>1, <2>2, <2>3 DEF Call, Atomic!Call
<1> DEFINE Applies(g, s, r) ==
             /\ Stages[g] = "called"
             /\ \E t \in {"applied", "idle"} : Stages' = [Stages EXCEPT ![g] = t]
             /\ currentState' = s /\ answer' = [answer EXCEPT ![g] = r]
             /\ UNCHANGED asked
<1>2. ASSUME NEW g \in Caller, NEW s, NEW r, Applies(g, s, r),
             s = IF asked[g] \in Event THEN After(asked[g], currentState) ELSE currentState,
             r = Atomic!Reply(asked[g], currentState)
      PROVE  Atomic!Apply(g)
  BY <1>2 DEF Atomic!Apply, Atomic!Event, Event, Atomic!After, After, Accepts,
     Atomic!Accepts, Atomic!Connecting, Atomic!Connected, Atomic!Unconnected,
     Connecting, Connected, Unconnected
<1> USE DEF Atomic!Reply, Atomic!Accepts, Atomic!Event, After, Accepts, Event,
            Atomic!Connected, Atomic!Connecting, Atomic!Unconnected, Connected,
            Connecting, Unconnected, ConnState
<1>3. ASSUME NEW g \in Caller, CompareAndSwap(g) PROVE Atomic!Apply(g)
  <2>1. Stages' = [Stages EXCEPT ![g] = "idle"] /\ Stages[g] = "called"
    BY <1>3, StagesAt DEF CompareAndSwap, Stages, Stage
  <2>2. Applies(g, New(asked[g]), "ok") BY <1>3, <2>1 DEF CompareAndSwap
  <2>3. QED BY <1>2, <1>3, <2>2 DEF CompareAndSwap, Swaps, New, Old
<1>4. ASSUME NEW g \in Caller, CompareFails(g) PROVE Atomic!Apply(g)
  <2>1. Stages' = [Stages EXCEPT ![g] = "applied"] /\ Stages[g] = "called"
    BY <1>4, StagesAt DEF CompareFails, Stages, Stage
  <2>2. Applies(g, currentState, "error") BY <1>4, <2>1 DEF CompareFails
  <2>3. QED BY <1>2, <1>4, <2>2 DEF CompareFails, Swaps, Old
<1>5. ASSUME NEW g \in Caller, Explain(g) PROVE Atomic!Return(g)
  <2>1. Stages' = [Stages EXCEPT ![g] = "idle"] /\ Stages[g] = "applied"
    BY <1>5, StagesAt DEF Explain, Stages, Stage
  <2>2. QED BY <1>5, <2>1 DEF Explain, Atomic!Return
<1>6. ASSUME NEW g \in Caller, Timeout(g) \/ DisconnectStore(g) PROVE Atomic!Apply(g)
  <2>1. Stages' = [Stages EXCEPT ![g] = "idle"] /\ Stages[g] = "called"
    BY <1>6, StagesAt DEF Timeout, DisconnectStore, Stages, Stage
  <2>2. Applies(g, Unconnected, "ok") BY <1>6, <2>1 DEF Timeout, DisconnectStore
  <2>3. QED BY <1>2, <1>6, <2>2 DEF Timeout, DisconnectStore
<1>7. ASSUME NEW g \in Caller, DisconnectLoad(g)
      PROVE  Atomic!Apply(g) \/ UNCHANGED Atomic!vars
  <2>1. CASE Disconnects(currentState)
    <3>1. Stages' = [Stages EXCEPT ![g] = "called"] /\ Stages[g] = "called"
      BY <1>7, <2>1, StagesAt DEF DisconnectLoad, Stages, Stage
    <3>2. Stages' = Stages BY <3>1 DEF Stages
    <3>3. QED BY <1>7, <2>1, <3>2 DEF DisconnectLoad
  <2>2. CASE ~ Disconnects(currentState)
    <3>1. Stages' = [Stages EXCEPT ![g] = "idle"] /\ Stages[g] = "called"
      BY <1>7, <2>2, StagesAt DEF DisconnectLoad, Stages, Stage
    <3>2. Applies(g, currentState, "ok") BY <1>7, <2>2, <3>1 DEF DisconnectLoad
    <3>3. QED BY <1>2, <1>7, <2>2, <3>2 DEF DisconnectLoad, Disconnects
  <2>3. QED BY <2>1, <2>2
<1>8. ASSUME NEW g \in Caller, UnknownEvent(g) \/ IsConnected(g) \/ CurrentState(g)
      PROVE  Atomic!Apply(g)
  <2>1. Stages' = [Stages EXCEPT ![g] = "idle"] /\ Stages[g] = "called"
    BY <1>8, StagesAt DEF UnknownEvent, IsConnected, CurrentState, Stages, Stage
  <2>2. Applies(g, currentState, Atomic!Reply(asked[g], currentState))
    BY <1>8, <2>1 DEF UnknownEvent, IsConnected, CurrentState
  <2>3. asked[g] \notin Event BY <1>8 DEF UnknownEvent, IsConnected, CurrentState
  <2>4. QED BY <1>2, <2>2, <2>3
<1>9. CASE UNCHANGED vars BY <1>9 DEF vars, Stages, Stage
<1>10. QED BY <1>1, <1>3, <1>4, <1>5, <1>6, <1>7, <1>8, <1>9 DEF Next

\* Events are atomic whatever the interleaving of their instructions
\* (state_machine.go:79-99).
THEOREM MachineLinearizable == Spec => Linearizable
<1>1. Init => Atomic!Init
  BY DEF Init, Atomic!Init, Stages, Stage, Unconnected, Atomic!Unconnected
<1>2. QED BY <1>1, MachineTypeOK, NextAtomic, PTL DEF Spec, Linearizable, Atomic!Spec
=============================================================================
