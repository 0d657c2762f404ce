------------------------- MODULE AtomicStateMachine -------------------------
(***************************************************************************)
(* ConnectionStateMachine as its callers think of it: an event changes the *)
(* state and gets its answer in one step, somewhere between the call and   *)
(* the return of ProcessEvent, IsConnected or CurrentState.                *)
(***************************************************************************)
EXTENDS StateTable

CONSTANT Caller

VARIABLES
  state,  \* the connection state
  stage,  \* what has become of each goroutine's call
  asked,  \* the event or question of that call
  answer  \* the answer to the last one

vars == <<state, stage, asked, answer>>

Question == {"IsConnected", "CurrentState"}
Asked    == Event \cup Question \cup {"unknown"}

Reply(a, s) ==
  CASE a = "IsConnected"  -> IF s = Connected THEN "yes" ELSE "no"
    [] a = "CurrentState" -> s
    [] a = "unknown"      -> "error"
    [] OTHER              -> IF Accepts(a, s) THEN "ok" ELSE "error"

Init ==
  /\ state = Unconnected /\ stage = [g \in Caller |-> "idle"]
  /\ asked = [g \in Caller |-> "IsConnected"] /\ answer = [g \in Caller |-> "none"]

Call(g) ==
  /\ stage[g] = "idle" /\ stage' = [stage EXCEPT ![g] = "called"]
  /\ \E a \in Asked : asked' = [asked EXCEPT ![g] = a]
  /\ answer' = [answer EXCEPT ![g] = "none"] /\ UNCHANGED state

Apply(g) ==
  /\ stage[g] = "called"
  /\ \E s \in {"applied", "idle"} : stage' = [stage EXCEPT ![g] = s]
  /\ state' = IF asked[g] \in Event THEN After(asked[g], state) ELSE state
  /\ answer' = [answer EXCEPT ![g] = Reply(asked[g], state)] /\ UNCHANGED asked

Return(g) ==
  /\ stage[g] = "applied" /\ stage' = [stage EXCEPT ![g] = "idle"]
  /\ UNCHANGED <<state, asked, answer>>

Next == \E g \in Caller : Call(g) \/ Apply(g) \/ Return(g)

Spec == Init /\ [][Next]_vars
=============================================================================
