----------------------------- MODULE StateTable -----------------------------
(***************************************************************************)
(* The transition table of ConnectionStateMachine (v2/state_machine.go):   *)
(* the three connection states, the four events, which state an event      *)
(* needs to be accepted and the state it leads to.  Each accepted event is *)
(* one atomic instruction on currentState (CompareAndSwapInt32, SwapInt32) *)
(* except disconnectSent, which is a load followed by a store; the table   *)
(* gives its effect when no other goroutine runs in between.               *)
(***************************************************************************)

Unconnected == "UNCONNECTED"
Connecting  == "CONNECTING"
Connected   == "CONNECTED"

ConnState == {Unconnected, Connecting, Connected}

Event == {"handshakeSent", "timeout", "successfullyConnected", "disconnectSent"}

\* Faulty variant: a handshake is refused only once connected.
AcceptsUnlessConnected(e, s) ==
  \/ e = "handshakeSent" /\ s # Connected
  \/ e = "successfullyConnected" /\ s = Connecting
  \/ e \in {"timeout", "disconnectSent"}

\* ProcessEvent returns nil for event e in state s.
Accepts(e, s) ==
  \/ e = "handshakeSent" /\ s = Unconnected
  \/ e = "successfullyConnected" /\ s = Connecting
  \/ e \in {"timeout", "disconnectSent"}

\* The state ProcessEvent leaves behind; a refused event leaves it alone.
After(e, s) ==
  IF ~ Accepts(e, s) THEN s
  ELSE CASE e = "handshakeSent"         -> Connecting
         [] e = "successfullyConnected" -> Connected
         [] OTHER                       -> Unconnected
=============================================================================
