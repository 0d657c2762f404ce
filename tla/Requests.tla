------------------------------ MODULE Requests ------------------------------
(***************************************************************************)
(* What BayeuxClient owes its callers, as if each call looked at client id *)
(* and connection state in one step: a handshake begins once, a request is *)
(* admitted with the session's id while there is a session and refused     *)
(* while there is none.                                                    *)
(***************************************************************************)
CONSTANTS Caller, ClientIDs, NoID

VARIABLES
  phase,   \* "UNCONNECTED", "CONNECTING", "CONNECTED"
  sid,     \* the session
  stage,   \* what has become of each caller's call
  carried  \* the session id each admitted request carries

vars == <<phase, sid, stage, carried>>

Init ==
  /\ phase = "UNCONNECTED" /\ sid = NoID
  /\ stage = [c \in Caller |-> "idle"] /\ carried = [c \in Caller |-> NoID]

Move(c, s, t) == stage[c] = s /\ stage' = [stage EXCEPT ![c] = t]

Call(c) ==
  /\ Move(c, "idle", "handshake") \/ Move(c, "idle", "request")
  /\ UNCHANGED <<phase, sid, carried>>

Begin(c) ==
  /\ Move(c, "handshake", "begun")
  /\ phase = "UNCONNECTED" /\ phase' = "CONNECTING"
  /\ UNCHANGED <<sid, carried>>

Grant(c) ==
  /\ Move(c, "begun", "idle")
  /\ phase = "CONNECTING" /\ phase' = "CONNECTED" /\ sid' \in ClientIDs
  /\ UNCHANGED carried

Admit(c) ==
  /\ Move(c, "request", "admitted")
  /\ phase = "CONNECTED" /\ carried' = [carried EXCEPT ![c] = sid]
  /\ UNCHANGED <<phase, sid>>

Refuse(c) ==
  /\ \/ Move(c, "handshake", "idle") /\ phase # "UNCONNECTED"
     \/ /\ Move(c, "request", "refused") \/ Move(c, "request", "idle")
        /\ phase # "CONNECTED"
  /\ UNCHANGED <<phase, sid, carried>>

Return(c) ==
  /\ Move(c, "refused", "idle") \/ Move(c, "begun", "idle") \/ Move(c, "admitted", "idle")
  /\ carried' = [carried EXCEPT ![c] = NoID]
  /\ UNCHANGED <<phase, sid>>

Next ==
  \E c \in Caller :
    Call(c) \/ Begin(c) \/ Grant(c) \/ Admit(c) \/ Refuse(c) \/ Return(c)

Spec == Init /\ [][Next]_vars
=============================================================================
