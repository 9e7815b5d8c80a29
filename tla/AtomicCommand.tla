---------------------------- MODULE AtomicCommand ----------------------------
(***************************************************************************)
(* What the motion-control setters promise their callers.  There is one    *)
(* commanded state.  A call changes the fields it names, all at once and   *)
(* to the values it asked for, at one instant between its start and its    *)
(* return, and touches no other field; a call that reports failure has     *)
(* changed nothing.                                                        *)
(***************************************************************************)
CONSTANTS Caller, Request, Start, Overlay(_, _)

VARIABLES
  command,   \* the commanded state
  phase,     \* of each caller: "idle", "called" or "applied"
  request    \* what each caller asked for, in its latest call

vars == <<command, phase, request>>

Init ==
  /\ command = Start
  /\ phase = [t \in Caller |-> "idle"]
  /\ request \in [Caller -> Request]

Call(t, r) ==
  /\ phase[t] = "idle"
  /\ phase' = [phase EXCEPT ![t] = "called"]
  /\ request' = [request EXCEPT ![t] = r]
  /\ UNCHANGED command

Apply(t) ==
  /\ phase[t] = "called"
  /\ command' = Overlay(command, request[t])
  /\ phase' = [phase EXCEPT ![t] = "applied"]
  /\ UNCHANGED request

(* Returning true from "applied", false from "called".                     *)
Return(t) ==
  /\ phase[t] \in {"called", "applied"}
  /\ phase' = [phase EXCEPT ![t] = "idle"]
  /\ UNCHANGED <<command, request>>

Next == \E t \in Caller : Apply(t) \/ Return(t) \/ \E r \in Request : Call(t, r)

Spec == Init /\ [][Next]_vars

=============================================================================
