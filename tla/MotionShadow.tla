---------------------------- MODULE MotionShadow ----------------------------
(***************************************************************************)
(* The commanded motion-control state (0x151).  The message always carries *)
(* all six fields, so the setters keep a shadow of the last one sent, and  *)
(* each of them, holding ctrl_151_tx_mutex_, copies the shadow, changes    *)
(* its own field, sends the result and, if that succeeded, makes it the    *)
(* shadow.  Several threads may be in a setter at once.                    *)
(*                                                                         *)
(* A request is a function from the fields a call sets to their values:    *)
(* one field for a setter, all six for sendMotionCtrl2.                    *)
(***************************************************************************)
EXTENDS MotionCodec

CONSTANTS
  Caller,     \* threads that call the setters
  Request     \* requests made in an instance, a set of partial commands

(* "free" is no thread.                                                    *)
ASSUME ShadowAssumption ==
  /\ "free" \notin Caller
  /\ Request # {}
  /\ \A r \in Request : DOMAIN r \subseteq Field /\ \A f \in DOMAIN r : r[f] \in Byte

VARIABLES
  protocol,   \* which parser the interface was constructed with
  shadow,     \* ctrl_151_tx_
  lock,       \* ctrl_151_tx_mutex_: its holder, or "free"
  pc,         \* of each caller
  request,    \* what each caller asked for
  next,       \* each caller's copy of the shadow
  wire        \* the last 0x151 payload on the bus: what the arm goes by

vars == <<protocol, shadow, lock, pc, request, next, wire>>

Speed == "move_spd_rate_ctrl"

Clamped(r) ==
  [f \in DOMAIN r |-> IF f = Speed /\ r[f] > 100 THEN 100 ELSE r[f]]

Overlay(c, r) == [f \in Field |-> IF f \in DOMAIN r THEN r[f] ELSE c[f]]

Requests == {Clamped(r) : r \in Request}

NoRequest == CHOOSE r \in Requests : TRUE

(* Before the first message the shadow holds the defaults; the arm is      *)
(* taken to be in the state they describe.                                 *)
Init ==
  /\ protocol \in Protocols
  /\ shadow = DefaultCommand
  /\ lock = "free"
  /\ pc = [t \in Caller |-> "idle"]
  /\ request = [t \in Caller |-> NoRequest]
  /\ next = [t \in Caller |-> DefaultCommand]
  /\ wire = Encode(protocol, DefaultCommand)

(* A setter is called; a speed above 100 % is clamped before the lock.     *)
Call(t, r) ==
  /\ pc[t] = "idle"
  /\ request' = [request EXCEPT ![t] = Clamped(r)]
  /\ pc' = [pc EXCEPT ![t] = "lock"]
  /\ UNCHANGED <<protocol, shadow, lock, next, wire>>

AcquireNoLock(t) ==
  /\ pc[t] = "lock"
  /\ lock' = t
  /\ next' = [next EXCEPT ![t] = Overlay(shadow, request[t])]
  /\ pc' = [pc EXCEPT ![t] = "send"]
  /\ UNCHANGED <<protocol, shadow, request, wire>>

(* lock_guard, and the copy of the shadow with the request laid over it.   *)
Acquire(t) ==
  /\ pc[t] = "lock"
  /\ lock = "free"
  /\ lock' = t
  /\ next' = [next EXCEPT ![t] = Overlay(shadow, request[t])]
  /\ pc' = [pc EXCEPT ![t] = "send"]
  /\ UNCHANGED <<protocol, shadow, request, wire>>

(* sendPiperMsg() succeeds: the frame is on the bus.                       *)
Send(t) ==
  /\ pc[t] = "send"
  /\ Encodable(protocol, next[t])
  /\ wire' = Encode(protocol, next[t])
  /\ pc' = [pc EXCEPT ![t] = "commit"]
  /\ UNCHANGED <<protocol, shadow, lock, request, next>>

SendFailsKeepsValue(t) ==
  /\ pc[t] = "send"
  /\ shadow' = next[t]
  /\ lock' = "free"
  /\ next' = [next EXCEPT ![t] = DefaultCommand]
  /\ pc' = [pc EXCEPT ![t] = "idle"]
  /\ UNCHANGED <<protocol, request, wire>>

(* It fails: not connected, refused by the encoder, or a write error.      *)
SendFails(t) ==
  /\ pc[t] = "send"
  /\ lock' = "free"
  /\ next' = [next EXCEPT ![t] = DefaultCommand]
  /\ pc' = [pc EXCEPT ![t] = "idle"]
  /\ UNCHANGED <<protocol, shadow, request, wire>>

CommitRequestOnly(t) ==
  /\ pc[t] = "commit"
  /\ shadow' = Overlay(DefaultCommand, request[t])
  /\ lock' = "free"
  /\ next' = [next EXCEPT ![t] = DefaultCommand]
  /\ pc' = [pc EXCEPT ![t] = "idle"]
  /\ UNCHANGED <<protocol, request, wire>>

(* Only what was sent becomes the shadow.                                  *)
Commit(t) ==
  /\ pc[t] = "commit"
  /\ shadow' = next[t]
  /\ lock' = "free"
  /\ next' = [next EXCEPT ![t] = DefaultCommand]
  /\ pc' = [pc EXCEPT ![t] = "idle"]
  /\ UNCHANGED <<protocol, request, wire>>

Next ==
  \E t \in Caller :
    \/ \E r \in Request : Call(t, r)
    \/ Acquire(t)
    \/ Send(t)
    \/ SendFails(t)
    \/ Commit(t)

Spec == Init /\ [][Next]_vars

-----------------------------------------------------------------------------

(* Types of every variable.                                                *)
TypeOK ==
  /\ protocol \in Protocols
  /\ shadow \in Command
  /\ lock \in Caller \cup {"free"}
  /\ pc \in [Caller -> {"idle", "lock", "send", "commit"}]
  /\ request \in [Caller -> Requests]
  /\ next \in [Caller -> Command]
  /\ wire \in Command

(* getCommandedMotionCtrlState(), which takes the lock, returns what the   *)
(* arm was last told, read back through the decoder of the same protocol.  *)
ShadowIsWhatTheArmHeard == lock = "free" => shadow = Decode(protocol, wire)

(* A value the encoder refuses stays in no shadow: a call is refused only  *)
(* for what it asks itself (piper_interface_v2.h:738-739).                 *)
RefusedForOwnRequestOnly ==
  \A t \in Caller :
    pc[t] = "send" /\ Encodable(protocol, Overlay(DefaultCommand, request[t]))
      => Encodable(protocol, next[t])

Phase ==
  [t \in Caller |->
     CASE pc[t] \in {"lock", "send"} -> "called"
       [] pc[t] = "commit" -> "applied"
       [] OTHER -> "idle"]

(* The lock makes copy, change, send and commit one atomic change of the   *)
(* commanded state as the arm sees it on the bus: no setter undoes what    *)
(* another thread's setter has just commanded.                             *)
Register ==
  INSTANCE AtomicCommand
    WITH command <- Decode(protocol, wire), phase <- Phase, Request <- Requests,
         Start <- DefaultCommand

SettersAreAtomic == Register!Spec

=============================================================================
