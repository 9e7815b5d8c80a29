-------------------------- MODULE MultipartCommand --------------------------
(***************************************************************************)
(* Targets that do not fit one CAN frame.  controlJoints and               *)
(* controlEndPose each split a target into three frames and send them one  *)
(* after another under multipart_tx_mutex_; a frame that cannot be sent    *)
(* ends the call with the rest unsent.  Several threads may call either,   *)
(* and the port may be closed under them between two frames.               *)
(*                                                                         *)
(* The arm keeps, for each kind of target, the part the last frame of each *)
(* part carried: this is what it could act on.                             *)
(***************************************************************************)
EXTENDS Naturals

CONSTANTS
  Thread,     \* threads that command targets
  Kind,       \* joint targets and end-effector poses
  Target,     \* the targets they command
  NoTarget    \* what the arm holds before the first one

Part == 1..3

ASSUME MultipartAssumption ==
  /\ "free" \notin Thread
  /\ Kind # {} /\ Target # {}
  /\ NoTarget \notin Target

VARIABLES
  connected,  \* connected_
  multipart_tx_mutex, \* its holder, or "free"
  place,      \* of each caller: "idle", "lock" or "send"
  part,       \* the part each caller sends next
  call,       \* the kind and target of each caller's latest call
  arm,        \* the parts the arm heard last, of each kind
  outcome     \* history: per kind, the target of the last call that put a
              \*   frame on the bus, or "torn" if it did not send them all

multipartVars == <<connected, multipart_tx_mutex, place, part, call, arm, outcome>>

NoParts == [p \in Part |-> NoTarget]
Whole(v) == [p \in Part |-> v]
Calls == [kind : Kind, target : Target]

MultipartInit ==
  /\ connected \in BOOLEAN
  /\ multipart_tx_mutex = "free"
  /\ place = [t \in Thread |-> "idle"]
  /\ part = [t \in Thread |-> 1]
  /\ call = [t \in Thread |-> CHOOSE c \in Calls : TRUE]
  /\ arm = [k \in Kind |-> NoParts]
  /\ outcome = [k \in Kind |-> NoTarget]

(* connectPort and disconnectPort, called by any thread at any time.       *)
SetConnected(c) ==
  /\ connected' = c
  /\ UNCHANGED <<multipart_tx_mutex, place, part, call, arm, outcome>>

CommandTarget(t, c) ==
  /\ place[t] = "idle"
  /\ call' = [call EXCEPT ![t] = c]
  /\ place' = [place EXCEPT ![t] = "lock"]
  /\ UNCHANGED <<connected, multipart_tx_mutex, part, arm, outcome>>

AcquireMultipart(t) ==
  /\ place[t] = "lock"
  /\ multipart_tx_mutex = "free"
  /\ multipart_tx_mutex' = t
  /\ place' = [place EXCEPT ![t] = "send"]
  /\ UNCHANGED <<connected, part, call, arm, outcome>>

(* A call ends, with or without success.                                   *)
Return(t) ==
  /\ multipart_tx_mutex' = "free"
  /\ place' = [place EXCEPT ![t] = "idle"]
  /\ part' = [part EXCEPT ![t] = 1]

(* A frame goes out.  After the third one the call returns true.           *)
SendPart(t) ==
  /\ place[t] = "send"
  /\ connected
  /\ LET k == call[t].kind IN
       /\ arm' = [arm EXCEPT ![k][part[t]] = call[t].target]
       /\ outcome' = [outcome EXCEPT ![k] = IF part[t] = 3 THEN call[t].target ELSE "torn"]
  /\ IF part[t] = 3
     THEN Return(t)
     ELSE part' = [part EXCEPT ![t] = @ + 1] /\ UNCHANGED <<multipart_tx_mutex, place>>
  /\ UNCHANGED <<connected, call>>

(* A faulty variant that sends on after a failure.                         *)
SendPartGoesOn(t) ==
  /\ place[t] = "send"
  /\ IF part[t] = 3
     THEN Return(t) /\ outcome' = [outcome EXCEPT ![call[t].kind] = call[t].target]
     ELSE part' = [part EXCEPT ![t] = @ + 1] /\ UNCHANGED <<multipart_tx_mutex, place, outcome>>
  /\ UNCHANGED <<connected, call, arm>>

(* It does not: not connected, or the socket refuses it.  The call returns *)
(* false.                                                                  *)
SendPartFails(t) ==
  /\ place[t] = "send"
  /\ Return(t)
  /\ UNCHANGED <<connected, call, arm, outcome>>

MultipartNext ==
  \/ \E c \in BOOLEAN : SetConnected(c)
  \/ \E t \in Thread :
       \/ \E c \in Calls : CommandTarget(t, c)
       \/ AcquireMultipart(t)
       \/ SendPart(t)
       \/ SendPartFails(t)

MultipartSpec == MultipartInit /\ [][MultipartNext]_multipartVars

-----------------------------------------------------------------------------

(* Types of every variable.                                                *)
MultipartTypeOK ==
  /\ connected \in BOOLEAN
  /\ multipart_tx_mutex \in Thread \cup {"free"}
  /\ place \in [Thread -> {"idle", "lock", "send"}]
  /\ part \in [Thread -> Part]
  /\ call \in [Thread -> Calls]
  /\ arm \in [Kind -> [Part -> Target \cup {NoTarget}]]
  /\ outcome \in [Kind -> Target \cup {NoTarget, "torn"}]

(* Two callers' frames never interleave (piper_interface_v2.h:734-735):    *)
(* the parts a call has sent so far are its own, whatever else is called.  *)
SentPartsAreOwn ==
  \A t \in Thread : place[t] = "send" =>
    \A p \in Part : p < part[t] => arm[call[t].kind][p] = call[t].target

(* The arm holds the last target of a kind whole, unless the last call of  *)
(* that kind could not send all of its frames, and returned false.         *)
TargetIsWhole ==
  \A k \in Kind : outcome[k] # "torn" => arm[k] = Whole(outcome[k])

=============================================================================
