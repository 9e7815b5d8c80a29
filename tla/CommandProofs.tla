--------------------------- MODULE CommandProofs ---------------------------
(***************************************************************************)
(* Theorems about commands that take several steps: the two kinds that     *)
(* keep a lock over them, for any callers and requests, which are the      *)
(* 0x151 setters and the targets sent in three frames; and the command-line*)
(* tools, which are sequences of commands.                                 *)
(*                                                                         *)
(* MotionShadow.  The holder of the lock is the only one past it, its copy *)
(* is the shadow with its own request laid over, and the shadow was        *)
(* accepted by the encoder.                                                *)
(*                                                                         *)
(* MultipartCommand.  The holder of the lock is the only one sending;      *)
(* until it has sent the last part, history calls the target torn.         *)
(*                                                                         *)
(* CommandTools.  A tool that is not at its end is in the operation that   *)
(* has yet to put right what an end there would leave: the stream that is  *)
(* followed by the gripper's release, the zeroing that is followed by the  *)
(* joint's enabling.  Where a tool gives up there is nothing to put right. *)
(***************************************************************************)
EXTENDS MotionShadow, MultipartCommand, CommandTools, TLAPS

-----------------------------------------------------------------------------
(* MotionShadow                                                            *)

Inside(t) == pc[t] \in {"send", "commit"}

(* The lock excludes; its holder has overlaid the current shadow.          *)
LockHeld ==
  /\ \A t \in Caller : Inside(t) <=> lock = t
  /\ \A t \in Caller : Inside(t) => next[t] = Overlay(shadow, request[t])

(* The shadow is what was encoded last, but for a commit under way.        *)
WireIsShadow ==
  /\ (\A t \in Caller : pc[t] # "commit") => wire = Encode(protocol, shadow)
  /\ \A t \in Caller : pc[t] = "commit" =>
       wire = Encode(protocol, next[t]) /\ Encodable(protocol, next[t])
  /\ Encodable(protocol, shadow)

IInv == TypeOK /\ LockHeld /\ WireIsShadow

-----------------------------------------------------------------------------

(* What the parser reads back is what was commanded: V3's renumbering is   *)
(* undone by the decoder for every command the encoder accepts.            *)
LEMMA RoundTrip ==
  ASSUME NEW p \in Protocols, NEW c \in Command, Encodable(p, c)
  PROVE  Decode(p, Encode(p, c)) = c
  <1>1. CASE p = 2
    BY <1>1 DEF Decode, Encode, MoveModeFromWire, Command
  <1>2. CASE p = 3
    <2>1. CASE c["move_mode"] = MoveM
      BY <1>2, <2>1 DEF Decode, Encode, MoveModeFromWire, Command, Field, MoveM, MoveMWire
    <2>2. CASE c["move_mode"] # MoveM
      BY <1>2, <2>2 DEF Decode, Encode, MoveModeFromWire, Command, Field, Byte, Encodable,
                        MoveM, MoveMWire, MoveCPV
    <2>3. QED
      BY <2>1, <2>2
  <1>3. QED
    BY <1>1, <1>2 DEF Protocols

LEMMA EncodeType ==
  ASSUME NEW p \in Protocols, NEW c \in Command
  PROVE  Encode(p, c) \in Command
  <1>1. MoveMWire \in Byte
    BY DEF MoveMWire, Byte
  <1>2. [c EXCEPT !["move_mode"] = MoveMWire] \in Command
    BY <1>1 DEF Command
  <1>3. QED
    BY <1>2 DEF Encode

LEMMA DefaultType == DefaultCommand \in Command /\ \A p \in Protocols : Encodable(p, DefaultCommand)
  BY DEF DefaultCommand, Command, Byte, Field, Protocols, Encodable, HorizontalInverted, MoveCPV

LEMMA RequestType ==
  ASSUME NEW r \in Requests
  PROVE  DOMAIN r \subseteq Field /\ \A f \in DOMAIN r : r[f] \in Byte
  BY ShadowAssumption DEF Requests, Clamped, Byte

LEMMA OverlayType ==
  ASSUME NEW c \in Command, NEW r \in Requests
  PROVE  Overlay(c, r) \in Command
  BY RequestType DEF Overlay, Command

(* The encoder judges a command field by field, so a request it accepts    *)
(* over the defaults it accepts over any command it has accepted.          *)
LEMMA OverlayEncodable ==
  ASSUME NEW p \in Protocols, NEW c \in Command, NEW r \in Requests,
         Encodable(p, c), Encodable(p, Overlay(DefaultCommand, r))
  PROVE  Encodable(p, Overlay(c, r))
  BY DEF Overlay, Encodable, Field, Protocols, Command

-----------------------------------------------------------------------------

LEMMA InitInv == Init => IInv
  <1> SUFFICES ASSUME Init PROVE IInv
    OBVIOUS
  <1>1. NoRequest \in Requests
    BY ShadowAssumption DEF NoRequest, Requests
  <1>2. TypeOK
    BY <1>1, DefaultType, EncodeType DEF Init, TypeOK
  <1>3. LockHeld
    BY ShadowAssumption DEF Init, LockHeld, Inside
  <1>4. WireIsShadow
    BY DefaultType DEF Init, WireIsShadow
  <1>5. QED
    BY <1>2, <1>3, <1>4 DEF IInv

LEMMA NextInv == IInv /\ [Next]_vars => IInv'
  <1> SUFFICES ASSUME IInv, [Next]_vars PROVE IInv'
    OBVIOUS
  <1> USE ShadowAssumption DEF IInv
  <1>1. ASSUME NEW t \in Caller, NEW r \in Request, Call(t, r) PROVE IInv'
    <2>1. Clamped(r) \in Requests
      BY DEF Requests
    <2>2. QED
      BY <1>1, <2>1 DEF Call, TypeOK, LockHeld, Inside, WireIsShadow
  <1>2. ASSUME NEW t \in Caller, Acquire(t) PROVE IInv'
    <2>1. Overlay(shadow, request[t]) \in Command
      BY OverlayType DEF TypeOK
    <2>2. QED
      BY <1>2, <2>1 DEF Acquire, TypeOK, LockHeld, Inside, WireIsShadow
  <1>3. ASSUME NEW t \in Caller, Send(t) PROVE IInv'
    <2>1. Encode(protocol, next[t]) \in Command
      BY EncodeType DEF TypeOK
    <2>2. QED
      BY <1>3, <2>1 DEF Send, TypeOK, LockHeld, Inside, WireIsShadow
  <1>4. ASSUME NEW t \in Caller, SendFails(t) PROVE IInv'
    BY <1>4, DefaultType DEF SendFails, TypeOK, LockHeld, Inside, WireIsShadow
  <1>5. ASSUME NEW t \in Caller, Commit(t) PROVE IInv'
    BY <1>5, DefaultType DEF Commit, TypeOK, LockHeld, Inside, WireIsShadow
  <1>6. CASE UNCHANGED vars
    BY <1>6 DEF vars, TypeOK, LockHeld, Inside, WireIsShadow
  <1>7. QED
    BY <1>1, <1>2, <1>3, <1>4, <1>5, <1>6 DEF Next

(* The strengthened invariant holds in every behaviour.                    *)
LEMMA Invariance == Spec => []IInv
  BY InitInv, NextInv, PTL DEF Spec

-----------------------------------------------------------------------------

(* Every variable keeps its type, whatever is requested.                   *)
THEOREM TypeCorrect == Spec => []TypeOK
  <1>1. IInv => TypeOK
    BY DEF IInv
  <1>2. QED
    BY <1>1, Invariance, PTL

(* getCommandedMotionCtrlState() reports what the arm was last told.       *)
THEOREM ShadowTheorem == Spec => []ShadowIsWhatTheArmHeard
  <1>1. IInv => ShadowIsWhatTheArmHeard
    <2> SUFFICES ASSUME IInv, lock = "free" PROVE shadow = Decode(protocol, wire)
      BY DEF ShadowIsWhatTheArmHeard
    <2>1. wire = Encode(protocol, shadow)
      BY ShadowAssumption DEF IInv, LockHeld, Inside, WireIsShadow
    <2>2. QED
      BY <2>1, RoundTrip DEF IInv, TypeOK, WireIsShadow
  <1>2. QED
    BY <1>1, Invariance, PTL

(* No refused value lingers to have later calls refused.                   *)
THEOREM RefusalTheorem == Spec => []RefusedForOwnRequestOnly
  <1>1. IInv => RefusedForOwnRequestOnly
    <2> SUFFICES ASSUME IInv, NEW t \in Caller, pc[t] = "send",
                        Encodable(protocol, Overlay(DefaultCommand, request[t]))
                 PROVE  Encodable(protocol, next[t])
      BY DEF RefusedForOwnRequestOnly
    <2>1. next[t] = Overlay(shadow, request[t])
      BY DEF IInv, LockHeld, Inside
    <2>2. QED
      BY <2>1, OverlayEncodable DEF IInv, TypeOK, WireIsShadow
  <1>2. QED
    BY <1>1, Invariance, PTL

(* The setters implement the atomic register: copying, changing, sending   *)
(* and committing under the lock is one change of what the arm was told,   *)
(* made when the frame is sent.                                            *)
THEOREM Refinement == Spec => SettersAreAtomic
  <1>1. ASSUME IInv, \A t \in Caller : pc[t] # "commit" PROVE Decode(protocol, wire) = shadow
    BY <1>1, RoundTrip DEF IInv, TypeOK, WireIsShadow
  <1>2. ASSUME Init PROVE Register!Init
    <2>1. Decode(protocol, wire) = DefaultCommand
      BY <1>2, RoundTrip, DefaultType DEF Init
    <2>2. Phase = [t \in Caller |-> "idle"]
      BY <1>2 DEF Init, Phase
    <2>3. NoRequest \in Requests
      BY ShadowAssumption DEF NoRequest, Requests
    <2>4. QED
      BY <1>2, <2>1, <2>2, <2>3 DEF Init, Register!Init
  <1>3. ASSUME IInv, [Next]_vars PROVE [Register!Next]_(Register!vars)
    <2> USE ShadowAssumption
    <2>1. ASSUME NEW t \in Caller, NEW r \in Request, Call(t, r) PROVE Register!Next
      <3>1. Clamped(r) \in Requests
        BY DEF Requests
      <3>2. Phase[t] = "idle" /\ Phase' = [Phase EXCEPT ![t] = "called"]
        BY <1>3, <2>1 DEF Call, Phase, IInv, TypeOK
      <3>3. Register!Call(t, Clamped(r))
        BY <2>1, <3>2 DEF Call, Register!Call
      <3>4. QED
        BY <3>1, <3>3 DEF Register!Next
    <2>2. ASSUME NEW t \in Caller, Acquire(t) PROVE UNCHANGED Register!vars
      <3>1. Phase' = Phase
        BY <1>3, <2>2 DEF Acquire, Phase, IInv, TypeOK
      <3>2. QED
        BY <2>2, <3>1 DEF Acquire, Register!vars
    <2>3. ASSUME NEW t \in Caller, Send(t) PROVE Register!Next
      <3>1. next[t] = Overlay(shadow, request[t]) /\ \A s \in Caller : pc[s] # "commit"
        BY <1>3, <2>3 DEF Send, IInv, LockHeld, Inside
      <3>2. Decode(protocol, wire) = shadow
        BY <1>1, <1>3, <3>1
      <3>3. Decode(protocol, wire)' = next[t]
        BY <1>3, <2>3, RoundTrip DEF Send, IInv, TypeOK
      <3>4. Phase[t] = "called" /\ Phase' = [Phase EXCEPT ![t] = "applied"]
        BY <1>3, <2>3 DEF Send, Phase, IInv, TypeOK
      <3>5. Register!Apply(t)
        BY <2>3, <3>1, <3>2, <3>3, <3>4 DEF Send, Register!Apply
      <3>6. QED
        BY <3>5 DEF Register!Next
    <2>4. ASSUME NEW t \in Caller, SendFails(t) \/ Commit(t) PROVE Register!Next
      <3>1. Phase[t] \in {"called", "applied"} /\ Phase' = [Phase EXCEPT ![t] = "idle"]
        BY <1>3, <2>4 DEF SendFails, Commit, Phase, IInv, TypeOK
      <3>2. Register!Return(t)
        BY <2>4, <3>1 DEF SendFails, Commit, Register!Return
      <3>3. QED
        BY <3>2 DEF Register!Next
    <2>5. CASE UNCHANGED vars
      BY <2>5 DEF vars, Phase, Register!vars
    <2>6. QED
      BY <1>3, <2>1, <2>2, <2>3, <2>4, <2>5 DEF Next
  <1>4. QED
    BY <1>2, <1>3, Invariance, PTL DEF Spec, SettersAreAtomic, Register!Spec

-----------------------------------------------------------------------------
(* MultipartCommand                                                        *)

HolderSends ==
  \A t \in Thread : /\ place[t] = "send" <=> multipart_tx_mutex = t
                    /\ place[t] # "send" => part[t] = 1

TornMeanwhile ==
  \A t \in Thread : place[t] = "send" /\ part[t] > 1 => outcome[call[t].kind] = "torn"

MultipartInv == MultipartTypeOK /\ HolderSends /\ TornMeanwhile /\ SentPartsAreOwn /\ TargetIsWhole

-----------------------------------------------------------------------------

LEMMA MultipartInitInv == MultipartInit => MultipartInv
  <1> SUFFICES ASSUME MultipartInit PROVE MultipartInv
    OBVIOUS
  <1> USE MultipartAssumption DEF MultipartInit
  <1>1. (CHOOSE c \in Calls : TRUE) \in Calls
    <2>1. \E kk \in Kind, v \in Target : [kind |-> kk, target |-> v] \in Calls
      BY DEF Calls
    <2>2. QED
      BY <2>1
  <1>2. MultipartTypeOK
    BY <1>1 DEF MultipartTypeOK, NoParts, Part
  <1>3. HolderSends /\ TornMeanwhile /\ SentPartsAreOwn
    BY DEF HolderSends, TornMeanwhile, SentPartsAreOwn
  <1>4. TargetIsWhole
    BY DEF TargetIsWhole, NoParts, Whole
  <1>5. QED
    BY <1>2, <1>3, <1>4 DEF MultipartInv

(* A frame sent by the holder adds a part of its own target, and makes the *)
(* target whole if it is the last.                                         *)
LEMMA SendPartInv ==
  ASSUME MultipartInv, NEW t \in Thread, SendPart(t)
  PROVE  MultipartInv'
  <1> USE MultipartAssumption DEF MultipartInv
  <1> DEFINE k == call[t].kind
             v == call[t].target
  <1>1. /\ k \in Kind /\ v \in Target /\ part[t] \in 1..3
        /\ place[t] = "send" /\ multipart_tx_mutex = t /\ call' = call
        /\ \A s \in Thread : s # t => place[s] # "send"
    BY DEF SendPart, MultipartTypeOK, Calls, Part, HolderSends
  <1>2. /\ \A p \in Part : arm'[k][p] = IF p = part[t] THEN v ELSE arm[k][p]
        /\ \A j \in Kind : j # k => arm'[j] = arm[j] /\ outcome'[j] = outcome[j]
        /\ outcome'[k] = IF part[t] = 3 THEN v ELSE "torn"
        /\ arm' \in [Kind -> [Part -> Target \cup {NoTarget}]]
        /\ outcome' \in [Kind -> Target \cup {NoTarget, "torn"}]
    BY <1>1 DEF SendPart, MultipartTypeOK, Part
  <1>3. /\ place' \in [Thread -> {"idle", "lock", "send"}]
        /\ part' \in [Thread -> Part]
        /\ multipart_tx_mutex' \in Thread \cup {"free"}
        /\ \A s \in Thread : s # t => place'[s] = place[s]
        /\ part[t] = 3 => place'[t] = "idle" /\ multipart_tx_mutex' = "free" /\ part'[t] = 1
        /\ \A s \in Thread : s # t => part'[s] = part[s]
        /\ part[t] # 3 => place'[t] = "send" /\ multipart_tx_mutex' = t /\ part'[t] = part[t] + 1
    BY <1>1 DEF SendPart, Return, MultipartTypeOK, Part
  <1>4. MultipartTypeOK'
    BY <1>1, <1>2, <1>3 DEF SendPart, MultipartTypeOK
  <1>5. HolderSends'
    BY <1>1, <1>3 DEF HolderSends
  <1>6. TornMeanwhile'
    BY <1>1, <1>2, <1>3 DEF TornMeanwhile
  <1>7. SentPartsAreOwn'
    <2> SUFFICES ASSUME NEW s \in Thread, place'[s] = "send",
                        NEW p \in Part, p < part'[s]
                 PROVE  arm'[call[s].kind][p] = call[s].target
      BY <1>1 DEF SentPartsAreOwn
    <2>1. s = t
      BY <1>1, <1>3
    <2>2. part[t] # 3 /\ p < part[t] + 1 /\ p \in 1..3
      BY <1>3, <2>1 DEF Part
    <2>3. CASE p = part[t]
      BY <1>2, <2>1, <2>3
    <2>4. CASE p < part[t]
      <3>1. arm[k][p] = v
        BY <1>1, <2>4 DEF SentPartsAreOwn
      <3>2. QED
        BY <1>1, <1>2, <2>1, <2>4, <3>1
    <2>5. QED
      BY <1>1, <2>2, <2>3, <2>4
  <1>8. TargetIsWhole'
    <2>1. CASE part[t] = 3
      <3>1. \A p \in Part : arm'[k][p] = v
        <4>1. \A p \in Part : p < 3 => arm[k][p] = v
          BY <1>1, <2>1 DEF SentPartsAreOwn
        <4>2. \A p \in Part : p = 3 \/ p < 3
          BY DEF Part
        <4>3. QED
          BY <1>2, <2>1, <4>1, <4>2
      <3>2. arm'[k] = Whole(v)
        BY <1>1, <1>2, <3>1 DEF Whole
      <3>3. QED
        BY <1>1, <1>2, <2>1, <3>2 DEF TargetIsWhole
    <2>2. CASE part[t] # 3
      BY <1>1, <1>2, <2>2 DEF TargetIsWhole
    <2>3. QED
      BY <2>1, <2>2
  <1>9. QED
    BY <1>4, <1>5, <1>6, <1>7, <1>8

LEMMA MultipartNextInv == MultipartInv /\ [MultipartNext]_multipartVars => MultipartInv'
  <1> SUFFICES ASSUME MultipartInv, [MultipartNext]_multipartVars PROVE MultipartInv'
    OBVIOUS
  <1> USE MultipartAssumption DEF MultipartInv, HolderSends, TornMeanwhile, SentPartsAreOwn, TargetIsWhole
  <1>1. ASSUME NEW c \in BOOLEAN, SetConnected(c) PROVE MultipartInv'
    BY <1>1 DEF SetConnected, MultipartTypeOK
  <1>2. ASSUME NEW t \in Thread, NEW c \in Calls, CommandTarget(t, c) PROVE MultipartInv'
    BY <1>2 DEF CommandTarget, MultipartTypeOK
  <1>3. ASSUME NEW t \in Thread, AcquireMultipart(t) PROVE MultipartInv'
    BY <1>3 DEF AcquireMultipart, MultipartTypeOK, Part
  <1>4. ASSUME NEW t \in Thread, SendPart(t) PROVE MultipartInv'
    BY <1>4, SendPartInv
  <1>5. ASSUME NEW t \in Thread, SendPartFails(t) PROVE MultipartInv'
    BY <1>5 DEF SendPartFails, Return, MultipartTypeOK, Part
  <1>6. CASE UNCHANGED multipartVars
    BY <1>6 DEF multipartVars, MultipartTypeOK
  <1>7. QED
    BY <1>1, <1>2, <1>3, <1>4, <1>5, <1>6 DEF MultipartNext

(* The strengthened invariant holds in every behaviour.                    *)
LEMMA MultipartInvariance == MultipartSpec => []MultipartInv
  BY MultipartInitInv, MultipartNextInv, PTL DEF MultipartSpec

-----------------------------------------------------------------------------

(* Every variable keeps its type.                                          *)
THEOREM MultipartTypes == MultipartSpec => []MultipartTypeOK
  <1>1. MultipartInv => MultipartTypeOK
    BY DEF MultipartInv
  <1>2. QED
    BY <1>1, MultipartInvariance, PTL

(* No two calls' frames interleave, however many threads command targets.  *)
THEOREM NoInterleaving == MultipartSpec => []SentPartsAreOwn
  <1>1. MultipartInv => SentPartsAreOwn
    BY DEF MultipartInv
  <1>2. QED
    BY <1>1, MultipartInvariance, PTL

(* After a call that returned true the arm has its target whole.           *)
THEOREM WholeTargets == MultipartSpec => []TargetIsWhole
  <1>1. MultipartInv => TargetIsWhole
    BY DEF MultipartInv
  <1>2. QED
    BY <1>1, MultipartInvariance, PTL

-----------------------------------------------------------------------------
(* CommandTools                                                            *)

(* The operation the tool is at, or was at when it ended.                  *)
Here == Program[tool][at]

(* A loop is under way only in its operation, of a tool that runs.         *)
InItsLoop ==
  /\ sub # "check" => status = "running"
  /\ sub = "send" => Here \in Streams \ {"sweep"} /\ sent < 3
  /\ sub = "grip" => Here \in {"go_zero", "sweep"}
  /\ sub = "poll" => Here = "read"

WholeBetweenTargets == sub # "send" /\ sent \in {1, 2} => short

(* From the first command on, the gripper is driven until it was released  *)
(* or could not be.                                                        *)
DrivenUntilReleased ==
  /\ gripper = "driven" => \/ at = Last /\ tries = 5
                           \/ status = "running" /\ Here \in {"go_zero", "sweep", "release"}
  /\ tries = 5 => at = Last

(* The one target counted has begun: its loop will not begin another.      *)
NoneBegunLate ==
  late > 0 => /\ late = 1 /\ stop
              /\ sub = "send" => sent > 0
              /\ sub = "grip" => Here # "sweep"

(* The motors off, zeroing is on its way to switching them on.             *)
OffOnTheWay ==
  motor = "off" /\ tool \notin {"disable", "reset"} =>
    tool = "zero_joint" /\ status # "exited" /\ Here \in {"confirm", "configure", "enable"}

ToolInv ==
  /\ ToolTypeOK /\ InItsLoop /\ WholeBetweenTargets
  /\ DrivenUntilReleased /\ NoneBegunLate /\ OffOnTheWay

-----------------------------------------------------------------------------

(* What the proof knows of the programs, as of the place k of tool t: each *)
(* ends with its only "disconnect", what drives the gripper is followed by *)
(* its release and that by the end, whatever may be cut by Ctrl-C is in a  *)
(* tool that handles it, and zeroing a joint switches it off and on again. *)
Orderly(t, k) ==
  /\ Program[t][k] = "disconnect" <=> k = Len(Program[t])
  /\ Program[t][k] \in {"go_zero", "sweep"} =>
       k + 1 < Len(Program[t]) /\ Program[t][k + 1] = "release"
  /\ Program[t][k] = "release" => k + 1 = Len(Program[t])
  /\ Program[t][k] \in Streams \cup {"release", "read"} => t \in Handled
  /\ Program[t][k] = "disable" => t \in {"disable", "reset", "zero_joint"}
  /\ t = "zero_joint" =>
       /\ Program[t][k] = "disable" => Program[t][k + 1] = "confirm"
       /\ Program[t][k] = "confirm" => Program[t][k + 1] = "configure"
       /\ Program[t][k] = "configure" => Program[t][k + 1] = "enable"

LEMMA ProgramsAreOrderly ==
  ASSUME NEW t \in Tools
  PROVE  /\ Len(Program[t]) \in Nat \ {0}
         /\ Program[t][1] \in {"connect", "open", "confirm"}
         /\ \A k \in 1..Len(Program[t]) : Orderly(t, k)
  <1> USE DEF Orderly, Streams, Handled
  <1>1. CASE t = "go_zero"
    <2>1. Program[t] = PiperGoZero
      BY <1>1 DEF Program
    <2>2. Len(PiperGoZero) = 7
      BY DEF PiperGoZero
    <2>3. QED
      BY <1>1, <2>1, <2>2, SMT DEF PiperGoZero
  <1>2. CASE t = "joint_ctrl"
    <2>1. Program[t] = PiperJointCtrlDemo
      BY <1>2 DEF Program
    <2>2. Len(PiperJointCtrlDemo) = 6
      BY DEF PiperJointCtrlDemo
    <2>3. QED
      BY <1>2, <2>1, <2>2, SMT DEF PiperJointCtrlDemo
  <1>3. CASE t = "end_pose"
    <2>1. Program[t] = PiperEndPoseDemo
      BY <1>3 DEF Program
    <2>2. Len(PiperEndPoseDemo) = 6
      BY DEF PiperEndPoseDemo
    <2>3. QED
      BY <1>3, <2>1, <2>2, SMT DEF PiperEndPoseDemo
  <1>4. CASE t = "joint_sine"
    <2>1. Program[t] = PiperJointSineDemo
      BY <1>4 DEF Program
    <2>2. Len(PiperJointSineDemo) = 8
      BY DEF PiperJointSineDemo
    <2>3. QED
      BY <1>4, <2>1, <2>2, SMT DEF PiperJointSineDemo
  <1>5. CASE t = "gripper_sweep"
    <2>1. Program[t] = PiperGripperSweep
      BY <1>5 DEF Program
    <2>2. Len(PiperGripperSweep) = 8
      BY DEF PiperGripperSweep
    <2>3. QED
      BY <1>5, <2>1, <2>2, SMT DEF PiperGripperSweep
  <1>6. CASE t = "enable"
    <2>1. Program[t] = PiperEnable
      BY <1>6 DEF Program
    <2>2. Len(PiperEnable) = 4
      BY DEF PiperEnable
    <2>3. QED
      BY <1>6, <2>1, <2>2, SMT DEF PiperEnable
  <1>7. CASE t = "disable"
    <2>1. Program[t] = PiperDisable
      BY <1>7 DEF Program
    <2>2. Len(PiperDisable) = 4
      BY DEF PiperDisable
    <2>3. QED
      BY <1>7, <2>1, <2>2, SMT DEF PiperDisable
  <1>8. CASE t = "reset"
    <2>1. Program[t] = PiperReset
      BY <1>8 DEF Program
    <2>2. Len(PiperReset) = 4
      BY DEF PiperReset
    <2>3. QED
      BY <1>8, <2>1, <2>2, SMT DEF PiperReset
  <1>9. CASE t = "set_role"
    <2>1. Program[t] = PiperSetRole
      BY <1>9 DEF Program
    <2>2. Len(PiperSetRole) = 3
      BY DEF PiperSetRole
    <2>3. QED
      BY <1>9, <2>1, <2>2, SMT DEF PiperSetRole
  <1>10. CASE t = "zero_gripper"
    <2>1. Program[t] = ZeroGripper
      BY <1>10 DEF Program
    <2>2. Len(ZeroGripper) = 3
      BY DEF ZeroGripper
    <2>3. QED
      BY <1>10, <2>1, <2>2, SMT DEF ZeroGripper
  <1>11. CASE t = "zero_joint"
    <2>1. Program[t] = ZeroJoint
      BY <1>11 DEF Program
    <2>2. Len(ZeroJoint) = 6
      BY DEF ZeroJoint
    <2>3. QED
      BY <1>11, <2>1, <2>2, SMT DEF ZeroJoint
  <1>12. CASE t = "read_firmware"
    <2>1. Program[t] = ReadFirmware
      BY <1>12 DEF Program
    <2>2. Len(ReadFirmware) = 3
      BY DEF ReadFirmware
    <2>3. QED
      BY <1>12, <2>1, <2>2, SMT DEF ReadFirmware
  <1>13. CASE t = "read_states"
    <2>1. Program[t] = ReadStates
      BY <1>13 DEF Program
    <2>2. Len(ReadStates) = 3
      BY DEF ReadStates
    <2>3. QED
      BY <1>13, <2>1, <2>2, SMT DEF ReadStates
  <1>14. CASE t = "read_raw"
    <2>1. Program[t] = ReadRaw
      BY <1>14 DEF Program
    <2>2. Len(ReadRaw) = 3
      BY DEF ReadRaw
    <2>3. QED
      BY <1>14, <2>1, <2>2, SMT DEF ReadRaw
  <1>15. QED
    BY <1>1, <1>2, <1>3, <1>4, <1>5, <1>6, <1>7, <1>8, <1>9, <1>10, <1>11, <1>12, <1>13,
       <1>14, ToolsAssumption DEF Program

(* The tool's own place: what ProgramsAreOrderly says of it.               *)
LEMMA HereIsOrderly ==
  ASSUME ToolTypeOK
  PROVE  /\ Last \in Nat \ {0} /\ at \in 1..Last
         /\ Here = "disconnect" <=> at = Last
         /\ Orderly(tool, at)
  BY ProgramsAreOrderly DEF ToolTypeOK, Last, Here, Orderly

LEMMA ToolInitInv == ToolInit => ToolInv
  <1> SUFFICES ASSUME ToolInit PROVE ToolInv
    OBVIOUS
  <1>1. Last \in Nat \ {0}
    BY ProgramsAreOrderly DEF ToolInit, Last
  <1>2. ToolTypeOK
    <2>1. at \in 1..Last
      BY <1>1 DEF ToolInit
    <2>2. /\ tool \in Tools
          /\ args \in Args
          /\ status \in {"running", "exited", "killed"}
          /\ sub \in {"check", "send", "grip", "poll"}
      BY DEF ToolInit
    <2>3. /\ stop \in BOOLEAN
          /\ port \in {"closed", "open", "dead"}
          /\ expired \in BOOLEAN
          /\ enabled \in BOOLEAN
          /\ posed \in BOOLEAN
          /\ short \in BOOLEAN
      BY DEF ToolInit
    <2>4. /\ sent \in 0..3
          /\ gripper \in {"untouched", "driven", "released"}
          /\ motor \in {"untouched", "unsent", "on", "off"}
          /\ tries \in 0..5
          /\ late \in 0..2
      BY DEF ToolInit
    <2>5. QED
      BY <2>1, <2>2, <2>3, <2>4 DEF ToolTypeOK
  <1>3. QED
    BY <1>2 DEF ToolInit, ToolInv, InItsLoop, WholeBetweenTargets, DrivenUntilReleased,
                NoneBegunLate, OffOnTheWay

(* What the user, the bus and the clock may change at any time.            *)
Surroundings ==
  /\ stop \in BOOLEAN /\ expired \in BOOLEAN
  /\ port \in {"closed", "open", "dead"}
  /\ enabled \in BOOLEAN /\ posed \in BOOLEAN

(* Going on to the next operation, or giving up and going to the last one, *)
(* without a command: what must be brought to its end first is not where   *)
(* the tool gives up.                                                      *)
LEMMA MovesOn ==
  ASSUME ToolInv, status = "running", Here # "disconnect", sub # "send", NEW k, GoTo(k),
         \/ k = at + 1 /\ Here \notin {"enable", "disable", "release"}
         \/ k = Last /\ Here \in {"await", "sample", "home"},
         UNCHANGED <<tool, args, status, stop, armVars>>, Surroundings'
  PROVE  ToolInv'
  <1>1. /\ Last \in Nat \ {0} /\ at \in 1..Last
        /\ Here = "disconnect" <=> at = Last
        /\ Orderly(tool, at)
    BY HereIsOrderly DEF ToolInv
  <1>2. /\ at' = k /\ k \in 1..Last /\ sub' = "check" /\ tool' = tool
        /\ \/ k = at + 1 /\ at < Last
           \/ k = Last /\ Here \in {"await", "sample", "home"}
    BY <1>1, ToolsAssumption DEF GoTo, Here
  <1> USE DEF ToolInv, ToolTypeOK, InItsLoop, WholeBetweenTargets, DrivenUntilReleased,
              NoneBegunLate, OffOnTheWay, Surroundings, Here, Last, Orderly, armVars
  <1>3. ToolTypeOK'
    BY <1>1, <1>2 DEF GoTo
  <1>4. InItsLoop'
    BY <1>1, <1>2 DEF GoTo
  <1>5. WholeBetweenTargets'
    BY <1>1, <1>2 DEF GoTo
  <1>6. DrivenUntilReleased'
    BY <1>1, <1>2 DEF GoTo
  <1>7. NoneBegunLate'
    BY <1>1, <1>2 DEF GoTo
  <1>8. OffOnTheWay'
    BY <1>1, <1>2 DEF GoTo
  <1>9. QED
    BY <1>3, <1>4, <1>5, <1>6, <1>7, <1>8

(* Staying in the operation, in its loop or back at the loop's test.       *)
LEMMA StaysThere ==
  ASSUME ToolInv, UNCHANGED <<tool, args, status, at, armVars>>,
         stop => stop', Surroundings',
         \/ sub' = sub
         \/ sub' = "check" /\ sub # "send"
         \/ sub' = "poll" /\ Here = "read" /\ status = "running" /\ sub # "send"
  PROVE  ToolInv'
  <1>1. /\ Last \in Nat \ {0} /\ at \in 1..Last
        /\ Here = "disconnect" <=> at = Last
        /\ Orderly(tool, at)
    BY HereIsOrderly DEF ToolInv
  <1> USE DEF ToolInv, ToolTypeOK, InItsLoop, WholeBetweenTargets, DrivenUntilReleased,
              NoneBegunLate, OffOnTheWay, Surroundings, Here, Last, Orderly, armVars
  <1>2. ToolTypeOK'
    BY <1>1
  <1>3. InItsLoop'
    BY <1>1
  <1>4. WholeBetweenTargets'
    BY <1>1
  <1>5. DrivenUntilReleased'
    BY <1>1
  <1>6. NoneBegunLate'
    BY <1>1
  <1>7. OffOnTheWay'
    BY <1>1
  <1>8. QED
    BY <1>2, <1>3, <1>4, <1>5, <1>6, <1>7

(* Coming to an end, at the last operation or before any command that      *)
(* would be left standing.                                                 *)
LEMMA Ends ==
  ASSUME ToolInv, status = "running", status' \in {"exited", "killed"},
         UNCHANGED <<tool, args, at, sub, armVars>>, stop => stop', Surroundings',
         \/ Here \in {"connect", "open", "disconnect"}
         \/ Here = "confirm" /\ tool = "reset"
         \/ status' = "killed" /\ tool \notin Handled
  PROVE  ToolInv'
  <1>1. /\ Last \in Nat \ {0} /\ at \in 1..Last
        /\ Here = "disconnect" <=> at = Last
        /\ Orderly(tool, at)
    BY HereIsOrderly DEF ToolInv
  <1>2. sub = "check" /\ (gripper = "driven" => at = Last /\ tries = 5)
    BY <1>1 DEF ToolInv, ToolTypeOK, InItsLoop, DrivenUntilReleased, Orderly, Here, Last,
       Streams
  <1> USE DEF ToolInv, ToolTypeOK, InItsLoop, WholeBetweenTargets, DrivenUntilReleased,
              NoneBegunLate, OffOnTheWay, Surroundings, Here, Last, Orderly, armVars
  <1>3. ToolTypeOK'
    BY <1>1, <1>2
  <1>4. InItsLoop'
    BY <1>1, <1>2
  <1>5. WholeBetweenTargets'
    BY <1>1, <1>2
  <1>6. DrivenUntilReleased'
    BY <1>1, <1>2
  <1>7. NoneBegunLate'
    BY <1>1, <1>2
  <1>8. OffOnTheWay'
    BY <1>1, <1>2
  <1>9. QED
    BY <1>3, <1>4, <1>5, <1>6, <1>7, <1>8

(* Enabling and disabling the motors.                                      *)
LEMMA CommandMotorsInv == ToolInv /\ CommandMotors => ToolInv'
  <1> SUFFICES ASSUME ToolInv, CommandMotors PROVE ToolInv'
    OBVIOUS
  <1>1. /\ ToolTypeOK /\ InItsLoop /\ WholeBetweenTargets
        /\ DrivenUntilReleased /\ NoneBegunLate /\ OffOnTheWay
        /\ Last \in Nat \ {0} /\ at \in 1..Last
        /\ Here = "disconnect" <=> at = Last
        /\ Orderly(tool, at)
    BY HereIsOrderly DEF ToolInv
  <1>2. /\ at < Last /\ at' = at + 1 /\ sub' = "check" /\ sub = "check"
        /\ motor' \in {"unsent", "on", "off"}
    BY <1>1 DEF CommandMotors, GoTo, Op, Here, InItsLoop, ToolTypeOK, Last, Streams
  <1> USE DEF ToolTypeOK, InItsLoop, WholeBetweenTargets, DrivenUntilReleased, NoneBegunLate,
              OffOnTheWay, Here, Last, Orderly, Streams, busVars
  <1>3. ToolTypeOK'
    <2>1. /\ UNCHANGED <<tool, args, status, stop, busVars, sent, short, gripper, tries, late>>
          /\ at' \in 1..Last
      BY <1>1, <1>2 DEF CommandMotors, GoTo
    <2>2. motor' \in {"untouched", "unsent", "on", "off"} /\ sub' = "check"
      BY <1>2
    <2>3. expired' \in BOOLEAN
      BY DEF CommandMotors, GoTo
    <2>4. QED
      BY <1>1, <2>1, <2>2, <2>3
  <1>4. InItsLoop'
    BY <1>1, <1>2 DEF CommandMotors, GoTo, Op
  <1>5. WholeBetweenTargets'
    BY <1>1, <1>2 DEF CommandMotors, GoTo, Op
  <1>6. DrivenUntilReleased'
    BY <1>1, <1>2 DEF CommandMotors, GoTo, Op
  <1>7. NoneBegunLate'
    BY <1>1, <1>2 DEF CommandMotors, GoTo, Op
  <1>8. OffOnTheWay'
    BY <1>1, <1>2 DEF CommandMotors, GoTo, Op
  <1>9. QED
    BY <1>3, <1>4, <1>5, <1>6, <1>7, <1>8 DEF ToolInv

(* Zeroing releases the gripper first, and comes before all driving.       *)
LEMMA ZeroTheGripperInv == ToolInv /\ ZeroTheGripper => ToolInv'
  <1> SUFFICES ASSUME ToolInv, ZeroTheGripper PROVE ToolInv'
    OBVIOUS
  <1>1. /\ ToolTypeOK /\ InItsLoop /\ WholeBetweenTargets
        /\ DrivenUntilReleased /\ NoneBegunLate /\ OffOnTheWay
        /\ Last \in Nat \ {0} /\ at \in 1..Last
        /\ Here = "disconnect" <=> at = Last
        /\ Orderly(tool, at)
    BY HereIsOrderly DEF ToolInv
  <1>2. /\ at < Last /\ at' = at + 1 /\ sub' = "check" /\ sub = "check"
        /\ (gripper' = gripper \/ gripper' = "released")
    BY <1>1 DEF ZeroTheGripper, GoTo, Op, Here, InItsLoop, ToolTypeOK, Last, Streams
  <1> USE DEF ToolTypeOK, InItsLoop, WholeBetweenTargets, DrivenUntilReleased, NoneBegunLate,
              OffOnTheWay, Here, Last, Orderly, Streams, busVars
  <1>3. ToolTypeOK'
    <2>1. /\ UNCHANGED <<tool, args, status, stop, busVars, sent, short, motor, tries, late>>
          /\ at' \in 1..Last
      BY <1>1, <1>2 DEF ZeroTheGripper, GoTo
    <2>2. gripper' \in {"untouched", "driven", "released"} /\ sub' = "check"
      BY <1>1, <1>2
    <2>3. expired' \in BOOLEAN
      BY DEF ZeroTheGripper, GoTo
    <2>4. QED
      BY <1>1, <2>1, <2>2, <2>3
  <1>4. InItsLoop'
    BY <1>1, <1>2 DEF ZeroTheGripper, GoTo, Op
  <1>5. WholeBetweenTargets'
    BY <1>1, <1>2 DEF ZeroTheGripper, GoTo, Op
  <1>6. DrivenUntilReleased'
    BY <1>1, <1>2 DEF ZeroTheGripper, GoTo, Op
  <1>7. NoneBegunLate'
    BY <1>1, <1>2 DEF ZeroTheGripper, GoTo, Op
  <1>8. OffOnTheWay'
    BY <1>1, <1>2 DEF ZeroTheGripper, GoTo, Op
  <1>9. QED
    BY <1>3, <1>4, <1>5, <1>6, <1>7, <1>8 DEF ToolInv

(* The fifth attempt at the release is the last operation but one.         *)
LEMMA ReleaseInv == ToolInv /\ Release => ToolInv'
  <1> SUFFICES ASSUME ToolInv, Release PROVE ToolInv'
    OBVIOUS
  <1>1. /\ ToolTypeOK /\ InItsLoop /\ WholeBetweenTargets
        /\ DrivenUntilReleased /\ NoneBegunLate /\ OffOnTheWay
        /\ Last \in Nat \ {0} /\ at \in 1..Last
        /\ Here = "disconnect" <=> at = Last
        /\ Orderly(tool, at)
    BY HereIsOrderly DEF ToolInv
  <1>2. /\ tries < 5 /\ at + 1 = Last /\ tries' = tries + 1 /\ sub = "check" /\ sub' = "check"
        /\ (gripper' = gripper \/ gripper' = "released")
        /\ at' = IF tries + 1 = 5 THEN at + 1 ELSE at
    BY <1>1 DEF Release, GoTo, Op, Here, InItsLoop, ToolTypeOK, Last, Streams, loopVars,
                DrivenUntilReleased, Orderly
  <1> USE DEF ToolTypeOK, InItsLoop, WholeBetweenTargets, DrivenUntilReleased, NoneBegunLate,
              OffOnTheWay, Here, Last, Orderly, Streams, busVars
  <1>3. ToolTypeOK'
    <2>1. /\ UNCHANGED <<tool, args, status, stop, busVars, sent, short, motor, late>>
          /\ at' \in 1..Last /\ (expired' = expired \/ expired' = FALSE)
      BY <1>1, <1>2 DEF Release, GoTo, loopVars
    <2>2. gripper' \in {"untouched", "driven", "released"} /\ tries' \in 0..5 /\ sub' = "check"
      BY <1>1, <1>2
    <2>3. expired' \in BOOLEAN
      BY <1>1, <2>1
    <2>4. QED
      BY <1>1, <2>1, <2>2, <2>3
  <1>4. InItsLoop'
    BY <1>1, <1>2 DEF Release, GoTo, loopVars
  <1>5. WholeBetweenTargets'
    BY <1>1, <1>2 DEF Release, GoTo, loopVars
  <1>6. DrivenUntilReleased'
    BY <1>1, <1>2 DEF Release, GoTo, loopVars
  <1>7. NoneBegunLate'
    BY <1>1, <1>2 DEF Release, GoTo, loopVars
  <1>8. OffOnTheWay'
    <2>1. UNCHANGED <<tool, status, motor>> /\ Here = "release"
      BY <1>1 DEF Release, Op
    <2>2. QED
      BY <1>1, <2>1
  <1>9. QED
    BY <1>3, <1>4, <1>5, <1>6, <1>7, <1>8 DEF ToolInv

(* The gripper is driven only where its release is still to come.          *)
LEMMA GripInv == ToolInv /\ Grip => ToolInv'
  <1> SUFFICES ASSUME ToolInv, Grip PROVE ToolInv'
    OBVIOUS
  <1>1. /\ ToolTypeOK /\ InItsLoop /\ WholeBetweenTargets
        /\ DrivenUntilReleased /\ NoneBegunLate /\ OffOnTheWay
        /\ Last \in Nat \ {0} /\ at \in 1..Last
        /\ Here = "disconnect" <=> at = Last
        /\ Orderly(tool, at)
    BY HereIsOrderly DEF ToolInv
  <1>2. /\ status = "running" /\ at < Last /\ Here \in {"go_zero", "sweep"}
        /\ (gripper' = gripper \/ gripper' = "driven")
    BY <1>1 DEF Grip, Here, InItsLoop, ToolTypeOK, Last
  <1> USE DEF ToolTypeOK, InItsLoop, WholeBetweenTargets, DrivenUntilReleased, NoneBegunLate,
              OffOnTheWay, Here, Last, Orderly, Streams, busVars
  <1>3. ToolTypeOK'
    BY <1>1, <1>2 DEF Grip, CountLate, Op
  <1>4. InItsLoop'
    BY <1>1, <1>2 DEF Grip, CountLate, Op
  <1>5. WholeBetweenTargets'
    BY <1>1, <1>2 DEF Grip, CountLate, Op
  <1>6. DrivenUntilReleased'
    BY <1>1, <1>2 DEF Grip, CountLate, Op
  <1>7. NoneBegunLate'
    BY <1>1, <1>2 DEF Grip, CountLate, Op
  <1>8. OffOnTheWay'
    BY <1>1, <1>2 DEF Grip, CountLate, Op
  <1>9. QED
    BY <1>3, <1>4, <1>5, <1>6, <1>7, <1>8 DEF ToolInv

(* A target is begun only while nobody asked to stop.                      *)
LEMMA BeginTargetInv == ToolInv /\ BeginTarget => ToolInv'
  <1> SUFFICES ASSUME ToolInv, BeginTarget PROVE ToolInv'
    OBVIOUS
  <1>1. /\ ToolTypeOK /\ InItsLoop /\ WholeBetweenTargets
        /\ DrivenUntilReleased /\ NoneBegunLate /\ OffOnTheWay
        /\ Last \in Nat \ {0} /\ at \in 1..Last
        /\ Here = "disconnect" <=> at = Last
        /\ Orderly(tool, at)
    BY HereIsOrderly DEF ToolInv
  <1>2. /\ status = "running" /\ sub = "check" /\ Here \in Streams /\ Op = Here /\ ~stop
    BY <1>1 DEF BeginTarget, Here, Op, Streams
  <1> USE DEF ToolTypeOK, InItsLoop, WholeBetweenTargets, DrivenUntilReleased, NoneBegunLate,
              OffOnTheWay, Here, Last, Orderly, Streams, busVars
  <1>3. ToolTypeOK'
    <2>1. /\ UNCHANGED <<tool, args, status, stop, at, expired, busVars,
                         gripper, motor, tries, late>>
          /\ (short' = short \/ short' = FALSE)
          /\ sent' \in 0..3 /\ sub' \in {"grip", "send"}
      BY <1>1, <1>2 DEF BeginTarget
    <2>2. short' \in BOOLEAN
      BY <1>1, <2>1
    <2>3. QED
      BY <1>1, <2>1, <2>2
  <1>4. InItsLoop'
    BY <1>1, <1>2 DEF BeginTarget
  <1>5. WholeBetweenTargets'
    BY <1>1, <1>2 DEF BeginTarget
  <1>6. DrivenUntilReleased'
    BY <1>1, <1>2 DEF BeginTarget
  <1>7. NoneBegunLate'
    BY <1>1, <1>2 DEF BeginTarget
  <1>8. OffOnTheWay'
    BY <1>1, <1>2 DEF BeginTarget
  <1>9. QED
    BY <1>3, <1>4, <1>5, <1>6, <1>7, <1>8 DEF ToolInv

(* A frame of a target: the first one counts if Ctrl-C has come since.     *)
LEMMA SendFrameInv == ToolInv /\ SendFrame => ToolInv'
  <1> SUFFICES ASSUME ToolInv, SendFrame PROVE ToolInv'
    OBVIOUS
  <1>1. /\ ToolTypeOK /\ InItsLoop /\ WholeBetweenTargets
        /\ DrivenUntilReleased /\ NoneBegunLate /\ OffOnTheWay
        /\ Last \in Nat \ {0} /\ at \in 1..Last
        /\ Here = "disconnect" <=> at = Last
        /\ Orderly(tool, at)
    BY HereIsOrderly DEF ToolInv
  <1>2. /\ status = "running" /\ Here \in Streams \ {"sweep"} /\ Op = Here /\ sent < 3
    BY <1>1 DEF SendFrame, InItsLoop, Op, Here
  <1> USE DEF ToolTypeOK, InItsLoop, WholeBetweenTargets, DrivenUntilReleased, NoneBegunLate,
              OffOnTheWay, Here, Last, Orderly, Streams, busVars
  <1>3. ToolTypeOK'
    BY <1>1, <1>2 DEF SendFrame, AfterTarget, CountLate
  <1>4. InItsLoop'
    BY <1>1, <1>2 DEF SendFrame, AfterTarget, CountLate
  <1>5. WholeBetweenTargets'
    BY <1>1, <1>2 DEF SendFrame, AfterTarget, CountLate
  <1>6. DrivenUntilReleased'
    BY <1>1, <1>2 DEF SendFrame, AfterTarget, CountLate
  <1>7. NoneBegunLate'
    BY <1>1, <1>2 DEF SendFrame, AfterTarget, CountLate
  <1>8. OffOnTheWay'
    BY <1>1, <1>2 DEF SendFrame, AfterTarget, CountLate
  <1>9. QED
    BY <1>3, <1>4, <1>5, <1>6, <1>7, <1>8 DEF ToolInv

(* A frame that is not sent is one that was short.                         *)
LEMMA SendFrameFailsInv == ToolInv /\ SendFrameFails => ToolInv'
  <1> SUFFICES ASSUME ToolInv, SendFrameFails PROVE ToolInv'
    OBVIOUS
  <1>1. /\ ToolTypeOK /\ InItsLoop /\ WholeBetweenTargets
        /\ DrivenUntilReleased /\ NoneBegunLate /\ OffOnTheWay
        /\ Last \in Nat \ {0} /\ at \in 1..Last
        /\ Here = "disconnect" <=> at = Last
        /\ Orderly(tool, at)
    BY HereIsOrderly DEF ToolInv
  <1>2. /\ status = "running" /\ Here \in Streams \ {"sweep"} /\ Op = Here
    BY <1>1 DEF SendFrameFails, InItsLoop, Op, Here
  <1> USE DEF ToolTypeOK, InItsLoop, WholeBetweenTargets, DrivenUntilReleased, NoneBegunLate,
              OffOnTheWay, Here, Last, Orderly, Streams, busVars
  <1>3. ToolTypeOK'
    BY <1>1, <1>2 DEF SendFrameFails, AfterTarget
  <1>4. InItsLoop'
    BY <1>1, <1>2 DEF SendFrameFails, AfterTarget
  <1>5. WholeBetweenTargets'
    BY <1>1, <1>2 DEF SendFrameFails, AfterTarget
  <1>6. DrivenUntilReleased'
    BY <1>1, <1>2 DEF SendFrameFails, AfterTarget
  <1>7. NoneBegunLate'
    BY <1>1, <1>2 DEF SendFrameFails, AfterTarget
  <1>8. OffOnTheWay'
    BY <1>1, <1>2 DEF SendFrameFails, AfterTarget
  <1>9. QED
    BY <1>3, <1>4, <1>5, <1>6, <1>7, <1>8 DEF ToolInv

(* The invariant is kept by every step.                                    *)
LEMMA ToolNextInv == ToolInv /\ [ToolNext]_toolVars => ToolInv'
  <1> SUFFICES ASSUME ToolInv, [ToolNext]_toolVars PROVE ToolInv'
    OBVIOUS
  <1>1. /\ Last \in Nat \ {0} /\ at \in 1..Last
        /\ Here = "disconnect" <=> at = Last
        /\ Orderly(tool, at)
        /\ Surroundings /\ InItsLoop
    BY HereIsOrderly DEF ToolInv, ToolTypeOK, Surroundings
  <1>2. Op # "none" => status = "running" /\ Op = Here
    BY DEF Op, Here
  <1> USE DEF Surroundings, InItsLoop, Streams
  <1>3. CASE Connected
    <2>1. /\ status = "running" /\ Here # "disconnect" /\ sub # "send" /\ GoTo(at + 1)
          /\ Here \notin {"enable", "disable", "release"}
          /\ UNCHANGED <<tool, args, status, stop, armVars>>
          /\ Surroundings'
      BY <1>3, <1>1, <1>2 DEF Connected, GoTo, busVars
    <2>2. QED
      BY <2>1, MovesOn
  <1>4. CASE CommandOther
    <2>1. /\ status = "running" /\ Here # "disconnect" /\ sub # "send" /\ GoTo(at + 1)
          /\ Here \notin {"enable", "disable", "release"}
          /\ UNCHANGED <<tool, args, status, stop, armVars>>
          /\ Surroundings'
      BY <1>4, <1>1, <1>2 DEF CommandOther, GoTo, busVars
    <2>2. QED
      BY <2>1, MovesOn
  <1>5. CASE Awaited
    <2>1. /\ status = "running" /\ Here # "disconnect" /\ sub # "send" /\ GoTo(at + 1)
          /\ Here \notin {"enable", "disable", "release"}
          /\ UNCHANGED <<tool, args, status, stop, armVars>>
          /\ Surroundings'
      BY <1>5, <1>1, <1>2 DEF Awaited, GoTo, busVars
    <2>2. QED
      BY <2>1, MovesOn
  <1>6. CASE AwaitStopped
    <2>1. /\ status = "running" /\ Here # "disconnect" /\ sub # "send" /\ GoTo(Last)
          /\ Here \in {"await", "sample", "home"}
          /\ UNCHANGED <<tool, args, status, stop, armVars>>
          /\ Surroundings'
      BY <1>6, <1>1, <1>2 DEF AwaitStopped, GoTo, busVars
    <2>2. QED
      BY <2>1, MovesOn
  <1>7. CASE SamplePose
    <2>1. /\ status = "running" /\ Here # "disconnect" /\ sub # "send" /\ GoTo(at + 1)
          /\ Here \notin {"enable", "disable", "release"}
          /\ UNCHANGED <<tool, args, status, stop, armVars>>
          /\ Surroundings'
      BY <1>7, <1>1, <1>2 DEF SamplePose, GoTo, busVars
    <2>2. QED
      BY <2>1, MovesOn
  <1>8. CASE SampleGivesUp
    <2>1. /\ status = "running" /\ Here # "disconnect" /\ sub # "send" /\ GoTo(Last)
          /\ Here \in {"await", "sample", "home"}
          /\ UNCHANGED <<tool, args, status, stop, armVars>>
          /\ Surroundings'
      BY <1>8, <1>1, <1>2 DEF SampleGivesUp, GoTo, busVars
    <2>2. QED
      BY <2>1, MovesOn
  <1>9. CASE StreamStops
    <2>1. /\ status = "running" /\ Here # "disconnect" /\ sub # "send" /\ GoTo(at + 1)
          /\ Here \notin {"enable", "disable", "release"}
          /\ UNCHANGED <<tool, args, status, stop, armVars>>
          /\ Surroundings'
      BY <1>9, <1>1, <1>2 DEF StreamStops, GoTo, busVars
    <2>2. QED
      BY <2>1, MovesOn
  <1>10. CASE HomeStops
    <2>1. /\ status = "running" /\ Here # "disconnect" /\ sub # "send" /\ GoTo(Last)
          /\ Here \in {"await", "sample", "home"}
          /\ UNCHANGED <<tool, args, status, stop, armVars>>
          /\ Surroundings'
      BY <1>10, <1>1, <1>2 DEF HomeStops, GoTo, busVars
    <2>2. QED
      BY <2>1, MovesOn
  <1>11. CASE StreamTimesOut
    <2>1. /\ status = "running" /\ Here # "disconnect" /\ sub # "send" /\ GoTo(at + 1)
          /\ Here \notin {"enable", "disable", "release"}
          /\ UNCHANGED <<tool, args, status, stop, armVars>>
          /\ Surroundings'
      BY <1>11, <1>1, <1>2 DEF StreamTimesOut, GoTo, busVars
    <2>2. QED
      BY <2>1, MovesOn
  <1>12. CASE ConnectFails
    <2>1. /\ status = "running" /\ status' \in {"exited", "killed"}
          /\ UNCHANGED <<tool, args, at, sub, armVars>> /\ (stop => stop') /\ Surroundings'
          /\ \/ Here \in {"connect", "open", "disconnect"}
             \/ Here = "confirm" /\ tool = "reset"
             \/ status' = "killed" /\ tool \notin Handled
      BY <1>12, <1>1, <1>2 DEF ConnectFails, loopVars, busVars
    <2>2. QED
      BY <2>1, Ends
  <1>13. CASE Disconnect
    <2>1. /\ status = "running" /\ status' \in {"exited", "killed"}
          /\ UNCHANGED <<tool, args, at, sub, armVars>> /\ (stop => stop') /\ Surroundings'
          /\ \/ Here \in {"connect", "open", "disconnect"}
             \/ Here = "confirm" /\ tool = "reset"
             \/ status' = "killed" /\ tool \notin Handled
      BY <1>13, <1>1, <1>2 DEF Disconnect, loopVars, busVars
    <2>2. QED
      BY <2>1, Ends
  <1>14. CASE ReadFails
    <2>1. /\ UNCHANGED <<tool, args, status, at, armVars>> /\ (stop => stop') /\ Surroundings'
          /\ \/ sub' = sub
             \/ sub' = "check" /\ sub # "send"
             \/ sub' = "poll" /\ Here = "read" /\ status = "running" /\ sub # "send"
      BY <1>14, <1>1, <1>2 DEF ReadFails, loopVars, busVars
    <2>2. QED
      BY <2>1, StaysThere
  <1>15. CASE FrameRead
    <2>1. /\ UNCHANGED <<tool, args, status, at, armVars>> /\ (stop => stop') /\ Surroundings'
          /\ \/ sub' = sub
             \/ sub' = "check" /\ sub # "send"
             \/ sub' = "poll" /\ Here = "read" /\ status = "running" /\ sub # "send"
      BY <1>15, <1>1, <1>2 DEF FrameRead, loopVars, busVars
    <2>2. QED
      BY <2>1, StaysThere
  <1>16. CASE Elapse
    <2>1. /\ UNCHANGED <<tool, args, status, at, armVars>> /\ (stop => stop') /\ Surroundings'
          /\ \/ sub' = sub
             \/ sub' = "check" /\ sub # "send"
             \/ sub' = "poll" /\ Here = "read" /\ status = "running" /\ sub # "send"
      BY <1>16, <1>1, <1>2 DEF Elapse, loopVars, busVars
    <2>2. QED
      BY <2>1, StaysThere
  <1>17. CASE PortDies
    <2>1. /\ UNCHANGED <<tool, args, status, at, armVars>> /\ (stop => stop') /\ Surroundings'
          /\ \/ sub' = sub
             \/ sub' = "check" /\ sub # "send"
             \/ sub' = "poll" /\ Here = "read" /\ status = "running" /\ sub # "send"
      BY <1>17, <1>1, <1>2 DEF PortDies, loopVars, busVars
    <2>2. QED
      BY <2>1, StaysThere
  <1>18. CASE Feedback
    <2>1. /\ UNCHANGED <<tool, args, status, at, armVars>> /\ (stop => stop') /\ Surroundings'
          /\ \/ sub' = sub
             \/ sub' = "check" /\ sub # "send"
             \/ sub' = "poll" /\ Here = "read" /\ status = "running" /\ sub # "send"
      BY <1>18, <1>1, <1>2 DEF Feedback, loopVars, busVars
    <2>2. QED
      BY <2>1, StaysThere
  <1>19. CASE OpenRaw
    <2>1. CASE status' = status
      <3>1. /\ status = "running" /\ Here # "disconnect" /\ sub # "send" /\ GoTo(at + 1)
            /\ Here \notin {"enable", "disable", "release"}
            /\ UNCHANGED <<tool, args, status, stop, armVars>> /\ Surroundings'
        BY <1>19, <2>1, <1>1, <1>2 DEF OpenRaw, GoTo
      <3>2. QED
        BY <3>1, MovesOn
    <2>2. CASE status' # status
      <3>1. /\ status = "running" /\ status' \in {"exited", "killed"} /\ Here = "open"
            /\ UNCHANGED <<tool, args, at, sub, armVars>> /\ (stop => stop') /\ Surroundings'
        BY <1>19, <2>2, <1>1, <1>2 DEF OpenRaw, loopVars
      <3>2. QED
        BY <3>1, Ends
    <2>3. QED
      BY <2>1, <2>2
  <1>20. CASE Confirm
    <2>1. CASE status' = status
      <3>1. /\ status = "running" /\ Here # "disconnect" /\ sub # "send" /\ GoTo(at + 1)
            /\ Here \notin {"enable", "disable", "release"}
            /\ UNCHANGED <<tool, args, status, stop, armVars>> /\ Surroundings'
        BY <1>20, <2>1, <1>1, <1>2 DEF Confirm, GoTo, busVars
      <3>2. QED
        BY <3>1, MovesOn
    <2>2. CASE status' # status
      <3>1. /\ status = "running" /\ status' \in {"exited", "killed"}
            /\ Here = "confirm" /\ tool = "reset"
            /\ UNCHANGED <<tool, args, at, sub, armVars>> /\ (stop => stop') /\ Surroundings'
        BY <1>20, <2>2, <1>1, <1>2 DEF Confirm, loopVars, busVars
      <3>2. QED
        BY <3>1, Ends
    <2>3. QED
      BY <2>1, <2>2
  <1>21. CASE ReadAgain
    <2>1. CASE stop
      <3>1. /\ status = "running" /\ Here # "disconnect" /\ sub # "send" /\ GoTo(at + 1)
            /\ Here \notin {"enable", "disable", "release"}
            /\ UNCHANGED <<tool, args, status, stop, armVars>> /\ Surroundings'
        BY <1>21, <2>1, <1>1, <1>2 DEF ReadAgain, GoTo, busVars
      <3>2. QED
        BY <3>1, MovesOn
    <2>2. CASE ~stop
      <3>1. /\ UNCHANGED <<tool, args, status, at, armVars>> /\ (stop => stop') /\ Surroundings'
            /\ sub' = "poll" /\ Here = "read" /\ status = "running" /\ sub # "send"
        BY <1>21, <2>2, <1>1, <1>2 DEF ReadAgain, busVars
      <3>2. QED
        BY <3>1, StaysThere
    <2>3. QED
      BY <2>1, <2>2
  <1>22. CASE CtrlC
    <2>1. CASE tool \in Handled
      <3>1. /\ UNCHANGED <<tool, args, status, at, armVars>> /\ (stop => stop') /\ Surroundings'
            /\ sub' = sub
        BY <1>22, <2>1, <1>1 DEF CtrlC, loopVars, busVars
      <3>2. QED
        BY <3>1, StaysThere
    <2>2. CASE tool \notin Handled
      <3>1. /\ status = "running" /\ status' = "killed"
            /\ UNCHANGED <<tool, args, at, sub, armVars>> /\ (stop => stop') /\ Surroundings'
        BY <1>22, <2>2, <1>1 DEF CtrlC, loopVars, busVars
      <3>2. QED
        BY <2>2, <3>1, Ends
    <2>3. QED
      BY <2>1, <2>2
  <1>23. CASE CommandMotors
    BY <1>23, CommandMotorsInv
  <1>24. CASE ZeroTheGripper
    BY <1>24, ZeroTheGripperInv
  <1>25. CASE BeginTarget
    BY <1>25, BeginTargetInv
  <1>26. CASE SendFrame
    BY <1>26, SendFrameInv
  <1>27. CASE SendFrameFails
    BY <1>27, SendFrameFailsInv
  <1>28. CASE Grip
    BY <1>28, GripInv
  <1>29. CASE Release
    BY <1>29, ReleaseInv
  <1>30. CASE UNCHANGED toolVars
    BY <1>30 DEF toolVars, loopVars, armVars, busVars, ToolInv, ToolTypeOK,
       WholeBetweenTargets,
                DrivenUntilReleased, NoneBegunLate, OffOnTheWay, Here, Last
  <1>31. QED
    BY <1>3, <1>4, <1>5, <1>6, <1>7, <1>8, <1>9, <1>10, <1>11, <1>12, <1>13, <1>14, <1>15,
       <1>16, <1>17, <1>18, <1>19, <1>20, <1>21, <1>22, <1>23, <1>24, <1>25, <1>26, <1>27,
       <1>28, <1>29, <1>30
       DEF ToolNext, ToolStep, AwaitAgain

(* The strengthened invariant holds in every behaviour.                    *)
LEMMA ToolInvariance == ToolSpec => []ToolInv
  BY ToolInitInv, ToolNextInv, PTL DEF ToolSpec

-----------------------------------------------------------------------------

(* Every variable of a tool keeps its type, so that no tool runs past the  *)
(* end of its program.                                                     *)
THEOREM ToolTypes == ToolSpec => []ToolTypeOK
  <1>1. ToolInv => ToolTypeOK
    BY DEF ToolInv
  <1>2. QED
    BY <1>1, ToolInvariance, PTL

(* The gripper that was driven is told to let go, or cannot be told.       *)
THEOREM GripperTheorem == ToolSpec => []GripperIsReleased
  <1>1. ToolInv => GripperIsReleased
    BY DEF ToolInv, DrivenUntilReleased, GripperIsReleased, Ended
  <1>2. QED
    BY <1>1, ToolInvariance, PTL

(* No way out of a tool leaves part of a target behind, unless a frame of  *)
(* it could not be sent.                                                   *)
THEOREM TargetTheorem == ToolSpec => []LatestTargetIsWhole
  <1>1. ToolInv => LatestTargetIsWhole
    BY DEF ToolInv, InItsLoop, WholeBetweenTargets, LatestTargetIsWhole, Ended
  <1>2. QED
    BY <1>1, ToolInvariance, PTL

(* Ctrl-C is followed by the target being begun and no other.              *)
THEOREM LateTheorem == ToolSpec => []OneMoreTarget
  <1>1. ToolInv => OneMoreTarget
    BY DEF ToolInv, ToolTypeOK, NoneBegunLate, OneMoreTarget
  <1>2. QED
    BY <1>1, ToolInvariance, PTL

(* Only the tools asked to switch the motors off leave them so, and        *)
(* piper_set_zero, if it is killed while the joint is free.                *)
THEOREM MotorsTheorem == ToolSpec => []LeavesMotorsOn
  <1>1. ToolInv => LeavesMotorsOn
    <2>1. SUFFICES ASSUME ToolInv, Ended, motor = "off", tool \notin {"disable", "reset"}
                   PROVE  /\ tool = "zero_joint" /\ status = "killed"
                          /\ Program[tool][at] \in {"confirm", "configure", "enable"}
      BY DEF LeavesMotorsOn
    <2>2. tool = "zero_joint" /\ status # "exited" /\ Here \in {"confirm", "configure", "enable"}
      BY <2>1 DEF ToolInv, OffOnTheWay
    <2>3. status = "killed"
      BY <2>1, <2>2 DEF ToolInv, ToolTypeOK, Ended
    <2>4. QED
      BY <2>2, <2>3 DEF Here
  <1>2. QED
    BY <1>1, ToolInvariance, PTL

=============================================================================
