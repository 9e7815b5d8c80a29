---------------------------- MODULE FrameExchange ----------------------------
(***************************************************************************)
(* The commands of the interface as frames on the bus.  A call of the      *)
(* interface becomes a message and a frame, or is refused; the frame is    *)
(* heard by every other controller on the bus, which decodes it as this    *)
(* library does; a settings frame is answered by the arm; and the arm      *)
(* sends frames of its own, of any length, with arbitrary bytes behind     *)
(* those it sent, as a receive buffer has.                                 *)
(***************************************************************************)
EXTENDS FrameCodec

CONSTANTS
  OctetValues,    \* the values tried for members of one byte
  WordValues,     \* of two bytes, signed
  LongValues,     \* of four bytes
  MitValues       \* for the MIT quantities, in tenths

ASSUME ValuesAssumption ==
  /\ OctetValues \subseteq Byte
  /\ \A w \in WordValues : w \in Int /\ -32768 <= w /\ w <= 32767
  /\ \A v \in LongValues :
       v \in Int /\ -2147483647 - 1 <= v /\ v <= 2147483647
  /\ MitValues \subseteq Int

VARIABLES
  protocol,   \* the version the parsers are for
  call,       \* the call under way, or NoCall
  frame,      \* the frame on the bus, or NoFrame
  source,     \* where it comes from: "call", "home", "answer" or "noise"
  heard       \* what a receiver makes of it, or Nothing

vars == <<protocol, call, frame, source, heard>>

NoCall == [type |-> "none", ask |-> << >>, names |-> {}]

NoFrame == [id |-> 0, dlc |-> 0, data |-> NoPayload]

Nothing == [type |-> "none", v |-> << >>]

Refused == [type |-> "Unknown", v |-> << >>]

-----------------------------------------------------------------------------
(* Calls.  Each has the values its caller asked for and names the settings *)
(* of the arm it is meant to change, as Effects below tells them apart.    *)

Call(type, ask, names) == [type |-> type, ask |-> ask, names |-> names]

(* The values tried for a member.                                          *)
Tried(field) ==
  IF field.size = 1 THEN OctetValues
  ELSE IF field.size = 4 THEN LongValues
  ELSE IF field.signed THEN WordValues
  ELSE {w % 65536 : w \in WordValues}

(* The base with two of its members changed.                               *)
Varied(base, layout) ==
  {base} \cup
  UNION {{[base EXCEPT ![j] = a, ![k] = b] :
            a \in Tried(layout[j]), b \in Tried(layout[k])} :
           j, k \in DOMAIN base}

VariedCalls(type, base, names) ==
  {Call(type, v, names) : v \in Varied(base, EncodeLayout[type])}

MotorIndex == 1..7 \cup {255}

Motor(m, flag) == Call("MotorEnableDisableConfig", <<m, flag>>, {})

EnableRobot == Motor(7, 2)
DisableRobot == Motor(7, 1)
MotorCalls ==
  {EnableRobot, DisableRobot}
    \cup {Motor(m, flag) : m \in MotorIndex, flag \in {1, 2}}

MasterSlaveCalls ==
  {Call("MasterSlaveModeConfig", <<role, a, b, c>>, {}) :
     role \in {0, \hFA, \hFC}, a, b, c \in {0, \h10, \h20}}

(* sendGripperCtrl(), under V3 with a mode.                                *)
GripperCtrl(mode, value, effort, status) ==
  Call("GripperCtrl", <<value, effort, status, 0, mode>>,
       IF status \in {1, 3} THEN {"gripper"} ELSE {})

SetGripperZero == Call("GripperCtrl", <<0, 0, 0, Apply, Width>>, {"gripper_zero"})

GripperCalls ==
  {SetGripperZero} \cup
  {GripperCtrl(mode, value, effort, status) :
     mode \in {Width, Angle}, value \in LongValues,
     effort \in {0, 255, 256, 5000, 5001, 65535}, status \in 0..3}

JointPartCalls ==
  UNION {VariedCalls(t, <<1, 2>>, {}) :
           t \in {"JointCtrl12", "JointCtrl34", "JointCtrl56",
                  "MotionCtrlCartesian1", "MotionCtrlCartesian2",
                  "MotionCtrlCartesian3"}}

MitBase == <<0, 0, 100, 8, 0>>

(* controlJointMit() with a motor it accepts and finite values.            *)
MitCalls ==
  {Call(t, v, {}) :
     t \in {"JointMitCtrl1", "JointMitCtrl6"},
     v \in UNION {{[MitBase EXCEPT ![j] = a, ![k] = b] :
                      a, b \in MitValues} : j, k \in 1..5}}

MotionCtrl1(stop, track, drag) ==
  Call("MotionCtrl1", <<stop, track, drag>>,
       (CASE stop = 1 -> {"stop"} [] stop = 2 -> {"resume"} [] OTHER -> {})
         \cup (IF track = 0 THEN {} ELSE {"track"})
         \cup (IF drag = 0 THEN {} ELSE {"drag"}))

ResetPiper == Call("MotionCtrl1", <<2, 0, 0>>, {"resume"})

MotionCtrl1Calls ==
  {ResetPiper} \cup {MotionCtrl1(s, t, d) : s \in 0..2, t \in 0..8, d \in 0..7}

MotionCtrl2Calls ==
  VariedCalls("MotionCtrl2", AsValues(DefaultCommand), {})

(* moveCAxisUpdate()                                                       *)
CircularCalls ==
  {Call("CircularPatternCoordNumUpdateCtrl", <<p>>, {}) : p \in 0..3}

JointConfig(motor, zero, effective, acc, clear) == <<motor, zero, effective, acc, clear>>

SetJointAsCurrentZero(motor) ==
  Call("JointConfig", JointConfig(motor, Apply, 0, 0, 0), {"zero"})

ClearJointErrorAppliesAcc(motor) ==
  Call("JointConfig", JointConfig(motor, 0, Apply, 0, Apply), {"clear_error"})

SetJointMaxAcc(motor, acc) ==
  Call("JointConfig", JointConfig(motor, 0, Apply, acc, 0), {"max_acc"})

ClearJointError(motor) ==
  Call("JointConfig", JointConfig(motor, 0, 0, 0, Apply), {"clear_error"})

JointConfigCalls ==
  UNION {{SetJointAsCurrentZero(m), ClearJointError(m)}
           \cup {SetJointMaxAcc(m, acc) : acc \in {0, 255, 256, 500}} :
           m \in MotorIndex}

LeaveUnchanged == \h7FFF

SetMotorMaxSpeed(motor, speed) ==
  Call("MotorAngleLimitMaxSpdSet",
       <<motor, LeaveUnchanged, LeaveUnchanged, speed>>, {"max_speed"})

MotorLimitCalls ==
  VariedCalls("MotorAngleLimitMaxSpdSet", <<2, 1500, -1500, 300>>,
              {"max_angle", "min_angle", "max_speed"})
    \cup {SetMotorMaxSpeed(m, speed) : m \in MotorIndex, speed \in WordValues}

(* setEndVelAccLimits(), setCrashProtectionLevels(),                       *)
(* setGripperTeachingPendantParam()                                        *)
ParamCalls ==
  VariedCalls("EndVelAccParamConfig", <<1, 2, 3, 4>>, {})
    \cup VariedCalls("CrashProtectionRatingConfig", <<1, 2, 3, 4, 5, 6>>, {})
    \cup VariedCalls("GripperTeachingPendantParamConfig", <<100, 70, 1>>, {})

(* sendArmParamEnquiryAndConfig()                                          *)
ParamEnquiryAndConfig(enquiry, setting, periodic, effective, load) ==
  Call("ParamEnquiryAndConfig", <<enquiry, setting, periodic, effective, load>>,
       (IF enquiry = 0 THEN {} ELSE {"enquiry"})
         \cup (IF setting = 0 THEN {} ELSE {"setting"})
         \cup (IF periodic = 0 THEN {} ELSE {"periodic"})
         \cup (IF effective = Apply /\ load # 3 THEN {"end_load"} ELSE {}))

EnquiryCalls ==
  {ParamEnquiryAndConfig(enquiry, setting, periodic, effective, load) :
     enquiry \in 0..4, setting \in 0..2, periodic \in 0..2,
     effective \in {0, Apply}, load \in 0..3}

SearchCalls ==
  {Call("SearchMotorMaxAngleSpdAccLimit", <<m, what>>, {}) :
     m \in 1..6, what \in {1, 2}}

Calls ==
  MotorCalls \cup MasterSlaveCalls \cup GripperCalls \cup JointPartCalls
    \cup MitCalls \cup MotionCtrl1Calls \cup MotionCtrl2Calls
    \cup CircularCalls \cup JointConfigCalls \cup MotorLimitCalls
    \cup ParamCalls \cup EnquiryCalls \cup SearchCalls

Message(p, c) ==
  [type |-> c.type,
   v |-> IF c.type \in MitTypes THEN PackJointMit(p, c.ask) ELSE c.ask]

-----------------------------------------------------------------------------
(* The arm, as the comments of types/control.h describe it.                *)

(* The settings a frame changes: a flag of 0xAE applies the field it       *)
(* belongs to, 0x7FFF leaves an angle limit as it is.                      *)
Effects(f) ==
  LET type == CanIdToMsgType[f.id]
      d == f.data
  IN  {e \in {"zero", "max_acc", "clear_error"} :
         /\ type = "JointConfig"
         /\ e = "zero" => d[1] = Apply
         /\ e = "max_acc" => d[2] = Apply
         /\ e = "clear_error" => d[5] = Apply}
      \cup {e \in {"max_angle", "min_angle", "max_speed"} :
              /\ type = "MotorAngleLimitMaxSpdSet"
              /\ e = "max_angle" => ReadField(d, S16(1)) # LeaveUnchanged
              /\ e = "min_angle" => ReadField(d, S16(3)) # LeaveUnchanged}
      \cup {e \in {"gripper", "gripper_zero"} :
              /\ type = "GripperCtrl"
              /\ e = "gripper" => d[6] % 2 = 1
              /\ e = "gripper_zero" => d[7] = Apply}
      \cup {e \in {"stop", "resume", "track", "drag"} :
              /\ type = "MotionCtrl1"
              /\ e = "stop" => d[0] = 1
              /\ e = "resume" => d[0] = 2
              /\ e = "track" => d[1] # 0
              /\ e = "drag" => d[2] # 0}
      \cup {e \in {"enquiry", "setting", "periodic", "end_load"} :
              /\ type = "ParamEnquiryAndConfig"
              /\ e = "enquiry" => d[0] # 0
              /\ e = "setting" => d[1] # 0
              /\ e = "periodic" => d[2] # 0
              /\ e = "end_load" => d[3] = Apply /\ d[4] # 3}

(* The settings the arm reports, each in the structure it is set with.     *)
Answer(type) ==
  CASE type = "MotorAngleLimitMaxSpdSet" -> "FeedbackCurrentMotorAngleLimitMaxSpd"
    [] type = "EndVelAccParamConfig" -> "FeedbackCurrentEndVelAccParam"
    [] type = "CrashProtectionRatingConfig" -> "CrashProtectionRatingFeedback"
    [] type = "GripperTeachingPendantParamConfig" ->
         "GripperTeachingPendantParamFeedback"

AnsweredTypes ==
  {"MotorAngleLimitMaxSpdSet", "EndVelAccParamConfig",
   "CrashProtectionRatingConfig", "GripperTeachingPendantParamConfig"}

(* The quantities of a MIT frame, field by field as they follow each       *)
(* other in it.                                                            *)
MitCodes(p, d) ==
  <<d[0] * 256 + d[1], d[2] * 16 + d[3] \div 16, (d[3] % 16) * 256 + d[4],
    d[5] * 16 + d[6] \div 16,
    IF p = 2 THEN (d[6] % 16) * 16 + d[7] \div 16 ELSE (d[6] % 16) * 256 + d[7]>>

(* Frames of the arm: identifiers of every kind, and one with a flag set;  *)
(* bytes that tell the offsets apart, and those behind the frame's end.    *)
Noise(id, n, first, tail) ==
  [id |-> id, dlc |-> n,
   data |-> [b \in 0..7 |-> IF b < n THEN (first + 37 * b) % 256 ELSE tail]]

NoiseFrames ==
  {Noise(id, n, first, tail) :
     id \in DOMAIN CanIdToMsgType \cup {\h191, \h2A5 + \h800},
     n \in 0..8, first \in {0, 1, 250}, tail \in {0, 1, 255}}

-----------------------------------------------------------------------------
Init ==
  /\ protocol \in Protocols
  /\ call = NoCall
  /\ frame = NoFrame
  /\ source = "none"
  /\ heard = Nothing

Send ==
  /\ call = NoCall /\ source = "none"
  /\ \E c \in Calls :
       /\ call' = c
       /\ \/ /\ CanEncode(protocol, Message(protocol, c))
             /\ frame' = EncodeMessage(protocol, Message(protocol, c))
             /\ source' = "call"
          \/ /\ ~CanEncode(protocol, Message(protocol, c))
             /\ UNCHANGED <<frame, source>>
  /\ UNCHANGED <<protocol, heard>>

(* requestMasterArmMoveToHome(): the one frame not made by an encoder, for *)
(* restoring the mode, homing this arm or homing both.                     *)
HomeFrames ==
  {[id |-> \h191, dlc |-> 8,
    data |-> [NoPayload EXCEPT ![0] = 1, ![1] = m[1], ![2] = m[2]]] :
     m \in {<<0, 0>>, <<1, 1>>, <<0, 1>>}}

RequestMasterArmMoveToHome ==
  /\ call = NoCall /\ source = "none"
  /\ frame' \in HomeFrames
  /\ source' = "home"
  /\ UNCHANGED <<protocol, call, heard>>

(* The arm has taken a setting and is asked for it.                        *)
SendAnswer ==
  /\ source = "call" /\ call.type \in AnsweredTypes
  /\ frame' = [frame EXCEPT !.id = MsgTypeToCanId(Answer(call.type))]
  /\ source' = "answer"
  /\ heard' = Nothing
  /\ UNCHANGED <<protocol, call>>

SendNoise ==
  /\ call = NoCall /\ source = "none"
  /\ frame' \in NoiseFrames
  /\ source' = "noise"
  /\ UNCHANGED <<protocol, call, heard>>

Receive ==
  /\ source # "none" /\ heard = Nothing
  /\ heard' = IF Decodable(protocol, frame)
              THEN DecodeMessage(protocol, frame)
              ELSE Refused
  /\ UNCHANGED <<protocol, call, frame, source>>

Done ==
  /\ \/ heard # Nothing
     \/ call # NoCall /\ source = "none"
  /\ call' = NoCall /\ frame' = NoFrame /\ source' = "none" /\ heard' = Nothing
  /\ UNCHANGED protocol

Next ==
  \/ Send \/ RequestMasterArmMoveToHome \/ SendAnswer
  \/ SendNoise \/ Receive \/ Done

Spec == Init /\ [][Next]_vars

-----------------------------------------------------------------------------
(* Every frame this library puts on the bus is eight bytes under a         *)
(* standard identifier (setCommandHeader and the writers of the codec).    *)
TypeOK ==
  /\ protocol \in Protocols
  /\ call \in Calls \cup {NoCall}
  /\ source \in {"none", "call", "home", "answer", "noise"}
  /\ frame.id \in Nat /\ frame.dlc \in 0..8
  /\ \A b \in 0..7 : frame.data[b] \in Byte
  /\ source \in {"call", "home"} => frame.id \in StandardId /\ frame.dlc = 8

(* What is decoded from a frame is what was put into it: a command that    *)
(* another controller hears is the command that was sent, with its mode    *)
(* and its signs, and a setting the arm reports is the one that was set    *)
(* (encodeMessage against decodeMessage, in both versions).                *)
ReadsBack ==
  /\ source = "call" /\ heard # Nothing /\ call.type \in DOMAIN DecodeLayout =>
       heard = Message(protocol, call)
  /\ source = "answer" /\ heard # Nothing =>
       heard = [type |-> Answer(call.type), v |-> call.ask]

(* A message depends on the bytes that were received and on no other, also *)
(* when it is shorter than eight bytes (requiredDlc against what           *)
(* decodeMessage reads).                                                   *)
OnlyReceivedBytes ==
  LET Received(tail) ==
        [frame EXCEPT !.data =
           [b \in 0..7 |-> IF b < frame.dlc THEN frame.data[b] ELSE tail]]
  IN  heard \notin {Nothing, Refused} =>
        \A tail \in {0, 1, 255} : heard = DecodeMessage(protocol, Received(tail))

(* The arm reads each quantity of a MIT command within one step of what    *)
(* was asked for, or at the end of its range if that lies beyond it, and   *)
(* none of them disturbs another; V2's checksum fits the frame             *)
(* (floatToUintRange, writeMitGains and the two torque layouts).           *)
MitReachesTheArm ==
  source = "call" /\ call.type \in MitTypes =>
    /\ \A k \in 1..5 :
         LET code == MitCodes(protocol, frame.data)[k]
             r == MitRange(protocol)[k]
             span == r.max - r.min
             error == (call.ask[k] - r.min) * r.top - code * span
         IN  /\ call.ask[k] <= r.min => code = 0
             /\ call.ask[k] >= r.max => code = r.top
             /\ r.min < call.ask[k] /\ call.ask[k] < r.max =>
                  IF protocol = 2 THEN -span <= 2 * error /\ 2 * error <= span
                                  ELSE 0 <= error /\ error < span
    /\ protocol = 2 =>
         frame.data[7] % 16 = Crc([k \in 1..7 |-> frame.data[k - 1]])

(* A command changes on the arm what its caller named and nothing else:    *)
(* zeroing a joint leaves its acceleration and its errors, a new speed     *)
(* leaves the angle limits, a mode change of the gripper zeroes nothing    *)
(* (sendJointConfig and its callers, setMotorMaxSpeed, sendGripperCtrl,    *)
(* sendMotionCtrl1, sendArmParamEnquiryAndConfig).                         *)
EffectIsNamed ==
  source = "call" => Effects(frame) \subseteq call.names

=============================================================================
