----------------------------- MODULE FrameCodec -----------------------------
(***************************************************************************)
(* The frames of the Piper protocol, versions 2 and 3: how a message       *)
(* becomes an identifier and eight bytes, and what is made of a frame that *)
(* is received (piper_parser_v2.cpp, piper_parser_v3.cpp, piper_codec.h).  *)
(*                                                                         *)
(* A message is its type and the sequence of its members' values.  A       *)
(* layout says where a member sits in the payload, how many bytes it has   *)
(* and whether the C++ member that holds it is signed; all of them are     *)
(* big-endian.  The two 0x151 parsers are those of MotionCodec.            *)
(***************************************************************************)
EXTENDS Integers, Sequences, FiniteSets, MotionCodec

Payload == [0..7 -> Byte]

Frame == [id : Nat, dlc : 0..8, data : Payload]

NoPayload == [b \in 0..7 |-> 0]

StandardId == 0..\h7FF    \* CAN_SFF_MASK

(* One table of two that share no entry.                                   *)
Joined(f, g) ==
  [x \in DOMAIN f \cup DOMAIN g |-> IF x \in DOMAIN f THEN f[x] ELSE g[x]]

-----------------------------------------------------------------------------
(* Identifiers.  canIdToMsgType() and msgTypeToCanId() are two switches    *)
(* over the same 63 pairs; here they are one table, read in both ways.     *)

Block(first, types) ==
  [id \in first..(first + Len(types) - 1) |-> types[id - first + 1]]

MotorFeedbackIds ==
  Joined(Joined(Block(\h251, <<"HighSpdFeed1", "HighSpdFeed2", "HighSpdFeed3",
                               "HighSpdFeed4", "HighSpdFeed5", "HighSpdFeed6">>),
                Block(\h261, <<"LowSpdFeed1", "LowSpdFeed2", "LowSpdFeed3",
                               "LowSpdFeed4", "LowSpdFeed5", "LowSpdFeed6">>)),
         Block(\h481, <<"FeedbackJointVelAcc1", "FeedbackJointVelAcc2",
                        "FeedbackJointVelAcc3", "FeedbackJointVelAcc4",
                        "FeedbackJointVelAcc5", "FeedbackJointVelAcc6">>))

ArmFeedbackIds ==
  Joined(Block(\h2A1, <<"StatusFeedback", "EndPoseFeedback1", "EndPoseFeedback2",
                        "EndPoseFeedback3", "JointFeedback12", "JointFeedback34",
                        "JointFeedback56", "GripperFeedback">>),
         Block(\h2AA, <<"IKJointFeedback12", "IKJointFeedback34",
                        "IKJointFeedback56">>))

ControlIds ==
  Block(\h150, <<"MotionCtrl1", "MotionCtrl2", "MotionCtrlCartesian1",
                 "MotionCtrlCartesian2", "MotionCtrlCartesian3", "JointCtrl12",
                 "JointCtrl34", "JointCtrl56",
                 "CircularPatternCoordNumUpdateCtrl", "GripperCtrl",
                 "JointMitCtrl1", "JointMitCtrl2", "JointMitCtrl3",
                 "JointMitCtrl4", "JointMitCtrl5", "JointMitCtrl6">>)

ConfigIds ==
  Block(\h470, <<"MasterSlaveModeConfig", "MotorEnableDisableConfig",
                 "SearchMotorMaxAngleSpdAccLimit",
                 "FeedbackCurrentMotorAngleLimitMaxSpd",
                 "MotorAngleLimitMaxSpdSet", "JointConfig",
                 "InstructionResponseConfig", "ParamEnquiryAndConfig",
                 "FeedbackCurrentEndVelAccParam", "EndVelAccParamConfig",
                 "CrashProtectionRatingConfig", "CrashProtectionRatingFeedback",
                 "FeedbackCurrentMotorMaxAccLimit",
                 "GripperTeachingPendantParamConfig",
                 "GripperTeachingPendantParamFeedback">>)

OtherIds ==
  Joined(Joined(Block(\h121, <<"LightCtrl">>),
                Block(\h422, <<"CanUpdateSilentModeConfig">>)),
         Block(\h4AF, <<"FirmwareRead">>))

CanIdToMsgType ==
  Joined(Joined(ControlIds, ConfigIds),
         Joined(OtherIds, Joined(MotorFeedbackIds, ArmFeedbackIds)))

MsgTypeToCanId(type) ==
  CHOOSE id \in DOMAIN CanIdToMsgType : CanIdToMsgType[id] = type

-----------------------------------------------------------------------------
(* Layouts.                                                                *)

U8(at) == [at |-> at, size |-> 1, signed |-> FALSE]
S8(at) == [at |-> at, size |-> 1, signed |-> TRUE]
U16(at) == [at |-> at, size |-> 2, signed |-> FALSE]
S16(at) == [at |-> at, size |-> 2, signed |-> TRUE]
S32(at) == [at |-> at, size |-> 4, signed |-> TRUE]

Octets(n) == [k \in 1..n |-> U8(k - 1)]
Pair == <<S32(0), S32(4)>>
Params == <<S16(0), S16(2), S16(4), S16(6)>>
MotorLimit == <<U8(0), S16(1), S16(3), S16(5)>>

HighSpdTypes == {"HighSpdFeed1", "HighSpdFeed2", "HighSpdFeed3",
                 "HighSpdFeed4", "HighSpdFeed5", "HighSpdFeed6"}
LowSpdTypes  == {"LowSpdFeed1", "LowSpdFeed2", "LowSpdFeed3",
                 "LowSpdFeed4", "LowSpdFeed5", "LowSpdFeed6"}
PoseTypes    == {"EndPoseFeedback1", "EndPoseFeedback2", "EndPoseFeedback3",
                 "JointFeedback12", "JointFeedback34", "JointFeedback56"}
JointTypes   == {"JointCtrl12", "JointCtrl34", "JointCtrl56"}
TargetTypes  == {"MotionCtrlCartesian1", "MotionCtrlCartesian2",
                 "MotionCtrlCartesian3"} \cup JointTypes

(* The payloads decodeMessage() reads, but for the mode of the gripper.    *)
FeedbackLayout ==
  [t \in HighSpdTypes \cup LowSpdTypes \cup PoseTypes
         \cup {"StatusFeedback", "GripperFeedback"} |->
     CASE t \in HighSpdTypes -> <<S16(0), S16(2), S32(4)>>
       [] t \in LowSpdTypes -> <<U16(0), S16(2), S8(4), U8(5), U16(6)>>
       [] t \in PoseTypes -> Pair
       [] t = "StatusFeedback" -> <<U8(0), U8(1), U8(2), U8(3), U8(4), U8(5), U16(6)>>
       [] OTHER -> <<S32(0), S16(4), U8(6)>>]   \* the gripper

SettingLayout ==
  [FeedbackCurrentEndVelAccParam |-> Params,
   CrashProtectionRatingFeedback |-> Octets(6),
   GripperTeachingPendantParamFeedback |-> Octets(3),
   FeedbackCurrentMotorAngleLimitMaxSpd |-> MotorLimit,
   FeedbackCurrentMotorMaxAccLimit |-> <<U8(0), S16(1)>>,
   MotionCtrl2 |-> Octets(6),
   GripperCtrl |-> <<S32(0), U16(4), U8(6), U8(7)>>,
   InstructionResponseConfig |-> Octets(2)]

DecodeLayout ==
  Joined(FeedbackLayout, Joined([t \in JointTypes |-> Pair], SettingLayout))

(* The payloads encodeMessage() writes, MIT commands apart.  Bytes that no *)
(* member covers are zero; the last three members of MotionCtrl1 are never *)
(* written.                                                                *)
ControlLayout ==
  [t \in TargetTypes \cup {"MotionCtrl1", "MotionCtrl2", "GripperCtrl",
                           "CircularPatternCoordNumUpdateCtrl"} |->
     CASE t \in TargetTypes -> Pair
       [] t = "MotionCtrl1" -> Octets(3)
       [] t = "MotionCtrl2" -> Octets(6)
       [] t = "CircularPatternCoordNumUpdateCtrl" -> Octets(1)
       [] OTHER -> <<S32(0), U16(4), U8(6), U8(7)>>]   \* the gripper

ConfigLayout ==
  [MasterSlaveModeConfig |-> Octets(4),
   MotorEnableDisableConfig |-> Octets(2),
   SearchMotorMaxAngleSpdAccLimit |-> Octets(2),
   MotorAngleLimitMaxSpdSet |-> MotorLimit,
   JointConfig |-> <<U8(0), U8(1), U8(2), U16(3), U8(5)>>,
   InstructionResponseConfig |-> Octets(2),
   ParamEnquiryAndConfig |-> Octets(5),
   EndVelAccParamConfig |-> Params,
   CrashProtectionRatingConfig |-> Octets(6),
   GripperTeachingPendantParamConfig |-> Octets(3),
   FirmwareRead |-> Octets(8)]

EncodeLayout == Joined(ControlLayout, ConfigLayout)

-----------------------------------------------------------------------------
(* Members to bytes and back.                                              *)

Covers(field, b) == b \in field.at..(field.at + field.size - 1)

Weight == <<1, 256, 65536, 16777216>>

OctetUnmasked(field, v, b) == v \div Weight[field.at + field.size - b]

Octet(field, v, b) == (v \div Weight[field.at + field.size - b]) % 256

Write(layout, values) ==
  [b \in 0..7 |->
     LET at == {k \in DOMAIN layout : Covers(layout[k], b)}
     IN  IF at = {} THEN 0
         ELSE LET k == CHOOSE k \in at : TRUE
              IN  Octet(layout[k], values[k], b)]

ReadField(data, field) ==
  LET byte(k) == data[field.at + k]
      first == IF field.signed /\ byte(0) >= 128 THEN byte(0) - 256 ELSE byte(0)
  IN  IF field.size = 1 THEN first
      ELSE IF field.size = 2 THEN first * 256 + byte(1)
      ELSE ((first * 256 + byte(1)) * 256 + byte(2)) * 256 + byte(3)

Read(layout, data) == [k \in DOMAIN layout |-> ReadField(data, layout[k])]

-----------------------------------------------------------------------------
(* The 0x151 and 0x159 messages, which the versions encode differently.    *)

Width == 0
Angle == 1
UnknownGripper == 255   \* GripperMode::Unknown
AngleBit == 4           \* selects the angle mode in V3's status byte
MaxGripperEffort == 5000
Apply == \hAE           \* ConfigEffective::Apply, GripperSetZero::SetZero

CommandFields ==
  <<"ctrl_mode", "move_mode", "move_spd_rate_ctrl", "mit_mode",
    "residence_time", "installation_pos">>

AsCommand(values) ==
  [f \in Field |-> values[CHOOSE k \in 1..6 : CommandFields[k] = f]]

AsValues(command) == [k \in 1..6 |-> command[CommandFields[k]]]

(* A gripper command is <<target, effort, status, set_zero, mode>>.        *)
GripperEncodable(protocol, v) ==
  IF protocol = 2
  THEN v[5] = Width
  ELSE /\ v[3] <= 3
       /\ v[2] <= MaxGripperEffort
       /\ v[4] \in {0, Apply}
       /\ v[5] \in {Width, Angle}

GripperStatusToWire(protocol, v) ==
  IF protocol = 3 /\ v[5] = Angle THEN v[3] + AngleBit ELSE v[3]

GripperFromWireKeepsBit(protocol, v) ==
  IF protocol = 2 THEN Append(v, Width)
  ELSE IF v[3] > 3 + AngleBit THEN Append(v, UnknownGripper)
  ELSE Append(v, IF v[3] >= AngleBit THEN Angle ELSE Width)

(* A status byte that V3 does not define is kept, under an unknown mode.   *)
GripperFromWire(protocol, v) ==
  IF protocol = 2 THEN Append(v, Width)
  ELSE IF v[3] > 3 + AngleBit THEN Append(v, UnknownGripper)
  ELSE [Append(v, IF v[3] >= AngleBit THEN Angle ELSE Width)
          EXCEPT ![3] = @ % AngleBit]

GripperFeedbackModeAnyLength(protocol, frame) ==
  CASE protocol = 2 \/ frame.data[7] = 0 -> Width
    [] protocol = 3 /\ frame.data[7] = 1 -> Angle
    [] OTHER -> UnknownGripper

(* V3 adds the mode in the eighth byte, which an old arm does not send.    *)
GripperFeedbackMode(protocol, frame) ==
  CASE protocol = 2 \/ frame.dlc < 8 \/ frame.data[7] = 0 -> Width
    [] protocol = 3 /\ frame.dlc = 8 /\ frame.data[7] = 1 -> Angle
    [] OTHER -> UnknownGripper

-----------------------------------------------------------------------------
(* MIT commands: position, velocity, Kp and Kd in 16, 12, 12 and 12 bits,  *)
(* then the torque, in 8 bits and a checksum under V2, in 12 under V3.     *)

MitTypes == {"JointMitCtrl1", "JointMitCtrl2", "JointMitCtrl3",
             "JointMitCtrl4", "JointMitCtrl5", "JointMitCtrl6"}

(* A range in quanta of 0.1 of the physical unit, and its largest code.    *)
MitRange(protocol) ==
  <<[min |-> -125, max |-> 125, top |-> 65535],
    [min |-> -450, max |-> 450, top |-> 4095],
    [min |-> 0, max |-> 5000, top |-> 4095],
    [min |-> -50, max |-> 50, top |-> 4095],
    IF protocol = 2 THEN [min |-> -80, max |-> 80, top |-> 255]
                    ELSE [min |-> -160, max |-> 160, top |-> 4095]>>

Clamp(r, v) == IF v < r.min THEN r.min ELSE IF v > r.max THEN r.max ELSE v

UintRange(protocol, r, v) ==
  LET span == r.max - r.min
  IN  IF protocol = 2
      THEN ((v - r.min) * r.top + span \div 2) \div span   \* Nearest
      ELSE ((v - r.min) * r.top) \div span                 \* Truncate

FloatToUintUnclamped(protocol, r, v) == UintRange(protocol, r, v)

FloatToUintRange(protocol, r, v) == UintRange(protocol, r, Clamp(r, v))

PackJointMit(protocol, v) ==
  [k \in 1..5 |-> FloatToUintRange(protocol, MitRange(protocol)[k], v[k])]

WriteMitGains(v) ==
  <<(v[1] \div 256) % 256, v[1] % 256, (v[2] \div 16) % 256,
    (v[2] % 16) * 16 + ((v[3] \div 256) % 16), v[3] % 256, (v[4] \div 16) % 256,
    (v[4] % 16) * 16>>

(* The low nibble of the exclusive or of seven bytes: each of its bits is  *)
(* set if an odd number of them has it.                                    *)
Crc(bytes) ==
  LET Bit(w) ==
        w * (Cardinality({i \in 1..7 : (bytes[i] \div w) % 2 = 1}) % 2)
  IN  Bit(1) + Bit(2) + Bit(4) + Bit(8)

WriteMit(protocol, v) ==
  LET gains == WriteMitGains(v)
      six == gains[7] + ((v[5] \div (IF protocol = 2 THEN 16 ELSE 256)) % 16)
      bytes == [gains EXCEPT ![7] = six]
      seven == IF protocol = 2 THEN (v[5] % 16) * 16 + Crc(bytes) ELSE v[5] % 256
  IN  [b \in 0..7 |-> IF b = 7 THEN seven ELSE bytes[b + 1]]

-----------------------------------------------------------------------------
(* encodeMessage().                                                        *)

CanEncode(protocol, m) ==
  \/ m.type \in MitTypes
  \/ /\ m.type \in DOMAIN EncodeLayout
     /\ m.type = "MotionCtrl2" => Encodable(protocol, AsCommand(m.v))
     /\ m.type = "GripperCtrl" => GripperEncodable(protocol, m.v)

WireValues(protocol, m) ==
  CASE m.type = "MotionCtrl2" -> AsValues(Encode(protocol, AsCommand(m.v)))
    [] m.type = "GripperCtrl" ->
         [k \in 1..4 |->
            IF k = 3 THEN GripperStatusToWire(protocol, m.v) ELSE m.v[k]]
    [] OTHER -> m.v

EncodeMessage(protocol, m) ==
  [id |-> MsgTypeToCanId(m.type),
   dlc |-> 8,
   data |-> IF m.type \in MitTypes
            THEN WriteMit(protocol, m.v)
            ELSE Write(EncodeLayout[m.type], WireValues(protocol, m))]

-----------------------------------------------------------------------------
(* decodeMessage().                                                        *)

IkTypes == {"IKJointFeedback12", "IKJointFeedback34", "IKJointFeedback56"}

RequiredDlc(type) ==
  CASE type \in {"GripperFeedback",
                 "FeedbackCurrentMotorAngleLimitMaxSpd"} -> 7
    [] type \in {"CrashProtectionRatingFeedback", "MotionCtrl2"} -> 6
    [] type \in {"GripperTeachingPendantParamFeedback",
                 "FeedbackCurrentMotorMaxAccLimit"} -> 3
    [] type = "InstructionResponseConfig" -> 2
    [] type = "FirmwareRead" -> 0
    [] OTHER -> 8

(* A remote-request, error or extended frame has flags above the eleven    *)
(* bits of the identifier.                                                 *)
AcceptFrame(frame) ==
  /\ frame.id \in StandardId
  /\ frame.id \in DOMAIN CanIdToMsgType
  /\ frame.dlc >= RequiredDlc(CanIdToMsgType[frame.id])

Decodable(protocol, frame) ==
  /\ AcceptFrame(frame)
  /\ LET type == CanIdToMsgType[frame.id]
     IN  \/ type \in DOMAIN DecodeLayout \cup {"FirmwareRead"}
         \/ protocol = 3 /\ type \in IkTypes

MessageValues(protocol, type, frame) ==
  CASE type = "FirmwareRead" -> [k \in 1..frame.dlc |-> frame.data[k - 1]]
    [] type \in IkTypes -> Read(Pair, frame.data)
    [] OTHER ->
         LET v == Read(DecodeLayout[type], frame.data)
         IN  CASE type = "StatusFeedback" ->
                    [v EXCEPT ![3] = MoveModeFromWire(protocol, @)]
               [] type = "MotionCtrl2" ->
                    AsValues(Decode(protocol, AsCommand(v)))
               [] type = "GripperFeedback" ->
                    Append(v, GripperFeedbackMode(protocol, frame))
               [] type = "GripperCtrl" -> GripperFromWire(protocol, v)
               [] OTHER -> v

DecodeMessage(protocol, frame) ==
  LET type == CanIdToMsgType[frame.id]
  IN  [type |-> type, v |-> MessageValues(protocol, type, frame)]

=============================================================================
