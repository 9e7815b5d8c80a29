----------------------------- MODULE MotionCodec -----------------------------
(***************************************************************************)
(* The 0x151 motion-control message of both protocol versions.  A command  *)
(* is a function from its fields to bytes; so is the payload on the wire,  *)
(* since a version changes the values of the fields and never where they   *)
(* sit (piper_codec.h:91-94).                                              *)
(***************************************************************************)
EXTENDS Integers

Byte == 0..255

Protocols == {2, 3}

Field == {"ctrl_mode", "move_mode", "move_spd_rate_ctrl", "mit_mode",
          "residence_time", "installation_pos"}

Command == [Field -> Byte]

MoveM == 4                 \* MoveMode::MoveM
MoveCPV == 5               \* MoveMode::MoveCPV, the last mode
HorizontalInverted == 4    \* InstallationPos, the last position
MoveMWire == 6             \* how V3 numbers MoveM
UnknownMode == 255         \* a wire mode V3 does not define

(* The members of ArmMsgMotionCtrl_2 as they are initialised.              *)
DefaultCommand ==
  [f \in Field |->
     CASE f = "ctrl_mode" -> 1
       [] f = "move_mode" -> 1
       [] f = "move_spd_rate_ctrl" -> 50
       [] OTHER -> 0]

(* What encodeMessage() accepts: V2 refuses the one mounting position it   *)
(* does not know, V3 whatever the official message class refuses.          *)
Encodable(protocol, c) ==
  IF protocol = 2
  THEN c["installation_pos"] # HorizontalInverted
  ELSE /\ c["ctrl_mode"] \in {0, 1, 3, 4, 7}
       /\ c["move_spd_rate_ctrl"] <= 100
       /\ c["mit_mode"] \in {0, 173, 255}
       /\ c["installation_pos"] <= HorizontalInverted
       /\ c["move_mode"] <= MoveCPV

EncodeUnmapped(protocol, c) == c

(* The payload of an encodable command.                                    *)
Encode(protocol, c) ==
  IF protocol = 3 /\ c["move_mode"] = MoveM
  THEN [c EXCEPT !["move_mode"] = MoveMWire]
  ELSE c

(* V3 moved MoveM to 6 and left 4 undefined.                               *)
MoveModeFromWire(protocol, w) ==
  CASE protocol = 2 -> w
    [] protocol = 3 /\ w = MoveMWire -> MoveM
    [] protocol = 3 /\ w # MoveMWire /\ (w = MoveM \/ w > MoveCPV) -> UnknownMode
    [] OTHER -> w

(* What decodeMessage() makes of a payload.                                *)
Decode(protocol, w) == [w EXCEPT !["move_mode"] = MoveModeFromWire(protocol, @)]

=============================================================================
