------------------------- MODULE FrameExchangeProofs -------------------------
(***************************************************************************)
(* Theorems about FrameCodec and FrameExchange.  The runs try the ends of  *)
(* the ranges and the carries; here the members are any number of their    *)
(* width.                                                                  *)
(*                                                                         *)
(* What is written by a well-formed layout is read back.  Every call asks  *)
(* for values its members hold, so its frame reads back as its message;    *)
(* the gripper, the 0x151 and the MIT messages, which the versions encode  *)
(* differently, are looked at apart.  The invariant says of every frame    *)
(* where it comes from, and of every message heard which frame it is.      *)
(***************************************************************************)
EXTENDS FrameExchange, FiniteSetTheorems, TLAPS

(* A place of one, two or four bytes within the payload.                   *)
Place == [at : 0..7, size : {1, 2, 4}, signed : BOOLEAN]

(* A layout whose members lie within the payload and beside one another.   *)
WellFormed(layout) ==
  /\ \A k \in DOMAIN layout : layout[k] \in Place /\ layout[k].at + layout[k].size <= 8
  /\ \A j, k \in DOMAIN layout :
       \A b \in 0..7 : Covers(layout[j], b) /\ Covers(layout[k], b) => j = k

(* What a C++ member of a width and sign can hold.                         *)
Holds(field) ==
  LET half == 128 * Weight[field.size]
  IN  IF field.signed THEN -half .. (half - 1) ELSE 0 .. (2 * half - 1)

(* Values for the members of a layout.                                     *)
Fits(layout, values) ==
  /\ values = [k \in DOMAIN layout |-> values[k]]
  /\ \A k \in DOMAIN layout : values[k] \in Holds(layout[k])

-----------------------------------------------------------------------------
(* Numbers of each width, cut into bytes and put together again.           *)

(* A number is its lowest byte and the rest.                               *)
LEMMA LowByte ==
  ASSUME NEW v \in Int
  PROVE  /\ v \div 1 = v
         /\ v = (v \div 256) * 256 + (v % 256)
         /\ v \div 256 = (v \div 65536) * 256 + ((v \div 256) % 256)
         /\ v \div 65536 = (v \div 16777216) * 256 + ((v \div 65536) % 256)
  <1>1. v \div 1 = v /\ v = (v \div 256) * 256 + (v % 256)
    BY SMT
  <1>2. v \div 256 = (v \div 65536) * 256 + ((v \div 256) % 256)
    BY SMT
  <1>3. v \div 65536 = (v \div 16777216) * 256 + ((v \div 65536) % 256)
    BY SMT
  <1>4. QED
    BY <1>1, <1>2, <1>3, SMT

(* The highest byte of a number of the right width is all that is left,    *)
(* with its sign.                                                          *)
LEMMA HighByte ==
  ASSUME NEW h \in Int
  PROVE  /\ h >= 0 /\ h <= 255 => h % 256 = h
         /\ h >= -128 /\ h <= 127 => (IF h % 256 >= 128 THEN (h % 256) - 256 ELSE h % 256) = h
  BY SMT

LEMMA HighPart ==
  ASSUME NEW v \in Int
  PROVE  /\ v >= 0 /\ v <= 65535 => v \div 256 >= 0 /\ v \div 256 <= 255
         /\ v >= -32768 /\ v <= 32767 => v \div 256 >= -128 /\ v \div 256 <= 127
         /\ v >= 0 /\ v <= 4294967295 => v \div 16777216 >= 0 /\ v \div 16777216 <= 255
         /\ v >= -2147483648 /\ v <= 2147483647 =>
              v \div 16777216 >= -128 /\ v \div 16777216 <= 127
  <1>1. v >= 0 /\ v <= 65535 => v \div 256 >= 0 /\ v \div 256 <= 255
    BY SMT
  <1>2. v >= -32768 /\ v <= 32767 => v \div 256 >= -128 /\ v \div 256 <= 127
    BY SMT
  <1>3. v >= 0 /\ v <= 4294967295 => v \div 16777216 >= 0 /\ v \div 16777216 <= 255
    BY SMT
  <1>4. v >= -2147483648 /\ v <= 2147483647 =>
          v \div 16777216 >= -128 /\ v \div 16777216 <= 127
    BY SMT
  <1>5. QED
    BY <1>1, <1>2, <1>3, <1>4, SMT

-----------------------------------------------------------------------------

(* Each byte a member covers is that member's.                             *)
LEMMA WrittenByte ==
  ASSUME NEW layout, WellFormed(layout), NEW values,
         NEW k \in DOMAIN layout, NEW b \in 0..7, Covers(layout[k], b)
  PROVE  Write(layout, values)[b] = Octet(layout[k], values[k], b)
  <1> DEFINE at == {j \in DOMAIN layout : Covers(layout[j], b)}
  <1>1. k \in at /\ \A j \in at : j = k
    BY DEF WellFormed
  <1>2. (CHOOSE j \in at : TRUE) = k
    BY <1>1
  <1>3. QED
    BY <1>1, <1>2 DEF Write

(* One member is read back from wherever it is written.                    *)
LEMMA FieldRoundTrip ==
  ASSUME NEW field \in Place, field.at + field.size <= 8,
         NEW v \in Holds(field),
         NEW data, \A b \in 0..7 : Covers(field, b) => data[b] = Octet(field, v, b)
  PROVE  ReadField(data, field) = v
  <1> DEFINE Signed(h) == IF field.signed /\ h % 256 >= 128 THEN (h % 256) - 256 ELSE h % 256
  <1>1. field.at \in 0..7 /\ field.size \in {1, 2, 4} /\ field.signed \in BOOLEAN
    BY DEF Place
  <1>2. v \in Int
    BY <1>1, SMT DEF Holds, Weight
  <1>3. Weight[1] = 1 /\ Weight[2] = 256 /\ Weight[3] = 65536 /\ Weight[4] = 16777216
    BY SMT DEF Weight
  <1>4. CASE field.size = 1
    <2>1. data[field.at + 0] = v % 256
      BY <1>1, <1>2, <1>3, <1>4, LowByte, SMT DEF Covers, Octet
    <2>2. Signed(v) = v
      BY <1>1, <1>2, <1>4, <1>3, HighByte, SMT DEF Holds
    <2>3. QED
      BY <1>4, <2>1, <2>2, SMT DEF ReadField
  <1>5. CASE field.size = 2
    <2>1. /\ data[field.at + 0] = (v \div 256) % 256
          /\ data[field.at + 1] = v % 256
      <3>1. /\ Octet(field, v, field.at + 0) = (v \div Weight[2]) % 256
            /\ Octet(field, v, field.at + 1) = (v \div Weight[1]) % 256
        BY <1>1, <1>5, SMT DEF Octet
      <3>2. field.at + 0 \in 0..7 /\ field.at + 1 \in 0..7
            /\ Covers(field, field.at + 0) /\ Covers(field, field.at + 1)
        BY <1>1, <1>5, SMT DEF Covers
      <3>3. QED
        BY <1>2, <1>3, <3>1, <3>2, LowByte, SMT
    <2>2. Signed(v \div 256) = v \div 256
      <3>1. IF field.signed THEN v >= -32768 /\ v <= 32767 ELSE v >= 0 /\ v <= 65535
        BY <1>1, <1>2, <1>3, <1>5, SMT DEF Holds
      <3> DEFINE h == v \div 256
      <3>2. h \in Int /\ (IF field.signed THEN h >= -128 /\ h <= 127 ELSE h >= 0 /\ h <= 255)
        BY <1>1, <1>2, <3>1, HighPart, SMT
      <3> HIDE DEF h
      <3>3. Signed(h) = h
        BY <1>1, <3>2, HighByte, SMT
      <3>4. QED
        BY <3>3, SMT DEF h
    <2>3. QED
      BY <1>2, <1>5, <2>1, <2>2, LowByte, SMT DEF ReadField
  <1>6. CASE field.size = 4
    <2>1. /\ data[field.at + 0] = (v \div 16777216) % 256
          /\ data[field.at + 1] = (v \div 65536) % 256
          /\ data[field.at + 2] = (v \div 256) % 256
          /\ data[field.at + 3] = v % 256
      BY <1>1, <1>2, <1>3, <1>6, LowByte, SMT DEF Covers, Octet
    <2>2. Signed(v \div 16777216) = v \div 16777216
      <3>1. IF field.signed THEN v >= -2147483648 /\ v <= 2147483647
                            ELSE v >= 0 /\ v <= 4294967295
        BY <1>1, <1>2, <1>3, <1>6, SMT DEF Holds
      <3> DEFINE h == v \div 16777216
      <3>2. h \in Int /\ (IF field.signed THEN h >= -128 /\ h <= 127 ELSE h >= 0 /\ h <= 255)
        BY <1>1, <1>2, <3>1, HighPart, SMT
      <3> HIDE DEF h
      <3>3. Signed(h) = h
        BY <1>1, <3>2, HighByte, SMT
      <3>4. QED
        BY <3>3, SMT DEF h
    <2>3. QED
      BY <1>2, <1>6, <2>1, <2>2, LowByte, SMT DEF ReadField
  <1>7. QED
    BY <1>1, <1>4, <1>5, <1>6

(* Whatever a message's members hold, a payload written by a layout is     *)
(* read back by it: no byte is another member's, none is cut off, and signs *)
(* survive (the ..._to_bytes and bytesTo... helpers of piper_codec.h).     *)
THEOREM LayoutRoundTrip ==
  ASSUME NEW layout, WellFormed(layout), NEW values, Fits(layout, values)
  PROVE  Read(layout, Write(layout, values)) = values
  <1> DEFINE data == Write(layout, values)
  <1>1. ASSUME NEW k \in DOMAIN layout
        PROVE  ReadField(data, layout[k]) = values[k]
    <2>1. layout[k] \in Place /\ layout[k].at + layout[k].size <= 8
          /\ values[k] \in Holds(layout[k])
      BY DEF WellFormed, Fits
    <2>2. \A b \in 0..7 : Covers(layout[k], b) => data[b] = Octet(layout[k], values[k], b)
      BY WrittenByte
    <2> HIDE DEF data
    <2>3. QED
      BY <2>1, <2>2, FieldRoundTrip
  <1>2. Read(layout, data) = [k \in DOMAIN layout |-> values[k]]
    BY <1>1 DEF Read
  <1>3. QED
    BY <1>2 DEF Fits

-----------------------------------------------------------------------------
(* The layouts in use are well formed.                                     *)

LEMMA OctetsWellFormed ==
  ASSUME NEW n \in 1..8
  PROVE  WellFormed(Octets(n))
  BY SMT DEF WellFormed, Octets, U8, Place, Covers

LEMMA Members ==
  ASSUME NEW a \in 0..7
  PROVE  /\ U8(a) \in Place /\ U8(a).at = a /\ U8(a).size = 1
         /\ S8(a) \in Place /\ S8(a).at = a /\ S8(a).size = 1
         /\ U16(a) \in Place /\ U16(a).at = a /\ U16(a).size = 2
         /\ S16(a) \in Place /\ S16(a).at = a /\ S16(a).size = 2
         /\ S32(a) \in Place /\ S32(a).at = a /\ S32(a).size = 4
  BY SMT DEF Place, U8, S8, U16, S16, S32

(* Members in order, none beginning before the one before it ends.         *)
InOrder(layout, n) ==
  /\ DOMAIN layout = 1..n
  /\ \A k \in 1..n : layout[k] \in Place /\ layout[k].at + layout[k].size <= 8
  /\ \A j, k \in 1..n : j < k => layout[j].at + layout[j].size <= layout[k].at

LEMMA InOrderWellFormed ==
  ASSUME NEW n \in Nat, NEW layout, InOrder(layout, n)
  PROVE  WellFormed(layout)
  <1>1. \A k \in 1..n : layout[k].at \in Int /\ layout[k].size \in Int
    BY DEF Place, InOrder
  <1>2. ASSUME NEW j \in 1..n, NEW k \in 1..n, NEW b \in 0..7,
               Covers(layout[j], b), Covers(layout[k], b)
        PROVE  j = k
    <2>1. b >= layout[j].at /\ b < layout[j].at + layout[j].size
          /\ b >= layout[k].at /\ b < layout[k].at + layout[k].size
      BY <1>1, <1>2, SMT DEF Covers
    <2>2. ~ j < k /\ ~ k < j
      BY <1>1, <2>1, SMT DEF InOrder
    <2>3. QED
      BY <2>2, SMT
  <1>3. QED
    BY <1>2 DEF WellFormed, InOrder

LEMMA WideWellFormed ==
  /\ WellFormed(Pair)
  /\ WellFormed(Params)
  /\ WellFormed(MotorLimit)
  /\ WellFormed(<<S16(0), S16(2), S32(4)>>)
  /\ WellFormed(<<U16(0), S16(2), S8(4), U8(5), U16(6)>>)
  /\ WellFormed(<<U8(0), U8(1), U8(2), U8(3), U8(4), U8(5), U16(6)>>)
  /\ WellFormed(<<S32(0), S16(4), U8(6)>>)
  /\ WellFormed(<<U8(0), S16(1)>>)
  /\ WellFormed(<<S32(0), U16(4), U8(6), U8(7)>>)
  /\ WellFormed(<<U8(0), U8(1), U8(2), U16(3), U8(5)>>)
  <1>1. WellFormed(Pair)
    <2> DEFINE L == <<S32(0), S32(4)>>
    <2>1. DOMAIN L = 1..2 /\ L[1] = S32(0) /\ L[2] = S32(4)
      BY SMT
    <2> HIDE DEF L
    <2>2. InOrder(L, 2)
      BY <2>1, Members, SMT DEF InOrder
    <2>3. QED
      BY <2>2, InOrderWellFormed DEF L, Pair
  <1>2. WellFormed(Params)
    <2> DEFINE L == <<S16(0), S16(2), S16(4), S16(6)>>
    <2>1. DOMAIN L = 1..4 /\ L[1] = S16(0) /\ L[2] = S16(2) /\ L[3] = S16(4) /\ L[4] = S16(6)
      BY SMT
    <2> HIDE DEF L
    <2>2. InOrder(L, 4)
      BY <2>1, Members, SMT DEF InOrder
    <2>3. QED
      BY <2>2, InOrderWellFormed DEF L, Params
  <1>3. WellFormed(MotorLimit)
    <2> DEFINE L == <<U8(0), S16(1), S16(3), S16(5)>>
    <2>1. DOMAIN L = 1..4 /\ L[1] = U8(0) /\ L[2] = S16(1) /\ L[3] = S16(3) /\ L[4] = S16(5)
      BY SMT
    <2> HIDE DEF L
    <2>2. InOrder(L, 4)
      BY <2>1, Members, SMT DEF InOrder
    <2>3. QED
      BY <2>2, InOrderWellFormed DEF L, MotorLimit
  <1>4. WellFormed(<<S16(0), S16(2), S32(4)>>)
    <2> DEFINE L == <<S16(0), S16(2), S32(4)>>
    <2>1. DOMAIN L = 1..3 /\ L[1] = S16(0) /\ L[2] = S16(2) /\ L[3] = S32(4)
      BY SMT
    <2> HIDE DEF L
    <2>2. InOrder(L, 3)
      BY <2>1, Members, SMT DEF InOrder
    <2>3. QED
      BY <2>2, InOrderWellFormed DEF L
  <1>5. WellFormed(<<U16(0), S16(2), S8(4), U8(5), U16(6)>>)
    <2> DEFINE L == <<U16(0), S16(2), S8(4), U8(5), U16(6)>>
    <2>1. DOMAIN L = 1..5 /\ L[1] = U16(0) /\ L[2] = S16(2) /\ L[3] = S8(4) /\ L[4] = U8(5) /\ L[5] = U16(6)
      BY SMT
    <2> HIDE DEF L
    <2>2. InOrder(L, 5)
      BY <2>1, Members, SMT DEF InOrder
    <2>3. QED
      BY <2>2, InOrderWellFormed DEF L
  <1>6. WellFormed(<<U8(0), U8(1), U8(2), U8(3), U8(4), U8(5), U16(6)>>)
    <2> DEFINE L == <<U8(0), U8(1), U8(2), U8(3), U8(4), U8(5), U16(6)>>
    <2>1. DOMAIN L = 1..7 /\ L[1] = U8(0) /\ L[2] = U8(1) /\ L[3] = U8(2) /\ L[4] = U8(3) /\ L[5] = U8(4) /\ L[6] = U8(5) /\ L[7] = U16(6)
      BY SMT
    <2> HIDE DEF L
    <2>2. InOrder(L, 7)
      BY <2>1, Members, SMT DEF InOrder
    <2>3. QED
      BY <2>2, InOrderWellFormed DEF L
  <1>7. WellFormed(<<S32(0), S16(4), U8(6)>>)
    <2> DEFINE L == <<S32(0), S16(4), U8(6)>>
    <2>1. DOMAIN L = 1..3 /\ L[1] = S32(0) /\ L[2] = S16(4) /\ L[3] = U8(6)
      BY SMT
    <2> HIDE DEF L
    <2>2. InOrder(L, 3)
      BY <2>1, Members, SMT DEF InOrder
    <2>3. QED
      BY <2>2, InOrderWellFormed DEF L
  <1>8. WellFormed(<<U8(0), S16(1)>>)
    <2> DEFINE L == <<U8(0), S16(1)>>
    <2>1. DOMAIN L = 1..2 /\ L[1] = U8(0) /\ L[2] = S16(1)
      BY SMT
    <2> HIDE DEF L
    <2>2. InOrder(L, 2)
      BY <2>1, Members, SMT DEF InOrder
    <2>3. QED
      BY <2>2, InOrderWellFormed DEF L
  <1>9. WellFormed(<<S32(0), U16(4), U8(6), U8(7)>>)
    <2> DEFINE L == <<S32(0), U16(4), U8(6), U8(7)>>
    <2>1. DOMAIN L = 1..4 /\ L[1] = S32(0) /\ L[2] = U16(4) /\ L[3] = U8(6) /\ L[4] = U8(7)
      BY SMT
    <2> HIDE DEF L
    <2>2. InOrder(L, 4)
      BY <2>1, Members, SMT DEF InOrder
    <2>3. QED
      BY <2>2, InOrderWellFormed DEF L
  <1>10. WellFormed(<<U8(0), U8(1), U8(2), U16(3), U8(5)>>)
    <2> DEFINE L == <<U8(0), U8(1), U8(2), U16(3), U8(5)>>
    <2>1. DOMAIN L = 1..5 /\ L[1] = U8(0) /\ L[2] = U8(1) /\ L[3] = U8(2) /\ L[4] = U16(3) /\ L[5] = U8(5)
      BY SMT
    <2> HIDE DEF L
    <2>2. InOrder(L, 5)
      BY <2>1, Members, SMT DEF InOrder
    <2>3. QED
      BY <2>2, InOrderWellFormed DEF L
  <1> QED
    BY <1>1, <1>2, <1>3, <1>4, <1>5, <1>6, <1>7, <1>8, <1>9, <1>10

(* Every payload encodeMessage() writes by a layout, and every one         *)
(* decodeMessage() reads, is covered by LayoutRoundTrip.                    *)
THEOREM LayoutsWellFormed ==
  /\ \A t \in DOMAIN DecodeLayout : WellFormed(DecodeLayout[t])
  /\ \A t \in DOMAIN EncodeLayout : WellFormed(EncodeLayout[t])
  <1>1. ASSUME NEW t \in DOMAIN FeedbackLayout
        PROVE  WellFormed(FeedbackLayout[t])
    <2>1. FeedbackLayout[t] \in
            {<<S16(0), S16(2), S32(4)>>, <<U16(0), S16(2), S8(4), U8(5), U16(6)>>, Pair,
             <<U8(0), U8(1), U8(2), U8(3), U8(4), U8(5), U16(6)>>,
             <<S32(0), S16(4), U8(6)>>}
      BY DEF FeedbackLayout
    <2>2. QED
      BY <2>1, WideWellFormed
  <1>2. ASSUME NEW t \in DOMAIN SettingLayout
        PROVE  WellFormed(SettingLayout[t])
    <2>1. SettingLayout[t] \in
            {Params, Octets(6), Octets(3), MotorLimit, <<U8(0), S16(1)>>, Octets(2),
             <<S32(0), U16(4), U8(6), U8(7)>>}
      BY DEF SettingLayout
    <2>2. QED
      BY <2>1, WideWellFormed, OctetsWellFormed
  <1>3. ASSUME NEW t \in DOMAIN ControlLayout
        PROVE  WellFormed(ControlLayout[t])
    <2>1. ControlLayout[t] \in
            {Pair, Octets(3), Octets(6), Octets(1), <<S32(0), U16(4), U8(6), U8(7)>>}
      BY DEF ControlLayout
    <2>2. QED
      BY <2>1, WideWellFormed, OctetsWellFormed
  <1>4. ASSUME NEW t \in DOMAIN ConfigLayout
        PROVE  WellFormed(ConfigLayout[t])
    <2>1. ConfigLayout[t] \in
            {Octets(4), Octets(2), MotorLimit, <<U8(0), U8(1), U8(2), U16(3), U8(5)>>,
             Octets(5), Params, Octets(6), Octets(3), Octets(8)}
      BY DEF ConfigLayout
    <2>2. QED
      BY <2>1, WideWellFormed, OctetsWellFormed
  <1>5. \A t \in JointTypes : WellFormed([s \in JointTypes |-> Pair][t])
    BY WideWellFormed
  <1>6. QED
    BY <1>1, <1>2, <1>3, <1>4, <1>5 DEF DecodeLayout, EncodeLayout, Joined

-----------------------------------------------------------------------------
(* The gripper's mode, which V3 packs into the status byte.                *)

LEMMA AppendFifth ==
  ASSUME NEW a, NEW e, NEW s, NEW z, NEW mode
  PROVE  Append(<<a, e, s, z>>, mode) = <<a, e, s, z, mode>>
  <1>1. Append(<<a, e, s, z>>, mode)
          = [i \in 1..5 |-> IF i = 5 THEN mode ELSE <<a, e, s, z>>[i]]
    BY SMT
  <1>2. <<a, e, s, z, mode>> = [i \in 1..5 |-> IF i = 5 THEN mode ELSE <<a, e, s, z>>[i]]
    BY SMT
  <1>3. QED
    BY <1>1, <1>2

(* What is decoded of the payload of a gripper command is the command.     *)
GripperReadsBack(p, ask) ==
  GripperFromWire(p, WireValues(p, [type |-> "GripperCtrl", v |-> ask])) = ask

(* A gripper command the encoder accepts is decoded to the same command,   *)
(* its mode and its status apart again, whatever its other members.        *)
THEOREM GripperRoundTrip ==
  ASSUME NEW p \in Protocols, NEW a, NEW e \in Int, NEW status \in Byte,
         NEW z, NEW mode, GripperEncodable(p, <<a, e, status, z, mode>>)
  PROVE  GripperReadsBack(p, <<a, e, status, z, mode>>)
  <1> DEFINE v == <<a, e, status, z, mode>>
             m == [type |-> "GripperCtrl", v |-> v]
             s == GripperStatusToWire(p, v)
  <1> SUFFICES GripperFromWire(p, WireValues(p, m)) = v
    BY DEF GripperReadsBack
  <1>1. WireValues(p, m) = [k \in 1..4 |-> IF k = 3 THEN s ELSE v[k]]
    BY DEF WireValues
  <1>2. [k \in 1..4 |-> IF k = 3 THEN s ELSE v[k]] = <<a, e, s, z>>
    BY SMT
  <1>3. /\ v[3] = status /\ v[4] = z /\ v[5] = mode
    BY SMT
  <1>4. CASE p = 2
    <2>1. s = status /\ mode = Width
      BY <1>3, <1>4 DEF GripperStatusToWire, GripperEncodable
    <2>2. Append(<<a, e, status, z>>, Width) = <<a, e, status, z, Width>>
      BY AppendFifth
    <2>3. QED
      BY <1>1, <1>2, <1>4, <2>1, <2>2 DEF GripperFromWire
  <1>5. CASE p = 3
    <2>1. status \in 0..3 /\ mode \in {Width, Angle}
      BY <1>3, <1>5, SMT DEF GripperEncodable, Byte
    <2>2. /\ s = IF mode = Angle THEN status + 4 ELSE status
          /\ s \in 0..7 /\ s % 4 = status
          /\ (IF s >= 4 THEN Angle ELSE Width) = mode
      BY <1>3, <1>5, <2>1, SMT DEF GripperStatusToWire, AngleBit, Angle, Width
    <2> DEFINE w == <<a, e, s, z>>
    <2>3. /\ w[3] = s
          /\ [Append(w, mode) EXCEPT ![3] = @ % 4] = <<a, e, status, z, mode>>
      <3> HIDE DEF s
      <3>1. w[3] = s
        BY SMT
      <3>2. Append(w, mode) = <<a, e, s, z, mode>>
        BY AppendFifth
      <3>3. [<<a, e, s, z, mode>> EXCEPT ![3] = @ % 4] = <<a, e, s % 4, z, mode>>
        BY SMT
      <3>4. QED
        BY <2>2, <3>1, <3>2, <3>3
    <2>4. GripperFromWire(p, w)
            = [Append(w, IF s >= 4 THEN Angle ELSE Width) EXCEPT ![3] = @ % 4]
      BY <1>5, <2>2, <2>3, SMT DEF GripperFromWire, AngleBit
    <2>5. QED
      BY <1>1, <1>2, <2>2, <2>3, <2>4
  <1>6. QED
    BY <1>4, <1>5 DEF Protocols

-----------------------------------------------------------------------------
(* Identifiers.                                                            *)

ControlTypes ==
  {"MotionCtrl1", "MotionCtrl2", "MotionCtrlCartesian1", "MotionCtrlCartesian2",
   "MotionCtrlCartesian3", "JointCtrl12", "JointCtrl34", "JointCtrl56",
   "CircularPatternCoordNumUpdateCtrl", "GripperCtrl", "JointMitCtrl1",
   "JointMitCtrl2", "JointMitCtrl3", "JointMitCtrl4", "JointMitCtrl5",
   "JointMitCtrl6"}

ConfigTypes ==
  {"MasterSlaveModeConfig", "MotorEnableDisableConfig",
   "SearchMotorMaxAngleSpdAccLimit", "FeedbackCurrentMotorAngleLimitMaxSpd",
   "MotorAngleLimitMaxSpdSet", "JointConfig", "InstructionResponseConfig",
   "ParamEnquiryAndConfig", "FeedbackCurrentEndVelAccParam",
   "EndVelAccParamConfig", "CrashProtectionRatingConfig",
   "CrashProtectionRatingFeedback", "FeedbackCurrentMotorMaxAccLimit",
   "GripperTeachingPendantParamConfig", "GripperTeachingPendantParamFeedback"}

LEMMA ControlBlock ==
  /\ DOMAIN ControlIds = 336..351
  /\ \A t \in ControlTypes : \E id \in 336..351 : ControlIds[id] = t
  <1> DEFINE L == <<"MotionCtrl1", "MotionCtrl2", "MotionCtrlCartesian1",
                 "MotionCtrlCartesian2", "MotionCtrlCartesian3", "JointCtrl12",
                 "JointCtrl34", "JointCtrl56",
                 "CircularPatternCoordNumUpdateCtrl", "GripperCtrl",
                 "JointMitCtrl1", "JointMitCtrl2", "JointMitCtrl3",
                 "JointMitCtrl4", "JointMitCtrl5", "JointMitCtrl6">>
  <1>1. /\ Len(L) = 16
        /\ \A t \in ControlTypes : \E k \in 1..16 : L[k] = t
    BY SMT DEF ControlTypes
  <1>2. ControlIds = Block(336, L)
    BY SMT DEF ControlIds
  <1> HIDE DEF L
  <1>3. /\ DOMAIN ControlIds = 336..351
        /\ \A id \in 336..351 : ControlIds[id] = L[id - 336 + 1]
    BY <1>1, <1>2, SMT DEF Block
  <1>4. ASSUME NEW k \in 1..16 PROVE k + 335 \in 336..351 /\ ControlIds[k + 335] = L[k]
    BY <1>3, SMT
  <1>5. QED
    BY <1>1, <1>3, <1>4

LEMMA ConfigBlock ==
  /\ DOMAIN ConfigIds = 1136..1150
  /\ \A t \in ConfigTypes : \E id \in 1136..1150 : ConfigIds[id] = t
  <1> DEFINE L == <<"MasterSlaveModeConfig", "MotorEnableDisableConfig",
                 "SearchMotorMaxAngleSpdAccLimit",
                 "FeedbackCurrentMotorAngleLimitMaxSpd",
                 "MotorAngleLimitMaxSpdSet", "JointConfig",
                 "InstructionResponseConfig", "ParamEnquiryAndConfig",
                 "FeedbackCurrentEndVelAccParam", "EndVelAccParamConfig",
                 "CrashProtectionRatingConfig", "CrashProtectionRatingFeedback",
                 "FeedbackCurrentMotorMaxAccLimit",
                 "GripperTeachingPendantParamConfig",
                 "GripperTeachingPendantParamFeedback">>
  <1>1. /\ Len(L) = 15
        /\ \A t \in ConfigTypes : \E k \in 1..15 : L[k] = t
    BY SMT DEF ConfigTypes
  <1>2. ConfigIds = Block(1136, L)
    BY SMT DEF ConfigIds
  <1> HIDE DEF L
  <1>3. /\ DOMAIN ConfigIds = 1136..1150
        /\ \A id \in 1136..1150 : ConfigIds[id] = L[id - 1136 + 1]
    BY <1>1, <1>2, SMT DEF Block
  <1>4. ASSUME NEW k \in 1..15 PROVE k + 1135 \in 1136..1150 /\ ConfigIds[k + 1135] = L[k]
    BY <1>3, SMT
  <1>5. QED
    BY <1>1, <1>3, <1>4

(* No identifier has a bit that marks another kind of frame.               *)
LEMMA StandardIds == DOMAIN CanIdToMsgType \subseteq StandardId
  <1>1. /\ DOMAIN Block(\h251, <<"HighSpdFeed1", "HighSpdFeed2", "HighSpdFeed3",
                               "HighSpdFeed4", "HighSpdFeed5", "HighSpdFeed6">>) = 593..598
        /\ DOMAIN Block(\h261, <<"LowSpdFeed1", "LowSpdFeed2", "LowSpdFeed3",
                               "LowSpdFeed4", "LowSpdFeed5", "LowSpdFeed6">>) = 609..614
        /\ DOMAIN Block(\h481, <<"FeedbackJointVelAcc1", "FeedbackJointVelAcc2",
                        "FeedbackJointVelAcc3", "FeedbackJointVelAcc4",
                        "FeedbackJointVelAcc5", "FeedbackJointVelAcc6">>) = 1153..1158
    BY SMT DEF Block
  <1>2. /\ DOMAIN Block(\h2A1, <<"StatusFeedback", "EndPoseFeedback1", "EndPoseFeedback2",
                        "EndPoseFeedback3", "JointFeedback12", "JointFeedback34",
                        "JointFeedback56", "GripperFeedback">>) = 673..680
        /\ DOMAIN Block(\h2AA, <<"IKJointFeedback12", "IKJointFeedback34",
                        "IKJointFeedback56">>) = 682..684
    BY SMT DEF Block
  <1>3. /\ DOMAIN Block(\h121, <<"LightCtrl">>) = 289..289
        /\ DOMAIN Block(\h422, <<"CanUpdateSilentModeConfig">>) = 1058..1058
        /\ DOMAIN Block(\h4AF, <<"FirmwareRead">>) = 1199..1199
    BY SMT DEF Block
  <1>4. /\ DOMAIN MotorFeedbackIds = (593..598 \cup 609..614) \cup 1153..1158
        /\ DOMAIN ArmFeedbackIds = 673..680 \cup 682..684
        /\ DOMAIN OtherIds = (289..289 \cup 1058..1058) \cup 1199..1199
    BY <1>1, <1>2, <1>3 DEF MotorFeedbackIds, ArmFeedbackIds, OtherIds, Joined
  <1>5. DOMAIN CanIdToMsgType =
          (336..351 \cup 1136..1150)
            \cup (((289..289 \cup 1058..1058) \cup 1199..1199)
              \cup (((593..598 \cup 609..614) \cup 1153..1158)
                     \cup (673..680 \cup 682..684)))
    BY <1>4, ControlBlock, ConfigBlock DEF CanIdToMsgType, Joined
  <1>6. QED
    BY <1>5, SMT DEF StandardId

LEMMA IdentifiersAreNumbers == StandardId \subseteq Nat
  BY SMT DEF StandardId

(* The type of a frame the library sends or asks for is found again under  *)
(* its identifier.                                                         *)
LEMMA Identifier ==
  ASSUME NEW t \in ControlTypes \cup ConfigTypes
  PROVE  /\ MsgTypeToCanId(t) \in StandardId
         /\ MsgTypeToCanId(t) \in DOMAIN CanIdToMsgType
         /\ CanIdToMsgType[MsgTypeToCanId(t)] = t
  <1> DEFINE both == Joined(ControlIds, ConfigIds)
  <1>1. \A x \in DOMAIN both : x \in DOMAIN CanIdToMsgType /\ CanIdToMsgType[x] = both[x]
    BY DEF CanIdToMsgType, Joined
  <1>2. \E id \in DOMAIN both : both[id] = t
    <2>1. CASE t \in ControlTypes
      BY <2>1, ControlBlock DEF Joined
    <2>2. CASE t \in ConfigTypes
      <3>1. PICK id \in DOMAIN ConfigIds : ConfigIds[id] = t
        BY <2>2, ConfigBlock
      <3>2. id \notin DOMAIN ControlIds
        BY <3>1, ControlBlock, ConfigBlock, SMT
      <3>3. id \in DOMAIN both /\ both[id] = t
        BY <3>1, <3>2 DEF Joined
      <3>4. QED
        BY <3>3
    <2>3. QED
      BY <2>1, <2>2
  <1>3. \E id \in DOMAIN CanIdToMsgType : CanIdToMsgType[id] = t
    BY <1>1, <1>2
  <1>4. QED
    BY <1>3, StandardIds DEF MsgTypeToCanId

-----------------------------------------------------------------------------
(* The layouts of the messages that are sent, and of the settings that the *)
(* arm reports.                                                            *)

GripperLayout == <<S32(0), U16(4), U8(6), U8(7)>>
JointConfigLayout == <<U8(0), U8(1), U8(2), U16(3), U8(5)>>

LEMMA ControlLayouts ==
  /\ \A t \in TargetTypes : t \in DOMAIN EncodeLayout /\ EncodeLayout[t] = Pair
  /\ "MotionCtrl1" \in DOMAIN EncodeLayout /\ EncodeLayout["MotionCtrl1"] = Octets(3)
  /\ "MotionCtrl2" \in DOMAIN EncodeLayout /\ EncodeLayout["MotionCtrl2"] = Octets(6)
  /\ "CircularPatternCoordNumUpdateCtrl" \in DOMAIN EncodeLayout
  /\ EncodeLayout["CircularPatternCoordNumUpdateCtrl"] = Octets(1)
  /\ "GripperCtrl" \in DOMAIN EncodeLayout /\ EncodeLayout["GripperCtrl"] = GripperLayout
  <1>1. \A t \in DOMAIN ControlLayout :
          t \in DOMAIN EncodeLayout /\ EncodeLayout[t] = ControlLayout[t]
    BY DEF EncodeLayout, Joined
  <1>2. \A t \in TargetTypes : t \in DOMAIN ControlLayout /\ ControlLayout[t] = Pair
    BY DEF ControlLayout, TargetTypes, JointTypes
  <1>3. /\ "MotionCtrl1" \in DOMAIN ControlLayout
        /\ ControlLayout["MotionCtrl1"] = Octets(3)
    BY DEF ControlLayout, TargetTypes, JointTypes
  <1>4. /\ "MotionCtrl2" \in DOMAIN ControlLayout
        /\ ControlLayout["MotionCtrl2"] = Octets(6)
    BY DEF ControlLayout, TargetTypes, JointTypes
  <1>5. /\ "CircularPatternCoordNumUpdateCtrl" \in DOMAIN ControlLayout
        /\ ControlLayout["CircularPatternCoordNumUpdateCtrl"] = Octets(1)
    BY DEF ControlLayout, TargetTypes, JointTypes
  <1>6. /\ "GripperCtrl" \in DOMAIN ControlLayout
        /\ ControlLayout["GripperCtrl"] = GripperLayout
    BY DEF ControlLayout, TargetTypes, JointTypes, GripperLayout
  <1>7. QED
    BY <1>1, <1>2, <1>3, <1>4, <1>5, <1>6

LEMMA ConfigLayouts ==
  /\ "MasterSlaveModeConfig" \in DOMAIN EncodeLayout
  /\ EncodeLayout["MasterSlaveModeConfig"] = Octets(4)
  /\ "MotorEnableDisableConfig" \in DOMAIN EncodeLayout
  /\ EncodeLayout["MotorEnableDisableConfig"] = Octets(2)
  /\ "SearchMotorMaxAngleSpdAccLimit" \in DOMAIN EncodeLayout
  /\ EncodeLayout["SearchMotorMaxAngleSpdAccLimit"] = Octets(2)
  /\ "MotorAngleLimitMaxSpdSet" \in DOMAIN EncodeLayout
  /\ EncodeLayout["MotorAngleLimitMaxSpdSet"] = MotorLimit
  /\ "JointConfig" \in DOMAIN EncodeLayout
  /\ EncodeLayout["JointConfig"] = JointConfigLayout
  /\ "ParamEnquiryAndConfig" \in DOMAIN EncodeLayout
  /\ EncodeLayout["ParamEnquiryAndConfig"] = Octets(5)
  /\ "EndVelAccParamConfig" \in DOMAIN EncodeLayout
  /\ EncodeLayout["EndVelAccParamConfig"] = Params
  /\ "CrashProtectionRatingConfig" \in DOMAIN EncodeLayout
  /\ EncodeLayout["CrashProtectionRatingConfig"] = Octets(6)
  /\ "GripperTeachingPendantParamConfig" \in DOMAIN EncodeLayout
  /\ EncodeLayout["GripperTeachingPendantParamConfig"] = Octets(3)
  <1>1. \A t \in DOMAIN ConfigLayout :
          t \notin DOMAIN ControlLayout =>
            t \in DOMAIN EncodeLayout /\ EncodeLayout[t] = ConfigLayout[t]
    BY DEF EncodeLayout, Joined
  <1>2. \A t \in {"MasterSlaveModeConfig", "MotorEnableDisableConfig",
                  "SearchMotorMaxAngleSpdAccLimit", "MotorAngleLimitMaxSpdSet",
                  "JointConfig", "ParamEnquiryAndConfig", "EndVelAccParamConfig",
                  "CrashProtectionRatingConfig",
                  "GripperTeachingPendantParamConfig"} :
          t \in DOMAIN ConfigLayout /\ t \notin DOMAIN ControlLayout
    BY SMT DEF ConfigLayout, ControlLayout, TargetTypes, JointTypes
  <1>3. /\ ConfigLayout["MasterSlaveModeConfig"] = Octets(4)
        /\ ConfigLayout["MotorEnableDisableConfig"] = Octets(2)
        /\ ConfigLayout["SearchMotorMaxAngleSpdAccLimit"] = Octets(2)
        /\ ConfigLayout["MotorAngleLimitMaxSpdSet"] = MotorLimit
        /\ ConfigLayout["JointConfig"] = JointConfigLayout
        /\ ConfigLayout["ParamEnquiryAndConfig"] = Octets(5)
        /\ ConfigLayout["EndVelAccParamConfig"] = Params
        /\ ConfigLayout["CrashProtectionRatingConfig"] = Octets(6)
        /\ ConfigLayout["GripperTeachingPendantParamConfig"] = Octets(3)
    BY SMT DEF ConfigLayout, JointConfigLayout
  <1>4. QED
    BY <1>1, <1>2, <1>3

(* What another controller, or this one, reads of them.                    *)
LEMMA DecodeLayouts ==
  /\ \A t \in JointTypes : t \in DOMAIN DecodeLayout /\ DecodeLayout[t] = Pair
  /\ "MotionCtrl2" \in DOMAIN DecodeLayout /\ DecodeLayout["MotionCtrl2"] = Octets(6)
  /\ "GripperCtrl" \in DOMAIN DecodeLayout /\ DecodeLayout["GripperCtrl"] = GripperLayout
  /\ "FeedbackCurrentMotorAngleLimitMaxSpd" \in DOMAIN DecodeLayout
  /\ DecodeLayout["FeedbackCurrentMotorAngleLimitMaxSpd"] = MotorLimit
  /\ "FeedbackCurrentEndVelAccParam" \in DOMAIN DecodeLayout
  /\ DecodeLayout["FeedbackCurrentEndVelAccParam"] = Params
  /\ "CrashProtectionRatingFeedback" \in DOMAIN DecodeLayout
  /\ DecodeLayout["CrashProtectionRatingFeedback"] = Octets(6)
  /\ "GripperTeachingPendantParamFeedback" \in DOMAIN DecodeLayout
  /\ DecodeLayout["GripperTeachingPendantParamFeedback"] = Octets(3)
  <1> DEFINE T == {"MotionCtrl2", "GripperCtrl", "FeedbackCurrentMotorAngleLimitMaxSpd",
                   "FeedbackCurrentEndVelAccParam", "CrashProtectionRatingFeedback",
                   "GripperTeachingPendantParamFeedback"}
  <1>1. DOMAIN FeedbackLayout = HighSpdTypes \cup LowSpdTypes \cup PoseTypes
                                  \cup {"StatusFeedback", "GripperFeedback"}
    BY DEF FeedbackLayout
  <1>2. \A t \in JointTypes \cup T : t \notin DOMAIN FeedbackLayout
    BY <1>1, SMT DEF JointTypes, HighSpdTypes, LowSpdTypes, PoseTypes
  <1>3. \A t \in JointTypes : t \in DOMAIN DecodeLayout /\ DecodeLayout[t] = Pair
    BY <1>2 DEF DecodeLayout, Joined
  <1>4. \A t \in T : t \in DOMAIN SettingLayout /\ t \notin JointTypes
    BY SMT DEF SettingLayout, JointTypes
  <1>5. \A t \in T : t \in DOMAIN DecodeLayout /\ DecodeLayout[t] = SettingLayout[t]
    BY <1>2, <1>4 DEF DecodeLayout, Joined
  <1>6. /\ SettingLayout["MotionCtrl2"] = Octets(6)
        /\ SettingLayout["GripperCtrl"] = GripperLayout
        /\ SettingLayout["FeedbackCurrentMotorAngleLimitMaxSpd"] = MotorLimit
        /\ SettingLayout["FeedbackCurrentEndVelAccParam"] = Params
        /\ SettingLayout["CrashProtectionRatingFeedback"] = Octets(6)
        /\ SettingLayout["GripperTeachingPendantParamFeedback"] = Octets(3)
    BY SMT DEF SettingLayout, GripperLayout
  <1>7. QED
    BY <1>3, <1>5, <1>6

(* What is written of values that fit is a payload of bytes.               *)
LEMMA WrittenBytes ==
  ASSUME NEW layout, WellFormed(layout), NEW values, Fits(layout, values)
  PROVE  Write(layout, values) \in Payload
  <1>1. ASSUME NEW b \in 0..7, NEW k \in DOMAIN layout, Covers(layout[k], b)
        PROVE  Octet(layout[k], values[k], b) \in Byte
    <2> DEFINE f == layout[k]
               v == values[k]
    <2>1. f.at \in 0..7 /\ f.size \in {1, 2, 4} /\ f.signed \in BOOLEAN
      BY DEF WellFormed, Place
    <2>2. v \in Holds(f)
      BY DEF Fits
    <2> HIDE DEF f, v
    <2>3. v \in Int
      BY <2>1, <2>2, SMT DEF Holds, Weight
    <2>4. f.at + f.size - b \in 1..4
      BY <1>1, <2>1, SMT DEF Covers, f
    <2>5. Weight[f.at + f.size - b] \in {1, 256, 65536, 16777216}
      BY <2>4, SMT DEF Weight
    <2> DEFINE w == Weight[f.at + f.size - b]
               q == v \div w
    <2>6. Octet(f, v, b) = q % 256
      BY DEF Octet
    <2> HIDE DEF w
    <2>7. w = 1 \/ w = 256 \/ w = 65536 \/ w = 16777216
      BY <2>5, SMT DEF w
    <2>8. q \in Int
      BY <2>3, <2>7, SMT
    <2> HIDE DEF q
    <2>9. q % 256 \in Byte
      BY <2>8, SMT DEF Byte
    <2>10. QED
      BY <2>6, <2>9 DEF f, v
  <1>2. ASSUME NEW b \in 0..7
        PROVE  Write(layout, values)[b] \in Byte
    <2> DEFINE at == {k \in DOMAIN layout : Covers(layout[k], b)}
    <2>1. CASE at = {}
      <3>1. Write(layout, values)[b] = 0
        BY <2>1 DEF Write
      <3>2. QED
        BY <3>1, SMT DEF Byte
    <2>2. CASE at # {}
      <3>1. (CHOOSE k \in at : TRUE) \in at
        BY <2>2
      <3>2. Write(layout, values)[b] =
              Octet(layout[CHOOSE k \in at : TRUE], values[CHOOSE k \in at : TRUE], b)
        BY <2>2 DEF Write
      <3>3. QED
        BY <1>1, <3>1, <3>2
    <2>3. QED
      BY <2>1, <2>2
  <1>3. QED
    BY <1>2 DEF Write, Payload

-----------------------------------------------------------------------------
(* Every call of the interface asks for values its message can hold.       *)

(* What a member holds, by its size and sign.                              *)
LEMMA HoldsMeans ==
  ASSUME NEW f \in Place, NEW v \in Int
  PROVE  /\ f.size = 1 /\ ~f.signed => (v \in Holds(f) <=> v >= 0 /\ v <= 255)
         /\ f.size = 2 /\ f.signed => (v \in Holds(f) <=> v >= -32768 /\ v <= 32767)
         /\ f.size = 2 /\ ~f.signed => (v \in Holds(f) <=> v >= 0 /\ v <= 65535)
         /\ f.size = 4 /\ f.signed =>
              (v \in Holds(f) <=> v >= -2147483648 /\ v <= 2147483647)
  <1>1. Weight[1] = 1 /\ Weight[2] = 256 /\ Weight[4] = 16777216
    BY SMT DEF Weight
  <1> DEFINE half == 128 * Weight[f.size]
  <1>2. /\ f.signed => (v \in Holds(f) <=> v \in (-half)..(half - 1))
        /\ ~f.signed => (v \in Holds(f) <=> v \in 0..(2 * half - 1))
    BY DEF Holds
  <1>3. /\ f.size = 1 => half = 128
        /\ f.size = 2 => half = 32768
        /\ f.size = 4 => half = 2147483648
    BY <1>1, SMT
  <1> HIDE DEF half
  <1>4. f.size \in {1, 2, 4} => half \in Int
    BY <1>3, SMT
  <1>5. half \in Int =>
          /\ v \in (-half)..(half - 1) <=> v >= -half /\ v <= half - 1
          /\ v \in 0..(2 * half - 1) <=> v >= 0 /\ v <= 2 * half - 1
    BY SMT
  <1>6. QED
    BY <1>2, <1>3, <1>4, <1>5, SMT DEF Place

LEMMA Ranges ==
  ASSUME NEW a \in 0..7, NEW v \in Int
  PROVE  /\ v >= 0 /\ v <= 255 => v \in Holds(U8(a))
         /\ v >= -32768 /\ v <= 32767 => v \in Holds(S16(a))
         /\ v >= 0 /\ v <= 65535 => v \in Holds(U16(a))
         /\ v >= -2147483648 /\ v <= 2147483647 => v \in Holds(S32(a))
  <1>1. /\ ~U8(a).signed /\ S16(a).signed /\ ~U16(a).signed /\ S32(a).signed
    BY SMT DEF U8, S16, U16, S32
  <1>2. QED
    BY <1>1, Members, HoldsMeans

(* Members of which values are tried: octets are unsigned, longs signed.   *)
Varies(f) == (f.size = 1 => ~f.signed) /\ (f.size = 4 => f.signed)

LEMMA TriedValues ==
  /\ \A v \in OctetValues : v \in Int /\ v >= 0 /\ v <= 255
  /\ \A v \in WordValues : v \in Int /\ v >= -32768 /\ v <= 32767
  /\ \A v \in LongValues : v \in Int /\ v >= -2147483648 /\ v <= 2147483647
  <1>1. \A v \in Byte : v \in Int /\ v >= 0 /\ v <= 255
    BY SMT DEF Byte
  <1>2. \A v \in WordValues : v \in Int /\ v >= -32768 /\ v <= 32767
    BY ValuesAssumption, SMT
  <1>3. \A v \in LongValues : v \in Int /\ v >= -2147483648 /\ v <= 2147483647
    BY ValuesAssumption, SMT
  <1>4. QED
    BY <1>1, <1>2, <1>3, ValuesAssumption

LEMMA TriedAreHeld ==
  ASSUME NEW f \in Place, Varies(f), NEW v \in Tried(f)
  PROVE  v \in Holds(f)
  <1>1. f.size \in {1, 2, 4} /\ f.signed \in BOOLEAN
    BY DEF Place
  <1>2. CASE f.size = 1
    <2>1. v \in OctetValues
      BY <1>2 DEF Tried
    <2>2. QED
      BY <1>2, <2>1, TriedValues, HoldsMeans DEF Varies
  <1>3. CASE f.size = 4
    <2>1. v \in LongValues
      BY <1>3, SMT DEF Tried
    <2>2. QED
      BY <1>3, <2>1, TriedValues, HoldsMeans DEF Varies
  <1>4. CASE f.size = 2 /\ f.signed
    <2>1. v \in WordValues
      BY <1>4, SMT DEF Tried
    <2>2. QED
      BY <1>4, <2>1, TriedValues, HoldsMeans
  <1>5. CASE f.size = 2 /\ ~f.signed
    <2>1. v \in {w % 65536 : w \in WordValues}
      BY <1>5, SMT DEF Tried
    <2>2. PICK w \in WordValues : v = w % 65536
      BY <2>1
    <2>3. w \in Int
      BY TriedValues
    <2>4. v \in Int /\ v >= 0 /\ v <= 65535
      BY <2>2, <2>3, SMT
    <2>5. QED
      BY <1>5, <2>4, HoldsMeans
  <1>6. QED
    BY <1>1, <1>2, <1>3, <1>4, <1>5

(* Changing members of a base that fits leaves one that fits.              *)
LEMMA VariedFit ==
  ASSUME NEW layout, WellFormed(layout),
         \A k \in DOMAIN layout : Varies(layout[k]),
         NEW base, Fits(layout, base), NEW v \in Varied(base, layout)
  PROVE  Fits(layout, v)
  <1>1. DOMAIN base = DOMAIN layout /\ \A k \in DOMAIN layout : base[k] \in Holds(layout[k])
    BY DEF Fits
  <1>2. CASE v = base
    BY <1>2
  <1>3. CASE v # base
    <2>0. PICK j \in DOMAIN base, k \in DOMAIN base :
            \E a \in Tried(layout[j]), b \in Tried(layout[k]) :
              v = [base EXCEPT ![j] = a, ![k] = b]
      BY <1>3 DEF Varied
    <2>1. PICK a \in Tried(layout[j]), b \in Tried(layout[k]) :
            v = [base EXCEPT ![j] = a, ![k] = b]
      BY <2>0
    <2>2. a \in Holds(layout[j]) /\ b \in Holds(layout[k])
      BY <1>1, TriedAreHeld DEF WellFormed
    <2> HIDE DEF Holds
    <2>3. \A i \in DOMAIN layout : v[i] \in Holds(layout[i])
      BY <1>1, <2>1, <2>2
    <2>4. v = [i \in DOMAIN layout |-> v[i]]
      BY <1>1, <2>1
    <2>5. QED
      BY <2>3, <2>4 DEF Fits
  <1>4. QED
    BY <1>2, <1>3

LEMMA OctetsFit ==
  ASSUME NEW n \in 1..8, NEW v, v = [k \in 1..n |-> v[k]],
         \A k \in 1..n : v[k] \in Int /\ v[k] >= 0 /\ v[k] <= 255
  PROVE  Fits(Octets(n), v)
  <1>1. DOMAIN Octets(n) = 1..n /\ \A k \in 1..n : Octets(n)[k] = U8(k - 1) /\ k - 1 \in 0..7
    BY SMT DEF Octets
  <1>2. QED
    BY <1>1, Ranges DEF Fits

LEMMA LayoutsVary ==
  /\ \A k \in DOMAIN Pair : Varies(Pair[k])
  /\ \A k \in DOMAIN Params : Varies(Params[k])
  /\ \A k \in DOMAIN MotorLimit : Varies(MotorLimit[k])
  /\ \A n \in 1..8 : \A k \in DOMAIN Octets(n) : Varies(Octets(n)[k])
  <1>1. \A a \in 0..7 : Varies(U8(a)) /\ Varies(S16(a)) /\ Varies(S32(a))
    BY SMT DEF Varies, U8, S16, S32
  <1>2. \A k \in DOMAIN Pair : Pair[k] \in {S32(0), S32(4)}
    BY DEF Pair
  <1>3. \A k \in DOMAIN Params : Params[k] \in {S16(0), S16(2), S16(4), S16(6)}
    BY DEF Params
  <1>4. \A k \in DOMAIN MotorLimit : MotorLimit[k] \in {U8(0), S16(1), S16(3), S16(5)}
    BY DEF MotorLimit
  <1>5. \A n \in 1..8 : \A k \in DOMAIN Octets(n) : \E a \in 0..7 : Octets(n)[k] = U8(a)
    <2> SUFFICES ASSUME NEW n \in 1..8, NEW k \in DOMAIN Octets(n)
                 PROVE  \E a \in 0..7 : Octets(n)[k] = U8(a)
      OBVIOUS
    <2>1. k \in 1..n /\ Octets(n)[k] = U8(k - 1)
      BY DEF Octets
    <2>2. k - 1 \in 0..7
      BY <2>1, SMT
    <2>3. QED
      BY <2>1, <2>2
  <1>6. QED
    BY <1>1, <1>2, <1>3, <1>4, <1>5, SMT

-----------------------------------------------------------------------------
(* The calls, one kind after another.                                      *)

(* Messages whose members are sent as they were asked for.                 *)
ConfiguringTypes ==
  {"MasterSlaveModeConfig", "MotorEnableDisableConfig",
   "SearchMotorMaxAngleSpdAccLimit", "MotorAngleLimitMaxSpdSet", "JointConfig",
   "ParamEnquiryAndConfig", "EndVelAccParamConfig", "CrashProtectionRatingConfig",
   "GripperTeachingPendantParamConfig"}

PlainTypes ==
  TargetTypes \cup {"MotionCtrl1", "CircularPatternCoordNumUpdateCtrl"}
    \cup ConfiguringTypes

(* What a call asks for that the arm would act on, it names.               *)
NamesWhatItAsks(c) ==
  /\ c.type = "JointConfig" =>
       /\ c.ask[2] = Apply => "zero" \in c.names
       /\ c.ask[3] = Apply => "max_acc" \in c.names
       /\ c.ask[5] = Apply => "clear_error" \in c.names
  /\ c.type = "MotorAngleLimitMaxSpdSet" =>
       /\ c.ask[2] # LeaveUnchanged => "max_angle" \in c.names
       /\ c.ask[3] # LeaveUnchanged => "min_angle" \in c.names
       /\ "max_speed" \in c.names
  /\ c.type = "GripperCtrl" =>
       /\ c.ask[3] \in {1, 3} => "gripper" \in c.names
       /\ c.ask[4] = Apply => "gripper_zero" \in c.names
  /\ c.type = "MotionCtrl1" =>
       /\ c.ask[1] = 1 => "stop" \in c.names
       /\ c.ask[1] = 2 => "resume" \in c.names
       /\ c.ask[2] # 0 => "track" \in c.names
       /\ c.ask[3] # 0 => "drag" \in c.names
  /\ c.type = "ParamEnquiryAndConfig" =>
       /\ c.ask[1] # 0 => "enquiry" \in c.names
       /\ c.ask[2] # 0 => "setting" \in c.names
       /\ c.ask[3] # 0 => "periodic" \in c.names
       /\ c.ask[4] = Apply /\ c.ask[5] # 3 => "end_load" \in c.names

(* A call whose message is plain and holds what it asks for.               *)
Plain(c) ==
  /\ c.type \in PlainTypes
  /\ Fits(EncodeLayout[c.type], c.ask)
  /\ NamesWhatItAsks(c)

(* Types for which there is nothing to name.                               *)
LEMMA NothingToName ==
  ASSUME NEW c,
         c.type \notin {"JointConfig", "MotorAngleLimitMaxSpdSet", "GripperCtrl",
                        "MotionCtrl1", "ParamEnquiryAndConfig"}
  PROVE  NamesWhatItAsks(c)
  BY DEF NamesWhatItAsks

LEMMA MotorCallsPlain ==
  ASSUME NEW c \in MotorCalls
  PROVE  Plain(c)
  <1>1. PICK m \in MotorIndex, flag \in {1, 2} : c = Motor(m, flag)
    BY SMT DEF MotorCalls, EnableRobot, DisableRobot, Motor, MotorIndex
  <1>2. c.type = "MotorEnableDisableConfig" /\ c.ask = <<m, flag>>
    BY <1>1 DEF Motor, Call
  <1>3. Fits(Octets(2), <<m, flag>>)
    <2>1. m \in Int /\ m >= 0 /\ m <= 255
      BY SMT DEF MotorIndex
    <2>2. QED
      BY <2>1, OctetsFit, SMT
  <1>4. NamesWhatItAsks(c)
    BY <1>2, NothingToName
  <1>5. QED
    BY <1>2, <1>3, <1>4, ConfigLayouts DEF Plain, PlainTypes, ConfiguringTypes

LEMMA MasterSlaveCallsPlain ==
  ASSUME NEW c \in MasterSlaveCalls
  PROVE  Plain(c)
  <1>1. PICK role \in {0, \hFA, \hFC}, x, y, z \in {0, \h10, \h20} :
          c = Call("MasterSlaveModeConfig", <<role, x, y, z>>, {})
    BY DEF MasterSlaveCalls
  <1>2. c.type = "MasterSlaveModeConfig" /\ c.ask = <<role, x, y, z>>
    BY <1>1 DEF Call
  <1>3. Fits(Octets(4), <<role, x, y, z>>)
    BY OctetsFit, SMT
  <1>4. NamesWhatItAsks(c)
    BY <1>2, NothingToName
  <1>5. QED
    BY <1>2, <1>3, <1>4, ConfigLayouts DEF Plain, PlainTypes, ConfiguringTypes

LEMMA JointPartCallsPlain ==
  ASSUME NEW c \in JointPartCalls
  PROVE  Plain(c)
  <1>1. PICK t \in TargetTypes : c \in VariedCalls(t, <<1, 2>>, {})
    BY DEF JointPartCalls, TargetTypes, JointTypes
  <1>2. EncodeLayout[t] = Pair
    BY ControlLayouts
  <1>3. PICK v \in Varied(<<1, 2>>, Pair) : c = Call(t, v, {})
    BY <1>1, <1>2 DEF VariedCalls
  <1>4. c.type = t /\ c.ask = v
    BY <1>3 DEF Call
  <1>5. Fits(Pair, <<1, 2>>)
    <2>1. DOMAIN Pair = 1..2 /\ Pair[1] = S32(0) /\ Pair[2] = S32(4)
      BY SMT DEF Pair
    <2>2. 1 \in Holds(S32(0)) /\ 2 \in Holds(S32(4))
      BY Ranges, SMT
    <2>3. QED
      BY <2>1, <2>2, SMT DEF Fits
  <1>6. Fits(Pair, v)
    BY <1>5, VariedFit, LayoutsVary, WideWellFormed
  <1>7. NamesWhatItAsks(c)
    BY <1>4, NothingToName DEF TargetTypes, JointTypes
  <1>8. QED
    BY <1>2, <1>4, <1>6, <1>7 DEF Plain, PlainTypes

LEMMA MotionCtrl1CallsPlain ==
  ASSUME NEW c \in MotionCtrl1Calls
  PROVE  Plain(c)
  <1>1. PICK s \in 0..2, t \in 0..8, d \in 0..7 :
          /\ c.type = "MotionCtrl1" /\ c.ask = <<s, t, d>>
          /\ s = 1 => "stop" \in c.names
          /\ s = 2 => "resume" \in c.names
          /\ t # 0 => "track" \in c.names
          /\ d # 0 => "drag" \in c.names
    <2>1. CASE c = ResetPiper
      <3>1. c.type = "MotionCtrl1" /\ c.ask = <<2, 0, 0>> /\ "resume" \in c.names
        BY <2>1 DEF ResetPiper, Call
      <3>2. QED
        BY <3>1, SMT
    <2>2. CASE c # ResetPiper
      <3>1. PICK s \in 0..2, t \in 0..8, d \in 0..7 : c = MotionCtrl1(s, t, d)
        BY <2>2 DEF MotionCtrl1Calls
      <3>2. c.type = "MotionCtrl1" /\ c.ask = <<s, t, d>>
        BY <3>1 DEF MotionCtrl1, Call
      <3>3. c.names = (CASE s = 1 -> {"stop"} [] s = 2 -> {"resume"} [] OTHER -> {})
                        \cup (IF t = 0 THEN {} ELSE {"track"})
                        \cup (IF d = 0 THEN {} ELSE {"drag"})
        BY <3>1 DEF MotionCtrl1, Call
      <3>4. /\ s = 1 => "stop" \in c.names
            /\ s = 2 => "resume" \in c.names
            /\ t # 0 => "track" \in c.names
            /\ d # 0 => "drag" \in c.names
        BY <3>3, SMT
      <3>5. QED
        BY <3>2, <3>4
    <2>3. QED
      BY <2>1, <2>2
  <1>2. Fits(Octets(3), <<s, t, d>>)
    BY OctetsFit, SMT
  <1>3. c.ask[1] = s /\ c.ask[2] = t /\ c.ask[3] = d
    BY <1>1
  <1>4. NamesWhatItAsks(c)
    BY <1>1, <1>3 DEF NamesWhatItAsks
  <1>5. QED
    BY <1>1, <1>2, <1>4, ControlLayouts DEF Plain, PlainTypes

LEMMA CircularCallsPlain ==
  ASSUME NEW c \in CircularCalls
  PROVE  Plain(c)
  <1>1. PICK p \in 0..3 : c = Call("CircularPatternCoordNumUpdateCtrl", <<p>>, {})
    BY DEF CircularCalls
  <1>2. c.type = "CircularPatternCoordNumUpdateCtrl" /\ c.ask = <<p>>
    BY <1>1 DEF Call
  <1>3. Fits(Octets(1), <<p>>)
    BY OctetsFit, SMT
  <1>4. NamesWhatItAsks(c)
    BY <1>2, NothingToName
  <1>5. QED
    BY <1>2, <1>3, <1>4, ControlLayouts DEF Plain, PlainTypes

LEMMA JointConfigCallsPlain ==
  ASSUME NEW c \in JointConfigCalls
  PROVE  Plain(c)
  <1>1. PICK m \in MotorIndex :
          \/ c = SetJointAsCurrentZero(m)
          \/ c = ClearJointError(m)
          \/ \E acc \in {0, 255, 256, 500} : c = SetJointMaxAcc(m, acc)
    BY DEF JointConfigCalls
  <1> DEFINE asks == \E zero \in {0, Apply}, effective \in {0, Apply},
                       acc \in {0, 255, 256, 500}, clear \in {0, Apply} :
                        /\ c.type = "JointConfig"
                        /\ c.ask = <<m, zero, effective, acc, clear>>
                        /\ zero = Apply => "zero" \in c.names
                        /\ effective = Apply => "max_acc" \in c.names
                        /\ clear = Apply => "clear_error" \in c.names
  <1>2. asks
    <2>1. ASSUME c = SetJointAsCurrentZero(m) PROVE asks
      <3>1. c.type = "JointConfig" /\ c.ask = <<m, Apply, 0, 0, 0>> /\ c.names = {"zero"}
        BY <2>1 DEF SetJointAsCurrentZero, JointConfig, Call
      <3>2. QED
        BY <3>1, SMT DEF Apply
    <2>2. ASSUME c = ClearJointError(m) PROVE asks
      <3>1. c.type = "JointConfig" /\ c.ask = <<m, 0, 0, 0, Apply>> /\ c.names = {"clear_error"}
        BY <2>2 DEF ClearJointError, JointConfig, Call
      <3>2. QED
        BY <3>1, SMT DEF Apply
    <2>3. ASSUME NEW acc \in {0, 255, 256, 500}, c = SetJointMaxAcc(m, acc) PROVE asks
      <3>1. c.type = "JointConfig" /\ c.ask = <<m, 0, Apply, acc, 0>> /\ c.names = {"max_acc"}
        BY <2>3 DEF SetJointMaxAcc, JointConfig, Call
      <3>2. QED
        BY <3>1, SMT DEF Apply
    <2> HIDE DEF asks
    <2>4. QED
      BY <1>1, <2>1, <2>2, <2>3
  <1>2a. PICK zero \in {0, Apply}, effective \in {0, Apply}, acc \in {0, 255, 256, 500},
              clear \in {0, Apply} :
           /\ c.type = "JointConfig"
           /\ c.ask = <<m, zero, effective, acc, clear>>
           /\ zero = Apply => "zero" \in c.names
           /\ effective = Apply => "max_acc" \in c.names
           /\ clear = Apply => "clear_error" \in c.names
    BY <1>2
  <1>3. Fits(JointConfigLayout, <<m, zero, effective, acc, clear>>)
    <2>1. /\ m \in Int /\ m >= 0 /\ m <= 255
          /\ zero \in Int /\ zero >= 0 /\ zero <= 255
          /\ effective \in Int /\ effective >= 0 /\ effective <= 255
          /\ acc \in Int /\ acc >= 0 /\ acc <= 65535
          /\ clear \in Int /\ clear >= 0 /\ clear <= 255
      BY SMT DEF MotorIndex, Apply
    <2>2. /\ m \in Holds(U8(0)) /\ zero \in Holds(U8(1)) /\ effective \in Holds(U8(2))
          /\ acc \in Holds(U16(3)) /\ clear \in Holds(U8(5))
      BY <2>1, Ranges, SMT
    <2>3. QED
      BY <2>2, SMT DEF Fits, JointConfigLayout
  <1>4. /\ c.ask[2] = zero /\ c.ask[3] = effective /\ c.ask[5] = clear
    BY <1>2a
  <1>5. NamesWhatItAsks(c)
    BY <1>2a, <1>4 DEF NamesWhatItAsks
  <1>6. QED
    BY <1>2a, <1>3, <1>5, ConfigLayouts DEF Plain, PlainTypes, ConfiguringTypes

LEMMA MotorLimitFit ==
  ASSUME NEW m \in Int, m >= 0, m <= 255,
         NEW x \in Int, x >= -32768, x <= 32767,
         NEW y \in Int, y >= -32768, y <= 32767,
         NEW s \in Int, s >= -32768, s <= 32767
  PROVE  Fits(MotorLimit, <<m, x, y, s>>)
  <1>1. m \in Holds(U8(0)) /\ x \in Holds(S16(1)) /\ y \in Holds(S16(3)) /\ s \in Holds(S16(5))
    BY Ranges, SMT
  <1>2. QED
    BY <1>1, SMT DEF Fits, MotorLimit

LEMMA MotorLimitCallsPlain ==
  ASSUME NEW c \in MotorLimitCalls
  PROVE  Plain(c)
  <1>1. PICK v : /\ c.type = "MotorAngleLimitMaxSpdSet" /\ c.ask = v
                 /\ Fits(MotorLimit, v)
                 /\ v[2] # LeaveUnchanged => "max_angle" \in c.names
                 /\ v[3] # LeaveUnchanged => "min_angle" \in c.names
                 /\ "max_speed" \in c.names
    <2>1. CASE c \in VariedCalls("MotorAngleLimitMaxSpdSet", <<2, 1500, -1500, 300>>,
                                 {"max_angle", "min_angle", "max_speed"})
      <3>1. PICK v \in Varied(<<2, 1500, -1500, 300>>, MotorLimit) :
              c = Call("MotorAngleLimitMaxSpdSet", v, {"max_angle", "min_angle", "max_speed"})
        BY <2>1, ConfigLayouts DEF VariedCalls
      <3>2. Fits(MotorLimit, <<2, 1500, -1500, 300>>)
        BY MotorLimitFit, SMT
      <3>3. Fits(MotorLimit, v)
        BY <3>2, VariedFit, LayoutsVary, WideWellFormed
      <3>4. QED
        BY <3>1, <3>3 DEF Call
    <2>2. CASE c \in {SetMotorMaxSpeed(m, s) : m \in MotorIndex, s \in WordValues}
      <3>1. PICK m \in MotorIndex, s \in WordValues : c = SetMotorMaxSpeed(m, s)
        BY <2>2
      <3>2. /\ c.type = "MotorAngleLimitMaxSpdSet" /\ c.names = {"max_speed"}
            /\ c.ask = <<m, LeaveUnchanged, LeaveUnchanged, s>>
        BY <3>1 DEF SetMotorMaxSpeed, Call
      <3>3. m \in Int /\ m >= 0 /\ m <= 255
        BY SMT DEF MotorIndex
      <3>4. s \in Int /\ s >= -32768 /\ s <= 32767
        BY TriedValues
      <3>5. LeaveUnchanged = 32767
        BY SMT DEF LeaveUnchanged
      <3>6. Fits(MotorLimit, c.ask)
        BY <3>2, <3>3, <3>4, <3>5, MotorLimitFit, SMT
      <3>7. c.ask[2] = LeaveUnchanged /\ c.ask[3] = LeaveUnchanged
        BY <3>2
      <3>8. QED
        BY <3>2, <3>6, <3>7
    <2>3. QED
      BY <2>1, <2>2 DEF MotorLimitCalls
  <1>2. NamesWhatItAsks(c)
    BY <1>1 DEF NamesWhatItAsks
  <1>3. QED
    BY <1>1, <1>2, ConfigLayouts DEF Plain, PlainTypes, ConfiguringTypes

LEMMA ParamCallsPlain ==
  ASSUME NEW c \in ParamCalls
  PROVE  Plain(c)
  <1>1. CASE c \in VariedCalls("EndVelAccParamConfig", <<1, 2, 3, 4>>, {})
    <2>1. PICK v \in Varied(<<1, 2, 3, 4>>, Params) : c = Call("EndVelAccParamConfig", v, {})
      BY <1>1, ConfigLayouts DEF VariedCalls
    <2>2. 1 \in Holds(S16(0)) /\ 2 \in Holds(S16(2)) /\ 3 \in Holds(S16(4)) /\ 4 \in Holds(S16(6))
      BY Ranges, SMT
    <2>3. Fits(Params, <<1, 2, 3, 4>>)
      BY <2>2, SMT DEF Fits, Params
    <2>4. Fits(Params, v)
      BY <2>3, VariedFit, LayoutsVary, WideWellFormed
    <2>5. c.type = "EndVelAccParamConfig" /\ c.ask = v
      BY <2>1 DEF Call
    <2>6. QED
      BY <2>4, <2>5, NothingToName, ConfigLayouts DEF Plain, PlainTypes, ConfiguringTypes
  <1>2. CASE c \in VariedCalls("CrashProtectionRatingConfig", <<1, 2, 3, 4, 5, 6>>, {})
    <2>1. PICK v \in Varied(<<1, 2, 3, 4, 5, 6>>, Octets(6)) :
            c = Call("CrashProtectionRatingConfig", v, {})
      BY <1>2, ConfigLayouts DEF VariedCalls
    <2>2. Fits(Octets(6), <<1, 2, 3, 4, 5, 6>>)
      BY OctetsFit, SMT
    <2>3. Fits(Octets(6), v)
      BY <2>2, VariedFit, LayoutsVary, OctetsWellFormed
    <2>4. c.type = "CrashProtectionRatingConfig" /\ c.ask = v
      BY <2>1 DEF Call
    <2>5. QED
      BY <2>3, <2>4, NothingToName, ConfigLayouts DEF Plain, PlainTypes, ConfiguringTypes
  <1>3. CASE c \in VariedCalls("GripperTeachingPendantParamConfig", <<100, 70, 1>>, {})
    <2>1. PICK v \in Varied(<<100, 70, 1>>, Octets(3)) :
            c = Call("GripperTeachingPendantParamConfig", v, {})
      BY <1>3, ConfigLayouts DEF VariedCalls
    <2>2. Fits(Octets(3), <<100, 70, 1>>)
      BY OctetsFit, SMT
    <2>3. Fits(Octets(3), v)
      BY <2>2, VariedFit, LayoutsVary, OctetsWellFormed
    <2>4. c.type = "GripperTeachingPendantParamConfig" /\ c.ask = v
      BY <2>1 DEF Call
    <2>5. QED
      BY <2>3, <2>4, NothingToName, ConfigLayouts DEF Plain, PlainTypes, ConfiguringTypes
  <1>4. QED
    BY <1>1, <1>2, <1>3 DEF ParamCalls

LEMMA EnquiryCallsPlain ==
  ASSUME NEW c \in EnquiryCalls
  PROVE  Plain(c)
  <1>1. PICK e \in 0..4, s \in 0..2, p \in 0..2, effective \in {0, Apply}, load \in 0..3 :
          c = ParamEnquiryAndConfig(e, s, p, effective, load)
    BY SMT DEF EnquiryCalls
  <1> USE DEF ParamEnquiryAndConfig
  <1>2. c.type = "ParamEnquiryAndConfig" /\ c.ask = <<e, s, p, effective, load>>
    BY <1>1 DEF Call
  <1>3. /\ e # 0 => "enquiry" \in c.names
        /\ s # 0 => "setting" \in c.names
        /\ p # 0 => "periodic" \in c.names
        /\ effective = Apply /\ load # 3 => "end_load" \in c.names
    BY <1>1 DEF Call
  <1>4. Fits(Octets(5), <<e, s, p, effective, load>>)
    <2>1. effective \in Int /\ effective >= 0 /\ effective <= 255
      BY SMT DEF Apply
    <2>2. QED
      BY <2>1, OctetsFit, SMT
  <1>5. /\ c.ask[1] = e /\ c.ask[2] = s /\ c.ask[3] = p
        /\ c.ask[4] = effective /\ c.ask[5] = load
    BY <1>2
  <1>6. NamesWhatItAsks(c)
    BY <1>2, <1>3, <1>5 DEF NamesWhatItAsks
  <1>7. QED
    BY <1>2, <1>4, <1>6, ConfigLayouts DEF Plain, PlainTypes, ConfiguringTypes

LEMMA SearchCallsPlain ==
  ASSUME NEW c \in SearchCalls
  PROVE  Plain(c)
  <1>1. PICK m \in 1..6, what \in {1, 2} :
          c = Call("SearchMotorMaxAngleSpdAccLimit", <<m, what>>, {})
    BY DEF SearchCalls
  <1>2. c.type = "SearchMotorMaxAngleSpdAccLimit" /\ c.ask = <<m, what>>
    BY <1>1 DEF Call
  <1>3. Fits(Octets(2), <<m, what>>)
    BY OctetsFit, SMT
  <1>4. NamesWhatItAsks(c)
    BY <1>2, NothingToName
  <1>5. QED
    BY <1>2, <1>3, <1>4, ConfigLayouts DEF Plain, PlainTypes, ConfiguringTypes

(* The three kinds of calls whose message is not what was asked for.       *)
LEMMA MotionCtrl2CallsFit ==
  ASSUME NEW c \in MotionCtrl2Calls
  PROVE  c.type = "MotionCtrl2" /\ Fits(Octets(6), c.ask)
  <1>1. PICK v \in Varied(AsValues(DefaultCommand), Octets(6)) : c = Call("MotionCtrl2", v, {})
    BY ControlLayouts DEF MotionCtrl2Calls, VariedCalls
  <1>2. Fits(Octets(6), AsValues(DefaultCommand))
    <2> DEFINE default == AsValues(DefaultCommand)
    <2>1. \A k \in 1..6 : CommandFields[k] \in Field
      BY SMT DEF CommandFields, Field
    <2>2. ASSUME NEW k \in 1..6
          PROVE  default[k] \in Int /\ default[k] >= 0 /\ default[k] <= 255
      <3> DEFINE f == CommandFields[k]
      <3>1. f \in Field
        BY <2>1
      <3>2. default[k] = DefaultCommand[f]
        BY DEF AsValues
      <3> HIDE DEF f, default
      <3>3. QED
        BY <3>1, <3>2, SMT DEF DefaultCommand, Field
    <2>3. default = [k \in 1..6 |-> default[k]]
      BY DEF AsValues
    <2> HIDE DEF default
    <2>4. Fits(Octets(6), default)
      BY <2>2, <2>3, OctetsFit, SMT
    <2>5. QED
      BY <2>4 DEF default
  <1>3. Fits(Octets(6), v)
    BY <1>2, VariedFit, LayoutsVary, OctetsWellFormed
  <1>4. QED
    BY <1>1, <1>3 DEF Call

(* A gripper command, member by member.                                    *)
GripperAsk(c, a, e, s, z, mode) ==
  /\ c.type = "GripperCtrl"
  /\ c.ask = <<a, e, s, z, mode>>
  /\ a \in Int /\ a >= -2147483648 /\ a <= 2147483647
  /\ e \in Int /\ e >= 0 /\ e <= 65535
  /\ s \in 0..3 /\ z \in {0, Apply} /\ mode \in {Width, Angle}

LEMMA GripperCallsFit ==
  ASSUME NEW c \in GripperCalls
  PROVE  /\ \E a, e, s, z, mode : GripperAsk(c, a, e, s, z, mode)
         /\ NamesWhatItAsks(c)
  <1>1. CASE c = SetGripperZero
    <2>1. /\ c.type = "GripperCtrl" /\ c.ask = <<0, 0, 0, Apply, Width>>
          /\ c.names = {"gripper_zero"}
      BY <1>1 DEF SetGripperZero, Call
    <2>2. GripperAsk(c, 0, 0, 0, Apply, Width)
      BY <2>1, SMT DEF GripperAsk, Width, Angle, Apply
    <2>3. c.ask[3] = 0
      BY <2>1
    <2>4. NamesWhatItAsks(c)
      BY <2>1, <2>3, SMT DEF NamesWhatItAsks
    <2>5. QED
      BY <2>2, <2>4
  <1>2. CASE c # SetGripperZero
    <2>1. PICK mode \in {Width, Angle}, a \in LongValues,
               e \in {0, 255, 256, 5000, 5001, 65535}, s \in 0..3 :
            c = GripperCtrl(mode, a, e, s)
      BY <1>2 DEF GripperCalls
    <2>2. /\ c.type = "GripperCtrl" /\ c.ask = <<a, e, s, 0, mode>>
          /\ c.names = IF s \in {1, 3} THEN {"gripper"} ELSE {}
      BY <2>1 DEF GripperCtrl, Call
    <2>3. e \in Int /\ e >= 0 /\ e <= 65535
      BY SMT
    <2>4. GripperAsk(c, a, e, s, 0, mode)
      BY <2>2, <2>3, TriedValues DEF GripperAsk
    <2>5. c.ask[3] = s /\ c.ask[4] = 0 /\ 0 # Apply
      BY <2>2, SMT DEF Apply
    <2>6. NamesWhatItAsks(c)
      BY <2>2, <2>5 DEF NamesWhatItAsks
    <2>7. QED
      BY <2>4, <2>6
  <1>3. QED
    BY <1>1, <1>2

LEMMA MitCallsFit ==
  ASSUME NEW c \in MitCalls
  PROVE  /\ c.type \in MitTypes
         /\ \A k \in 1..5 : c.ask[k] \in Int
  <1> DEFINE type == {"JointMitCtrl1", "JointMitCtrl6"}
             tried(j, k) == {[MitBase EXCEPT ![j] = a, ![k] = b] : a, b \in MitValues}
             asks == UNION {tried(j, k) : j, k \in 1..5}
  <1>0. MitCalls = {Call(t, v, {}) : t \in type, v \in asks}
    BY SMT DEF MitCalls
  <1> HIDE DEF type, asks
  <1>1. PICK t \in type, v \in asks : c = Call(t, v, {})
    BY <1>0, SMT
  <1>2. PICK j \in 1..5, k \in 1..5 : v \in tried(j, k)
    BY <1>1, SMT DEF asks
  <1>3. PICK a \in MitValues, b \in MitValues : v = [MitBase EXCEPT ![j] = a, ![k] = b]
    BY <1>2
  <1>4. MitBase \in [1..5 -> Int]
    BY SMT DEF MitBase
  <1>5. a \in Int /\ b \in Int
    BY ValuesAssumption
  <1>6. v \in [1..5 -> Int]
    BY <1>3, <1>4, <1>5
  <1>7. c.type = t /\ c.ask = v
    BY <1>1 DEF Call
  <1>8. QED
    BY <1>6, <1>7 DEF MitTypes, type

-----------------------------------------------------------------------------
(* MIT commands: the quantities, quantized, packed and unpacked.           *)

LEMMA Division ==
  ASSUME NEW n \in Int, NEW s \in Nat \ {0}
  PROVE  n \div s \in Int /\ s * (n \div s) <= n /\ n < s * (n \div s) + s
  BY SMT

LEMMA Quotient ==
  ASSUME NEW s \in Nat \ {0}, NEW q \in Int, NEW t \in Int, s * q < s * t + s
  PROVE  q <= t
  <1> SUFFICES ASSUME q >= t + 1 PROVE FALSE
    BY SMT
  <1>1. s * (q - t - 1) >= 0
    BY SMT
  <1>2. s * (q - t - 1) = s * q - s * t - s
    BY SMT
  <1>3. QED
    BY <1>1, <1>2, SMT

LEMMA Product ==
  ASSUME NEW x \in Nat, NEW y \in Nat, NEW t \in Nat, x <= y
  PROVE  x * t \in Nat /\ x * t <= y * t
  <1>1. (y - x) * t >= 0 /\ (y - x) * t = y * t - x * t
    BY SMT
  <1>2. x * t \in Nat /\ y * t \in Nat
    BY SMT
  <1>3. QED
    BY <1>1, <1>2, SMT

(* The step x of span, scaled to top and divided: V3 truncates.            *)
LEMMA Truncated ==
  ASSUME NEW span \in Nat \ {0}, NEW top \in Nat, NEW x \in Nat, x <= span,
         NEW q \in Int, q = (x * top) \div span
  PROVE  /\ q >= 0 /\ q <= top
         /\ x = 0 => q = 0
         /\ x = span => q = top
         /\ x * top - q * span >= 0 /\ x * top - q * span < span
  <1> DEFINE n == x * top
             m == span * q
  <1>1. n \in Nat /\ n <= span * top
    BY Product
  <1>2. m <= n /\ n < m + span
    BY <1>1, Division
  <1>3. span * q < span * top + span
    BY <1>1, <1>2, SMT
  <1>4. span * 0 < span * q + span
    BY <1>1, <1>2, SMT
  <1>5. q >= 0 /\ q <= top
    BY <1>3, <1>4, Quotient, SMT
  <1>6. x = 0 => q = 0
    <2>1. x = 0 => n = 0
      BY SMT
    <2>2. x = 0 => span * q < span * 0 + span
      BY <1>2, <2>1, SMT
    <2>3. QED
      BY <1>5, <2>2, Quotient, SMT
  <1>7. x = span => q = top
    <2>1. x = span => span * top < span * q + span
      BY <1>2, SMT
    <2>2. QED
      BY <1>5, <2>1, Quotient, SMT
  <1>8. q * span = m
    BY SMT
  <1>9. QED
    BY <1>1, <1>2, <1>5, <1>6, <1>7, <1>8, SMT

(* V2 rounds to the nearest.                                               *)
IsNearest(span, top, x, q) ==
  /\ q >= 0 /\ q <= top
  /\ x = 0 => q = 0
  /\ x = span => q = top
  /\ 2 * (x * top - q * span) >= -span /\ 2 * (x * top - q * span) <= span

LEMMA Rounded ==
  ASSUME NEW span \in Nat \ {0}, NEW top \in Nat, NEW x \in Nat, x <= span,
         NEW q \in Int, q = (x * top + span \div 2) \div span
  PROVE  IsNearest(span, top, x, q)
  <1> DEFINE n == x * top
             m == span * q
             h == span \div 2
  <1>1. n \in Nat /\ n <= span * top
    BY Product
  <1>2. h \in Nat /\ 2 * h <= span /\ 2 * h >= span - 1 /\ h < span
    BY SMT
  <1>3. m <= n + h /\ n + h < m + span
    BY <1>1, <1>2, Division
  <1> HIDE DEF h
  <1>4. span * q < span * top + span
    BY <1>1, <1>2, <1>3, SMT
  <1>5. span * 0 < span * q + span
    BY <1>1, <1>2, <1>3, SMT
  <1>6. q >= 0 /\ q <= top
    BY <1>4, <1>5, Quotient, SMT
  <1>7. x = 0 => q = 0
    <2>1. x = 0 => n = 0
      BY SMT
    <2>2. x = 0 => span * q < span * 0 + span
      BY <1>2, <1>3, <2>1, SMT
    <2>3. QED
      BY <1>6, <2>2, Quotient, SMT
  <1>8. x = span => q = top
    <2>1. x = span => span * top < span * q + span
      BY <1>2, <1>3, SMT
    <2>2. QED
      BY <1>6, <2>1, Quotient, SMT
  <1>9. q * span = m /\ m \in Int
    BY SMT
  <1>10. 2 * (n - m) >= -span /\ 2 * (n - m) <= span
    <2> HIDE DEF n, m
    <2>1. QED
      BY <1>1, <1>2, <1>3, <1>9, SMT
  <1>11. QED
    BY <1>6, <1>7, <1>8, <1>9, <1>10, SMT DEF IsNearest

(* Ranges of which something is left between their ends.                   *)
MitRanges == [min : Int, max : Int, top : Nat]

LEMMA RangeType ==
  ASSUME NEW p \in Protocols, NEW k \in 1..5
  PROVE  /\ MitRange(p)[k] \in MitRanges
         /\ MitRange(p)[k].min < MitRange(p)[k].max
  <1>1. MitRange(p)[k] \in
          {[min |-> -125, max |-> 125, top |-> 65535],
           [min |-> -450, max |-> 450, top |-> 4095],
           [min |-> 0, max |-> 5000, top |-> 4095],
           [min |-> -50, max |-> 50, top |-> 4095],
           [min |-> -80, max |-> 80, top |-> 255],
           [min |-> -160, max |-> 160, top |-> 4095]}
    BY SMT DEF MitRange
  <1>2. \A r \in {[min |-> -125, max |-> 125, top |-> 65535],
                  [min |-> -450, max |-> 450, top |-> 4095],
                  [min |-> 0, max |-> 5000, top |-> 4095],
                  [min |-> -50, max |-> 50, top |-> 4095],
                  [min |-> -80, max |-> 80, top |-> 255],
                  [min |-> -160, max |-> 160, top |-> 4095]} :
          r \in MitRanges /\ r.min < r.max
    BY SMT DEF MitRanges
  <1>3. QED
    BY <1>1, <1>2

LEMMA Tops ==
  ASSUME NEW p \in Protocols
  PROVE  /\ MitRange(p)[1].top = 65535
         /\ MitRange(p)[2].top = 4095 /\ MitRange(p)[3].top = 4095
         /\ MitRange(p)[4].top = 4095
         /\ MitRange(p)[5].top = IF p = 2 THEN 255 ELSE 4095
  BY SMT DEF MitRange

(* One quantity: its code is in range, and as near as the version's way of *)
(* rounding brings it.                                                     *)
LEMMA Quantized ==
  ASSUME NEW p \in Protocols, NEW r \in MitRanges, r.min < r.max, NEW a \in Int
  PROVE  LET code == FloatToUintRange(p, r, a)
             span == r.max - r.min
             error == (a - r.min) * r.top - code * span
         IN  /\ code \in Int /\ code >= 0 /\ code <= r.top
             /\ a <= r.min => code = 0
             /\ a >= r.max => code = r.top
             /\ r.min < a /\ a < r.max /\ p = 2 => 2 * error >= -span /\ 2 * error <= span
             /\ r.min < a /\ a < r.max /\ p # 2 => error >= 0 /\ error < span
  <1> DEFINE code == FloatToUintRange(p, r, a)
             span == r.max - r.min
             x == Clamp(r, a) - r.min
  <1>1. r.min \in Int /\ r.max \in Int /\ r.top \in Nat
    BY DEF MitRanges
  <1>2. /\ span \in Nat \ {0} /\ x \in Nat /\ x <= span
        /\ a <= r.min => x = 0
        /\ a >= r.max => x = span
        /\ r.min < a /\ a < r.max => x = a - r.min
    BY <1>1, SMT DEF Clamp
  <1>3. code = IF p = 2 THEN (x * r.top + span \div 2) \div span ELSE (x * r.top) \div span
    BY DEF FloatToUintRange, UintRange
  <1>4. code \in Int
    BY <1>1, <1>2, <1>3, SMT
  <1> DEFINE top == r.top
  <1> HIDE DEF code, span, x, top
  <1>5. CASE p = 2
    <2>1. code = (x * top + span \div 2) \div span
      BY <1>3, <1>5 DEF top
    <2>2. IsNearest(span, top, x, code)
      <3>1. top \in Nat
        BY <1>1 DEF top
      <3>2. span \in Nat \ {0} /\ x \in Nat /\ x <= span
        BY <1>2
      <3>3. QED
        BY <1>4, <2>1, <3>1, <3>2, Rounded
    <2>3. QED
      BY <1>2, <1>4, <1>5, <2>2 DEF IsNearest, code, span, top
  <1>6. CASE p # 2
    <2>1. code = (x * top) \div span
      BY <1>3, <1>6 DEF top
    <2>2. /\ code >= 0 /\ code <= top
          /\ x = 0 => code = 0
          /\ x = span => code = top
          /\ x * top - code * span >= 0 /\ x * top - code * span < span
      <3>1. top \in Nat
        BY <1>1 DEF top
      <3>2. QED
        BY <1>2, <1>4, <2>1, <3>1, Truncated
    <2>3. QED
      BY <1>2, <1>4, <1>6, <2>2 DEF code, span, top
  <1>7. QED
    BY <1>5, <1>6

(* The checksum is a nibble.                                               *)
LEMMA CrcType ==
  ASSUME NEW bytes
  PROVE  Crc(bytes) \in Int /\ Crc(bytes) >= 0 /\ Crc(bytes) <= 15
  <1> DEFINE Odd(w) == {i \in 1..7 : (bytes[i] \div w) % 2 = 1}
             B(w) == Cardinality(Odd(w)) % 2
  <1>1. ASSUME NEW w PROVE B(w) \in Int /\ B(w) >= 0 /\ B(w) <= 1
    <2>1. Odd(w) \in SUBSET (1..7)
      OBVIOUS
    <2> HIDE DEF Odd
    <2>2. IsFiniteSet(Odd(w))
      <3>1. IsFiniteSet(1..7)
        <4>1. 1 \in Int /\ 7 \in Int
          BY SMT
        <4>2. QED
          BY <4>1, FS_Interval, Zenon
      <3>2. QED
        BY <2>1, <3>1, FS_Subset, Zenon
    <2>3. Cardinality(Odd(w)) \in Nat
      BY <2>2, FS_CardinalityType
    <2>4. QED
      BY <2>3, SMT
  <1>2. Crc(bytes) = 1 * B(1) + 2 * B(2) + 4 * B(4) + 8 * B(8)
    BY DEF Crc
  <1> HIDE DEF B
  <1>3. QED
    BY <1>1, <1>2, SMT

LEMMA Nibbles ==
  ASSUME NEW h \in Int, h >= 0, h <= 15, NEW l \in Int, l >= 0, l <= 15
  PROVE  /\ (h * 16 + l) \div 16 = h /\ (h * 16 + l) % 16 = l
         /\ h * 16 + l >= 0 /\ h * 16 + l <= 255
  BY SMT

LEMMA Split ==
  ASSUME NEW v \in Int, v >= 0
  PROVE  /\ v <= 65535 => ((v \div 256) % 256) * 256 + (v % 256) = v
         /\ v <= 4095 => ((v \div 16) % 256) * 16 + (v % 16) = v
         /\ v <= 4095 => ((v \div 256) % 16) * 256 + (v % 256) = v
         /\ v <= 255 => ((v \div 16) % 16) * 16 + (v % 16) = v
  <1>1. v <= 65535 => ((v \div 256) % 256) * 256 + (v % 256) = v
    BY SMT
  <1>2. v <= 4095 => ((v \div 16) % 256) * 16 + (v % 16) = v
    BY SMT
  <1>3. v <= 4095 => ((v \div 256) % 16) * 256 + (v % 256) = v
    BY SMT
  <1>4. v <= 255 => ((v \div 16) % 16) * 16 + (v % 16) = v
    BY SMT
  <1>5. QED
    BY <1>1, <1>2, <1>3, <1>4

LEMMA Remainders ==
  ASSUME NEW v \in Int
  PROVE  /\ v % 256 \in Int /\ v % 256 >= 0 /\ v % 256 <= 255
         /\ v % 16 \in Int /\ v % 16 >= 0 /\ v % 16 <= 15
         /\ v \div 256 \in Int /\ v \div 16 \in Int
  BY SMT

(* Five codes in range are packed side by side and told apart again, and   *)
(* V2's checksum is that of the bytes before it.                           *)
LEMMA MitPacking ==
  ASSUME NEW p \in Protocols, NEW v,
         \A k \in 1..5 : v[k] \in Int /\ v[k] >= 0 /\ v[k] <= MitRange(p)[k].top
  PROVE  LET d == WriteMit(p, v)
         IN  /\ d \in Payload
             /\ \A k \in 1..5 : MitCodes(p, d)[k] = v[k]
             /\ p = 2 => d[7] % 16 = Crc([k \in 1..7 |-> d[k - 1]])
  <1> DEFINE d == WriteMit(p, v)
             low == IF p = 2 THEN (v[5] \div 16) % 16 ELSE (v[5] \div 256) % 16
             g == WriteMitGains(v)
             bytes == [g EXCEPT ![7] = g[7] + ((v[5] \div (IF p = 2 THEN 16 ELSE 256)) % 16)]
             crc == Crc(bytes)
  <1>1. /\ v[1] \in Int /\ v[1] >= 0 /\ v[1] <= 65535
        /\ v[2] \in Int /\ v[2] >= 0 /\ v[2] <= 4095
        /\ v[3] \in Int /\ v[3] >= 0 /\ v[3] <= 4095
        /\ v[4] \in Int /\ v[4] >= 0 /\ v[4] <= 4095
        /\ v[5] \in Int /\ v[5] >= 0 /\ v[5] <= IF p = 2 THEN 255 ELSE 4095
    <2>1. v[1] \in Int /\ v[1] >= 0 /\ v[1] <= 65535
      BY Tops, SMT
    <2>2. v[2] \in Int /\ v[2] >= 0 /\ v[2] <= 4095
      BY Tops, SMT
    <2>3. v[3] \in Int /\ v[3] >= 0 /\ v[3] <= 4095
      BY Tops, SMT
    <2>4. v[4] \in Int /\ v[4] >= 0 /\ v[4] <= 4095
      BY Tops, SMT
    <2>5. v[5] \in Int /\ v[5] >= 0 /\ v[5] <= IF p = 2 THEN 255 ELSE 4095
      BY Tops, SMT
    <2>6. QED
      BY <2>1, <2>2, <2>3, <2>4, <2>5
  <1>2. /\ g = <<(v[1] \div 256) % 256, v[1] % 256, (v[2] \div 16) % 256,
                 (v[2] % 16) * 16 + ((v[3] \div 256) % 16), v[3] % 256,
                 (v[4] \div 16) % 256, (v[4] % 16) * 16>>
    BY DEF WriteMitGains
  <1>3. /\ bytes = [k \in 1..7 |-> bytes[k]]
        /\ bytes[1] = (v[1] \div 256) % 256
        /\ bytes[2] = v[1] % 256
        /\ bytes[3] = (v[2] \div 16) % 256
        /\ bytes[4] = (v[2] % 16) * 16 + ((v[3] \div 256) % 16)
        /\ bytes[5] = v[3] % 256
        /\ bytes[6] = (v[4] \div 16) % 256
        /\ bytes[7] = (v[4] % 16) * 16 + low
    <2>1. (v[5] \div (IF p = 2 THEN 16 ELSE 256)) % 16 = low
      OBVIOUS
    <2> DEFINE last == (v[4] % 16) * 16 + low
    <2>2. g[7] = (v[4] % 16) * 16 /\ DOMAIN g = 1..7
      BY <1>2
    <2>3. bytes = [g EXCEPT ![7] = last]
      BY <2>1, <2>2
    <2>4. /\ g[1] = (v[1] \div 256) % 256
          /\ g[2] = v[1] % 256
          /\ g[3] = (v[2] \div 16) % 256
          /\ g[4] = (v[2] % 16) * 16 + ((v[3] \div 256) % 16)
          /\ g[5] = v[3] % 256
          /\ g[6] = (v[4] \div 16) % 256
      BY <1>2
    <2> HIDE DEF low, bytes, g, last
    <2>5. bytes = [k \in 1..7 |-> IF k = 7 THEN last ELSE g[k]]
      BY <2>2, <2>3
    <2>6. /\ bytes[1] = g[1] /\ bytes[2] = g[2] /\ bytes[3] = g[3]
          /\ bytes[4] = g[4] /\ bytes[5] = g[5] /\ bytes[6] = g[6]
          /\ bytes[7] = last
      BY <2>5, SMT
    <2>7. bytes = [k \in 1..7 |-> bytes[k]]
      BY <2>5
    <2>8. QED
      BY <2>4, <2>6, <2>7 DEF last
  <1>4. d = [b \in 0..7 |->
               IF b = 7
               THEN IF p = 2 THEN (v[5] % 16) * 16 + crc ELSE v[5] % 256
               ELSE bytes[b + 1]]
    BY DEF WriteMit
  <1> HIDE DEF d, g, bytes, crc, low
  <1>5. crc \in Int /\ crc >= 0 /\ crc <= 15
    BY CrcType DEF crc
  <1>6. low \in Int /\ low >= 0 /\ low <= 15
    BY <1>1, Remainders, SMT DEF low
  <1>7. /\ d[0] = (v[1] \div 256) % 256
        /\ d[1] = v[1] % 256
        /\ d[2] = (v[2] \div 16) % 256
        /\ d[3] = (v[2] % 16) * 16 + ((v[3] \div 256) % 16)
        /\ d[4] = v[3] % 256
        /\ d[5] = (v[4] \div 16) % 256
        /\ d[6] = (v[4] % 16) * 16 + low
        /\ d[7] = IF p = 2 THEN (v[5] % 16) * 16 + crc ELSE v[5] % 256
    <2>1. \A b \in 0..6 : d[b] = bytes[b + 1]
      BY <1>4, SMT
    <2>2. d[7] = IF p = 2 THEN (v[5] % 16) * 16 + crc ELSE v[5] % 256
      BY <1>4, SMT
    <2>3. /\ d[0] = bytes[1] /\ d[1] = bytes[2] /\ d[2] = bytes[3] /\ d[3] = bytes[4]
          /\ d[4] = bytes[5] /\ d[5] = bytes[6] /\ d[6] = bytes[7]
      BY <2>1, SMT
    <2>4. QED
      BY <1>3, <2>2, <2>3
  <1>8. /\ d[3] >= 0 /\ d[3] <= 255
        /\ d[3] \div 16 = v[2] % 16 /\ d[3] % 16 = (v[3] \div 256) % 16
    <2> DEFINE h == v[2] % 16
               l == (v[3] \div 256) % 16
    <2>1. h \in Int /\ h >= 0 /\ h <= 15 /\ l \in Int /\ l >= 0 /\ l <= 15
      BY <1>1, Remainders
    <2>2. d[3] = h * 16 + l
      BY <1>7
    <2> HIDE DEF h, l
    <2>3. d[3] >= 0 /\ d[3] <= 255 /\ d[3] \div 16 = h /\ d[3] % 16 = l
      BY <2>1, <2>2, Nibbles
    <2>4. QED
      BY <2>3 DEF h, l
  <1>9. /\ d[6] >= 0 /\ d[6] <= 255
        /\ d[6] \div 16 = v[4] % 16 /\ d[6] % 16 = low
    <2> DEFINE h == v[4] % 16
    <2>1. h \in Int /\ h >= 0 /\ h <= 15
      BY <1>1, Remainders
    <2>2. d[6] = h * 16 + low
      BY <1>7
    <2> HIDE DEF h
    <2>3. d[6] >= 0 /\ d[6] <= 255 /\ d[6] \div 16 = h /\ d[6] % 16 = low
      BY <1>6, <2>1, <2>2, Nibbles
    <2>4. QED
      BY <2>3 DEF h
  <1>10. p = 2 => /\ d[7] >= 0 /\ d[7] <= 255
                  /\ d[7] \div 16 = v[5] % 16 /\ d[7] % 16 = crc
    <2> SUFFICES ASSUME p = 2
                 PROVE  /\ d[7] >= 0 /\ d[7] <= 255
                        /\ d[7] \div 16 = v[5] % 16 /\ d[7] % 16 = crc
      OBVIOUS
    <2> DEFINE h == v[5] % 16
    <2>1. h \in Int /\ h >= 0 /\ h <= 15
      BY <1>1, Remainders
    <2>2. d[7] = h * 16 + crc
      BY <1>7
    <2> HIDE DEF h
    <2>3. d[7] >= 0 /\ d[7] <= 255 /\ d[7] \div 16 = h /\ d[7] % 16 = crc
      BY <1>5, <2>1, <2>2, Nibbles
    <2>4. QED
      BY <2>3 DEF h
  <1>11. d \in Payload
    <2>1. \A b \in 0..7 : d[b] \in Int /\ d[b] >= 0 /\ d[b] <= 255
      <3>1. /\ d[0] \in Int /\ d[0] >= 0 /\ d[0] <= 255
            /\ d[1] \in Int /\ d[1] >= 0 /\ d[1] <= 255
            /\ d[2] \in Int /\ d[2] >= 0 /\ d[2] <= 255
            /\ d[4] \in Int /\ d[4] >= 0 /\ d[4] <= 255
            /\ d[5] \in Int /\ d[5] >= 0 /\ d[5] <= 255
        BY <1>1, <1>7, Remainders
      <3>2. d[3] \in Int /\ d[3] >= 0 /\ d[3] <= 255
        BY <1>1, <1>7, <1>8, Remainders, SMT
      <3>3. d[6] \in Int /\ d[6] >= 0 /\ d[6] <= 255
        BY <1>1, <1>6, <1>7, <1>9, Remainders, SMT
      <3>4. d[7] \in Int /\ d[7] >= 0 /\ d[7] <= 255
        <4>1. CASE p = 2
          BY <4>1, <1>1, <1>5, <1>7, <1>10, Remainders, SMT
        <4>2. CASE p # 2
          BY <4>2, <1>1, <1>7, Remainders, SMT
        <4>3. QED
          BY <4>1, <4>2
      <3>5. \A b \in 0..7 : b \in {0, 1, 2, 3, 4, 5, 6, 7}
        BY SMT
      <3>6. QED
        BY <3>1, <3>2, <3>3, <3>4, <3>5
    <2>2. \A x : x \in Int /\ x >= 0 /\ x <= 255 => x \in Byte
      BY SMT DEF Byte
    <2>3. \A b \in 0..7 : d[b] \in Byte
      BY <2>1, <2>2
    <2>4. QED
      BY <1>4, <2>3 DEF Payload
  <1>12. \A k \in 1..5 : MitCodes(p, d)[k] = v[k]
    <2>1. /\ MitCodes(p, d)[1] = d[0] * 256 + d[1]
          /\ MitCodes(p, d)[2] = d[2] * 16 + d[3] \div 16
          /\ MitCodes(p, d)[3] = (d[3] % 16) * 256 + d[4]
          /\ MitCodes(p, d)[4] = d[5] * 16 + d[6] \div 16
          /\ MitCodes(p, d)[5] = IF p = 2 THEN (d[6] % 16) * 16 + d[7] \div 16
                                 ELSE (d[6] % 16) * 256 + d[7]
      BY DEF MitCodes
    <2>2. /\ ((v[1] \div 256) % 256) * 256 + (v[1] % 256) = v[1]
          /\ ((v[2] \div 16) % 256) * 16 + (v[2] % 16) = v[2]
          /\ ((v[3] \div 256) % 16) * 256 + (v[3] % 256) = v[3]
          /\ ((v[4] \div 16) % 256) * 16 + (v[4] % 16) = v[4]
      <3>1. ((v[1] \div 256) % 256) * 256 + (v[1] % 256) = v[1]
        <4>1. PICK x : x = v[1]
          OBVIOUS
        <4>2. x \in Int /\ x >= 0 /\ x <= 65535
          BY <1>1, <4>1
        <4>3. QED
          BY <4>1, <4>2, Split
      <3>2. ((v[2] \div 16) % 256) * 16 + (v[2] % 16) = v[2]
        <4>1. PICK x : x = v[2]
          OBVIOUS
        <4>2. x \in Int /\ x >= 0 /\ x <= 4095
          BY <1>1, <4>1
        <4>3. QED
          BY <4>1, <4>2, Split
      <3>3. ((v[3] \div 256) % 16) * 256 + (v[3] % 256) = v[3]
        <4>1. PICK x : x = v[3]
          OBVIOUS
        <4>2. x \in Int /\ x >= 0 /\ x <= 4095
          BY <1>1, <4>1
        <4>3. QED
          BY <4>1, <4>2, Split
      <3>4. ((v[4] \div 16) % 256) * 16 + (v[4] % 16) = v[4]
        <4>1. PICK x : x = v[4]
          OBVIOUS
        <4>2. x \in Int /\ x >= 0 /\ x <= 4095
          BY <1>1, <4>1
        <4>3. QED
          BY <4>1, <4>2, Split
      <3>5. QED
        BY <3>1, <3>2, <3>3, <3>4
    <2>3. MitCodes(p, d)[1] = v[1]
      BY <2>1, <2>2, <1>7
    <2>4. MitCodes(p, d)[2] = v[2]
      BY <2>1, <2>2, <1>7, <1>8
    <2>5. MitCodes(p, d)[3] = v[3]
      BY <2>1, <2>2, <1>7, <1>8
    <2>6. MitCodes(p, d)[4] = v[4]
      BY <2>1, <2>2, <1>7, <1>9
    <2>7. MitCodes(p, d)[5] = v[5]
      <3>1. CASE p = 2
        <4>1. ((v[5] \div 16) % 16) * 16 + (v[5] % 16) = v[5]
          BY <3>1, <1>1, Split
        <4>2. low = (v[5] \div 16) % 16
          BY <3>1 DEF low
        <4>3. QED
          BY <2>1, <3>1, <4>1, <4>2, <1>9, <1>10
      <3>2. CASE p # 2
        <4>1. ((v[5] \div 256) % 16) * 256 + (v[5] % 256) = v[5]
          BY <3>2, <1>1, Split
        <4>2. low = (v[5] \div 256) % 16
          BY <3>2 DEF low
        <4>3. QED
          BY <2>1, <3>2, <4>1, <4>2, <1>7, <1>9
      <3>3. QED
        BY <3>1, <3>2
    <2>8. \A k \in 1..5 : k \in {1, 2, 3, 4, 5}
      BY SMT
    <2>9. QED
      BY <2>3, <2>4, <2>5, <2>6, <2>7, <2>8
  <1>13. p = 2 => d[7] % 16 = Crc([k \in 1..7 |-> d[k - 1]])
    <2>1. \A k \in 1..7 : d[k - 1] = bytes[k]
      <3>1. \A k \in 1..7 : k - 1 \in 0..6 /\ (k - 1) + 1 = k
        BY SMT
      <3>2. \A b \in 0..6 : d[b] = bytes[b + 1]
        BY <1>4, SMT
      <3>3. QED
        BY <3>1, <3>2
    <2>2. [k \in 1..7 |-> d[k - 1]] = bytes
      BY <1>3, <2>1
    <2>3. QED
      BY <1>10, <2>2 DEF crc
  <1>14. QED
    BY <1>11, <1>12, <1>13 DEF d

-----------------------------------------------------------------------------
(* The frame of a call.                                                    *)

Sent(p, c) == EncodeMessage(p, Message(p, c))

(* A payload written by the layout of a type, of values it can hold.       *)
Written(data, t, w) ==
  /\ t \in DOMAIN EncodeLayout
  /\ Fits(EncodeLayout[t], w)
  /\ data = Write(EncodeLayout[t], w)

LEMMA CallKinds ==
  ASSUME NEW c \in Calls
  PROVE  \/ Plain(c)
         \/ c.type = "MotionCtrl2" /\ Fits(Octets(6), c.ask)
         \/ NamesWhatItAsks(c) /\ \E a, e, s, z, mode : GripperAsk(c, a, e, s, z, mode)
         \/ c.type \in MitTypes /\ \A k \in 1..5 : c.ask[k] \in Int
  BY MotorCallsPlain, MasterSlaveCallsPlain, JointPartCallsPlain,
     MotionCtrl1CallsPlain, CircularCallsPlain, JointConfigCallsPlain,
     MotorLimitCallsPlain, ParamCallsPlain, EnquiryCallsPlain, SearchCallsPlain,
     MotionCtrl2CallsFit, GripperCallsFit, MitCallsFit DEF Calls

LEMMA OctetRead ==
  ASSUME NEW data, NEW a \in 0..7
  PROVE  ReadField(data, U8(a)) = data[a]
  BY SMT DEF ReadField, U8

LEMMA WrittenMember ==
  ASSUME NEW layout, WellFormed(layout), NEW values, Fits(layout, values),
         NEW k \in DOMAIN layout
  PROVE  ReadField(Write(layout, values), layout[k]) = values[k]
  <1>1. Read(layout, Write(layout, values)) = values
    BY LayoutRoundTrip
  <1>2. QED
    BY <1>1 DEF Read

LEMMA WrittenOctet ==
  ASSUME NEW layout, WellFormed(layout), NEW values, Fits(layout, values),
         NEW k \in DOMAIN layout, NEW a \in 0..7, layout[k] = U8(a)
  PROVE  Write(layout, values)[a] = values[k]
  BY WrittenMember, OctetRead

LEMMA WrittenPayload ==
  ASSUME NEW data, NEW t, NEW w, Written(data, t, w)
  PROVE  data \in Payload /\ Read(EncodeLayout[t], data) = w
  BY LayoutsWellFormed, WrittenBytes, LayoutRoundTrip DEF Written

LEMMA LayoutTypes ==
  /\ \A t \in DOMAIN EncodeLayout : t \notin MitTypes
  /\ PlainTypes \cup MitTypes \cup {"MotionCtrl2", "GripperCtrl"}
       \subseteq ControlTypes \cup ConfigTypes
  /\ PlainTypes \cap (MitTypes \cup {"MotionCtrl2", "GripperCtrl"}) = {}
  <1>1. DOMAIN EncodeLayout = DOMAIN ControlLayout \cup DOMAIN ConfigLayout
    BY DEF EncodeLayout, Joined
  <1>2. \A t \in DOMAIN ControlLayout : t \notin MitTypes
    BY SMT DEF ControlLayout, MitTypes, TargetTypes, JointTypes
  <1>3. \A t \in DOMAIN ConfigLayout : t \notin MitTypes
    BY SMT DEF ConfigLayout, MitTypes
  <1>4. /\ PlainTypes \subseteq ControlTypes \cup ConfigTypes
        /\ PlainTypes \cap (MitTypes \cup {"MotionCtrl2", "GripperCtrl"}) = {}
    BY SMT DEF PlainTypes, TargetTypes, JointTypes, ConfiguringTypes, ControlTypes,
               ConfigTypes, MitTypes
  <1>5. MitTypes \cup {"MotionCtrl2", "GripperCtrl"} \subseteq ControlTypes
    BY SMT DEF MitTypes, ControlTypes
  <1>6. QED
    BY <1>1, <1>2, <1>3, <1>4, <1>5

LEMMA Header ==
  ASSUME NEW p, NEW c, c.type \in ControlTypes \cup ConfigTypes
  PROVE  /\ Sent(p, c).id \in StandardId /\ Sent(p, c).id \in DOMAIN CanIdToMsgType
         /\ CanIdToMsgType[Sent(p, c).id] = c.type
         /\ Sent(p, c).dlc = 8
         /\ Sent(p, c) = [id |-> Sent(p, c).id, dlc |-> 8, data |-> Sent(p, c).data]
  <1>1. Message(p, c).type = c.type
    BY DEF Message
  <1>2. QED
    BY <1>1, Identifier DEF Sent, EncodeMessage

(* The members of most messages are written as they were asked for.        *)
LEMMA PlainFrame ==
  ASSUME NEW p \in Protocols, NEW c, Plain(c)
  PROVE  /\ Written(Sent(p, c).data, c.type, c.ask)
         /\ Message(p, c) = [type |-> c.type, v |-> c.ask]
  <1>1. c.type \in PlainTypes /\ Fits(EncodeLayout[c.type], c.ask)
    BY DEF Plain
  <1>2. /\ c.type \notin MitTypes /\ c.type # "MotionCtrl2" /\ c.type # "GripperCtrl"
    BY <1>1, LayoutTypes
  <1>3. c.type \in DOMAIN EncodeLayout
    BY <1>1, ControlLayouts, ConfigLayouts DEF PlainTypes, ConfiguringTypes
  <1>4. Message(p, c) = [type |-> c.type, v |-> c.ask]
    BY <1>2 DEF Message
  <1>5. WireValues(p, Message(p, c)) = c.ask
    BY <1>2, <1>4 DEF WireValues
  <1>6. Sent(p, c).data = Write(EncodeLayout[c.type], c.ask)
    BY <1>2, <1>4, <1>5 DEF Sent, EncodeMessage
  <1>7. QED
    BY <1>1, <1>3, <1>4, <1>6 DEF Written

(* A 0x151 command and the six bytes of its payload.                       *)
LEMMA FieldPlaces ==
  /\ \A k \in 1..6 : CommandFields[k] \in Field
  /\ \A f \in Field : \E k \in 1..6 : CommandFields[k] = f
  /\ \A j, k \in 1..6 : CommandFields[j] = CommandFields[k] => j = k
  BY SMT DEF CommandFields, Field

LEMMA CommandValues ==
  ASSUME NEW v, v = [k \in 1..6 |-> v[k]], \A k \in 1..6 : v[k] \in Byte
  PROVE  AsCommand(v) \in Command /\ AsValues(AsCommand(v)) = v
  <1> DEFINE Index(f) == CHOOSE k \in 1..6 : CommandFields[k] = f
  <1>1. \A f \in Field : Index(f) \in 1..6 /\ CommandFields[Index(f)] = f
    BY FieldPlaces
  <1>2. AsCommand(v) = [f \in Field |-> v[Index(f)]]
    BY DEF AsCommand
  <1> HIDE DEF Index
  <1>3. AsCommand(v) \in Command
    BY <1>1, <1>2 DEF Command
  <1>4. \A k \in 1..6 : AsCommand(v)[CommandFields[k]] = v[k]
    BY <1>1, <1>2, FieldPlaces
  <1>5. QED
    BY <1>3, <1>4 DEF AsValues

LEMMA ValuesCommand ==
  ASSUME NEW c \in Command
  PROVE  /\ AsValues(c) = [k \in 1..6 |-> AsValues(c)[k]]
         /\ \A k \in 1..6 : AsValues(c)[k] \in Byte
         /\ AsCommand(AsValues(c)) = c
  <1> DEFINE Index(f) == CHOOSE k \in 1..6 : CommandFields[k] = f
  <1>1. \A f \in Field : Index(f) \in 1..6 /\ CommandFields[Index(f)] = f
    BY FieldPlaces
  <1>2. AsCommand(AsValues(c)) = [f \in Field |-> AsValues(c)[Index(f)]]
    BY DEF AsCommand
  <1>3. \A k \in 1..6 : AsValues(c)[k] = c[CommandFields[k]]
    BY DEF AsValues
  <1> HIDE DEF Index
  <1>4. AsCommand(AsValues(c)) = [f \in Field |-> c[f]]
    BY <1>1, <1>2, <1>3
  <1>5. c = [f \in Field |-> c[f]]
    BY DEF Command
  <1>6. \A k \in 1..6 : c[CommandFields[k]] \in Byte
    BY FieldPlaces DEF Command
  <1>7. AsValues(c) = [k \in 1..6 |-> AsValues(c)[k]]
    BY DEF AsValues
  <1>8. QED
    BY <1>3, <1>4, <1>5, <1>6, <1>7

(* V3's numbering of the modes is undone by the decoder.                   *)
LEMMA CommandRoundTrip ==
  ASSUME NEW p \in Protocols, NEW c \in Command, Encodable(p, c)
  PROVE  Encode(p, c) \in Command /\ Decode(p, Encode(p, c)) = c
  <1>1. CASE p = 2
    BY <1>1 DEF Decode, Encode, MoveModeFromWire, Command
  <1>2. CASE p = 3 /\ c["move_mode"] = MoveM
    <2>1. MoveMWire \in Byte
      BY DEF MoveMWire, Byte
    <2>2. [c EXCEPT !["move_mode"] = MoveMWire] \in Command
      BY <2>1 DEF Command
    <2>3. Decode(p, Encode(p, c)) = c
      BY <1>2 DEF Decode, Encode, MoveModeFromWire, Command, Field, MoveM, MoveMWire
    <2>4. QED
      BY <1>2, <2>2, <2>3 DEF Encode
  <1>3. CASE p = 3 /\ c["move_mode"] # MoveM
    <2>1. Encode(p, c) = c
      BY <1>3 DEF Encode
    <2>2. MoveModeFromWire(p, c["move_mode"]) = c["move_mode"]
      BY <1>3 DEF MoveModeFromWire, Command, Field, Byte, Encodable, MoveM, MoveMWire,
                  MoveCPV
    <2>3. [c EXCEPT !["move_mode"] = c["move_mode"]] = c
      BY DEF Command
    <2>4. QED
      BY <2>1, <2>2, <2>3 DEF Decode
  <1>4. QED
    BY <1>1, <1>2, <1>3 DEF Protocols

LEMMA OctetValuesFit ==
  ASSUME NEW n \in 1..8, NEW v
  PROVE  Fits(Octets(n), v)
           <=> v = [k \in 1..n |-> v[k]] /\ \A k \in 1..n : v[k] \in Byte
  <1>1. DOMAIN Octets(n) = 1..n /\ \A k \in 1..n : Octets(n)[k] = U8(k - 1)
    BY DEF Octets
  <1>2. \A a : Holds(U8(a)) = Byte
    BY SMT DEF Holds, U8, Weight, Byte
  <1>3. QED
    BY <1>1, <1>2 DEF Fits

LEMMA MotionCtrl2Frame ==
  ASSUME NEW p \in Protocols, NEW c, c.type = "MotionCtrl2", Fits(Octets(6), c.ask),
         CanEncode(p, Message(p, c))
  PROVE  /\ Written(Sent(p, c).data, "MotionCtrl2", WireValues(p, Message(p, c)))
         /\ Message(p, c) = [type |-> "MotionCtrl2", v |-> c.ask]
         /\ AsValues(Decode(p, AsCommand(WireValues(p, Message(p, c))))) = c.ask
  <1>1. c.type \notin MitTypes
    BY SMT DEF MitTypes
  <1>2. Message(p, c) = [type |-> "MotionCtrl2", v |-> c.ask]
    BY <1>1 DEF Message
  <1> DEFINE m == Message(p, c)
             command == AsCommand(c.ask)
             w == WireValues(p, m)
  <1>3. m.type = "MotionCtrl2" /\ m.v = c.ask
    BY <1>2
  <1>4. Encodable(p, command)
    BY <1>1, <1>3 DEF CanEncode
  <1>5. w = AsValues(Encode(p, command))
    BY <1>3 DEF WireValues
  <1>6. Sent(p, c).data = Write(Octets(6), w)
    <2>1. Sent(p, c).data = Write(EncodeLayout["MotionCtrl2"], w)
      BY <1>1, <1>3 DEF Sent, EncodeMessage
    <2>2. QED
      BY <2>1, ControlLayouts
  <1> HIDE DEF m, w
  <1>7. command \in Command /\ AsValues(command) = c.ask
    <2>1. c.ask = [k \in 1..6 |-> c.ask[k]] /\ \A k \in 1..6 : c.ask[k] \in Byte
      BY OctetValuesFit, SMT
    <2>2. QED
      BY <2>1, CommandValues
  <1> HIDE DEF command
  <1>8. Encode(p, command) \in Command /\ Decode(p, Encode(p, command)) = command
    BY <1>4, <1>7, CommandRoundTrip
  <1>9. Fits(Octets(6), w) /\ AsCommand(w) = Encode(p, command)
    <2>1. 6 \in 1..8
      BY SMT
    <2>2. QED
      BY <1>5, <1>8, <2>1, ValuesCommand, OctetValuesFit
  <1>10. QED
    BY <1>2, <1>6, <1>7, <1>8, <1>9, ControlLayouts DEF Written, m, w

(* A gripper command and the four members of its payload.                  *)
LEMMA GripperFrame ==
  ASSUME NEW p \in Protocols, NEW c, NEW a, NEW e, NEW s, NEW z, NEW mode,
         GripperAsk(c, a, e, s, z, mode), CanEncode(p, Message(p, c))
  PROVE  LET w == WireValues(p, Message(p, c))
         IN  /\ Written(Sent(p, c).data, "GripperCtrl", w)
             /\ Message(p, c) = [type |-> "GripperCtrl", v |-> c.ask]
             /\ GripperFromWire(p, w) = c.ask
             /\ w[4] = z /\ w[3] \in Int /\ w[3] % 2 = s % 2
  <1>1. /\ c.type = "GripperCtrl" /\ c.ask = <<a, e, s, z, mode>>
        /\ c.type \notin MitTypes
    BY SMT DEF GripperAsk, MitTypes
  <1>2. Message(p, c) = [type |-> "GripperCtrl", v |-> c.ask]
    BY <1>1 DEF Message
  <1> DEFINE m == Message(p, c)
             w == WireValues(p, m)
             wire == GripperStatusToWire(p, c.ask)
  <1>3. m.type = "GripperCtrl" /\ m.v = c.ask
    BY <1>2
  <1>4. GripperEncodable(p, c.ask)
    BY <1>1, <1>3 DEF CanEncode
  <1>5. w = [k \in 1..4 |-> IF k = 3 THEN wire ELSE c.ask[k]]
    BY <1>3 DEF WireValues
  <1>6. Sent(p, c).data = Write(GripperLayout, w)
    <2>1. Sent(p, c).data = Write(EncodeLayout["GripperCtrl"], w)
      BY <1>1, <1>3 DEF Sent, EncodeMessage
    <2>2. QED
      BY <2>1, ControlLayouts
  <1>7. GripperFromWire(p, w) = c.ask
    <2>1. e \in Int /\ s \in Byte
      BY SMT DEF GripperAsk, Byte
    <2>2. GripperEncodable(p, <<a, e, s, z, mode>>)
      BY <1>1, <1>4
    <2>3. GripperReadsBack(p, <<a, e, s, z, mode>>)
      BY <2>1, <2>2, GripperRoundTrip, Zenon
    <2>4. GripperReadsBack(p, c.ask)
      BY <1>1, <2>3
    <2>5. QED
      BY <1>2, <2>4 DEF GripperReadsBack
  <1>8. wire \in Int /\ wire >= 0 /\ wire <= 255 /\ wire % 2 = s % 2
    <2>1. wire = s \/ wire = s + 4
      BY <1>1, SMT DEF GripperStatusToWire, AngleBit
    <2>2. s \in 0..3
      BY DEF GripperAsk
    <2> HIDE DEF wire
    <2>3. QED
      BY <2>1, <2>2, SMT
  <1> HIDE DEF wire, m
  <1>9. /\ w = [k \in 1..4 |-> w[k]]
        /\ w[1] = a /\ w[2] = e /\ w[3] = wire /\ w[4] = z
    <2> HIDE DEF w
    <2>1. w[1] = c.ask[1] /\ w[2] = c.ask[2] /\ w[3] = wire /\ w[4] = c.ask[4]
      BY <1>5, SMT
    <2>2. QED
      BY <1>1, <1>5, <2>1
  <1> HIDE DEF w
  <1>10. Fits(GripperLayout, w)
    <2>1. /\ DOMAIN GripperLayout = 1..4
          /\ GripperLayout[1] = S32(0) /\ GripperLayout[2] = U16(4)
          /\ GripperLayout[3] = U8(6) /\ GripperLayout[4] = U8(7)
      BY SMT DEF GripperLayout
    <2>2. a \in Holds(S32(0))
      BY Ranges, SMT DEF GripperAsk
    <2>3. e \in Holds(U16(4))
      BY Ranges, SMT DEF GripperAsk
    <2>4. wire \in Holds(U8(6))
      BY <1>8, Ranges, SMT
    <2>5. z \in Holds(U8(7))
      <3>1. z \in Int /\ z >= 0 /\ z <= 255
        BY SMT DEF GripperAsk, Apply
      <3>2. QED
        BY <3>1, Ranges, SMT
    <2>6. \A k \in 1..4 : k \in {1, 2, 3, 4}
      BY SMT
    <2>7. \A k \in 1..4 : w[k] \in Holds(GripperLayout[k])
      BY <1>9, <2>1, <2>2, <2>3, <2>4, <2>5, <2>6
    <2>8. QED
      BY <1>9, <2>1, <2>7 DEF Fits
  <1>11. QED
    BY <1>2, <1>6, <1>7, <1>8, <1>9, <1>10, ControlLayouts DEF Written, m, w

(* A MIT command and the codes in its payload.                             *)
LEMMA MitFrame ==
  ASSUME NEW p \in Protocols, NEW c, c.type \in MitTypes,
         \A k \in 1..5 : c.ask[k] \in Int
  PROVE  LET d == Sent(p, c).data
         IN  /\ d \in Payload
             /\ \A k \in 1..5 :
                  MitCodes(p, d)[k] = FloatToUintRange(p, MitRange(p)[k], c.ask[k])
             /\ p = 2 => d[7] % 16 = Crc([k \in 1..7 |-> d[k - 1]])
  <1> DEFINE v == PackJointMit(p, c.ask)
  <1>1. Sent(p, c).data = WriteMit(p, v)
    BY DEF Sent, EncodeMessage, Message
  <1>2. \A k \in 1..5 : v[k] = FloatToUintRange(p, MitRange(p)[k], c.ask[k])
    BY DEF PackJointMit
  <1>3. \A k \in 1..5 : v[k] \in Int /\ v[k] >= 0 /\ v[k] <= MitRange(p)[k].top
    BY <1>2, RangeType, Quantized
  <1> HIDE DEF v
  <1>4. /\ WriteMit(p, v) \in Payload
        /\ \A k \in 1..5 : MitCodes(p, WriteMit(p, v))[k] = v[k]
        /\ p = 2 => WriteMit(p, v)[7] % 16 =
                      Crc([k \in 1..7 |-> WriteMit(p, v)[k - 1]])
    BY <1>3, MitPacking
  <1>5. QED
    BY <1>1, <1>2, <1>4

(* Every call is refused or becomes a frame of eight bytes whose           *)
(* identifier tells its type.                                              *)
LEMMA CallFrame ==
  ASSUME NEW p \in Protocols, NEW c \in Calls, CanEncode(p, Message(p, c))
  PROVE  /\ Sent(p, c) \in Frame
         /\ Sent(p, c).id \in StandardId /\ Sent(p, c).dlc = 8
         /\ Sent(p, c).id \in DOMAIN CanIdToMsgType
         /\ CanIdToMsgType[Sent(p, c).id] = c.type
  <1>1. c.type \in ControlTypes \cup ConfigTypes /\ Sent(p, c).data \in Payload
    <2>1. CASE Plain(c)
      <3>1. c.type \in PlainTypes
        BY <2>1 DEF Plain
      <3>2. Written(Sent(p, c).data, c.type, c.ask)
        BY <2>1, PlainFrame
      <3>3. QED
        BY <3>1, <3>2, LayoutTypes, WrittenPayload
    <2>2. CASE c.type = "MotionCtrl2" /\ Fits(Octets(6), c.ask)
      <3>1. Written(Sent(p, c).data, "MotionCtrl2", WireValues(p, Message(p, c)))
        BY <2>2, MotionCtrl2Frame
      <3>2. QED
        BY <2>2, <3>1, LayoutTypes, WrittenPayload
    <2>3. CASE \E a, e, s, z, mode : GripperAsk(c, a, e, s, z, mode)
      <3>1. PICK a, e, s, z, mode : GripperAsk(c, a, e, s, z, mode)
        BY <2>3
      <3>2. Written(Sent(p, c).data, "GripperCtrl", WireValues(p, Message(p, c)))
        BY <3>1, GripperFrame
      <3>3. c.type = "GripperCtrl"
        BY <3>1 DEF GripperAsk
      <3>4. QED
        BY <3>2, <3>3, LayoutTypes, WrittenPayload
    <2>4. CASE c.type \in MitTypes /\ \A k \in 1..5 : c.ask[k] \in Int
      <3>1. Sent(p, c).data \in Payload
        BY <2>4, MitFrame
      <3>2. QED
        BY <2>4, <3>1, LayoutTypes
    <2>5. QED
      BY <2>1, <2>2, <2>3, <2>4, CallKinds
  <1>2. /\ Sent(p, c).id \in StandardId /\ Sent(p, c).id \in DOMAIN CanIdToMsgType
        /\ CanIdToMsgType[Sent(p, c).id] = c.type /\ Sent(p, c).dlc = 8
        /\ Sent(p, c) = [id |-> Sent(p, c).id, dlc |-> 8, data |-> Sent(p, c).data]
    BY <1>1, Header
  <1>3. Sent(p, c).id \in Nat
    BY <1>2, IdentifiersAreNumbers, Zenon
  <1>4. Sent(p, c) \in Frame
    <2>1. 8 \in 0..8
      BY SMT
    <2>2. QED
      BY <1>1, <1>2, <1>3, <2>1 DEF Frame
  <1>5. QED
    BY <1>2, <1>4

-----------------------------------------------------------------------------
(* What a receiver makes of it.                                            *)

LEMMA FullFrames == \A t : RequiredDlc(t) <= 8
  <1> TAKE t
  <1>1. RequiredDlc(t) \in {0, 2, 3, 6, 7, 8}
    BY DEF RequiredDlc
  <1>2. QED
    BY <1>1, SMT

(* A full frame under an identifier of a type that is decoded.             *)
LEMMA Understood ==
  ASSUME NEW p, NEW f, f.id \in StandardId, f.id \in DOMAIN CanIdToMsgType, f.dlc = 8,
         CanIdToMsgType[f.id] \in DOMAIN DecodeLayout
  PROVE  Decodable(p, f)
  BY FullFrames, SMT DEF Decodable, AcceptFrame

(* Types whose members are read as they are.                               *)
ReadPlainly ==
  JointTypes \cup {"FeedbackCurrentMotorAngleLimitMaxSpd",
                   "FeedbackCurrentEndVelAccParam", "CrashProtectionRatingFeedback",
                   "GripperTeachingPendantParamFeedback"}

LEMMA ReadAs ==
  ASSUME NEW p, NEW t, NEW f
  PROVE  /\ t \in ReadPlainly => MessageValues(p, t, f) = Read(DecodeLayout[t], f.data)
         /\ t = "MotionCtrl2" =>
              MessageValues(p, t, f) =
                AsValues(Decode(p, AsCommand(Read(Octets(6), f.data))))
         /\ t = "GripperCtrl" =>
              MessageValues(p, t, f) = GripperFromWire(p, Read(GripperLayout, f.data))
  <1>1. CASE t \in ReadPlainly
    <2>1. t \notin IkTypes \cup {"FirmwareRead", "StatusFeedback", "MotionCtrl2",
                                 "GripperFeedback", "GripperCtrl"}
      BY <1>1, SMT DEF ReadPlainly, JointTypes, IkTypes
    <2>2. QED
      BY <2>1 DEF MessageValues
  <1>2. CASE t = "MotionCtrl2"
    <2>1. t \notin IkTypes
      BY <1>2, SMT DEF IkTypes
    <2>2. t \notin ReadPlainly
      BY <1>2, SMT DEF ReadPlainly, JointTypes
    <2>3. QED
      BY <1>2, <2>1, <2>2, DecodeLayouts DEF MessageValues
  <1>3. CASE t = "GripperCtrl"
    <2>1. t \notin IkTypes
      BY <1>3, SMT DEF IkTypes
    <2>2. t \notin ReadPlainly
      BY <1>3, SMT DEF ReadPlainly, JointTypes
    <2>3. QED
      BY <1>3, <2>1, <2>2, DecodeLayouts DEF MessageValues
  <1>4. QED
    BY <1>1, <1>2, <1>3

(* Of the plain commands only the parts of a joint target are decoded.     *)
LEMMA DecodedPlain ==
  ASSUME NEW t \in PlainTypes \cup MitTypes, t \in DOMAIN DecodeLayout
  PROVE  t \in JointTypes
  <1>1. DOMAIN FeedbackLayout = HighSpdTypes \cup LowSpdTypes \cup PoseTypes
                                  \cup {"StatusFeedback", "GripperFeedback"}
    BY DEF FeedbackLayout
  <1>2. DOMAIN SettingLayout =
          {"FeedbackCurrentEndVelAccParam", "CrashProtectionRatingFeedback",
           "GripperTeachingPendantParamFeedback",
           "FeedbackCurrentMotorAngleLimitMaxSpd", "FeedbackCurrentMotorMaxAccLimit",
           "MotionCtrl2", "GripperCtrl", "InstructionResponseConfig"}
    BY SMT DEF SettingLayout
  <1>3. DOMAIN DecodeLayout = DOMAIN FeedbackLayout \cup (JointTypes \cup DOMAIN SettingLayout)
    BY DEF DecodeLayout, Joined
  <1>4. t \notin DOMAIN FeedbackLayout
    BY <1>1, SMT DEF PlainTypes, ConfiguringTypes, MitTypes, TargetTypes, JointTypes,
                     HighSpdTypes, LowSpdTypes, PoseTypes
  <1>5. t \notin DOMAIN SettingLayout
    BY <1>2, SMT DEF PlainTypes, ConfiguringTypes, MitTypes, TargetTypes, JointTypes
  <1>6. QED
    BY <1>3, <1>4, <1>5

(* A command another controller hears is the command that was sent.        *)
LEMMA CommandIsHeard ==
  ASSUME NEW p \in Protocols, NEW c \in Calls, CanEncode(p, Message(p, c)),
         c.type \in DOMAIN DecodeLayout
  PROVE  /\ Decodable(p, Sent(p, c))
         /\ DecodeMessage(p, Sent(p, c)) = Message(p, c)
  <1> DEFINE f == Sent(p, c)
  <1>1. CanIdToMsgType[f.id] = c.type /\ Decodable(p, f)
    BY CallFrame, Understood
  <1> HIDE DEF f
  <1>2. DecodeMessage(p, f) = [type |-> c.type, v |-> MessageValues(p, c.type, f)]
    BY <1>1 DEF DecodeMessage
  <1>3. Message(p, c) = [type |-> c.type, v |-> MessageValues(p, c.type, f)]
    <2>1. CASE Plain(c)
      <3>1. /\ Written(f.data, c.type, c.ask)
            /\ Message(p, c) = [type |-> c.type, v |-> c.ask]
        BY <2>1, PlainFrame DEF f
      <3>2. c.type \in JointTypes
        BY <2>1, DecodedPlain DEF Plain
      <3>3. DecodeLayout[c.type] = EncodeLayout[c.type]
        <4>1. c.type \in TargetTypes
          BY <3>2 DEF TargetTypes
        <4>2. EncodeLayout[c.type] = Pair
          BY <4>1, ControlLayouts
        <4>3. DecodeLayout[c.type] = Pair
          BY <3>2, DecodeLayouts
        <4>4. QED
          BY <4>2, <4>3
      <3>4. Read(EncodeLayout[c.type], f.data) = c.ask
        BY <3>1, WrittenPayload
      <3>5. MessageValues(p, c.type, f) = c.ask
        BY <3>2, <3>3, <3>4, ReadAs DEF ReadPlainly
      <3>6. QED
        BY <3>1, <3>5
    <2>2. CASE c.type = "MotionCtrl2" /\ Fits(Octets(6), c.ask)
      <3> DEFINE w == WireValues(p, Message(p, c))
      <3>1. /\ Written(f.data, "MotionCtrl2", w)
            /\ Message(p, c) = [type |-> "MotionCtrl2", v |-> c.ask]
            /\ AsValues(Decode(p, AsCommand(w))) = c.ask
        BY <2>2, MotionCtrl2Frame DEF f
      <3> HIDE DEF w
      <3>2. Read(Octets(6), f.data) = w
        BY <3>1, WrittenPayload, ControlLayouts
      <3>3. QED
        BY <2>2, <3>1, <3>2, ReadAs
    <2>3. CASE \E a, e, s, z, mode : GripperAsk(c, a, e, s, z, mode)
      <3> DEFINE w == WireValues(p, Message(p, c))
      <3>1. PICK a, e, s, z, mode : GripperAsk(c, a, e, s, z, mode)
        BY <2>3
      <3>2. /\ Written(f.data, "GripperCtrl", w)
            /\ Message(p, c) = [type |-> "GripperCtrl", v |-> c.ask]
            /\ GripperFromWire(p, w) = c.ask
        BY <3>1, GripperFrame DEF f
      <3>3. c.type = "GripperCtrl"
        BY <3>1 DEF GripperAsk
      <3> HIDE DEF w
      <3>4. Read(GripperLayout, f.data) = w
        BY <3>2, WrittenPayload, ControlLayouts
      <3>5. QED
        BY <3>2, <3>3, <3>4, ReadAs
    <2>4. CASE c.type \in MitTypes
      <3>1. c.type \in JointTypes
        BY <2>4, DecodedPlain
      <3>2. QED
        BY <2>4, <3>1, SMT DEF MitTypes, JointTypes
    <2>5. QED
      BY <2>1, <2>2, <2>3, <2>4, CallKinds
  <1>4. QED
    BY <1>1, <1>2, <1>3 DEF f

(* A setting the arm reports is the one that was set.                      *)
LEMMA AnswerTypes ==
  ASSUME NEW t \in AnsweredTypes
  PROVE  /\ Answer(t) \in ConfigTypes /\ Answer(t) \in ReadPlainly
         /\ Answer(t) \in DOMAIN DecodeLayout
         /\ DecodeLayout[Answer(t)] = EncodeLayout[t]
  <1>1. CASE t = "MotorAngleLimitMaxSpdSet"
    <2>1. Answer(t) = "FeedbackCurrentMotorAngleLimitMaxSpd"
      BY <1>1 DEF Answer
    <2>2. QED
      BY <1>1, <2>1, DecodeLayouts, ConfigLayouts DEF ConfigTypes, ReadPlainly
  <1>2. CASE t = "EndVelAccParamConfig"
    <2>1. Answer(t) = "FeedbackCurrentEndVelAccParam"
      BY <1>2 DEF Answer
    <2>2. QED
      BY <1>2, <2>1, DecodeLayouts, ConfigLayouts DEF ConfigTypes, ReadPlainly
  <1>3. CASE t = "CrashProtectionRatingConfig"
    <2>1. Answer(t) = "CrashProtectionRatingFeedback"
      BY <1>3 DEF Answer
    <2>2. QED
      BY <1>3, <2>1, DecodeLayouts, ConfigLayouts DEF ConfigTypes, ReadPlainly
  <1>4. CASE t = "GripperTeachingPendantParamConfig"
    <2>1. Answer(t) = "GripperTeachingPendantParamFeedback"
      BY <1>4 DEF Answer
    <2>2. QED
      BY <1>4, <2>1, DecodeLayouts, ConfigLayouts DEF ConfigTypes, ReadPlainly
  <1>5. QED
    BY <1>1, <1>2, <1>3, <1>4 DEF AnsweredTypes

(* The calls the arm answers are plain.                                    *)
LEMMA AnsweredPlain ==
  ASSUME NEW c \in Calls, c.type \in AnsweredTypes
  PROVE  Plain(c)
  <1>1. c.type \notin MitTypes \cup {"MotionCtrl2", "GripperCtrl"}
    BY SMT DEF AnsweredTypes, MitTypes
  <1>2. QED
    BY <1>1, CallKinds DEF GripperAsk

Reported(p, c) == [Sent(p, c) EXCEPT !.id = MsgTypeToCanId(Answer(c.type))]

LEMMA SettingIsReported ==
  ASSUME NEW p \in Protocols, NEW c \in Calls, CanEncode(p, Message(p, c)),
         c.type \in AnsweredTypes
  PROVE  /\ Reported(p, c) \in Frame
         /\ Decodable(p, Reported(p, c))
         /\ DecodeMessage(p, Reported(p, c)) = [type |-> Answer(c.type), v |-> c.ask]
  <1> DEFINE t == Answer(c.type)
             f == Reported(p, c)
  <1>1. Sent(p, c) \in Frame /\ Sent(p, c).dlc = 8
    BY CallFrame
  <1>2. /\ MsgTypeToCanId(t) \in StandardId /\ MsgTypeToCanId(t) \in DOMAIN CanIdToMsgType
        /\ CanIdToMsgType[MsgTypeToCanId(t)] = t
    BY AnswerTypes, Identifier
  <1>3. f.id = MsgTypeToCanId(t) /\ f.dlc = 8 /\ f.data = Sent(p, c).data
    BY <1>1 DEF Frame, Reported
  <1>4. f \in Frame
    <2>1. MsgTypeToCanId(t) \in Nat
      BY <1>2, IdentifiersAreNumbers, Zenon
    <2>2. QED
      BY <1>1, <2>1 DEF Frame, Reported
  <1>5. Read(EncodeLayout[c.type], f.data) = c.ask
    <2>1. Written(Sent(p, c).data, c.type, c.ask)
      BY AnsweredPlain, PlainFrame
    <2>2. QED
      BY <1>3, <2>1, WrittenPayload
  <1> HIDE DEF f, t
  <1>6. CanIdToMsgType[f.id] = t
    BY <1>2, <1>3
  <1>7. Decodable(p, f)
    <2>1. t \in DOMAIN DecodeLayout
      BY AnswerTypes DEF t
    <2>2. QED
      BY <1>2, <1>3, <1>6, <2>1, Understood
  <1>8. MessageValues(p, t, f) = c.ask
    <2>1. t \in ReadPlainly /\ DecodeLayout[t] = EncodeLayout[c.type]
      BY AnswerTypes DEF t
    <2>2. QED
      BY <1>5, <2>1, ReadAs
  <1>9. DecodeMessage(p, f) = [type |-> t, v |-> c.ask]
    BY <1>6, <1>8 DEF DecodeMessage
  <1>10. QED
    BY <1>4, <1>7, <1>9 DEF f, t

-----------------------------------------------------------------------------
(* A message and the bytes behind its frame's end.                         *)

(* A member that ends within the frame is read from it.                    *)
LEMMA ReadWithin ==
  ASSUME NEW field \in Place, NEW n \in 0..8, field.at + field.size <= n,
         NEW d, NEW e, \A b \in 0..7 : b < n => d[b] = e[b]
  PROVE  ReadField(d, field) = ReadField(e, field)
  <1>1. /\ field.at \in Int /\ field.at >= 0 /\ field.size \in {1, 2, 4}
        /\ n \in Int /\ n <= 8
    BY SMT DEF Place
  <1>2. \A k \in 0..3 : k < field.size => d[field.at + k] = e[field.at + k]
    <2>1. \A k \in 0..3 : k < field.size => field.at + k \in 0..7 /\ field.at + k < n
      BY <1>1, SMT
    <2>2. QED
      BY <2>1
  <1>3. d[field.at + 0] = e[field.at + 0]
    BY <1>1, <1>2, SMT
  <1>4. field.size # 1 => d[field.at + 1] = e[field.at + 1]
    BY <1>1, <1>2, SMT
  <1>5. field.size = 4 => /\ d[field.at + 2] = e[field.at + 2]
                          /\ d[field.at + 3] = e[field.at + 3]
    BY <1>1, <1>2, SMT
  <1>6. QED
    BY <1>1, <1>3, <1>4, <1>5 DEF ReadField

Within(layout, n) == \A k \in DOMAIN layout : layout[k].at + layout[k].size <= n

LEMMA OctetsWithin ==
  ASSUME NEW n \in 1..8
  PROVE  Within(Octets(n), n)
  BY SMT DEF Within, Octets, U8

(* requiredDlc() covers every member that is read, also of a type whose    *)
(* frame may be shorter than eight bytes.                                  *)
LEMMA EndsWithin ==
  ASSUME NEW t \in DOMAIN DecodeLayout
  PROVE  Within(DecodeLayout[t], RequiredDlc(t))
  <1> DEFINE Short == {"GripperFeedback", "FeedbackCurrentMotorAngleLimitMaxSpd",
                       "CrashProtectionRatingFeedback", "MotionCtrl2",
                       "GripperTeachingPendantParamFeedback",
                       "FeedbackCurrentMotorMaxAccLimit", "InstructionResponseConfig"}
  <1>1. DOMAIN FeedbackLayout = HighSpdTypes \cup LowSpdTypes \cup PoseTypes
                                  \cup {"StatusFeedback", "GripperFeedback"}
    BY DEF FeedbackLayout
  <1>2. DOMAIN SettingLayout =
          {"FeedbackCurrentEndVelAccParam", "CrashProtectionRatingFeedback",
           "GripperTeachingPendantParamFeedback",
           "FeedbackCurrentMotorAngleLimitMaxSpd", "FeedbackCurrentMotorMaxAccLimit",
           "MotionCtrl2", "GripperCtrl", "InstructionResponseConfig"}
    BY SMT DEF SettingLayout
  <1>3. t # "FirmwareRead"
    <2>1. "FirmwareRead" \notin DOMAIN FeedbackLayout
      BY <1>1, SMT DEF HighSpdTypes, LowSpdTypes, PoseTypes
    <2>2. "FirmwareRead" \notin JointTypes \cup DOMAIN SettingLayout
      BY <1>2, SMT DEF JointTypes
    <2>3. QED
      BY <2>1, <2>2 DEF DecodeLayout, Joined
  <1>4. CASE t \notin Short
    <2>1. RequiredDlc(t) = 8
      BY <1>3, <1>4, SMT DEF RequiredDlc
    <2>2. QED
      BY <2>1, LayoutsWellFormed DEF WellFormed, Within
  <1>5. CASE t = "GripperFeedback"
    <2>1. t \in DOMAIN FeedbackLayout
      BY <1>1, <1>5
    <2>2. t \notin HighSpdTypes \cup LowSpdTypes \cup PoseTypes
      BY <1>5, SMT DEF HighSpdTypes, LowSpdTypes, PoseTypes
    <2>3. FeedbackLayout[t] = <<S32(0), S16(4), U8(6)>>
      BY <1>5, <2>1, <2>2 DEF FeedbackLayout
    <2>4. DecodeLayout[t] = <<S32(0), S16(4), U8(6)>>
      BY <2>1, <2>3 DEF DecodeLayout, Joined
    <2>5. RequiredDlc(t) = 7
      BY <1>5, SMT DEF RequiredDlc
    <2>6. Within(<<S32(0), S16(4), U8(6)>>, 7)
      BY SMT DEF Within, S32, S16, U8
    <2>7. QED
      BY <2>4, <2>5, <2>6
  <1>6. CASE t \in Short /\ t # "GripperFeedback"
    <2>1. t \in DOMAIN SettingLayout
      BY <1>2, <1>6
    <2>2. t \notin DOMAIN FeedbackLayout /\ t \notin JointTypes
      BY <1>1, <1>6, SMT DEF JointTypes, HighSpdTypes, LowSpdTypes, PoseTypes
    <2>3. DecodeLayout[t] = SettingLayout[t]
      BY <2>1, <2>2 DEF DecodeLayout, Joined
    <2>4. Within(MotorLimit, 7)
      BY SMT DEF Within, MotorLimit, S16, U8
    <2>5. Within(<<U8(0), S16(1)>>, 3)
      BY SMT DEF Within, S16, U8
    <2>6. Within(Octets(6), 6) /\ Within(Octets(3), 3) /\ Within(Octets(2), 2)
      BY OctetsWithin, SMT
    <2>7. CASE t = "FeedbackCurrentMotorAngleLimitMaxSpd"
      BY <2>3, <2>4, <2>7, SMT DEF SettingLayout, RequiredDlc
    <2>8. CASE t = "FeedbackCurrentMotorMaxAccLimit"
      BY <2>3, <2>5, <2>8, SMT DEF SettingLayout, RequiredDlc
    <2>9. CASE t \in {"CrashProtectionRatingFeedback", "MotionCtrl2"}
      BY <2>3, <2>6, <2>9, SMT DEF SettingLayout, RequiredDlc
    <2>10. CASE t = "GripperTeachingPendantParamFeedback"
      BY <2>3, <2>6, <2>10, SMT DEF SettingLayout, RequiredDlc
    <2>11. CASE t = "InstructionResponseConfig"
      BY <2>3, <2>6, <2>11, SMT DEF SettingLayout, RequiredDlc
    <2>12. QED
      BY <1>6, <2>7, <2>8, <2>9, <2>10, <2>11
  <1>7. QED
    BY <1>4, <1>5, <1>6

LEMMA SameRead ==
  ASSUME NEW layout, WellFormed(layout), NEW n \in 0..8, Within(layout, n),
         NEW d, NEW e, \A b \in 0..7 : b < n => d[b] = e[b]
  PROVE  Read(layout, d) = Read(layout, e)
  <1>1. ASSUME NEW k \in DOMAIN layout
        PROVE  ReadField(d, layout[k]) = ReadField(e, layout[k])
    BY ReadWithin DEF WellFormed, Within
  <1>2. QED
    BY <1>1 DEF Read

(* Two frames that agree in what was received are the same message.        *)
LEMMA SameMessage ==
  ASSUME NEW p, NEW f \in Frame, Decodable(p, f),
         NEW g \in Frame, g.id = f.id, g.dlc = f.dlc,
         \A b \in 0..7 : b < f.dlc => g.data[b] = f.data[b]
  PROVE  DecodeMessage(p, g) = DecodeMessage(p, f)
  <1> DEFINE t == CanIdToMsgType[f.id]
  <1>1. f.dlc \in 0..8 /\ f.dlc >= RequiredDlc(t)
    BY DEF Frame, Decodable, AcceptFrame
  <1>2. t \in DOMAIN DecodeLayout \/ t = "FirmwareRead" \/ t \in IkTypes
    BY DEF Decodable
  <1>3. /\ DecodeMessage(p, f) = [type |-> t, v |-> MessageValues(p, t, f)]
        /\ DecodeMessage(p, g) = [type |-> t, v |-> MessageValues(p, t, g)]
    BY DEF DecodeMessage
  <1> HIDE DEF t
  <1>4. MessageValues(p, t, g) = MessageValues(p, t, f)
    <2>1. CASE t = "FirmwareRead"
      <3>1. \A k \in 1..f.dlc : k - 1 \in 0..7 /\ k - 1 < f.dlc
        BY <1>1, SMT
      <3>2. \A k \in 1..f.dlc : g.data[k - 1] = f.data[k - 1]
        BY <3>1
      <3>3. /\ MessageValues(p, t, f) = [k \in 1..f.dlc |-> f.data[k - 1]]
            /\ MessageValues(p, t, g) = [k \in 1..f.dlc |-> g.data[k - 1]]
        BY <2>1 DEF MessageValues, IkTypes
      <3>4. QED
        BY <3>2, <3>3
    <2>2. CASE t \in IkTypes
      <3>1. RequiredDlc(t) = 8
        BY <2>2, SMT DEF IkTypes, RequiredDlc
      <3>2. \A b \in 0..7 : b < 8
        BY SMT
      <3>3. \A b \in 0..7 : g.data[b] = f.data[b]
        BY <1>1, <3>1, SMT
      <3>4. Within(Pair, 8)
        BY WideWellFormed DEF WellFormed, Within
      <3>5. Read(Pair, g.data) = Read(Pair, f.data)
        BY <3>3, <3>4, SameRead, WideWellFormed, SMT
      <3>6. t # "FirmwareRead"
        BY <2>2 DEF IkTypes
      <3>7. QED
        BY <2>2, <3>5, <3>6 DEF MessageValues
    <2>3. CASE t \in DOMAIN DecodeLayout /\ t \notin IkTypes /\ t # "FirmwareRead"
      <3>1. Within(DecodeLayout[t], f.dlc)
        <4>1. Within(DecodeLayout[t], RequiredDlc(t))
          BY <2>3, EndsWithin
        <4>2. \A k \in DOMAIN DecodeLayout[t] : DecodeLayout[t][k] \in Place
          BY <2>3, LayoutsWellFormed DEF WellFormed
        <4>3. RequiredDlc(t) \in Int
          BY SMT DEF RequiredDlc
        <4>4. \A k \in DOMAIN DecodeLayout[t] :
                DecodeLayout[t][k].at + DecodeLayout[t][k].size \in Int
          BY <4>2, SMT DEF Place
        <4>5. QED
          BY <1>1, <4>1, <4>3, <4>4, SMT DEF Within
      <3>2. Read(DecodeLayout[t], g.data) = Read(DecodeLayout[t], f.data)
        <4>1. WellFormed(DecodeLayout[t])
          BY <2>3, LayoutsWellFormed
        <4>2. QED
          BY <1>1, <3>1, <4>1, SameRead
      <3>3. GripperFeedbackMode(p, g) = GripperFeedbackMode(p, f)
        <4>1. ~(f.dlc < 8) => g.data[7] = f.data[7]
          BY <1>1, SMT
        <4>2. QED
          BY <4>1 DEF GripperFeedbackMode
      <3>4. QED
        BY <2>3, <3>2, <3>3 DEF MessageValues
    <2>4. QED
      BY <1>2, <2>1, <2>2, <2>3
  <1>5. QED
    BY <1>3, <1>4

-----------------------------------------------------------------------------
(* What a frame changes on the arm.                                        *)

(* What bytes of a payload give a command an effect on a setting.          *)
Acts(t, d, e) ==
  \/ /\ t = "JointConfig"
     /\ \/ e = "zero" /\ d[1] = Apply
        \/ e = "max_acc" /\ d[2] = Apply
        \/ e = "clear_error" /\ d[5] = Apply
  \/ /\ t = "MotorAngleLimitMaxSpdSet"
     /\ \/ e = "max_angle" /\ ReadField(d, S16(1)) # LeaveUnchanged
        \/ e = "min_angle" /\ ReadField(d, S16(3)) # LeaveUnchanged
        \/ e = "max_speed"
  \/ /\ t = "GripperCtrl"
     /\ \/ e = "gripper" /\ d[6] % 2 = 1
        \/ e = "gripper_zero" /\ d[7] = Apply
  \/ /\ t = "MotionCtrl1"
     /\ \/ e = "stop" /\ d[0] = 1
        \/ e = "resume" /\ d[0] = 2
        \/ e = "track" /\ d[1] # 0
        \/ e = "drag" /\ d[2] # 0
  \/ /\ t = "ParamEnquiryAndConfig"
     /\ \/ e = "enquiry" /\ d[0] # 0
        \/ e = "setting" /\ d[1] # 0
        \/ e = "periodic" /\ d[2] # 0
        \/ e = "end_load" /\ d[3] = Apply /\ d[4] # 3

LEMMA EffectMeans ==
  ASSUME NEW f, NEW e \in Effects(f)
  PROVE  Acts(CanIdToMsgType[f.id], f.data, e)
  <1> DEFINE t == CanIdToMsgType[f.id]
             d == f.data
  <1>1. \/ /\ t = "JointConfig" /\ e \in {"zero", "max_acc", "clear_error"}
           /\ e = "zero" => d[1] = Apply
           /\ e = "max_acc" => d[2] = Apply
           /\ e = "clear_error" => d[5] = Apply
        \/ /\ t = "MotorAngleLimitMaxSpdSet"
           /\ e \in {"max_angle", "min_angle", "max_speed"}
           /\ e = "max_angle" => ReadField(d, S16(1)) # LeaveUnchanged
           /\ e = "min_angle" => ReadField(d, S16(3)) # LeaveUnchanged
        \/ /\ t = "GripperCtrl" /\ e \in {"gripper", "gripper_zero"}
           /\ e = "gripper" => d[6] % 2 = 1
           /\ e = "gripper_zero" => d[7] = Apply
        \/ /\ t = "MotionCtrl1" /\ e \in {"stop", "resume", "track", "drag"}
           /\ e = "stop" => d[0] = 1
           /\ e = "resume" => d[0] = 2
           /\ e = "track" => d[1] # 0
           /\ e = "drag" => d[2] # 0
        \/ /\ t = "ParamEnquiryAndConfig"
           /\ e \in {"enquiry", "setting", "periodic", "end_load"}
           /\ e = "enquiry" => d[0] # 0
           /\ e = "setting" => d[1] # 0
           /\ e = "periodic" => d[2] # 0
           /\ e = "end_load" => d[3] = Apply /\ d[4] # 3
    BY Zenon DEF Effects
  <1> HIDE DEF t, d
  <1>2. Acts(t, d, e)
    BY <1>1 DEF Acts
  <1>3. QED
    BY <1>2 DEF t, d

LEMMA PlainMember ==
  ASSUME NEW p \in Protocols, NEW c, Plain(c), NEW k \in DOMAIN EncodeLayout[c.type]
  PROVE  /\ ReadField(Sent(p, c).data, EncodeLayout[c.type][k]) = c.ask[k]
         /\ \A a \in 0..7 : EncodeLayout[c.type][k] = U8(a) => Sent(p, c).data[a] = c.ask[k]
  <1>1. Written(Sent(p, c).data, c.type, c.ask)
    BY PlainFrame
  <1>2. ReadField(Sent(p, c).data, EncodeLayout[c.type][k]) = c.ask[k]
    BY <1>1, LayoutsWellFormed, WrittenMember DEF Written
  <1>3. QED
    BY <1>2, OctetRead

(* A command changes on the arm what its call names.                       *)
LEMMA CallEffects ==
  ASSUME NEW p \in Protocols, NEW c \in Calls, CanEncode(p, Message(p, c))
  PROVE  Effects(Sent(p, c)) \subseteq c.names
  <1> DEFINE f == Sent(p, c)
             d == f.data
             t == c.type
             L == EncodeLayout[t]
  <1>1. CanIdToMsgType[f.id] = t
    BY CallFrame
  <1>2. t \in {"JointConfig", "MotorAngleLimitMaxSpdSet", "MotionCtrl1",
               "ParamEnquiryAndConfig"} => Plain(c)
    <2>1. SUFFICES ASSUME t \in {"JointConfig", "MotorAngleLimitMaxSpdSet",
                                 "MotionCtrl1", "ParamEnquiryAndConfig"}
                   PROVE  Plain(c)
      OBVIOUS
    <2>2. t \notin MitTypes \cup {"MotionCtrl2", "GripperCtrl"}
      BY <2>1, SMT DEF MitTypes
    <2>3. QED
      BY <2>2, CallKinds DEF GripperAsk
  <1>3. CASE t = "JointConfig"
    <2>1. Plain(c) /\ NamesWhatItAsks(c)
      BY <1>2, <1>3 DEF Plain
    <2>2. L = JointConfigLayout
      BY <1>3, ConfigLayouts
    <2>3. DOMAIN L = 1..5 /\ L[2] = U8(1) /\ L[3] = U8(2) /\ L[5] = U8(5)
      BY <2>2, SMT DEF JointConfigLayout
    <2>4. 2 \in 1..5 /\ 3 \in 1..5 /\ 5 \in 1..5 /\ 1 \in 0..7 /\ 2 \in 0..7 /\ 5 \in 0..7
      BY SMT
    <2>5. d[1] = c.ask[2] /\ d[2] = c.ask[3] /\ d[5] = c.ask[5]
      BY <2>1, <2>3, <2>4, PlainMember
    <2> HIDE DEF d, L, t
    <2>6. QED
      BY <1>1, <1>3, <2>1, <2>5, EffectMeans DEF Acts, NamesWhatItAsks, d, t
  <1>4. CASE t = "MotorAngleLimitMaxSpdSet"
    <2>1. Plain(c) /\ NamesWhatItAsks(c)
      BY <1>2, <1>4 DEF Plain
    <2>2. L = MotorLimit
      BY <1>4, ConfigLayouts
    <2>3. DOMAIN L = 1..4 /\ L[2] = S16(1) /\ L[3] = S16(3)
      BY <2>2, SMT DEF MotorLimit
    <2>4. 2 \in 1..4 /\ 3 \in 1..4
      BY SMT
    <2>5. ReadField(d, S16(1)) = c.ask[2] /\ ReadField(d, S16(3)) = c.ask[3]
      BY <2>1, <2>3, <2>4, PlainMember
    <2> HIDE DEF d, L, t
    <2>6. QED
      BY <1>1, <1>4, <2>1, <2>5, EffectMeans DEF Acts, NamesWhatItAsks, d, t
  <1>5. CASE t = "MotionCtrl1"
    <2>1. Plain(c) /\ NamesWhatItAsks(c)
      BY <1>2, <1>5 DEF Plain
    <2>2. L = Octets(3)
      BY <1>5, ControlLayouts
    <2>3. DOMAIN L = 1..3 /\ L[1] = U8(0) /\ L[2] = U8(1) /\ L[3] = U8(2)
      BY <2>2, SMT DEF Octets
    <2>4. 1 \in 1..3 /\ 2 \in 1..3 /\ 3 \in 1..3 /\ 0 \in 0..7 /\ 1 \in 0..7 /\ 2 \in 0..7
      BY SMT
    <2>5. d[0] = c.ask[1] /\ d[1] = c.ask[2] /\ d[2] = c.ask[3]
      BY <2>1, <2>3, <2>4, PlainMember
    <2> HIDE DEF d, L, t
    <2>6. QED
      BY <1>1, <1>5, <2>1, <2>5, EffectMeans DEF Acts, NamesWhatItAsks, d, t
  <1>6. CASE t = "ParamEnquiryAndConfig"
    <2>1. Plain(c) /\ NamesWhatItAsks(c)
      BY <1>2, <1>6 DEF Plain
    <2>2. L = Octets(5)
      BY <1>6, ConfigLayouts
    <2>3. /\ DOMAIN L = 1..5
          /\ L[1] = U8(0) /\ L[2] = U8(1) /\ L[3] = U8(2) /\ L[4] = U8(3) /\ L[5] = U8(4)
      BY <2>2, SMT DEF Octets
    <2>4. \A k \in {1, 2, 3, 4, 5} : k \in 1..5 /\ k - 1 \in 0..7
      BY SMT
    <2>5. /\ d[0] = c.ask[1] /\ d[1] = c.ask[2] /\ d[2] = c.ask[3]
          /\ d[3] = c.ask[4] /\ d[4] = c.ask[5]
      BY <2>1, <2>3, <2>4, PlainMember, SMT
    <2> HIDE DEF d, L, t
    <2>6. QED
      BY <1>1, <1>6, <2>1, <2>5, EffectMeans DEF Acts, NamesWhatItAsks, d, t
  <1>7. CASE t = "GripperCtrl"
    <2> DEFINE w == WireValues(p, Message(p, c))
    <2>1. /\ NamesWhatItAsks(c)
          /\ \E a, e, s, z, mode : GripperAsk(c, a, e, s, z, mode)
      <3>1. t \notin MitTypes \cup PlainTypes /\ t # "MotionCtrl2"
        BY <1>7, LayoutTypes, SMT DEF MitTypes
      <3>2. QED
        BY <3>1, CallKinds DEF Plain
    <2>2. PICK a, e, s, z, mode : GripperAsk(c, a, e, s, z, mode)
      BY <2>1
    <2>3. /\ Written(d, "GripperCtrl", w)
          /\ w[4] = z /\ w[3] \in Int /\ w[3] % 2 = s % 2
      BY <2>2, GripperFrame
    <2>4. c.ask[3] = s /\ c.ask[4] = z /\ s \in 0..3
      BY <2>2 DEF GripperAsk
    <2> HIDE DEF w
    <2>5. d[6] = w[3] /\ d[7] = w[4]
      <3>1. /\ DOMAIN GripperLayout = 1..4
            /\ GripperLayout[3] = U8(6) /\ GripperLayout[4] = U8(7)
        BY SMT DEF GripperLayout
      <3>2. /\ WellFormed(GripperLayout) /\ Fits(GripperLayout, w)
            /\ d = Write(GripperLayout, w)
        BY <2>3, ControlLayouts, LayoutsWellFormed DEF Written
      <3>3. 3 \in 1..4 /\ 4 \in 1..4 /\ 6 \in 0..7 /\ 7 \in 0..7
        BY SMT
      <3>4. QED
        BY <3>1, <3>2, <3>3, WrittenOctet
    <2>6. s % 2 = 1 => s \in {1, 3}
      BY <2>4, SMT
    <2> HIDE DEF d, t
    <2>7. \A x \in Effects(f) :
            \/ x = "gripper" /\ d[6] % 2 = 1
            \/ x = "gripper_zero" /\ d[7] = Apply
      BY <1>1, <1>7, EffectMeans DEF Acts, d
    <2>8. QED
      BY <1>7, <2>1, <2>3, <2>4, <2>5, <2>6, <2>7 DEF NamesWhatItAsks, t
  <1>8. CASE t \notin {"JointConfig", "MotorAngleLimitMaxSpdSet", "MotionCtrl1",
                       "ParamEnquiryAndConfig", "GripperCtrl"}
    BY <1>1, <1>8, EffectMeans DEF Acts
  <1>9. QED
    BY <1>3, <1>4, <1>5, <1>6, <1>7, <1>8

-----------------------------------------------------------------------------
(* Every frame is the one of the call under way, an answer of the arm to   *)
(* it, a frame of this library that no encoder makes, or the arm's own;    *)
(* and a receiver makes of it what the decoder does.                       *)

FrameOfCall ==
  /\ source \in {"call", "answer"} =>
       call \in Calls /\ CanEncode(protocol, Message(protocol, call))
  /\ source = "call" => frame = Sent(protocol, call)
  /\ source = "answer" =>
       call.type \in AnsweredTypes /\ frame = Reported(protocol, call)
  /\ source = "home" => frame \in HomeFrames

HeardFrame ==
  /\ source = "none" => heard = Nothing
  /\ heard \in {Nothing, IF Decodable(protocol, frame)
                         THEN DecodeMessage(protocol, frame) ELSE Refused}

IInv ==
  /\ protocol \in Protocols
  /\ call \in Calls \cup {NoCall}
  /\ frame \in Frame
  /\ source \in {"none", "call", "home", "answer", "noise"}
  /\ FrameOfCall
  /\ HeardFrame

LEMMA OtherFrames ==
  /\ NoFrame \in Frame
  /\ \A f \in HomeFrames : f \in Frame /\ f.id \in StandardId /\ f.dlc = 8
  /\ NoiseFrames \subseteq Frame
  <1>1. NoPayload \in Payload
    BY SMT DEF NoPayload, Payload, Byte
  <1>2. NoFrame \in Frame
    BY <1>1, SMT DEF NoFrame, Frame
  <1>3. ASSUME NEW f \in HomeFrames
        PROVE  f \in Frame /\ f.id \in StandardId /\ f.dlc = 8
    <2>1. PICK m \in {<<0, 0>>, <<1, 1>>, <<0, 1>>} :
            f = [id |-> \h191, dlc |-> 8,
                 data |-> [NoPayload EXCEPT ![0] = 1, ![1] = m[1], ![2] = m[2]]]
      BY DEF HomeFrames
    <2>2. m[1] \in Byte /\ m[2] \in Byte /\ 1 \in Byte
      BY SMT DEF Byte
    <2>3. f.data = [NoPayload EXCEPT ![0] = 1, ![1] = m[1], ![2] = m[2]]
      BY <2>1
    <2>4. f.data \in Payload
      BY <1>1, <2>2, <2>3 DEF Payload
    <2>5. \h191 \in StandardId /\ \h191 \in Nat /\ 8 \in 0..8
      BY SMT DEF StandardId
    <2>6. QED
      BY <2>1, <2>4, <2>5 DEF Frame
  <1>4. ASSUME NEW f \in NoiseFrames
        PROVE  f \in Frame
    <2>1. PICK id \in DOMAIN CanIdToMsgType \cup {\h191, \h2A5 + \h800},
               n \in 0..8, first \in {0, 1, 250}, tail \in {0, 1, 255} :
            f = Noise(id, n, first, tail)
      BY SMT DEF NoiseFrames
    <2>2. id \in Nat
      <3>1. \h191 \in Nat /\ \h2A5 + \h800 \in Nat
        BY SMT
      <3>2. CASE id \in DOMAIN CanIdToMsgType
        <4>1. id \in StandardId
          BY <3>2, StandardIds
        <4>2. QED
          BY <4>1, IdentifiersAreNumbers
      <3>3. CASE id = \h191 \/ id = \h2A5 + \h800
        BY <3>1, <3>3
      <3>4. QED
        BY <3>2, <3>3
    <2>3. ASSUME NEW b \in 0..7
          PROVE  (IF b < n THEN (first + 37 * b) % 256 ELSE tail) \in Byte
      <3>1. tail \in Byte
        BY SMT DEF Byte
      <3>2. (first + 37 * b) % 256 \in Byte
        BY SMT DEF Byte
      <3>3. QED
        BY <3>1, <3>2
    <2>4. QED
      BY <2>1, <2>2, <2>3 DEF Noise, Frame, Payload
  <1>5. QED
    BY <1>2, <1>3, <1>4

LEMMA InitInv == Init => IInv
  BY OtherFrames DEF Init, IInv, FrameOfCall, HeardFrame

LEMMA NextInv == IInv /\ [Next]_vars => IInv'
  <1> SUFFICES ASSUME IInv, [Next]_vars
               PROVE  IInv'
    OBVIOUS
  <1> USE DEF IInv, FrameOfCall, HeardFrame
  <1>1. CASE Send
    <2>1. PICK c \in Calls :
            /\ call' = c
            /\ \/ /\ CanEncode(protocol, Message(protocol, c))
                  /\ frame' = Sent(protocol, c)
                  /\ source' = "call"
               \/ UNCHANGED <<frame, source>>
      BY <1>1 DEF Send, Sent
    <2>2. protocol' = protocol /\ heard' = Nothing /\ source = "none"
      BY <1>1 DEF Send
    <2>3. CASE /\ CanEncode(protocol, Message(protocol, c))
               /\ frame' = Sent(protocol, c)
               /\ source' = "call"
      <3>1. frame' \in Frame
        BY <2>3, CallFrame
      <3>2. QED
        BY <2>1, <2>2, <2>3, <3>1
    <2>4. CASE UNCHANGED <<frame, source>>
      BY <2>1, <2>2, <2>4
    <2>5. QED
      BY <2>1, <2>3, <2>4
  <1>2. CASE RequestMasterArmMoveToHome
    BY <1>2, OtherFrames DEF RequestMasterArmMoveToHome
  <1>3. CASE SendAnswer
    <2>1. /\ source = "call" /\ call.type \in AnsweredTypes
          /\ frame' = [frame EXCEPT !.id = MsgTypeToCanId(Answer(call.type))]
          /\ source' = "answer" /\ heard' = Nothing
          /\ protocol' = protocol /\ call' = call
      BY <1>3 DEF SendAnswer
    <2>2. frame' = Reported(protocol, call)
      BY <2>1 DEF Reported
    <2>3. frame' \in Frame
      BY <2>1, <2>2, SettingIsReported
    <2>4. QED
      BY <2>1, <2>2, <2>3
  <1>4. CASE SendNoise
    BY <1>4, OtherFrames DEF SendNoise
  <1>5. CASE Receive
    BY <1>5 DEF Receive
  <1>6. CASE Done
    BY <1>6, OtherFrames DEF Done
  <1>7. CASE UNCHANGED vars
    BY <1>7 DEF vars
  <1>8. QED
    BY <1>1, <1>2, <1>3, <1>4, <1>5, <1>6, <1>7 DEF Next

LEMMA Invariance == Spec => []IInv
  BY InitInv, NextInv, PTL DEF Spec

-----------------------------------------------------------------------------
(* The theorems about the exchange, for any values of the members and for  *)
(* any quantities.                                                         *)

(* Every frame of this library is eight bytes under a standard identifier  *)
(* (setCommandHeader and the writers of the codec).                        *)
THEOREM TypeCorrect == Spec => []TypeOK
  <1>1. IInv => TypeOK
    <2> SUFFICES ASSUME IInv
                 PROVE  TypeOK
      OBVIOUS
    <2>1. frame.id \in Nat /\ frame.dlc \in 0..8 /\ \A b \in 0..7 : frame.data[b] \in Byte
      BY DEF IInv, Frame, Payload
    <2>2. source = "call" => frame.id \in StandardId /\ frame.dlc = 8
      BY CallFrame DEF IInv, FrameOfCall
    <2>3. source = "home" => frame.id \in StandardId /\ frame.dlc = 8
      BY OtherFrames DEF IInv, FrameOfCall
    <2>4. QED
      BY <2>1, <2>2, <2>3 DEF IInv, TypeOK
  <1>2. QED
    BY <1>1, Invariance, PTL

(* A command that another controller hears is the command that was sent,   *)
(* and a setting the arm reports is the one that was set (encodeMessage    *)
(* against decodeMessage).                                                 *)
THEOREM HeardAsSent == Spec => []ReadsBack
  <1>1. IInv => ReadsBack
    <2> SUFFICES ASSUME IInv, heard # Nothing
                 PROVE  /\ source = "call" /\ call.type \in DOMAIN DecodeLayout =>
                             heard = Message(protocol, call)
                        /\ source = "answer" =>
                             heard = [type |-> Answer(call.type), v |-> call.ask]
      BY DEF ReadsBack
    <2>1. heard = IF Decodable(protocol, frame)
                  THEN DecodeMessage(protocol, frame) ELSE Refused
      BY DEF IInv, HeardFrame
    <2>2. ASSUME source = "call", call.type \in DOMAIN DecodeLayout
          PROVE  heard = Message(protocol, call)
      BY <2>1, <2>2, CommandIsHeard DEF IInv, FrameOfCall
    <2>3. ASSUME source = "answer"
          PROVE  heard = [type |-> Answer(call.type), v |-> call.ask]
      BY <2>1, <2>3, SettingIsReported DEF IInv, FrameOfCall
    <2>4. QED
      BY <2>2, <2>3
  <1>2. QED
    BY <1>1, Invariance, PTL

(* A message depends on the bytes that were received and on no other, also *)
(* when its frame is short (requiredDlc against decodeMessage).            *)
THEOREM NothingBehindTheEnd == Spec => []OnlyReceivedBytes
  <1>1. IInv => OnlyReceivedBytes
    <2> DEFINE Received(tail) ==
          [frame EXCEPT !.data =
             [b \in 0..7 |-> IF b < frame.dlc THEN frame.data[b] ELSE tail]]
    <2> SUFFICES ASSUME IInv, heard \notin {Nothing, Refused}, NEW tail \in {0, 1, 255}
                 PROVE  heard = DecodeMessage(protocol, Received(tail))
      BY DEF OnlyReceivedBytes
    <2>1. Decodable(protocol, frame) /\ heard = DecodeMessage(protocol, frame)
      BY DEF IInv, HeardFrame
    <2>2. frame \in Frame
      BY DEF IInv
    <2> DEFINE data == [b \in 0..7 |-> IF b < frame.dlc THEN frame.data[b] ELSE tail]
    <2>3. data \in Payload
      <3>1. tail \in Byte
        BY SMT DEF Byte
      <3>2. QED
        BY <2>2, <3>1 DEF Frame, Payload
    <2>4. \A b \in 0..7 : b < frame.dlc => data[b] = frame.data[b]
      OBVIOUS
    <2>5. Received(tail) = [frame EXCEPT !.data = data]
      OBVIOUS
    <2> HIDE DEF Received, data
    <2>6. /\ Received(tail) \in Frame
          /\ Received(tail).id = frame.id /\ Received(tail).dlc = frame.dlc
          /\ Received(tail).data = data
      BY <2>2, <2>3, <2>5 DEF Frame
    <2>7. DecodeMessage(protocol, Received(tail)) = DecodeMessage(protocol, frame)
      BY <2>1, <2>2, <2>4, <2>6, SameMessage
    <2>8. QED
      BY <2>1, <2>7
  <1>2. QED
    BY <1>1, Invariance, PTL

(* The arm reads each quantity of a MIT command within one step of what    *)
(* was asked for or at the end of its range, none disturbs another, and    *)
(* V2's checksum fits the frame (floatToUintRange, writeMitGains).         *)
THEOREM QuantitiesArrive == Spec => []MitReachesTheArm
  <1>1. IInv => MitReachesTheArm
    <2> SUFFICES ASSUME IInv, source = "call", call.type \in MitTypes
                 PROVE  MitReachesTheArm
      BY DEF MitReachesTheArm
    <2> DEFINE d == frame.data
    <2>1. protocol \in Protocols /\ \A k \in 1..5 : call.ask[k] \in Int
      <3>1. call \in Calls
        BY DEF IInv, FrameOfCall
      <3>2. call.type \notin PlainTypes /\ call.type # "MotionCtrl2"
            /\ call.type # "GripperCtrl"
        BY LayoutTypes, SMT DEF MitTypes
      <3>3. QED
        BY <3>1, <3>2, CallKinds DEF IInv, Plain, GripperAsk
    <2>2. d = Sent(protocol, call).data
      BY DEF IInv, FrameOfCall
    <2>3. /\ \A k \in 1..5 :
               MitCodes(protocol, d)[k] =
                 FloatToUintRange(protocol, MitRange(protocol)[k], call.ask[k])
          /\ protocol = 2 => d[7] % 16 = Crc([k \in 1..7 |-> d[k - 1]])
      BY <2>1, <2>2, MitFrame
    <2> HIDE DEF d
    <2>4. ASSUME NEW k \in 1..5
          PROVE  LET code == MitCodes(protocol, d)[k]
                     r == MitRange(protocol)[k]
                     span == r.max - r.min
                     error == (call.ask[k] - r.min) * r.top - code * span
                 IN  /\ call.ask[k] <= r.min => code = 0
                     /\ call.ask[k] >= r.max => code = r.top
                     /\ r.min < call.ask[k] /\ call.ask[k] < r.max =>
                          IF protocol = 2 THEN -span <= 2 * error /\ 2 * error <= span
                                          ELSE 0 <= error /\ error < span
      <3> DEFINE r == MitRange(protocol)[k]
                 a == call.ask[k]
                 code == MitCodes(protocol, d)[k]
                 span == r.max - r.min
                 error == (a - r.min) * r.top - code * span
      <3>1. r \in MitRanges /\ r.min < r.max /\ a \in Int
        BY <2>1, RangeType
      <3>2. code = FloatToUintRange(protocol, r, a)
        BY <2>3
      <3> HIDE DEF r, a, code
      <3>3. /\ a <= r.min => code = 0
            /\ a >= r.max => code = r.top
            /\ r.min < a /\ a < r.max /\ protocol = 2 => 2 * error >= -span /\ 2 * error <= span
            /\ r.min < a /\ a < r.max /\ protocol # 2 => error >= 0 /\ error < span
        BY <2>1, <3>1, <3>2, Quantized
      <3>4. code \in Int
        BY <2>1, <3>1, <3>2, Quantized
      <3> HIDE DEF error
      <3>5. /\ a <= r.min => code = 0
            /\ a >= r.max => code = r.top
            /\ r.min < a /\ a < r.max =>
                 IF protocol = 2 THEN -span <= 2 * error /\ 2 * error <= span
                                 ELSE 0 <= error /\ error < span
        BY <3>3
      <3>6. QED
        BY <3>5 DEF r, a, code, error
    <2>5. QED
      BY <2>3, <2>4 DEF MitReachesTheArm, d
  <1>2. QED
    BY <1>1, Invariance, PTL

(* A command changes on the arm what its caller named and nothing else     *)
(* (sendJointConfig and its callers, setMotorMaxSpeed, sendGripperCtrl,    *)
(* sendMotionCtrl1, sendArmParamEnquiryAndConfig).                         *)
THEOREM NothingUnnamed == Spec => []EffectIsNamed
  <1>1. IInv => EffectIsNamed
    BY CallEffects DEF IInv, FrameOfCall, EffectIsNamed
  <1>2. QED
    BY <1>1, Invariance, PTL

=============================================================================
