-------------------------- MODULE FirmwareQueryProofs --------------------------
(***************************************************************************)
(* Theorems about FirmwareQuery, for any callers, versions and limits.     *)
(*                                                                         *)
(* The read thread tests the size of the buffer before it appends, so what *)
(* bounds the buffer is the size of a frame: the induction carries that    *)
(* everything under way, each piece of each cut of an answer, is a frame.  *)
(*                                                                         *)
(* As long as nothing but the answer to the first query comes first, what  *)
(* is stored of it is a prefix of its bytes and what is to come is the     *)
(* rest of its frames, in order: so the first marker in the buffer is the  *)
(* one its tag begins with.                                                *)
(***************************************************************************)
EXTENDS FirmwareQuery, SequenceTheorems, TLAPS

Frame == {bytes \in Seq(Char) : Len(bytes) \in 1..8}

TypeInv ==
  /\ TypeOK
  /\ coming \in Seq(Frame)

(* The bytes of an answer and those stored are the same, as far as both go.*)
Agrees(bytes) ==
  \A k \in 1..Len(buffer) : k <= Len(bytes) => buffer[k] = bytes[k]

(* The answer has been stored, whatever has been appended to it since.     *)
Stored(before) ==
  /\ Len(buffer) >= before + 8
  /\ Agrees(Bytes(asked, before))

(* Its first n frames have been stored, and the rest of them is next.      *)
Arriving(before, len, n) ==
  /\ n < Len(Reply(asked, before, len))
  /\ Len(buffer) = n * len
  /\ Agrees(Bytes(asked, before))
  /\ Len(coming) >= Len(Reply(asked, before, len)) - n
  /\ \A k \in 1..(Len(Reply(asked, before, len)) - n) :
       coming[k] = Reply(asked, before, len)[n + k]

(* Nothing but the answer to the first query is or comes first.            *)
AnswerInv ==
  clean =>
    \/ asked = NoVersion /\ buffer = << >> /\ coming = << >>
    \/ /\ asked # NoVersion
       /\ \E before \in {0, 6} :
            \/ Stored(before)
            \/ \E len \in {4, 8}, n \in 0..3 : Arriving(before, len, n)

(* Whoever is about to empty the buffer has not sent its query.            *)
ClearsFirst == \A c \in Caller : pc[c] \in {"clear", "send"} => c \notin asking

IInv == TypeInv /\ AnswerInv /\ ClearsFirst

-----------------------------------------------------------------------------

(* A tag, character by character.                                          *)
LEMMA TagType ==
  ASSUME NEW v \in Version
  PROVE  /\ Tag(v) \in Seq(Char)
         /\ Len(Tag(v)) = 8
         /\ Tag(v)[1] = "S" /\ Tag(v)[2] = "-" /\ Tag(v)[3] = "V"
         /\ \A k \in 4..8 : Tag(v)[k] = v
  <1> DEFINE digits == <<v, v, v, v, v>>
  <1>1. /\ Marker \in Seq(Char) /\ Len(Marker) = 3
        /\ Marker[1] = "S" /\ Marker[2] = "-" /\ Marker[3] = "V"
    BY DEF Marker, Char
  <1>2. /\ digits \in Seq(Char) /\ Len(digits) = 5
        /\ \A k \in 1..5 : digits[k] = v
    BY DEF Char
  <1>3. Tag(v) = Marker \o digits
    BY DEF Tag
  <1> HIDE DEF digits
  <1>4. /\ Marker \o digits \in Seq(Char)
        /\ Len(Marker \o digits) = Len(Marker) + Len(digits)
        /\ \A k \in 1..(Len(Marker) + Len(digits)) :
             (Marker \o digits)[k] =
               IF k <= Len(Marker) THEN Marker[k] ELSE digits[k - Len(Marker)]
    BY <1>1, <1>2, ConcatProperties
  <1> DEFINE tag == Marker \o digits
  <1> HIDE DEF tag
  <1>5. /\ tag \in Seq(Char) /\ Len(tag) = 8
        /\ \A k \in 1..8 : tag[k] = IF k <= 3 THEN Marker[k] ELSE digits[k - 3]
    <2>1. Len(Marker) = 3 /\ Len(digits) = 5 /\ 1..(3 + 5) = 1..8
      BY <1>1, <1>2
    <2>2. /\ tag \in Seq(Char) /\ Len(tag) = 3 + 5
          /\ \A k \in 1..(3 + 5) : tag[k] = IF k <= 3 THEN Marker[k] ELSE digits[k - 3]
      BY <1>4, <2>1 DEF tag
    <2>3. QED
      BY <2>2
  <1>6. tag[1] = Marker[1] /\ tag[2] = Marker[2] /\ tag[3] = Marker[3]
    BY <1>5
  <1>7. \A k \in 4..8 : tag[k] = v
    BY <1>2, <1>5
  <1>8. QED
    BY <1>1, <1>3, <1>5, <1>6, <1>7 DEF tag

(* An answer's bytes: those that come before, and the tag.                 *)
LEMMA BytesType ==
  ASSUME NEW v \in Version, NEW before \in {0, 6}
  PROVE  /\ Bytes(v, before) \in Seq(Char)
         /\ Len(Bytes(v, before)) = before + 8
         /\ \A k \in 1..(before + 8) :
              Bytes(v, before)[k] = IF k <= before THEN "x" ELSE Tag(v)[k - before]
  <1> DEFINE pad == [k \in 1..before |-> "x"]
  <1>1. pad \in Seq(Char) /\ Len(pad) = before /\ \A k \in 1..before : pad[k] = "x"
    <2>1. pad \in [1..before -> Char]
      BY DEF Char
    <2>2. pad \in Seq(Char)
      BY <2>1, SeqDef
    <2>3. 1..Len(pad) = 1..before /\ Len(pad) \in Nat
      BY <2>2, LenProperties
    <2>4. QED
      BY <2>2, <2>3
  <1>2. Bytes(v, before) = pad \o Tag(v)
    BY DEF Bytes
  <1> HIDE DEF pad
  <1>3. Tag(v) \in Seq(Char) /\ Len(Tag(v)) = 8
    BY TagType
  <1>4. /\ pad \o Tag(v) \in Seq(Char)
        /\ Len(pad \o Tag(v)) = Len(pad) + Len(Tag(v))
        /\ \A k \in 1..(Len(pad) + Len(Tag(v))) :
             (pad \o Tag(v))[k] = IF k <= Len(pad) THEN pad[k] ELSE Tag(v)[k - Len(pad)]
    BY <1>1, <1>3, ConcatProperties
  <1>5. QED
    BY <1>1, <1>2, <1>3, <1>4

(* A piece of one to eight bytes is a frame.                               *)
LEMMA PieceIsFrame ==
  ASSUME NEW bytes \in Seq(Char), NEW m \in 1..Len(bytes), NEW n \in m..Len(bytes),
         n - m <= 7
  PROVE  /\ SubSeq(bytes, m, n) \in Frame
         /\ Len(SubSeq(bytes, m, n)) = n - m + 1
         /\ \A k \in 1..(n - m + 1) : SubSeq(bytes, m, n)[k] = bytes[m + k - 1]
  <1>1. \A k \in m..n : bytes[k] \in Char
    BY ElementOfSeq
  <1>2. Len(bytes) \in Nat
    BY LenProperties
  <1>3. /\ SubSeq(bytes, m, n) \in Seq(Char)
        /\ Len(SubSeq(bytes, m, n)) = n - m + 1
        /\ \A k \in 1..(n - m + 1) : SubSeq(bytes, m, n)[k] = bytes[m + k - 1]
    BY <1>1, <1>2, SubSeqProperties
  <1>4. n - m + 1 \in 1..8
    BY <1>2
  <1>5. QED
    BY <1>3, <1>4 DEF Frame

(* The pieces of an answer are frames, that carry its bytes one after the  *)
(* other: each but the last is of the length, and with the last they are   *)
(* all of it.                                                              *)
CutInOrder(reply, bytes, before, len) ==
  /\ reply \in Seq(Frame)
  /\ Len(reply) \in 1..4
  /\ (Len(reply) - 1) * len < before + 8
  /\ \A k \in 1..Len(reply) :
       /\ Len(reply[k]) = IF k < Len(reply) THEN len ELSE before + 8 - (k - 1) * len
       /\ \A m \in 1..Len(reply[k]) : reply[k][m] = bytes[(k - 1) * len + m]

(* However an answer is cut, it is cut so.                                 *)
LEMMA ReplyType ==
  ASSUME NEW v \in Version, NEW before \in {0, 6}, NEW len \in {4, 8}
  PROVE  CutInOrder(Reply(v, before, len), Bytes(v, before), before, len)
  <1> DEFINE bytes  == Bytes(v, before)
             reply  == Reply(v, before, len)
             frames == (Len(bytes) + len - 1) \div len
             First(k) == (k - 1) * len + 1
             Last(k)  == IF k < frames THEN k * len ELSE Len(bytes)
  <1>1. bytes \in Seq(Char) /\ Len(bytes) = before + 8
    BY BytesType
  <1>2. /\ frames \in 1..4
        /\ (frames - 1) * len < before + 8
        /\ \A k \in 1..frames :
             /\ First(k) \in 1..Len(bytes)
             /\ Last(k) \in First(k)..Len(bytes)
             /\ Last(k) - First(k) <= 7
             /\ Last(k) - First(k) + 1 = IF k < frames THEN len
                                         ELSE before + 8 - (k - 1) * len
             /\ \A m \in 1..(Last(k) - First(k) + 1) :
                  First(k) + m - 1 = (k - 1) * len + m
    <2>1. CASE before = 0 /\ len = 4
      BY <1>1, <2>1
    <2>2. CASE before = 0 /\ len = 8
      BY <1>1, <2>2
    <2>3. CASE before = 6 /\ len = 4
      BY <1>1, <2>3
    <2>4. CASE before = 6 /\ len = 8
      BY <1>1, <2>4
    <2>5. QED
      BY <2>1, <2>2, <2>3, <2>4
  <1>3. reply = [k \in 1..frames |-> SubSeq(bytes, First(k), Last(k))]
    BY DEF Reply
  <1> HIDE DEF bytes, frames, First, Last, reply
  <1>4. \A k \in 1..frames :
          /\ reply[k] \in Frame
          /\ Len(reply[k]) = Last(k) - First(k) + 1
          /\ \A m \in 1..(Last(k) - First(k) + 1) :
               reply[k][m] = bytes[First(k) + m - 1]
    BY <1>1, <1>2, <1>3, PieceIsFrame
  <1>5. reply \in Seq(Frame) /\ Len(reply) = frames
    BY <1>2, <1>3, <1>4
  <1>6. \A k \in 1..Len(reply) :
          /\ Len(reply[k]) = IF k < Len(reply) THEN len ELSE before + 8 - (k - 1) * len
          /\ \A m \in 1..Len(reply[k]) : reply[k][m] = bytes[(k - 1) * len + m]
    <2> SUFFICES ASSUME NEW k \in 1..frames
                 PROVE  /\ Len(reply[k]) = IF k < frames THEN len
                                           ELSE before + 8 - (k - 1) * len
                        /\ \A m \in 1..Len(reply[k]) :
                             reply[k][m] = bytes[(k - 1) * len + m]
      BY <1>5
    <2>1. Len(reply[k]) = Last(k) - First(k) + 1
      BY <1>4
    <2>2. Len(reply[k]) = IF k < frames THEN len ELSE before + 8 - (k - 1) * len
      BY <1>2, <2>1
    <2>3. ASSUME NEW m \in 1..Len(reply[k])
          PROVE  reply[k][m] = bytes[(k - 1) * len + m]
      <3>1. m \in 1..(Last(k) - First(k) + 1)
        BY <2>1
      <3>2. reply[k][m] = bytes[First(k) + m - 1] /\ First(k) + m - 1 = (k - 1) * len + m
        BY <1>2, <1>4, <3>1
      <3>3. QED
        BY <3>2
    <2>4. QED
      BY <2>2, <2>3
  <1>7. QED
    <2>1. CutInOrder(reply, bytes, before, len)
      BY <1>2, <1>5, <1>6 DEF CutInOrder
    <2>2. QED
      BY <2>1 DEF reply, bytes

(* What is stored of a frame keeps the buffer within its bound.            *)
LEMMA KeepType ==
  ASSUME TypeOK, NEW bytes \in Frame
  PROVE  Keep(bytes) \in Seq(Char) /\ Len(Keep(bytes)) <= MaxBytes + 7
  <1>1. buffer \in Seq(Char) /\ bytes \in Seq(Char) /\ Len(bytes) \in 1..8
    BY DEF TypeOK, Frame
  <1>2. buffer \o bytes \in Seq(Char) /\ Len(buffer \o bytes) = Len(buffer) + Len(bytes)
    BY <1>1, ConcatProperties
  <1>3. /\ Len(buffer) \in Nat /\ MaxBytes \in Nat /\ Len(buffer) <= MaxBytes + 7
        /\ Len(bytes) \in 1..8
    BY <1>1, FirmwareAssumption DEF TypeOK
  <1>4. QED
    <2>1. CASE Len(buffer) < MaxBytes
      <3>1. Keep(bytes) = buffer \o bytes
        BY <2>1 DEF Keep
      <3>2. Len(buffer) + Len(bytes) <= MaxBytes + 7
        <4> DEFINE stored == Len(buffer)
                   more   == Len(bytes)
        <4>1. stored \in Nat /\ more \in 1..8 /\ MaxBytes \in Nat /\ stored < MaxBytes
          BY <1>3, <2>1
        <4> HIDE DEF stored, more
        <4>2. stored + more <= MaxBytes + 7
          BY <4>1
        <4>3. QED
          BY <4>2 DEF stored, more
      <3>3. QED
        BY <1>2, <3>1, <3>2
    <2>2. CASE ~(Len(buffer) < MaxBytes)
      BY <1>1, <1>3, <2>2 DEF Keep
    <2>3. QED
      BY <2>1, <2>2

LEMMA ForeignIsFrame == ForeignFrame \in Frame
  BY DEF ForeignFrame, Frame, Char

(* The type invariant speaks of the frames under way one by one.           *)
LEMMA FramesType ==
  ASSUME coming' \in Seq(Frame)
  PROVE  \A k \in DOMAIN coming' : Len(coming'[k]) \in 1..8
  <1>1. DOMAIN coming' = 1..Len(coming')
    BY LenProperties
  <1>2. \A k \in 1..Len(coming') : coming'[k] \in Frame
    BY ElementOfSeq
  <1>3. QED
    BY <1>1, <1>2 DEF Frame

-----------------------------------------------------------------------------

LEMMA ClearedType == << >> \in Seq(Char) /\ Len(<< >>) <= MaxBytes + 7
  <1>1. << >> \in Seq(Char) /\ Len(<< >>) = 0
    BY EmptySeq
  <1>2. QED
    BY <1>1, FirmwareAssumption

(* The first marker in an answer is the one of its tag, so a reader finds  *)
(* the tag when the answer is all there, whatever follows, and none before.*)
LEMMA TagFound ==
  ASSUME NEW v \in Version, NEW before \in {0, 6}, NEW bytes \in Seq(Char),
         \A k \in 1..Len(bytes) : k <= before + 8 => bytes[k] = Bytes(v, before)[k]
  PROVE  GetFirmwareVersion(bytes) = IF Len(bytes) >= before + 8 THEN Tag(v) ELSE NoTag
  <1> DEFINE At == {k \in 1..(Len(bytes) - 2) : SubSeq(bytes, k, k + 2) = Marker}
             least == CHOOSE k \in At : \A j \in At : k <= j
  <1>1. /\ Len(bytes) \in Nat
        /\ \A k \in 1..Len(bytes) : bytes[k] \in Char
    BY LenProperties, ElementOfSeq
  <1>2. /\ Tag(v) \in Seq(Char) /\ Len(Tag(v)) = 8
        /\ Tag(v)[1] = "S" /\ Tag(v)[2] = "-" /\ Tag(v)[3] = "V"
        /\ \A k \in 4..8 : Tag(v)[k] = v
    BY TagType
  <1>3. \A k \in 1..(before + 8) :
          Bytes(v, before)[k] = IF k <= before THEN "x" ELSE Tag(v)[k - before]
    BY BytesType
  <1>4. v # "S"
    BY FirmwareAssumption
  <1>5. \A k \in 1..Len(bytes) :
          k <= before + 8 =>
            bytes[k] = IF k <= before THEN "x" ELSE Tag(v)[k - before]
    BY <1>1, <1>3
  <1>5a. ASSUME NEW j \in 1..8, before + j <= Len(bytes)
         PROVE  bytes[before + j] = Tag(v)[j]
    <2>1. /\ before + j \in 1..Len(bytes) /\ before + j <= before + 8
          /\ ~(before + j <= before) /\ before + j - before = j
      BY <1>1, <1>5a
    <2>2. QED
      BY <1>5, <2>1
  <1>6. \A k \in 1..(Len(bytes) - 2) :
          k \in At <=> bytes[k] = "S" /\ bytes[k + 1] = "-" /\ bytes[k + 2] = "V"
    <2> TAKE k \in 1..(Len(bytes) - 2)
    <2> DEFINE three == SubSeq(bytes, k, k + 2)
    <2>1. \A j \in k..(k + 2) : bytes[j] \in Char
      BY <1>1
    <2>2. /\ three \in Seq(Char) /\ Len(three) = 3
          /\ \A j \in 1..3 : three[j] = bytes[k + j - 1]
      BY <1>1, <2>1, SubSeqProperties
    <2>3. three[1] = bytes[k] /\ three[2] = bytes[k + 1] /\ three[3] = bytes[k + 2]
      BY <2>2
    <2>4. /\ Marker \in Seq(Char) /\ Len(Marker) = 3
          /\ Marker[1] = "S" /\ Marker[2] = "-" /\ Marker[3] = "V"
      BY DEF Marker, Char
    <2> HIDE DEF three
    <2>5. three = Marker <=> three[1] = "S" /\ three[2] = "-" /\ three[3] = "V"
      <3>1. ASSUME three[1] = "S", three[2] = "-", three[3] = "V"
            PROVE  three = Marker
        <4>1. \A j \in 1..Len(three) : three[j] = Marker[j]
          BY <2>2, <2>4, <3>1
        <4>2. QED
          BY <2>2, <2>4, <4>1, SeqEqual
      <3>2. QED
        BY <2>4, <3>1
    <2>6. k \in At <=> three = Marker
      BY DEF three
    <2>7. QED
      BY <2>3, <2>5, <2>6
  <1>7. \A k \in At : k >= before + 1 /\ (k <= before + 8 => k = before + 1)
    <2> TAKE k \in At
    <2>1. k \in 1..(Len(bytes) - 2) /\ bytes[k] = "S"
      BY <1>6
    <2>2. CASE k <= before
      <3>1. k \in 1..Len(bytes) /\ k <= before + 8
        BY <1>1, <2>1, <2>2
      <3>2. bytes[k] = "x"
        BY <1>5, <2>2, <3>1
      <3>3. QED
        BY <2>1, <3>2
    <2>3. CASE k > before /\ k <= before + 8
      <3>1. bytes[k] = Tag(v)[k - before] /\ k - before \in 1..8
        <4>1. /\ k - before \in 1..8 /\ before + (k - before) = k /\ k <= Len(bytes)
          BY <1>1, <2>1, <2>3
        <4>2. QED
          BY <1>5a, <4>1
      <3>2. k - before = 1
        <4> DEFINE j == k - before
        <4>1. j \in 1..8 /\ Tag(v)[j] = "S"
          BY <2>1, <3>1
        <4> HIDE DEF j
        <4>2. j # 2 /\ j # 3
          BY <1>2, <4>1
        <4>3. j \notin 4..8
          BY <1>2, <1>4, <4>1
        <4>4. j = 1
          BY <4>1, <4>2, <4>3
        <4>5. QED
          BY <4>4 DEF j
      <3>3. QED
        BY <2>1, <3>2
    <2>4. CASE k > before + 8
      BY <2>1, <2>4
    <2>5. QED
      BY <2>1, <2>2, <2>3, <2>4
  <1>8. /\ \A k \in At : k \in Int
        /\ At = {} => GetFirmwareVersion(bytes) = NoTag
        /\ At # {} =>
             GetFirmwareVersion(bytes) =
               IF least + VersionLen - 1 > Len(bytes) THEN NoTag
               ELSE SubSeq(bytes, least, least + VersionLen - 1)
    BY DEF GetFirmwareVersion
  <1>9. before + 1 \in At => least = before + 1
    <2>1. ASSUME before + 1 \in At PROVE least = before + 1
      <3>1. \A j \in At : before + 1 <= j
        BY <1>7, <1>8
      <3>2. least \in At /\ \A j \in At : least <= j
        <4> HIDE DEF At
        <4>1. \E k \in At : \A j \in At : k <= j
          BY <2>1, <3>1
        <4>2. QED
          BY <4>1
      <3> HIDE DEF At, least
      <3>3. QED
        BY <1>8, <2>1, <3>1, <3>2
    <2>2. QED
      BY <2>1
  <1>10. CASE Len(bytes) < before + 8
    <2>1. CASE At = {}
      BY <1>1, <1>8, <1>10, <2>1
    <2>2. CASE At # {}
      <3>1. PICK k \in At : TRUE
        BY <2>2
      <3>2. k <= before + 8
        BY <1>1, <1>10, <3>1
      <3>3. least = before + 1
        BY <1>7, <1>9, <3>1, <3>2
      <3> HIDE DEF At, least
      <3>4. GetFirmwareVersion(bytes) = NoTag
        BY <1>1, <1>8, <1>10, <2>2, <3>3 DEF VersionLen
      <3>5. QED
        BY <1>1, <1>10, <3>4
    <2>3. QED
      BY <2>1, <2>2
  <1>11. CASE Len(bytes) >= before + 8
    <2>1. before + 1 \in At
      <3>1. before + 1 \in 1..(Len(bytes) - 2)
        BY <1>1, <1>11
      <3>2. /\ bytes[before + 1] = Tag(v)[1]
            /\ bytes[before + 2] = Tag(v)[2]
            /\ bytes[before + 3] = Tag(v)[3]
        <4>1. /\ before + 1 <= Len(bytes) /\ before + 2 <= Len(bytes)
              /\ before + 3 <= Len(bytes)
          BY <1>1, <1>11
        <4> HIDE DEF At, least
        <4>2. QED
          BY <1>5a, <4>1
      <3>3. before + 1 + 1 = before + 2 /\ before + 1 + 2 = before + 3
        OBVIOUS
      <3> HIDE DEF At
      <3>4. before + 1 \in At <=> /\ bytes[before + 1] = "S"
                                 /\ bytes[before + 2] = "-"
                                 /\ bytes[before + 3] = "V"
        BY <1>6, <3>1, <3>3
      <3>5. QED
        BY <1>2, <3>2, <3>4
    <2>2. GetFirmwareVersion(bytes) = SubSeq(bytes, before + 1, before + 8)
      <3> HIDE DEF At, least
      <3>1. GetFirmwareVersion(bytes) =
              IF before + 1 + VersionLen - 1 > Len(bytes) THEN NoTag
              ELSE SubSeq(bytes, before + 1, before + 1 + VersionLen - 1)
        BY <1>8, <1>9, <2>1
      <3>2. before + 1 + VersionLen - 1 = before + 8
        BY DEF VersionLen
      <3>3. ~(before + 8 > Len(bytes))
        BY <1>1, <1>11
      <3>4. QED
        BY <3>1, <3>2, <3>3
    <2>3. SubSeq(bytes, before + 1, before + 8) = Tag(v)
      <3> DEFINE found == SubSeq(bytes, before + 1, before + 8)
      <3>1. /\ found \in Seq(Char) /\ Len(found) = 8
            /\ \A j \in 1..8 : found[j] = bytes[before + j]
        <4>1. /\ before + 1 \in 1..Len(bytes) /\ before + 8 \in (before + 1)..Len(bytes)
              /\ before + 8 - (before + 1) = 7
              /\ \A j \in 1..8 : before + 1 + j - 1 = before + j
          BY <1>1, <1>11
        <4>2. found \in Frame
          BY <4>1, PieceIsFrame
        <4>3. Len(found) = 8 /\ \A j \in 1..8 : found[j] = bytes[before + 1 + j - 1]
          BY <4>1, PieceIsFrame
        <4> HIDE DEF found
        <4>4. QED
          BY <4>1, <4>2, <4>3 DEF Frame
      <3>2. ASSUME NEW j \in 1..8
            PROVE  bytes[before + j] = Tag(v)[j]
        <4>1. before + j <= Len(bytes)
          BY <1>1, <1>11
        <4>2. QED
          BY <1>5a, <4>1
      <3> HIDE DEF found
      <3>3. \A j \in 1..Len(found) : found[j] = Tag(v)[j]
        <4>1. 1..Len(found) = 1..8
          BY <3>1
        <4>2. ASSUME NEW j \in 1..8
              PROVE  found[j] = Tag(v)[j]
          <5>1. found[j] = bytes[before + j]
            BY <3>1
          <5>2. QED
            BY <3>2, <5>1
        <4>3. QED
          BY <4>1, <4>2
      <3>4. found = Tag(v)
        <4>1. found \in Seq(Char) /\ Tag(v) \in Seq(Char) /\ Len(found) = Len(Tag(v))
          BY <1>2, <3>1
        <4>2. QED
          BY <3>3, <4>1, SeqEqual, Zenon
      <3>5. QED
        BY <3>4 DEF found
    <2>4. QED
      BY <1>1, <1>11, <2>2, <2>3
  <1>12. QED
    BY <1>1, <1>10, <1>11

-----------------------------------------------------------------------------

LEMMA InitInv == Init => IInv
  <1> SUFFICES ASSUME Init PROVE IInv
    OBVIOUS
  <1>1. buffer \in Seq(Char) /\ Len(buffer) <= MaxBytes + 7
    BY ClearedType DEF Init
  <1>2. coming \in Seq(Frame) /\ DOMAIN coming = {}
    BY EmptySeq DEF Init
  <1>3. QED
    BY <1>1, <1>2 DEF Init, IInv, TypeInv, AnswerInv, ClearsFirst, TypeOK

LEMMA NextType == TypeInv /\ [Next]_vars => TypeInv'
  <1> SUFFICES ASSUME TypeInv, [Next]_vars PROVE TypeInv'
    OBVIOUS
  <1> USE DEF TypeInv
  <1>0. << >> \in Seq(Frame) /\ DOMAIN << >> = {}
    BY EmptySeq
  <1>1. CASE Connect
    BY <1>1 DEF Connect, TypeOK
  <1>2. CASE Disconnect
    BY <1>2, ClearedType DEF Disconnect, TypeOK
  <1>3. CASE \E c \in Caller : Request(c)
    BY <1>3 DEF Request, Order, TypeOK
  <1>4. CASE \E c \in Caller : Clear(c)
    BY <1>4, ClearedType DEF Clear, Reopen, Order, TypeOK
  <1>5. CASE \E c \in Caller : Send(c)
    <2>1. PICK c \in Caller : Send(c)
      BY <1>5
    <2>2. PICK reply \in Replies(version) : coming' = coming \o reply
      BY <2>1 DEF Send
    <2>3. PICK before \in {0, 6}, len \in {4, 8} : reply = Reply(version, before, len)
      BY DEF Replies
    <2>4. reply \in Seq(Frame)
      BY <2>3, ReplyType DEF CutInOrder, TypeOK
    <2>5. coming' \in Seq(Frame)
      BY <2>2, <2>4, ConcatProperties
    <2>6. QED
      BY <2>1, <2>5, FramesType DEF Send, Order, TypeOK
  <1>6. CASE \E c \in Caller : SendFails(c)
    BY <1>6 DEF SendFails, TypeOK
  <1>7. CASE Read
    <2>1. Head(coming) \in Frame /\ coming' \in Seq(Frame)
      BY <1>7, HeadTailProperties DEF Read
    <2>2. buffer' \in Seq(Char) /\ Len(buffer') <= MaxBytes + 7
      BY <1>7, <2>1, KeepType DEF Read
    <2>3. QED
      BY <1>7, <2>1, <2>2, FramesType DEF Read, TypeOK
  <1>8. CASE ReadForeign
    <2>1. buffer' \in Seq(Char) /\ Len(buffer') <= MaxBytes + 7
      BY <1>8, ForeignIsFrame, KeepType DEF ReadForeign
    <2>2. QED
      BY <1>8, <2>1 DEF ReadForeign, TypeOK
  <1>9. CASE Lose
    <2>1. coming' \in Seq(Frame)
      BY <1>9, HeadTailProperties DEF Lose
    <2>2. QED
      BY <1>9, <2>1, FramesType DEF Lose, TypeOK
  <1>10. CASE Update
    <2>1. coming' \in Seq(Frame)
      <3>1. PICK sent \in 0..Len(coming) : coming' = SubSeq(coming, 1, sent)
        BY <1>10 DEF Update
      <3>2. \A k \in 1..sent : coming[k] \in Frame
        BY <3>1, ElementOfSeq
      <3>3. QED
        BY <3>1, <3>2, SubSeqProperties
    <2>2. QED
      BY <1>10, <2>1, FramesType DEF Update, TypeOK
  <1>11. CASE UNCHANGED vars
    BY <1>11 DEF vars, TypeOK
  <1>12. QED
    BY <1>1, <1>2, <1>3, <1>4, <1>5, <1>6, <1>7, <1>8, <1>9, <1>10, <1>11 DEF Next

(* What AnswerInv is about: buffer, coming, asked and clean.               *)
LEMMA AnswerUnchanged ==
  ASSUME AnswerInv, UNCHANGED <<buffer, coming, asked, clean>>
  PROVE  AnswerInv'
  <1>1. \A before \in {0, 6} : Stored(before) => Stored(before)'
    BY DEF Stored, Agrees
  <1>2. \A before \in {0, 6}, len \in {4, 8}, n \in 0..3 :
          Arriving(before, len, n) => Arriving(before, len, n)'
    BY DEF Arriving, Agrees
  <1>3. QED
    BY <1>1, <1>2 DEF AnswerInv

(* Sending to an arm that owes nothing starts its answer, and to one that  *)
(* has answered or is answering adds to what comes after.                  *)
LEMMA SendAnswer ==
  ASSUME IInv, NEW c \in Caller, Send(c), clean
  PROVE  AnswerInv'
  <1>1. PICK before \in {0, 6}, len \in {4, 8} : coming' = coming \o Reply(version, before, len)
    <2>1. PICK answer \in Replies(version) : coming' = coming \o answer
      BY DEF Send
    <2>2. PICK before \in {0, 6}, len \in {4, 8} : answer = Reply(version, before, len)
      BY DEF Replies
    <2>3. QED
      BY <2>1, <2>2
  <1> DEFINE reply == Reply(version, before, len)
  <1>2. version \in Version /\ coming \in Seq(Frame) /\ asked \in Version \cup {NoVersion}
    BY DEF IInv, TypeInv, TypeOK
  <1>3. reply \in Seq(Frame) /\ Len(reply) \in 1..4
    BY <1>2, ReplyType DEF CutInOrder
  <1>4. buffer' = buffer /\ asked' = IF asked = NoVersion THEN version ELSE asked
    BY DEF Send
  <1>5. version # NoVersion
    BY <1>2, FirmwareAssumption
  <1>6. coming' = coming \o reply
    BY <1>1
  <1>7. CASE asked = NoVersion
    <2>1. buffer' = << >> /\ coming' = reply /\ asked' = version
      <3>1. buffer = << >> /\ coming = << >>
        BY <1>7 DEF IInv, AnswerInv
      <3> HIDE DEF reply
      <3>2. << >> \o reply = reply
        BY <1>3, ConcatEmptySeq
      <3>3. QED
        BY <1>4, <1>6, <1>7, <3>1, <3>2
    <2>2. Len(<< >>) = 0
      OBVIOUS
    <2> DEFINE owed == Reply(asked, before, len)
    <2>3. owed' = reply
      BY <2>1
    <2>4. Agrees(Bytes(asked, before))' /\ Len(buffer') = 0 * len
      BY <2>1, <2>2 DEF Agrees
    <2>5. Arriving(before, len, 0)'
      <3>1. Arriving(before, len, 0)' =
              (/\ 0 < Len(owed') /\ Len(buffer') = 0 * len
               /\ Agrees(Bytes(asked, before))'
               /\ Len(coming') >= Len(owed') - 0
               /\ \A k \in 1..(Len(owed') - 0) : coming'[k] = owed'[0 + k])
        BY DEF Arriving
      <3> HIDE DEF owed, reply
      <3>2. Len(reply) - 0 = Len(reply) /\ 0 < Len(reply) /\ Len(reply) >= Len(reply)
        BY <1>3
      <3>3. \A k \in 1..Len(reply) : 0 + k = k
        OBVIOUS
      <3>4. QED
        BY <2>1, <2>3, <2>4, <3>1, <3>2, <3>3
    <2>6. QED
      BY <1>5, <2>1, <2>5 DEF AnswerInv
  <1>8. CASE asked # NoVersion
    <2>1. /\ coming' \in Seq(Frame) /\ Len(coming) \in Nat
          /\ Len(coming') = Len(coming) + Len(reply)
          /\ \A k \in 1..Len(coming) : coming'[k] = coming[k]
      <3> HIDE DEF reply
      <3>1. QED
        BY <1>2, <1>3, <1>6, ConcatProperties, LenProperties
    <2>2. buffer' = buffer /\ asked' = asked
      BY <1>4, <1>8
    <2>3. PICK first \in {0, 6} :
            \/ Stored(first)
            \/ \E width \in {4, 8}, n \in 0..3 : Arriving(first, width, n)
      BY <1>8 DEF IInv, AnswerInv
    <2> HIDE DEF reply
    <2>4. CASE Stored(first)
      <3>1. Stored(first)'
        BY <2>2, <2>4 DEF Stored, Agrees
      <3>2. QED
        BY <1>8, <2>2, <3>1 DEF AnswerInv
    <2>5. ASSUME NEW width \in {4, 8}, NEW n \in 0..3, Arriving(first, width, n)
          PROVE  AnswerInv'
      <3> DEFINE owed == Reply(asked, first, width)
      <3>1. Len(owed) \in 1..4
        BY <1>2, <1>8, ReplyType DEF CutInOrder
      <3>2. owed' = owed
        BY <2>2
      <3>3. /\ n < Len(owed) /\ Len(buffer) = n * width /\ Agrees(Bytes(asked, first))
            /\ Len(coming) >= Len(owed) - n
            /\ \A k \in 1..(Len(owed) - n) : coming[k] = owed[n + k]
        BY <2>5 DEF Arriving
      <3>4. Agrees(Bytes(asked, first))' /\ Len(buffer') = n * width
        BY <2>2, <3>3 DEF Agrees
      <3>5. Arriving(first, width, n)' =
              (/\ n < Len(owed') /\ Len(buffer') = n * width
               /\ Agrees(Bytes(asked, first))'
               /\ Len(coming') >= Len(owed') - n
               /\ \A k \in 1..(Len(owed') - n) : coming'[k] = owed'[n + k])
        BY DEF Arriving
      <3> HIDE DEF owed
      <3>6. Arriving(first, width, n)'
        <4> DEFINE rest == Len(owed) - n
        <4>1. rest \in Nat /\ Len(coming) >= rest /\ Len(coming') >= rest
          BY <1>3, <2>1, <3>1, <3>3
        <4> HIDE DEF rest
        <4>2. \A k \in 1..rest : coming'[k] = coming[k]
          BY <2>1, <4>1
        <4>3. \A k \in 1..rest : coming'[k] = owed[n + k]
          BY <3>3, <4>2 DEF rest
        <4>4. QED
          BY <3>2, <3>3, <3>4, <3>5, <4>1, <4>3 DEF rest
      <3>7. QED
        BY <1>8, <2>2, <3>6 DEF AnswerInv
    <2>6. QED
      BY <2>3, <2>4, <2>5
  <1>9. QED
    BY <1>7, <1>8

(* Once the answer is stored, what is read after it changes none of it.    *)
LEMMA ReadAfterAnswer ==
  ASSUME IInv, Read, NEW before \in {0, 6}, Stored(before), asked # NoVersion
  PROVE  Stored(before)'
  <1>1. Head(coming) \in Seq(Char) /\ buffer \in Seq(Char)
    <2>1. Head(coming) \in Frame
      BY HeadTailProperties DEF IInv, TypeInv, Read
    <2>2. QED
      BY <2>1 DEF Frame, IInv, TypeInv, TypeOK
  <1>2. Len(buffer) \in Nat /\ Len(Head(coming)) \in Nat
    BY <1>1, LenProperties
  <1>3. buffer' = buffer \o Head(coming) \/ buffer' = buffer
    BY DEF Read, Keep
  <1>4. Len(buffer') \in Nat /\ Len(buffer') >= Len(buffer)
        /\ \A k \in 1..Len(buffer) : buffer'[k] = buffer[k]
    BY <1>1, <1>2, <1>3, ConcatProperties
  <1>5. asked' = asked
    BY DEF Read
  <1>6. Len(Bytes(asked, before)) = before + 8
    BY BytesType DEF IInv, TypeInv, TypeOK
  <1>7. Len(buffer) >= before + 8 /\ Agrees(Bytes(asked, before))
    BY DEF Stored
  <1>8. Agrees(Bytes(asked, before))'
    BY <1>2, <1>4, <1>5, <1>6, <1>7 DEF Agrees
  <1>9. QED
    BY <1>2, <1>4, <1>7, <1>8 DEF Stored

(* A frame of the answer finds room, and goes on where the last one ended. *)
LEMMA ReadOfAnswer ==
  ASSUME IInv, Read, asked # NoVersion,
         NEW before \in {0, 6}, NEW len \in {4, 8}, NEW n \in 0..3,
         Arriving(before, len, n)
  PROVE  \/ Stored(before)'
         \/ n + 1 \in 0..3 /\ Arriving(before, len, n + 1)'
  <1> DEFINE reply == Reply(asked, before, len)
             bytes == Bytes(asked, before)
  <1>1. /\ asked \in Version /\ coming \in Seq(Frame) /\ buffer \in Seq(Char)
        /\ coming # << >> /\ asked' = asked
    BY DEF IInv, TypeInv, TypeOK, Read
  <1>2. /\ reply \in Seq(Frame)
        /\ Len(reply) \in 1..4
        /\ (Len(reply) - 1) * len < before + 8
        /\ \A k \in 1..Len(reply) :
             /\ Len(reply[k]) = IF k < Len(reply) THEN len
                                ELSE before + 8 - (k - 1) * len
             /\ \A m \in 1..Len(reply[k]) : reply[k][m] = bytes[(k - 1) * len + m]
    <2>1. CutInOrder(reply, bytes, before, len)
      BY <1>1, ReplyType
    <2> HIDE DEF reply, bytes
    <2>2. QED
      BY <2>1 DEF CutInOrder
  <1>3. Len(bytes) = before + 8
    BY <1>1, BytesType
  <1>4. /\ n < Len(reply) /\ Len(buffer) = n * len /\ Agrees(bytes)
        /\ Len(coming) >= Len(reply) - n
        /\ \A k \in 1..(Len(reply) - n) : coming[k] = reply[n + k]
    BY DEF Arriving
  <1>5. bytes' = bytes /\ reply' = reply
    BY <1>1
  <1>6. Arriving(before, len, n + 1)' =
          (/\ n + 1 < Len(reply') /\ Len(buffer') = (n + 1) * len /\ Agrees(bytes)'
           /\ Len(coming') >= Len(reply') - (n + 1)
           /\ \A k \in 1..(Len(reply') - (n + 1)) : coming'[k] = reply'[n + 1 + k])
    BY DEF Arriving
  <1>7. Stored(before)' = (Len(buffer') >= before + 8 /\ Agrees(bytes)')
    BY DEF Stored
  <1> HIDE DEF reply, bytes
  <1>8. /\ coming' \in Seq(Frame) /\ Len(coming') = Len(coming) - 1
        /\ \A k \in 1..Len(coming') : coming'[k] = coming[k + 1]
        /\ Len(coming) \in Nat
    BY <1>1, HeadTailProperties, LenProperties DEF Read
  <1>9. Head(coming) = reply[n + 1]
    <2>1. Head(coming) = coming[1]
      BY <1>1
    <2>2. Len(reply) - n \in Nat /\ 1 \in 1..(Len(reply) - n) /\ n + 1 \in Nat
      BY <1>2, <1>4
    <2>3. coming[1] = reply[n + 1]
      BY <1>4, <2>2
    <2>4. QED
      BY <2>1, <2>3
  <1>10. /\ n + 1 \in 1..Len(reply)
         /\ reply[n + 1] \in Seq(Char)
         /\ Len(reply[n + 1]) = IF n + 1 < Len(reply) THEN len ELSE before + 8 - n * len
         /\ \A m \in 1..Len(reply[n + 1]) : reply[n + 1][m] = bytes[n * len + m]
    <2>1. n + 1 \in 1..Len(reply) /\ n + 1 - 1 = n
      BY <1>2, <1>4
    <2>2. reply[n + 1] \in Frame
      BY <1>2, <2>1, ElementOfSeq
    <2>3. ASSUME NEW k \in 1..Len(reply), k = n + 1
          PROVE  /\ Len(reply[k]) = IF k < Len(reply) THEN len ELSE before + 8 - n * len
                 /\ \A m \in 1..Len(reply[k]) : reply[k][m] = bytes[n * len + m]
      <3>1. k - 1 = n
        BY <2>3
      <3>2. /\ Len(reply[k]) = IF k < Len(reply) THEN len ELSE before + 8 - (k - 1) * len
            /\ \A m \in 1..Len(reply[k]) : reply[k][m] = bytes[(k - 1) * len + m]
        BY <1>2, Zenon
      <3>3. QED
        BY <3>1, <3>2, Zenon
    <2>4. reply[n + 1] \in Seq(Char)
      BY <2>2 DEF Frame
    <2>5. QED
      BY <2>1, <2>3, <2>4, Zenon
  <1>11. /\ n * len \in Nat /\ n * len < before + 8 /\ (n + 1) * len = n * len + len
         /\ n * len < MaxBytes
    <2>1. CASE len = 4
      BY <1>2, <1>4, <2>1, FirmwareAssumption, RoomAssumption
    <2>2. CASE len = 8
      BY <1>2, <1>4, <2>2, FirmwareAssumption, RoomAssumption
    <2>3. QED
      BY <2>1, <2>2
  <1>12. buffer' = buffer \o reply[n + 1]
    BY <1>4, <1>9, <1>11 DEF Read, Keep
  <1> DEFINE held == n * len
             more == Len(reply[n + 1])
  <1>13. /\ Len(buffer') = held + more
         /\ \A k \in 1..(held + more) :
              buffer'[k] = IF k <= held THEN buffer[k] ELSE reply[n + 1][k - held]
    <2> DEFINE next == reply[n + 1]
    <2>1. next \in Seq(Char) /\ Len(next) = more
      BY <1>10
    <2> HIDE DEF next, held, more
    <2>2. /\ buffer \o next \in Seq(Char)
          /\ Len(buffer \o next) = Len(buffer) + Len(next)
          /\ \A k \in 1..(Len(buffer) + Len(next)) :
               (buffer \o next)[k] =
                 IF k <= Len(buffer) THEN buffer[k] ELSE next[k - Len(buffer)]
      BY <1>1, <2>1, ConcatProperties, Zenon
    <2>3. Len(buffer) = held /\ buffer' = buffer \o next
      BY <1>4, <1>12 DEF next, held
    <2>4. /\ Len(buffer') = held + more
          /\ \A k \in 1..(held + more) :
               buffer'[k] = IF k <= held THEN buffer[k] ELSE next[k - held]
      BY <2>1, <2>2, <2>3
    <2>5. QED
      BY <2>4 DEF next
  <1>14. held \in Nat /\ more \in Nat /\ Len(bytes) \in Nat
    <2>1. held \in Nat
      BY <1>11
    <2>2. more \in Nat
      BY <1>10, LenProperties
    <2>3. Len(bytes) \in Nat
      BY <1>3
    <2>4. QED
      BY <2>1, <2>2, <2>3
  <1>15. Agrees(bytes)'
    <2> SUFFICES ASSUME NEW k \in 1..Len(buffer'), k <= Len(bytes)
                 PROVE  buffer'[k] = bytes[k]
      BY <1>5 DEF Agrees
    <2>1. k \in 1..(held + more)
      BY <1>13
    <2>2. CASE k <= held
      <3>1. buffer'[k] = buffer[k]
        BY <1>13, <2>1, <2>2
      <3>2. k \in 1..Len(buffer)
        BY <1>4, <1>14, <2>1, <2>2
      <3>3. QED
        BY <1>4, <3>1, <3>2 DEF Agrees
    <2>3. CASE k > held
      <3>1. k - held \in 1..more /\ held + (k - held) = k
        <4> HIDE DEF held, more
        <4>1. QED
          BY <1>14, <2>1, <2>3
      <3>2. buffer'[k] = reply[n + 1][k - held]
        <4>1. ~(k <= held)
          BY <1>14, <2>1, <2>3
        <4>2. QED
          BY <1>13, <2>1, <4>1
      <3>3. QED
        BY <1>10, <3>1, <3>2
    <2>4. QED
      BY <1>14, <2>1, <2>2, <2>3
  <1>16. CASE n + 1 < Len(reply)
    <2>1. Len(buffer') = (n + 1) * len
      BY <1>10, <1>11, <1>13, <1>16
    <2>2. Len(coming') >= Len(reply) - (n + 1)
      BY <1>2, <1>4, <1>8
    <2>3. ASSUME NEW k \in 1..(Len(reply) - (n + 1))
          PROVE  coming'[k] = reply[n + 1 + k]
      <3>1. k \in 1..Len(coming') /\ k + 1 \in 1..(Len(reply) - n) /\ n + (k + 1) = n + 1 + k
        BY <1>2, <1>4, <1>8, <2>2
      <3>2. QED
        BY <1>4, <1>8, <3>1
    <2>4. n + 1 \in 0..3
      BY <1>2, <1>16
    <2>5. QED
      BY <1>5, <1>6, <1>15, <1>16, <2>1, <2>2, <2>3, <2>4
  <1>17. CASE ~(n + 1 < Len(reply))
    <2>1. Len(buffer') = before + 8
      <3>1. more = before + 8 - held
        BY <1>10, <1>17
      <3> HIDE DEF held, more
      <3>2. held + more = before + 8
        BY <1>14, <3>1
      <3>3. QED
        BY <1>13, <3>2
    <2>2. Len(buffer') >= before + 8
      BY <2>1
    <2>3. QED
      BY <1>7, <1>15, <2>2
  <1>18. QED
    BY <1>16, <1>17

LEMMA NextAnswer == IInv /\ [Next]_vars => AnswerInv'
  <1> SUFFICES ASSUME IInv, [Next]_vars PROVE AnswerInv'
    OBVIOUS
  <1>0. AnswerInv /\ coming \in Seq(Frame) /\ clean \in BOOLEAN
    BY DEF IInv, TypeInv, TypeOK
  <1>1. CASE Connect
    BY <1>0, <1>1, AnswerUnchanged DEF Connect
  <1>2. CASE Disconnect
    BY <1>2 DEF Disconnect, AnswerInv
  <1>3. CASE \E c \in Caller : Request(c)
    BY <1>0, <1>3, AnswerUnchanged DEF Request
  <1>4. CASE \E c \in Caller : Clear(c)
    BY <1>4 DEF Clear, Reopen, IInv, ClearsFirst, AnswerInv
  <1>5. CASE \E c \in Caller : Send(c)
    <2>1. CASE clean
      BY <1>5, <2>1, SendAnswer
    <2>2. CASE ~clean
      BY <1>5, <2>2 DEF Send, AnswerInv
    <2>3. QED
      BY <2>1, <2>2
  <1>6. CASE \E c \in Caller : SendFails(c)
    BY <1>0, <1>6, AnswerUnchanged DEF SendFails
  <1>7. CASE Read
    <2>1. clean' = clean /\ asked' = asked /\ coming # << >>
      BY <1>7 DEF Read
    <2>2. CASE clean
      <3>1. asked # NoVersion
        BY <1>0, <2>1, <2>2 DEF AnswerInv
      <3>2. PICK before \in {0, 6} :
              \/ Stored(before)
              \/ \E len \in {4, 8}, n \in 0..3 : Arriving(before, len, n)
        BY <1>0, <2>1, <2>2 DEF AnswerInv
      <3>3. CASE Stored(before)
        <4>1. Stored(before)'
          BY <1>7, <3>1, <3>3, ReadAfterAnswer
        <4>2. QED
          BY <2>1, <3>1, <4>1 DEF AnswerInv
      <3>4. ASSUME NEW len \in {4, 8}, NEW n \in 0..3, Arriving(before, len, n)
            PROVE  AnswerInv'
        <4>1. Stored(before)' \/ (n + 1 \in 0..3 /\ Arriving(before, len, n + 1)')
          BY <1>7, <3>1, <3>4, ReadOfAnswer
        <4>2. CASE Stored(before)'
          BY <2>1, <3>1, <4>2 DEF AnswerInv
        <4>3. CASE n + 1 \in 0..3 /\ Arriving(before, len, n + 1)'
          BY <2>1, <3>1, <4>3 DEF AnswerInv
        <4>4. QED
          BY <4>1, <4>2, <4>3
      <3>5. QED
        BY <3>2, <3>3, <3>4
    <2>3. CASE ~clean
      BY <2>1, <2>3 DEF AnswerInv
    <2>4. QED
      BY <2>2, <2>3
  <1>8. CASE ReadForeign
    BY <1>8 DEF ReadForeign, AnswerInv
  <1>9. CASE Lose
    BY <1>9 DEF Lose, AnswerInv
  <1>10. CASE Update
    <2>1. /\ buffer' = buffer /\ asked' = asked
          /\ clean' = (clean /\ coming' = coming)
      BY <1>10 DEF Update
    <2>2. ASSUME clean, coming' = coming
          PROVE  AnswerInv'
      <3>1. UNCHANGED <<buffer, coming, asked, clean>>
        BY <1>0, <2>1, <2>2
      <3>2. QED
        BY <1>0, <3>1, AnswerUnchanged
    <2>3. QED
      BY <1>0, <2>1, <2>2 DEF AnswerInv
  <1>11. CASE UNCHANGED vars
    BY <1>0, <1>11, AnswerUnchanged DEF vars
  <1>12. QED
    BY <1>1, <1>2, <1>3, <1>4, <1>5, <1>6, <1>7, <1>8, <1>9, <1>10, <1>11 DEF Next

(* A call that begins, or whose query was sent, has nothing left to clear. *)
LEMMA NextClears == IInv /\ [Next]_vars => ClearsFirst'
  <1> SUFFICES ASSUME IInv, [Next]_vars PROVE ClearsFirst'
    OBVIOUS
  <1> USE DEF ClearsFirst, Order
  <1>0. ClearsFirst /\ pc \in [Caller -> {"idle", "clear", "send"}]
    BY DEF IInv, TypeInv, TypeOK
  <1>1. ASSUME UNCHANGED pc, asking' \in {asking, {}} PROVE ClearsFirst'
    BY <1>0, <1>1
  <1>2. ASSUME NEW c \in Caller, Request(c) PROVE ClearsFirst'
    BY <1>0, <1>2 DEF Request
  <1>3. ASSUME NEW c \in Caller, Clear(c) PROVE ClearsFirst'
    BY <1>0, <1>3 DEF Clear, Reopen
  <1>4. ASSUME NEW c \in Caller, Send(c) PROVE ClearsFirst'
    BY <1>0, <1>4 DEF Send
  <1>5. ASSUME NEW c \in Caller, SendFails(c) PROVE ClearsFirst'
    BY <1>0, <1>5 DEF SendFails
  <1>6. CASE Connect \/ Disconnect \/ Read \/ ReadForeign \/ Lose \/ Update
    BY <1>1, <1>6 DEF Connect, Disconnect, Read, ReadForeign, Lose, Update
  <1>7. CASE UNCHANGED vars
    BY <1>1, <1>7 DEF vars
  <1>8. QED
    BY <1>2, <1>3, <1>4, <1>5, <1>6, <1>7 DEF Next

LEMMA NextInv == IInv /\ [Next]_vars => IInv'
  BY NextType, NextAnswer, NextClears DEF IInv

(* The strengthened invariant holds in every behaviour.                    *)
LEMMA Invariance == Spec => []IInv
  BY InitInv, NextInv, PTL DEF Spec

-----------------------------------------------------------------------------

(* Every variable keeps its type, and the buffer outgrows its limit by     *)
(* less than a frame, whoever else queries and however long nobody clears. *)
THEOREM BufferBound == Spec => []TypeOK
  <1>1. IInv => TypeOK
    BY DEF IInv, TypeInv
  <1>2. QED
    BY <1>1, Invariance, PTL

(* With nothing older under way when the query emptied the buffer, nothing *)
(* lost and nothing foreign heard since, getFirmwareVersion() finds the    *)
(* version that answered or, while frames of the answer are under way,     *)
(* none, however the answer is cut: its frames are stored in the order     *)
(* they were sent, none of them is dropped by the call that asked, and     *)
(* answers to later queries come behind them.                              *)
THEOREM AnswerIsTheVersion == Spec => []TagIsTheAnswer
  <1>1. IInv => TagIsTheAnswer
    <2> SUFFICES ASSUME IInv, clean PROVE TagIsTheAnswer
      BY DEF TagIsTheAnswer
    <2>1. buffer \in Seq(Char) /\ Len(buffer) \in Nat /\ asked \in Version \cup {NoVersion}
      BY LenProperties DEF IInv, TypeInv, TypeOK
    <2>2. CASE asked = NoVersion
      <3>1. Len(buffer) = 0
        BY <2>2 DEF IInv, AnswerInv
      <3>2. GetFirmwareVersion(buffer) = NoTag
        BY <3>1 DEF GetFirmwareVersion
      <3>3. QED
        BY <2>2, <3>2 DEF TagIsTheAnswer
    <2>3. CASE asked # NoVersion
      <3>1. PICK before \in {0, 6} :
              \/ Stored(before)
              \/ \E len \in {4, 8}, n \in 0..3 : Arriving(before, len, n)
        BY <2>3 DEF IInv, AnswerInv
      <3>2. Agrees(Bytes(asked, before))
        BY <3>1 DEF Stored, Arriving
      <3>3. Len(Bytes(asked, before)) = before + 8
        BY <2>1, <2>3, BytesType
      <3>4. GetFirmwareVersion(buffer) =
              IF Len(buffer) >= before + 8 THEN Tag(asked) ELSE NoTag
        BY <2>1, <2>3, <3>2, <3>3, TagFound DEF Agrees
      <3>5. Stored(before) \/ coming # << >>
        <4>1. ASSUME NEW len \in {4, 8}, NEW n \in 0..3, Arriving(before, len, n)
              PROVE  coming # << >>
          <5>1. Len(Reply(asked, before, len)) \in 1..4
            BY <2>1, <2>3, ReplyType DEF CutInOrder
          <5>2. Len(coming) >= 1
            BY <4>1, <5>1 DEF Arriving
          <5>3. QED
            BY <5>2
        <4>2. QED
          BY <3>1, <4>1
      <3>6. QED
        BY <2>3, <3>4, <3>5 DEF TagIsTheAnswer, Stored
    <2>4. QED
      BY <2>2, <2>3
  <1>2. QED
    BY <1>1, Invariance, PTL

=============================================================================
