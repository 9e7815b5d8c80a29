---------------------------- MODULE FirmwareQuery ----------------------------
(***************************************************************************)
(* The firmware version of the arm.  A query empties the buffer and is     *)
(* sent; the read thread appends whatever 0x4AF frames it hears; and       *)
(* getFirmwareVersion() looks for a tag in what has been appended so far.  *)
(* Nothing ties a frame to a query, and the arm's answer takes several.    *)
(*                                                                         *)
(* A byte is a character.  The tag of a version is the marker and five     *)
(* characters, here the version's own.                                     *)
(***************************************************************************)
EXTENDS Integers, Sequences

CONSTANTS
  Caller,     \* threads that query
  Version,    \* firmware versions, each a character
  NoVersion,
  MaxBytes,   \* kMaxFirmwareBytes
  MaxComing   \* bound on the frames that are under way

ASSUME FirmwareAssumption ==
  /\ NoVersion \notin Version
  /\ Version \cap {"S", "-", "V", "x", "0"} = {}
  /\ MaxBytes \in Nat
  /\ MaxComing \in Nat

(* The longest answer fits (kMaxFirmwareBytes is 256).                     *)
ASSUME RoomAssumption == MaxBytes >= 14

VARIABLES
  connected,
  buffer,     \* firmware_data_
  pc,         \* sendFirmwareQuery() of a caller: "idle", "clear" or "send"
  version,    \* the arm: the firmware it runs
  coming,     \* frames it has to send, or that wait to be read
  asked,      \* history: the version that answered the first query sent
              \*   since the buffer was emptied
  asking,     \* history: the caller that sent it, until it begins another
              \*   call; no caller, or one
  clean       \* history: no frame of an older answer was under way then,
              \*   none was lost and no foreign one was heard since

vars == <<connected, buffer, pc, version, coming, asked, asking, clean>>

Char == Version \cup {"S", "-", "V", "x", "0"}

Marker == <<"S", "-", "V">>
VersionLen == 8

Tag(v) == Marker \o <<v, v, v, v, v>>

NoTag == << >>

(* The first marker, and the tag from it once it is all there.             *)
GetFirmwareVersion(bytes) ==
  LET At == {k \in 1..(Len(bytes) - 2) : SubSeq(bytes, k, k + 2) = Marker}
  IN  IF At = {} THEN NoTag
      ELSE LET k == CHOOSE k \in At : \A j \in At : k <= j
           IN  IF k + VersionLen - 1 > Len(bytes) THEN NoTag
               ELSE SubSeq(bytes, k, k + VersionLen - 1)

-----------------------------------------------------------------------------
(* An answer: the tag after some other bytes, in frames of a length.       *)
Bytes(v, before) == [k \in 1..before |-> "x"] \o Tag(v)

Reply(v, before, len) ==
  LET bytes == Bytes(v, before)
      frames == (Len(bytes) + len - 1) \div len
  IN  [k \in 1..frames |->
         SubSeq(bytes, (k - 1) * len + 1,
                IF k < frames THEN k * len ELSE Len(bytes))]

Replies(v) == {Reply(v, before, len) : before \in {0, 6}, len \in {4, 8}}

(* The query of another controller on the bus, which is heard as well.     *)
ForeignFrame == [k \in 1..8 |-> "0"]

Init ==
  /\ connected = FALSE
  /\ buffer = << >>
  /\ pc = [c \in Caller |-> "idle"]
  /\ version \in Version
  /\ coming = << >>
  /\ asked = NoVersion
  /\ asking = {}
  /\ clean = TRUE

Connect ==
  /\ ~connected
  /\ connected' = TRUE
  /\ UNCHANGED <<buffer, pc, version, coming, asked, asking, clean>>

(* disconnectPort(): the read thread has stopped, resetStates() empties    *)
(* the buffer, and what is under way may be heard by the next session.     *)
Disconnect ==
  /\ connected
  /\ connected' = FALSE
  /\ buffer' = << >>
  /\ asked' = NoVersion
  /\ asking' = {}
  /\ clean' = (coming = << >>)
  /\ UNCHANGED <<pc, version, coming>>

OrderSendFirst == [idle |-> "send", send |-> "clear", clear |-> "idle"]

(* sendFirmwareQuery() empties the buffer, then sends.                     *)
Order == [idle |-> "clear", clear |-> "send", send |-> "idle"]

(* It is refused when not connected, before it empties anything.           *)
Request(c) ==
  /\ pc[c] = "idle" /\ connected
  /\ pc' = [pc EXCEPT ![c] = Order["idle"]]
  /\ asking' = asking \ {c}
  /\ UNCHANGED <<connected, buffer, version, coming, asked, clean>>

(* History: a clearing opens the way for the next answer, unless it is of  *)
(* the call whose query has been sent: that answer is still to be found.   *)
Reopen(c) ==
  IF c \in asking
  THEN UNCHANGED <<asked, asking, clean>>
  ELSE asked' = NoVersion /\ asking' = {} /\ clean' = (coming = << >>)

ClearNothing(c) ==
  /\ pc[c] = "clear"
  /\ Reopen(c)
  /\ pc' = [pc EXCEPT ![c] = Order["clear"]]
  /\ UNCHANGED <<connected, buffer, version, coming>>

Clear(c) ==
  /\ pc[c] = "clear"
  /\ buffer' = << >>
  /\ Reopen(c)
  /\ pc' = [pc EXCEPT ![c] = Order["clear"]]
  /\ UNCHANGED <<connected, version, coming>>

Send(c) ==
  /\ pc[c] = "send" /\ connected
  /\ \E reply \in Replies(version) :
       /\ Len(coming) + Len(reply) <= MaxComing
       /\ coming' = coming \o reply
  /\ IF asked = NoVersion THEN asked' = version /\ asking' = {c}
                          ELSE UNCHANGED <<asked, asking>>
  /\ pc' = [pc EXCEPT ![c] = Order["send"]]
  /\ UNCHANGED <<connected, buffer, version, clean>>

(* The query cannot be sent, or the arm does not hear it.                  *)
SendFails(c) ==
  /\ pc[c] = "send"
  /\ pc' = [pc EXCEPT ![c] = "idle"]
  /\ UNCHANGED <<connected, buffer, version, coming, asked, asking, clean>>

-----------------------------------------------------------------------------
KeepAll(bytes) == buffer \o bytes

(* The read thread stores a frame: the size is tested before.              *)
Keep(bytes) == IF Len(buffer) < MaxBytes THEN buffer \o bytes ELSE buffer

Read ==
  /\ connected /\ coming # << >>
  /\ buffer' = Keep(Head(coming))
  /\ coming' = Tail(coming)
  /\ UNCHANGED <<connected, pc, version, asked, asking, clean>>

ReadForeign ==
  /\ connected
  /\ buffer' = Keep(ForeignFrame)
  /\ clean' = FALSE
  /\ UNCHANGED <<connected, pc, version, coming, asked, asking>>

Lose ==
  /\ coming # << >>
  /\ coming' = Tail(coming)
  /\ clean' = FALSE
  /\ UNCHANGED <<connected, buffer, pc, version, asked, asking>>

(* The arm is updated, and drops what it had to send.  What it has sent may*)
(* still wait to be read.                                                  *)
Update ==
  /\ version' \in Version \ {version}
  /\ \E sent \in 0..Len(coming) : coming' = SubSeq(coming, 1, sent)
  /\ clean' = (clean /\ coming' = coming)
  /\ UNCHANGED <<connected, buffer, pc, asked, asking>>

Next ==
  \/ Connect \/ Disconnect
  \/ \E c \in Caller : Request(c) \/ Clear(c) \/ Send(c) \/ SendFails(c)
  \/ Read \/ ReadForeign \/ Lose \/ Update

Spec == Init /\ [][Next]_vars

-----------------------------------------------------------------------------

(* Types, and the bound of the buffer: the frame that crosses the limit is *)
(* kept whole, and a frame has at most eight bytes (parseCANFrame).        *)
TypeOK ==
  /\ connected \in BOOLEAN
  /\ buffer \in Seq(Char)
  /\ Len(buffer) <= MaxBytes + 7
  /\ pc \in [Caller -> {"idle", "clear", "send"}]
  /\ version \in Version
  /\ \A k \in DOMAIN coming : Len(coming[k]) \in 1..8
  /\ asked \in Version \cup {NoVersion}
  /\ asking \subseteq Caller
  /\ clean \in BOOLEAN

(* With nothing older under way when the query emptied the buffer, nothing *)
(* lost and nothing foreign heard since, getFirmwareVersion() reports the  *)
(* version that answered, never a part of it, never one from before an     *)
(* update, and it does so once the answer has been read: sendFirmwareQuery *)
(* drops nothing of the answer to the query it sends.  A clearing by       *)
(* another caller begins anew.                                             *)
TagIsTheAnswer ==
  clean =>
    /\ asked = NoVersion => GetFirmwareVersion(buffer) = NoTag
    /\ asked # NoVersion =>
         GetFirmwareVersion(buffer) \in
           {Tag(asked)} \cup (IF coming = << >> THEN {} ELSE {NoTag})

=============================================================================
