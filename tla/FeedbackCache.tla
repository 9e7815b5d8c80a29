---------------------------- MODULE FeedbackCache ----------------------------
(***************************************************************************)
(* One multipart feedback cache in service: frames queue in the kernel,    *)
(* the read thread takes them one at a time, COPIES the cached value,      *)
(* clamps what the frame carried by the limits in force, replaces the      *)
(* frame's part in the copy and stores the copy back.  Meanwhile another   *)
(* thread may reset the cell or change the limits: copy, clamp and store   *)
(* are three locked calls (getValue, get...Limit..., set), not one.        *)
(*                                                                         *)
(* The module is about every cell parseCANFrame updates by parts: joint    *)
(* and end-pose feedback, joint targets, IK joints, motor speed feedback   *)
(* and the two motor-limit aggregates; the gripper's cells have one part.  *)
(* A joint frame carries two joints, each clamped by its own limit in its  *)
(* own call: a part's value stands for either.  reset() is called while    *)
(* the read thread runs for the aggregates, and with it stopped for the    *)
(* others; here it may be called at any time, which allows both.           *)
(***************************************************************************)
EXTENDS TimedFreqState, RuntimeLimits, Sequences

CONSTANTS
  Val,          \* what a part's frame may carry
  NoPart,       \* the number in a frame that names no part
  LimitOf,      \* the limits a part's frames may be subject to
  NewRange,     \* pairs of bounds callers pass to the setters
  RxCapacity,   \* frames the kernel holds for the socket
  MaxTime       \* bound on the clock

ASSUME CacheAssumption ==
  /\ Val \subseteq Int
  /\ NoValue \notin Val
  /\ NoPart \notin Part
  /\ LimitOf \in [Part -> SUBSET (Limited \cup {NoLimit})]
  /\ NewRange \subseteq [min : Val, max : Val]
  /\ \A l \in Limited : DefaultLimits[l] \in [min : Val, max : Val]
  /\ RxCapacity \in Nat
  /\ MaxTime \in Nat

VARIABLES
  cell,       \* the TimedFreqState
  now,        \* steady_clock
  rx,         \* frames received by the kernel, not yet read
  pc,         \* read thread: "idle", "clamp" after getValue, "store" before set
  frame,      \* the frame being parsed
  copy,       \* the read thread's copy of the value
  clamped,    \* what it is going to store of the frame
  limits,     \* the PiperParamManager
  lastSet,    \* history: time of the latest store of a part since the last
  prevSet,    \*   reset, and of the one before it; 0 when there is none
  inForce     \* history: the ranges the frame's limit had while it is parsed

threadVars  == <<pc, frame, copy, clamped>>
limitVars   == <<limits, inForce>>
historyVars == <<lastSet, prevSet>>
vars == <<cell, now, rx, threadVars, limitVars, historyVars>>

Frame == [part : Part, val : Val, limit : Limited \cup {NoLimit}, at : Nat]
Stray == [part : {NoPart}, val : {NoValue}, limit : {NoLimit}, at : Nat]

NoFrame == [part |-> NoPart, val |-> NoValue, limit |-> NoLimit, at |-> 0]

(* The clock starts past its epoch, as steady_clock's does.                *)
Init ==
  /\ cell = EmptyCell
  /\ now = 1
  /\ rx = <<>>
  /\ pc = "idle"
  /\ frame = NoFrame
  /\ copy = EmptyCell.value
  /\ clamped = NoValue
  /\ limits = DefaultLimits
  /\ lastSet = [p \in Part |-> 0]
  /\ prevSet = [p \in Part |-> 0]
  /\ inForce = {}

(* The bus delivers a frame; with the socket's buffer full it is dropped.  *)
Arrive(p, v, l) ==
  /\ Len(rx) < RxCapacity
  /\ rx' = Append(rx, [part |-> p, val |-> v, limit |-> l, at |-> now])
  /\ UNCHANGED <<cell, now, threadVars, limitVars, historyVars>>

(* A motor-limit answer whose motor number is not 1 to 6 is dropped.       *)
DropStray ==
  /\ pc = "idle"
  /\ rx # <<>>
  /\ Head(rx).part = NoPart
  /\ rx' = Tail(rx)
  /\ UNCHANGED <<cell, now, threadVars, limitVars, historyVars>>

(* The read thread receives a frame, decodes it and calls getValue().      *)
CopyValue ==
  /\ pc = "idle"
  /\ rx # <<>>
  /\ Head(rx).part # NoPart
  /\ frame' = Head(rx)
  /\ rx' = Tail(rx)
  /\ copy' = cell.value
  /\ inForce' = { limits[l] : l \in {Head(rx).limit} \ {NoLimit} }
  /\ pc' = "clamp"
  /\ UNCHANGED <<cell, now, clamped, limits, historyVars>>

(* ... reads the limit of its value, if it is to be clamped by one ...     *)
ClampValue ==
  /\ pc = "clamp"
  /\ clamped' = Clamp(limits, frame.limit, frame.val)
  /\ pc' = "store"
  /\ UNCHANGED <<cell, now, rx, frame, copy, limitVars, historyVars>>

UpdatedCopyWhole == [p \in Part |-> clamped]

(* The copy with the frame's own part replaced.                            *)
UpdatedCopy == [copy EXCEPT ![frame.part] = clamped]

(* ... and stores the updated copy with set().                             *)
StoreValue ==
  /\ pc = "store"
  /\ cell' = SetCell(cell, UpdatedCopy, frame.at, frame.part, now)
  /\ prevSet' = [prevSet EXCEPT ![frame.part] = lastSet[frame.part]]
  /\ lastSet' = [lastSet EXCEPT ![frame.part] = now]
  /\ pc' = "idle"
  /\ frame' = NoFrame
  /\ copy' = EmptyCell.value
  /\ clamped' = NoValue
  /\ inForce' = {}
  /\ UNCHANGED <<now, rx, limits>>

(* Another thread resets the cell ...                                      *)
Reset ==
  /\ cell' = ResetCell(cell)
  /\ lastSet' = [p \in Part |-> 0]
  /\ prevSet' = [p \in Part |-> 0]
  /\ UNCHANGED <<now, rx, threadVars, limitVars>>

(* The range of the frame being parsed, if it has just changed.            *)
Noted == { limits'[l] : l \in {frame.limit} \ {NoLimit} }

(* ... or sets a limit, which is refused with its bounds the wrong way     *)
(* round ...                                                               *)
ChangeLimit(l, r) ==
  /\ Settable(r)
  /\ limits' = SetLimit(limits, l, r)
  /\ inForce' = inForce \cup Noted
  /\ UNCHANGED <<cell, now, rx, threadVars, historyVars>>

(* ... or all of them back to the defaults.                                *)
ResetDefaults ==
  /\ limits' = DefaultLimits
  /\ inForce' = inForce \cup Noted
  /\ UNCHANGED <<cell, now, rx, threadVars, historyVars>>

Tick ==
  /\ now < MaxTime
  /\ now' = now + 1
  /\ UNCHANGED <<cell, rx, threadVars, limitVars, historyVars>>

Next ==
  \/ \E p \in Part, v \in Val : \E l \in LimitOf[p] : Arrive(p, v, l)
  \/ Arrive(NoPart, NoValue, NoLimit)
  \/ DropStray
  \/ CopyValue
  \/ ClampValue
  \/ StoreValue
  \/ Reset
  \/ \E l \in Limited, r \in NewRange : ChangeLimit(l, r)
  \/ ResetDefaults
  \/ Tick

Spec == Init /\ [][Next]_vars

-----------------------------------------------------------------------------

(* Types of every variable, for the read thread's copy as for the cell.    *)
TypeOK ==
  /\ cell \in CellType(Val)
  /\ now \in Nat
  /\ rx \in Seq(Frame \cup Stray)
  /\ pc \in {"idle", "clamp", "store"}
  /\ frame \in IF pc = "idle" THEN {NoFrame} ELSE Frame
  /\ copy \in [Part -> Val \cup {NoValue}]
  /\ clamped \in IF pc = "store" THEN Val ELSE {NoValue}
  /\ limits \in [Limited -> Range]
  /\ lastSet \in [Part -> Nat]
  /\ prevSet \in [Part -> Nat]
  /\ inForce \subseteq Range

(* A snapshot that says is_healthy has every part stored since the last    *)
(* reset and within the timeout, although reset() leaves last_received_    *)
(* as it was (isHealthyLocked).                                            *)
HealthyIsRecent ==
  IsHealthy(cell, now) =>
    \A p \in Part : lastSet[p] # 0 /\ now - lastSet[p] <= HealthTimeout

(* The rate of a part is that of its last two stores in this session: it   *)
(* never spans a reset, and stays 0 until there are two (set).             *)
RateWithinSession ==
  \A p \in Part :
    cell.interval[p] = IF prevSet[p] # 0 THEN lastSet[p] - prevSet[p] ELSE 0

(* What is stored of a frame is its value moved no further than a range    *)
(* asks that was in force, as a whole, at some moment while the frame was  *)
(* parsed: never by a minimum of one setting and a maximum of another, nor *)
(* by limits that had been replaced before the frame was taken.            *)
ClampedByARangeInForce ==
  pc = "store" =>
    IF frame.limit = NoLimit
    THEN clamped = frame.val
    ELSE \E r \in inForce : IsNearest(clamped, r, frame.val)

(* The value a reader may use of a cell: parts not stored since the last   *)
(* reset are not there, whatever value_ still holds of them.               *)
Latest == [p \in Part |-> IF cell.initialized[p] THEN cell.value[p] ELSE NoValue]

(* The copy-clamp-store of the read thread, with resets falling between    *)
(* its steps, implements the atomic store of one part: no part is ever     *)
(* lost to, or brought back by, the store of another.                      *)
Abstract == INSTANCE LatestParts WITH latest <- Latest

StoresOnePart == Abstract!Spec

=============================================================================
