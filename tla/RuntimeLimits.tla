---------------------------- MODULE RuntimeLimits ----------------------------
(***************************************************************************)
(* PiperParamManager, the limits every interface object of the process     *)
(* shares: a range for each joint and two for the gripper, changed at run  *)
(* time and used to clamp what is received.  Each method copies or assigns *)
(* its ranges under the mutex, so each is one operator here and one atomic *)
(* step of the modules that use it.                                        *)
(*                                                                         *)
(* The limits are a function from their names to ranges.  Ranges are in    *)
(* the units of the frames: the conversion from radians, metres or degrees *)
(* rounds to the nearest unit, which keeps min <= max.  NaN, which the     *)
(* setters of joints and of the gripper's width let pass, is no number and *)
(* is not among the bounds.                                                *)
(***************************************************************************)
EXTENDS Integers

CONSTANTS
  Limited,        \* what has a limit: joints, gripper width, gripper angle
  NoLimit,        \* a frame nothing is clamped in: not asked for by the
                  \*   constructor, or a gripper mode nobody knows
  DefaultLimits   \* the ranges of resetDefaults()

Range == { r \in [min : Int, max : Int] : r.min <= r.max }

ASSUME LimitsAssumption ==
  /\ NoLimit \notin Limited
  /\ DefaultLimits \in [Limited -> Range]

(* A setter throws, and changes nothing, when max < min.                   *)
Settable(r) == ~(r.max < r.min)

SetLimit(limits, l, r) == [limits EXCEPT ![l] = r]

(* std::clamp on the frame's units.                                        *)
ClampInto(r, v) == IF v < r.min THEN r.min ELSE IF r.max < v THEN r.max ELSE v

(* Faulty variant: the limits the process started with.                    *)
ClampByDefaults(limits, l, v) ==
  IF l = NoLimit THEN v ELSE ClampInto(DefaultLimits[l], v)

(* What clampJointMilliDeg and clampGripperValue return.                   *)
Clamp(limits, l, v) == IF l = NoLimit THEN v ELSE ClampInto(limits[l], v)

(* Reference: v is the point of range r that is nearest to x.              *)
Distance(a, b) == IF a < b THEN b - a ELSE a - b

IsNearest(v, r, x) ==
  /\ v \in r.min .. r.max
  /\ \A w \in r.min .. r.max : Distance(x, v) <= Distance(x, w)

=============================================================================
