------------------------- MODULE FeedbackCacheProofs -------------------------
(***************************************************************************)
(* Theorems about FeedbackCache, for any parts, values, timeout and queue. *)
(*                                                                         *)
(* The history variables say when a part was stored since the last reset.  *)
(* The induction needs that the cell's own record agrees with them for     *)
(* every initialized part, and that the read thread's copy holds every     *)
(* part initialized since it was taken -- it does, for the read thread is  *)
(* the only one that stores, and reset() only clears.  For the clamping it *)
(* needs that the limits' bounds are values a frame may carry.             *)
(***************************************************************************)
EXTENDS FeedbackCache, TLAPS

(* An initialized part was received when the history says, within the      *)
(* clock, and its rate is that of its last two stores.                     *)
Recorded ==
  \A p \in Part :
    /\ cell.initialized[p] <=> lastSet[p] # 0
    /\ lastSet[p] # 0 => cell.received[p] = lastSet[p]
    /\ prevSet[p] <= lastSet[p]
    /\ lastSet[p] <= now

(* Nothing initialized is missing from the copy being updated.             *)
CopyIsCurrent ==
  pc # "idle" => \A p \in Part : cell.initialized[p] => copy[p] = cell.value[p]

(* The limits' bounds are values, so what is clamped by them is one.       *)
LimitsAreValues == \A l \in Limited : limits[l] \in [min : Val, max : Val]

(* While a frame is parsed, the range its limit has is one in force.       *)
CurrentIsInForce ==
  pc # "idle" /\ frame.limit # NoLimit => limits[frame.limit] \in inForce

IInv ==
  /\ TypeOK
  /\ now # 0
  /\ Recorded
  /\ RateWithinSession
  /\ CopyIsCurrent
  /\ \A p \in Part : cell.initialized[p] => cell.value[p] \in Val
  /\ LimitsAreValues
  /\ CurrentIsInForce
  /\ ClampedByARangeInForce

-----------------------------------------------------------------------------

(* Both updates of a cell yield a cell.                                    *)
LEMMA SetCellType ==
  ASSUME NEW c \in CellType(Val), NEW v \in [Part -> Val \cup {NoValue}],
         NEW stamp \in Nat, NEW p \in Part, NEW t \in Nat,
         c.initialized[p] => c.received[p] <= t
  PROVE  SetCell(c, v, stamp, p, t) \in CellType(Val)
  BY DEF SetCell, CellType

(* What set() does to each part x when it stores part p.                   *)
LEMMA SetCellAt ==
  ASSUME NEW c \in CellType(Val), NEW v \in [Part -> Val \cup {NoValue}],
         NEW stamp \in Nat, NEW p \in Part, NEW t \in Nat,
         NEW d, d = SetCell(c, v, stamp, p, t),
         NEW x \in Part
  PROVE  /\ d.value[x] = v[x]
         /\ d.initialized[x] <=> x = p \/ c.initialized[x]
         /\ d.received[x] = IF x = p THEN t ELSE c.received[x]
         /\ d.interval[x] = IF x = p /\ c.initialized[p] THEN t - c.received[p]
                                                        ELSE c.interval[x]
  BY DEF SetCell, CellType

LEMMA ResetCellType ==
  ASSUME NEW c \in CellType(Val)
  PROVE  ResetCell(c) \in CellType(Val)
  BY DEF ResetCell, EmptyCell, CellType

(* Clamping into a range yields its point that is nearest.                 *)
LEMMA ClampIsNearest ==
  ASSUME NEW r \in Range, NEW v \in Int
  PROVE  IsNearest(ClampInto(r, v), r, v)
  <1>1. r.min \in Int /\ r.max \in Int /\ r.min <= r.max
    BY DEF Range
  <1>2. CASE v < r.min
    BY <1>1, <1>2 DEF IsNearest, ClampInto, Distance
  <1>3. CASE r.max < v
    BY <1>1, <1>3 DEF IsNearest, ClampInto, Distance
  <1>4. CASE ~(v < r.min) /\ ~(r.max < v)
    BY <1>1, <1>4 DEF IsNearest, ClampInto, Distance
  <1>5. QED
    BY <1>2, <1>3, <1>4

LEMMA InitInv == Init => IInv
  <1> SUFFICES ASSUME Init PROVE IInv
    OBVIOUS
  <1> USE CellAssumption, CacheAssumption, LimitsAssumption DEF Init, EmptyCell
  <1>1. TypeOK
    BY DEF TypeOK, CellType, NoFrame
  <1>2. QED
    BY <1>1 DEF IInv, Recorded, RateWithinSession, CopyIsCurrent, LimitsAreValues,
                CurrentIsInForce, ClampedByARangeInForce

(* What a change of the limits leaves true: the frame being parsed keeps   *)
(* the ranges it had and gains the new one.                                *)
LEMMA LimitsChange ==
  ASSUME IInv, limits' \in [Limited -> Range],
         \A l \in Limited : limits'[l] \in [min : Val, max : Val],
         inForce' = inForce \cup Noted,
         UNCHANGED <<cell, now, rx, threadVars, historyVars>>
  PROVE  IInv'
  <1> USE DEF IInv, threadVars, historyVars
  <1>1. frame.limit \in Limited \cup {NoLimit}
    BY LimitsAssumption DEF TypeOK, Frame, NoFrame
  <1>2. Noted \subseteq Range
    BY <1>1 DEF Noted
  <1>3. TypeOK'
    BY <1>2 DEF TypeOK
  <1>4. CurrentIsInForce'
    BY <1>1 DEF CurrentIsInForce, Noted
  <1>5. ClampedByARangeInForce'
    BY DEF ClampedByARangeInForce
  <1>6. QED
    BY <1>3, <1>4, <1>5 DEF Recorded, RateWithinSession, CopyIsCurrent, LimitsAreValues

LEMMA NextInv == IInv /\ [Next]_vars => IInv'
  <1> SUFFICES ASSUME IInv, [Next]_vars PROVE IInv'
    OBVIOUS
  <1> USE CellAssumption, CacheAssumption, LimitsAssumption DEF IInv
  <1>1. ASSUME NEW p, NEW v, NEW l, Arrive(p, v, l),
               [part |-> p, val |-> v, limit |-> l, at |-> now] \in Frame \cup Stray
        PROVE  IInv'
    <2>1. TypeOK'
      BY <1>1 DEF Arrive, TypeOK, threadVars, limitVars, historyVars
    <2>2. QED
      BY <1>1, <2>1 DEF Arrive, Recorded, RateWithinSession, CopyIsCurrent, LimitsAreValues,
                        CurrentIsInForce, ClampedByARangeInForce,
                        threadVars, limitVars, historyVars
  <1>2. CASE DropStray
    <2>1. TypeOK'
      BY <1>2 DEF DropStray, TypeOK, threadVars, limitVars, historyVars
    <2>2. QED
      BY <1>2, <2>1 DEF DropStray, Recorded, RateWithinSession, CopyIsCurrent,
                        LimitsAreValues, CurrentIsInForce, ClampedByARangeInForce,
                        threadVars, limitVars, historyVars
  <1>3. CASE CopyValue
    <2>1. Head(rx) \in Frame /\ Tail(rx) \in Seq(Frame \cup Stray)
      BY <1>3 DEF CopyValue, TypeOK, Stray
    <2>2. inForce' \subseteq Range
      BY <1>3, <2>1 DEF CopyValue, TypeOK, Frame
    <2>3. TypeOK'
      BY <1>3, <2>1, <2>2 DEF CopyValue, TypeOK, CellType, historyVars
    <2>4. CurrentIsInForce'
      BY <1>3, <2>1 DEF CopyValue, CurrentIsInForce, Frame
    <2>5. QED
      BY <1>3, <2>3, <2>4 DEF CopyValue, Recorded, RateWithinSession, CopyIsCurrent,
                              LimitsAreValues, ClampedByARangeInForce, historyVars
  <1>4. CASE ClampValue
    <2>1. frame \in Frame /\ frame.val \in Val /\ frame.val \in Int
          /\ frame.limit \in Limited \cup {NoLimit}
      BY <1>4 DEF ClampValue, TypeOK, Frame
    <2>2. frame.limit # NoLimit => limits[frame.limit] \in [min : Val, max : Val]
      BY <2>1 DEF LimitsAreValues
    <2>3. clamped' \in Val
      BY <1>4, <2>1, <2>2 DEF ClampValue, Clamp, ClampInto
    <2>4. TypeOK'
      BY <1>4, <2>1, <2>3 DEF ClampValue, TypeOK, limitVars, historyVars
    <2>5. ClampedByARangeInForce'
      <3>1. CASE frame.limit = NoLimit
        BY <1>4, <3>1 DEF ClampValue, Clamp, ClampedByARangeInForce
      <3>2. CASE frame.limit # NoLimit
        <4>1. limits[frame.limit] \in inForce /\ limits[frame.limit] \in Range
          BY <1>4, <2>1, <3>2 DEF ClampValue, CurrentIsInForce, TypeOK
        <4>2. clamped' = ClampInto(limits[frame.limit], frame.val)
          BY <1>4, <3>2 DEF ClampValue, Clamp
        <4>3. IsNearest(clamped', limits[frame.limit], frame.val)
          BY <2>1, <4>1, <4>2, ClampIsNearest
        <4>4. inForce' = inForce /\ frame' = frame
          BY <1>4 DEF ClampValue, limitVars
        <4>5. QED
          BY <3>2, <4>1, <4>3, <4>4 DEF ClampedByARangeInForce
      <3>3. QED
        BY <3>1, <3>2
    <2>6. QED
      BY <1>4, <2>4, <2>5 DEF ClampValue, Recorded, RateWithinSession, CopyIsCurrent,
                              LimitsAreValues, CurrentIsInForce, limitVars, historyVars
  <1>5. CASE StoreValue
    <2> DEFINE q == frame.part
    <2>1. q \in Part /\ frame.at \in Nat /\ clamped \in Val
      BY <1>5 DEF StoreValue, TypeOK, Frame
    <2>2. UpdatedCopy \in [Part -> Val \cup {NoValue}]
      BY <2>1 DEF UpdatedCopy, TypeOK
    <2>3. cell' \in CellType(Val)
      <3>1. cell.initialized[q] => cell.received[q] <= now
        BY <2>1 DEF Recorded
      <3>2. QED
        BY <1>5, <2>1, <2>2, <3>1, SetCellType DEF StoreValue, TypeOK
    <2>4. TypeOK'
      BY <1>5, <2>1, <2>3 DEF StoreValue, TypeOK, EmptyCell
    <2>5. pc' = "idle" /\ now' = now
      BY <1>5 DEF StoreValue
    <2>a. \A p \in Part :
            /\ cell'.value[p] = UpdatedCopy[p]
            /\ cell'.initialized[p] <=> p = q \/ cell.initialized[p]
            /\ cell'.received[p] = IF p = q THEN now ELSE cell.received[p]
            /\ cell'.interval[p] = IF p = q /\ cell.initialized[q]
                                   THEN now - cell.received[q] ELSE cell.interval[p]
      <3>1. cell' = SetCell(cell, UpdatedCopy, frame.at, q, now) /\ cell \in CellType(Val)
        BY <1>5 DEF StoreValue, TypeOK
      <3>2. now \in Nat
        BY DEF TypeOK
      <3>3. QED
        BY <2>1, <2>2, <3>1, <3>2, SetCellAt
    <2>b. \A p \in Part :
            /\ lastSet'[p] = IF p = q THEN now ELSE lastSet[p]
            /\ prevSet'[p] = IF p = q THEN lastSet[q] ELSE prevSet[p]
      BY <1>5, <2>1 DEF StoreValue, TypeOK
    <2>c. now \in Nat /\ \A p \in Part : lastSet[p] \in Nat /\ prevSet[p] \in Nat
      BY DEF TypeOK
    <2>6. Recorded'
      BY <2>1, <2>5, <2>a, <2>b, <2>c DEF Recorded
    <2>7. RateWithinSession'
      BY <2>1, <2>a, <2>b, <2>c DEF Recorded, RateWithinSession
    <2>8. \A p \in Part : cell'.initialized[p] => cell'.value[p] \in Val
      <3>1. \A p \in Part : UpdatedCopy[p] = IF p = q THEN clamped ELSE copy[p]
        BY <2>1 DEF UpdatedCopy, TypeOK
      <3>2. \A p \in Part : cell.initialized[p] => copy[p] \in Val
        BY <1>5 DEF StoreValue, CopyIsCurrent
      <3>3. QED
        BY <2>1, <2>a, <3>1, <3>2
    <2>9. QED
      BY <2>4, <2>5, <2>6, <2>7, <2>8, <1>5
      DEF StoreValue, CopyIsCurrent, LimitsAreValues, CurrentIsInForce, ClampedByARangeInForce
  <1>6. CASE Reset
    <2>1. cell' \in CellType(Val)
      BY <1>6, ResetCellType DEF Reset, TypeOK
    <2>2. TypeOK'
      BY <1>6, <2>1 DEF Reset, TypeOK, threadVars, limitVars
    <2>3. \A p \in Part : ~cell'.initialized[p] /\ cell'.interval[p] = 0
      BY <1>6 DEF Reset, ResetCell, EmptyCell
    <2>4. QED
      BY <1>6, <2>2, <2>3 DEF Reset, Recorded, RateWithinSession, CopyIsCurrent, TypeOK,
                              LimitsAreValues, CurrentIsInForce, ClampedByARangeInForce,
                              threadVars, limitVars
  <1>7. ASSUME NEW l \in Limited, NEW r \in NewRange, ChangeLimit(l, r) PROVE IInv'
    <2>1. r \in [min : Val, max : Val] /\ r \in Range
      <3>1. r \in [min : Val, max : Val] /\ ~(r.max < r.min)
        BY <1>7 DEF ChangeLimit, Settable
      <3>2. r \in [min : Int, max : Int] /\ r.min \in Int /\ r.max \in Int
        BY <3>1
      <3>3. QED
        BY <3>1, <3>2 DEF Range
    <2>2. limits' \in [Limited -> Range]
          /\ \A k \in Limited : limits'[k] \in [min : Val, max : Val]
      BY <1>7, <2>1 DEF ChangeLimit, SetLimit, TypeOK, LimitsAreValues
    <2>3. QED
      BY <1>7, <2>2, LimitsChange DEF ChangeLimit
  <1>8. CASE ResetDefaults
    BY <1>8, LimitsChange DEF ResetDefaults
  <1>9. CASE Tick
    <2>1. TypeOK'
      BY <1>9 DEF Tick, TypeOK, threadVars, limitVars, historyVars
    <2>2. QED
      BY <1>9, <2>1 DEF Tick, Recorded, RateWithinSession, CopyIsCurrent, TypeOK,
                        LimitsAreValues, CurrentIsInForce, ClampedByARangeInForce,
                        threadVars, limitVars, historyVars
  <1>10. CASE UNCHANGED vars
    BY <1>10 DEF vars, threadVars, limitVars, historyVars, TypeOK, Recorded,
                 RateWithinSession, CopyIsCurrent, LimitsAreValues, CurrentIsInForce,
                 ClampedByARangeInForce
  <1>11. ASSUME NEW p \in Part, NEW v \in Val, NEW l \in LimitOf[p], Arrive(p, v, l)
         PROVE  IInv'
    BY <1>1, <1>11 DEF Frame, TypeOK
  <1>12. CASE Arrive(NoPart, NoValue, NoLimit)
    BY <1>1, <1>12 DEF Stray, TypeOK
  <1>13. QED
    BY <1>2, <1>3, <1>4, <1>5, <1>6, <1>7, <1>8, <1>9, <1>10, <1>11, <1>12 DEF Next

(* The strengthened invariant holds in every behaviour.                    *)
LEMMA Invariance == Spec => []IInv
  BY InitInv, NextInv, PTL DEF Spec

-----------------------------------------------------------------------------

(* The cell and the read thread's locals keep their types, whatever parts, *)
(* values and timeout the message has.                                     *)
THEOREM TypeCorrect == Spec => []TypeOK
  <1>1. IInv => TypeOK
    BY DEF IInv
  <1>2. QED
    BY <1>1, Invariance, PTL

(* is_healthy never vouches for a part from before a reset or older than   *)
(* the timeout.                                                            *)
THEOREM HealthyTheorem == Spec => []HealthyIsRecent
  <1>1. IInv => HealthyIsRecent
    BY DEF IInv, Recorded, HealthyIsRecent, IsHealthy, IsValid
  <1>2. QED
    BY <1>1, Invariance, PTL

(* hz is computed from two stores of the same session, or is 0.            *)
THEOREM RateTheorem == Spec => []RateWithinSession
  <1>1. IInv => RateWithinSession
    BY DEF IInv
  <1>2. QED
    BY <1>1, Invariance, PTL

(* Every value stored was clamped, if at all, by one range that was in     *)
(* force while its frame was parsed, whatever limits are set meanwhile.    *)
THEOREM ClampTheorem == Spec => []ClampedByARangeInForce
  <1>1. IInv => ClampedByARangeInForce
    BY DEF IInv
  <1>2. QED
    BY <1>1, Invariance, PTL

(* The copy, clamp and store of the read thread, with resets in between,   *)
(* are the abstract store of one part.                                     *)
THEOREM Refinement == Spec => StoresOnePart
  <1>1. Init => Abstract!Init
    BY DEF Init, Abstract!Init, Latest, EmptyCell
  <1>2. ASSUME IInv, [Next]_vars PROVE [Abstract!Next]_Latest
    <2> USE CellAssumption, CacheAssumption DEF IInv
    <2>1. CASE StoreValue
      <3>1. frame.part \in Part /\ clamped \in Val /\ frame.at \in Nat
        BY <1>2, <2>1 DEF StoreValue, TypeOK, Frame
      <3>a. UpdatedCopy \in [Part -> Val \cup {NoValue}]
        BY <1>2, <3>1 DEF UpdatedCopy, TypeOK
      <3>b. /\ cell' = SetCell(cell, UpdatedCopy, frame.at, frame.part, now)
            /\ cell \in CellType(Val) /\ now \in Nat
        BY <1>2, <2>1 DEF StoreValue, TypeOK
      <3>2. \A p \in Part : cell'.initialized[p] <=> p = frame.part \/ cell.initialized[p]
        BY <3>1, <3>a, <3>b, SetCellAt
      <3>3. \A p \in Part : cell'.value[p] = IF p = frame.part THEN clamped ELSE copy[p]
        <4>1. \A p \in Part : cell'.value[p] = UpdatedCopy[p]
          BY <3>1, <3>a, <3>b, SetCellAt
        <4>2. QED
          BY <1>2, <3>1, <4>1 DEF UpdatedCopy, TypeOK
      <3>4. \A p \in Part : cell.initialized[p] => copy[p] = cell.value[p]
        BY <1>2, <2>1 DEF StoreValue, CopyIsCurrent
      <3>5. Latest' = [Latest EXCEPT ![frame.part] = clamped]
        BY <3>1, <3>2, <3>3, <3>4 DEF Latest
      <3>6. Abstract!Store(frame.part, clamped)
        BY <3>5 DEF Abstract!Store
      <3>7. QED
        BY <3>1, <3>6 DEF Abstract!Next
    <2>2. CASE Reset
      <3>1. Latest' = [p \in Part |-> NoValue]
        BY <2>2 DEF Reset, ResetCell, EmptyCell, Latest
      <3>2. QED
        BY <3>1 DEF Abstract!Next, Abstract!Forget
    <2>3. ASSUME UNCHANGED cell PROVE UNCHANGED Latest
      BY <2>3 DEF Latest
    <2>4. QED
      BY <1>2, <2>1, <2>2, <2>3 DEF Next, vars, Arrive, DropStray, CopyValue, ClampValue,
                                    ChangeLimit, ResetDefaults, Tick
  <1>3. QED
    BY <1>1, <1>2, Invariance, PTL DEF Spec, StoresOnePart, Abstract!Spec

=============================================================================
