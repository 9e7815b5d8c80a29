-------------------------- MODULE MotorLimitsProofs --------------------------
(***************************************************************************)
(* Theorems about MotorLimits, for any number of motors, waits, timeout    *)
(* and retry interval.  The induction rests on what an aggregate holds of  *)
(* the parts marked as received (Recorded), and on the read thread's copy  *)
(* being right about those parts although a wait may clear the aggregates  *)
(* between the copy and the store (CopyIsCurrent).                         *)
(***************************************************************************)
EXTENDS MotorLimits, TLAPS

(* A part is marked exactly if an answer for it was stored since the last  *)
(* clearing, and then holds that answer.                                   *)
Recorded ==
  /\ \A q \in Query : q \in valid <=> heard[q] # NoLimit
  /\ \A q \in valid : limit[q] = heard[q]

(* Clearing only unmarks parts, and nobody else stores: what is still      *)
(* marked when the copy is stored is in the copy as it was heard.          *)
CopyIsCurrent ==
  rpc = "store" =>
    \A q \in valid : SameAggregate(q, reply[1]) => copy[q] = heard[q]

(* A wait's result says what its loop has found, and lasts until the next. *)
ResultIsOfTheLoop ==
  /\ wpc = "acc" => AngleQueries \subseteq valid
  /\ result # "none" => wpc = "idle"
  /\ result = "true" => Query \subseteq valid

IInv ==
  /\ TypeOK
  /\ Recorded
  /\ CopyIsCurrent
  /\ ResultIsOfTheLoop
  /\ FailureHasReason

-----------------------------------------------------------------------------

(* Every query is of one aggregate or of the other.                        *)
LEMMA TwoAggregates == Query = AngleQueries \cup AccQueries
  <1>1. ASSUME NEW q \in Query PROVE q % 2 = 1 % 2 \/ q % 2 = 2 % 2
    BY LimitAssumption DEF Query
  <1>2. QED
    BY <1>1 DEF AngleQueries, AccQueries, SameAggregate

(* What a variable holds when it holds nothing has its type too.           *)
LEMMA Empties ==
  /\ 1 \in Query /\ 0 \in Ask
  /\ NoReply \in Query \X Ask
  /\ NoLimits \in [Query -> Ask \cup {NoLimit}]
  <1>1. 1 \in Query /\ 0 \in Ask
    BY LimitAssumption DEF Query, Ask
  <1>2. QED
    BY <1>1 DEF NoReply, NoLimits

LEMMA InitInv == Init => IInv
  <1> SUFFICES ASSUME Init PROVE IInv
    OBVIOUS
  <1> USE LimitAssumption DEF Init
  <1>1. asked \subseteq Query \X Ask
    BY DEF Query, Ask
  <1>2. 0 \in 0..MaxTime
    OBVIOUS
  <1>3. TypeOK
    BY <1>1, <1>2, Empties, Zenon DEF TypeOK
  <1>4. Recorded /\ CopyIsCurrent /\ ResultIsOfTheLoop /\ FailureHasReason
    BY DEF Recorded, CopyIsCurrent, ResultIsOfTheLoop, FailureHasReason, NoLimits
  <1>5. QED
    BY <1>3, <1>4 DEF IInv

(* The read thread's steps: the copy holds what is marked, and the store   *)
(* marks the part it has replaced.                                         *)
LEMMA CopyInv ==
  ASSUME IInv, NEW s \in asked, CopyAggregate(s[1], s[2])
  PROVE  IInv'
  <1> USE LimitAssumption DEF IInv, CopyAggregate, cacheVars, callVars, searchVars
  <1>1. s \in Query \X Ask /\ s[1] \in Query /\ s[2] \in Ask /\ s = <<s[1], s[2]>>
    BY DEF TypeOK
  <1>2. TypeOK'
    BY <1>1 DEF TypeOK
  <1>3. CopyIsCurrent'
    BY <1>1 DEF CopyIsCurrent, Recorded, TypeOK
  <1>4. (Recorded /\ ResultIsOfTheLoop /\ FailureHasReason)'
    BY DEF Recorded, ResultIsOfTheLoop, FailureHasReason
  <1>5. QED
    BY <1>2, <1>3, <1>4

LEMMA StoreInv ==
  ASSUME IInv, StoreAggregate
  PROVE  IInv'
  <1> USE LimitAssumption DEF IInv, StoreAggregate, callVars, searchVars
  <1> DEFINE r == reply[1]
             a == reply[2]
  <1>1. r \in Query /\ a \in Ask /\ a # NoLimit /\ SameAggregate(r, r)
    BY DEF TypeOK, Ask, SameAggregate
  <1>2. /\ valid' = valid \cup {r}
        /\ \A x \in Query :
             /\ heard'[x] = IF x = r THEN a ELSE heard[x]
             /\ limit'[x] = IF x = r THEN a ELSE IF SameAggregate(x, r) THEN copy[x] ELSE limit[x]
    BY <1>1 DEF TypeOK
  <1>3. TypeOK'
    BY <1>1, Empties DEF TypeOK
  <1>4. valid \subseteq Query
    BY DEF TypeOK
  <1>5. Recorded'
    BY <1>1, <1>2, <1>4 DEF Recorded, CopyIsCurrent
  <1>6. (CopyIsCurrent /\ ResultIsOfTheLoop /\ FailureHasReason)'
    BY <1>2 DEF CopyIsCurrent, ResultIsOfTheLoop, FailureHasReason
  <1>7. QED
    BY <1>3, <1>5, <1>6

(* Clearing an aggregate unmarks its parts and forgets what was heard.     *)
LEMMA ClearInv ==
  ASSUME IInv, NEW queries \in SUBSET Query, ClearAggregate(queries),
         UNCHANGED readerVars
  PROVE  /\ Recorded' /\ CopyIsCurrent'
         /\ limit' \in [Query -> Ask \cup {NoLimit}]
         /\ heard' \in [Query -> Ask \cup {NoLimit}]
         /\ valid' \subseteq Query
  <1>1. TypeOK /\ Recorded /\ CopyIsCurrent
    BY DEF IInv
  <1>2. QED
    BY <1>1 DEF ClearAggregate, TypeOK, Recorded, CopyIsCurrent, readerVars

(* The steps of the waiting thread.                                        *)
LEMMA WaitInv ==
  ASSUME IInv, Wait \/ WaitStep
  PROVE  IInv'
  <1> USE LimitAssumption DEF IInv
  <1>1. CASE Wait
    <2>1. calls' \in Ask /\ deadline' \in 0..MaxTime
      BY <1>1 DEF Wait, TypeOK, Ask
    <2>2. QED
      BY <1>1, <2>1 DEF Wait, TypeOK, Recorded, CopyIsCurrent, ResultIsOfTheLoop,
           FailureHasReason, cacheVars, readerVars, searchVars
  <1>2. CASE ResetAngle
    <2>1. Recorded' /\ CopyIsCurrent' /\ limit' \in [Query -> Ask \cup {NoLimit}]
          /\ heard' \in [Query -> Ask \cup {NoLimit}] /\ valid' \subseteq Query
      BY <1>2, ClearInv DEF ResetAngle, AngleQueries
    <2>2. QED
      BY <1>2, <2>1 DEF ResetAngle, TypeOK, ResultIsOfTheLoop, FailureHasReason,
           readerVars, callVars, searchVars
  <1>3. CASE ResetAcc
    <2>1. Recorded' /\ CopyIsCurrent' /\ limit' \in [Query -> Ask \cup {NoLimit}]
          /\ heard' \in [Query -> Ask \cup {NoLimit}] /\ valid' \subseteq Query
      BY <1>3, ClearInv DEF ResetAcc, AccQueries
    <2>2. QED
      BY <1>3, <2>1, Empties DEF ResetAcc, TypeOK, ResultIsOfTheLoop, FailureHasReason,
           readerVars, callVars
  <1>4. CASE SendQuery
    <2>1. sending' \in Query
      BY <1>4 DEF SendQuery, SearchEnds, TypeOK, Query
    <2>2. QED
      BY <1>4, <2>1 DEF SendQuery, SearchEnds, TypeOK, Recorded, CopyIsCurrent,
           ResultIsOfTheLoop, FailureHasReason, cacheVars, readerVars, callVars
  <1>5. CASE SendQueryFails
    BY <1>5 DEF SendQueryFails, SearchEnds, Return, TypeOK, Recorded, CopyIsCurrent,
         ResultIsOfTheLoop, FailureHasReason, cacheVars, readerVars
  <1>6. CASE CheckAngle
    BY <1>6 DEF CheckAngle, TypeOK, Recorded, CopyIsCurrent,
         ResultIsOfTheLoop, FailureHasReason, cacheVars, readerVars, callVars, searchVars
  <1>7. CASE CheckAcc
    BY <1>7, TwoAggregates DEF CheckAcc, Return, TypeOK, Recorded, CopyIsCurrent,
         ResultIsOfTheLoop, FailureHasReason, cacheVars, readerVars, searchVars
  <1>8. CASE CheckDeadline
    BY <1>8 DEF CheckDeadline, Return, TypeOK, Recorded, CopyIsCurrent,
         ResultIsOfTheLoop, FailureHasReason, cacheVars, readerVars, searchVars
  <1>9. CASE Retry
    BY <1>9, Empties DEF Retry, TypeOK, Recorded, CopyIsCurrent,
         ResultIsOfTheLoop, FailureHasReason, cacheVars, readerVars, callVars
  <1>10. QED
    BY <1>1, <1>2, <1>3, <1>4, <1>5, <1>6, <1>7, <1>8, <1>9 DEF WaitStep

LEMMA NextInv == IInv /\ [Next]_vars => IInv'
  <1> SUFFICES ASSUME IInv, [Next]_vars PROVE IInv'
    OBVIOUS
  <1>1. ASSUME NEW s \in asked, CopyAggregate(s[1], s[2]) PROVE IInv'
    BY <1>1, CopyInv
  <1>2. CASE StoreAggregate
    BY <1>2, StoreInv
  <1>3. CASE Wait \/ WaitStep
    BY <1>3, WaitInv
  <1>4. CASE Tick
    BY <1>4, LimitAssumption DEF Tick, IInv, TypeOK, Recorded, CopyIsCurrent,
         ResultIsOfTheLoop, FailureHasReason, cacheVars, readerVars, callVars, searchVars
  <1>5. CASE UNCHANGED vars
    BY <1>5 DEF vars, IInv, TypeOK, Recorded, CopyIsCurrent,
         ResultIsOfTheLoop, FailureHasReason, cacheVars, readerVars, callVars, searchVars
  <1>6. QED
    BY <1>1, <1>2, <1>3, <1>4, <1>5 DEF Next

(* The strengthened invariant holds in every behaviour.                    *)
LEMMA Invariance == Spec => []IInv
  BY InitInv, NextInv, PTL DEF Spec

-----------------------------------------------------------------------------

(* Every variable keeps its type.                                          *)
THEOREM TypeCorrect == Spec => []TypeOK
  <1>1. IInv => TypeOK
    BY DEF IInv
  <1>2. QED
    BY <1>1, Invariance, PTL

(* A wait that returned true has every limit of every motor as it was last *)
(* answered, however clearing, copying and storing fell together.          *)
THEOREM SuccessTheorem == Spec => []SuccessIsComplete
  <1>1. IInv => SuccessIsComplete
    BY DEF IInv, Recorded, ResultIsOfTheLoop, SuccessIsComplete
  <1>2. QED
    BY <1>1, Invariance, PTL

(* A wait that returned false could not ask, or ran until its deadline.    *)
THEOREM FailureTheorem == Spec => []FailureHasReason
  <1>1. IInv => FailureHasReason
    BY DEF IInv
  <1>2. QED
    BY <1>1, Invariance, PTL

=============================================================================
