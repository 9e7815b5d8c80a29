----------------------------- MODULE MotorLimits -----------------------------
(***************************************************************************)
(* Asking the arm for its motor limits.  There are two queries per motor,  *)
(* one for angle and speed and one for acceleration, each answered by a    *)
(* frame of its own.  The read thread gathers the answers in two aggregate *)
(* caches, a motor being a part of each; waitForMotorLimits clears both,   *)
(* asks, and polls until they are complete, asking again now and then.     *)
(*                                                                         *)
(* Queries are numbered in the order searchAllMotorLimits sends them.  The *)
(* limits themselves are represented by the ASK they answer: 0 for the     *)
(* queries of connectPort's piperInit, c for those of the c-th wait.       *)
(***************************************************************************)
EXTENDS Integers

CONSTANTS
  NumMotors,      \* num_joints
  Timeout,        \* of a wait, in clock ticks
  RetryInterval,
  NoLimit,        \* a limit in a default-constructed aggregate
  MaxCalls,       \* bound on the waits
  MaxTime         \* bound on the clock

ASSUME LimitAssumption ==
  /\ NumMotors \in Nat \ {0}
  /\ Timeout \in Nat /\ RetryInterval \in Nat
  /\ MaxCalls \in Nat /\ MaxTime \in Nat
  /\ NoLimit \notin 0..MaxCalls

VARIABLES
  now,        \* steady_clock
  limit,      \* the value in the aggregate of each query's kind
  valid,      \* the queries whose part of their aggregate is initialized
  asked,      \* queries on the bus, as <<query, ask>>, yet to be answered
  rpc,        \* read thread: "idle", or "store" between getValue and set
  reply,      \* the answer it is parsing
  copy,       \* its copy of the aggregate's value
  calls,      \* waits so far; the number of the one in progress
  wpc,        \* waiting thread
  sending,    \* the next query searchAllMotorLimits sends
  retrying,   \* whether this search is a repeated one
  lastSent,   \* last_sent
  deadline,   \* deadline
  result,     \* of the latest wait: "none", "true" or "false"
  refused,    \* history: the first search of the latest wait failed
  heard       \* history: the ask whose answer was last stored for each
              \*   query, since the latest wait cleared it

readerVars == <<rpc, reply, copy>>
cacheVars  == <<limit, valid, heard>>
callVars   == <<calls, deadline, result, refused>>
searchVars == <<sending, retrying, lastSent>>
vars == <<now, asked, wpc, cacheVars, readerVars, callVars, searchVars>>

Query == 1..(2 * NumMotors)
Ask == 0..MaxCalls
SameAggregate(q, r) == q % 2 = r % 2
AngleQueries == {q \in Query : SameAggregate(q, 1)}
AccQueries == {q \in Query : SameAggregate(q, 2)}
NoLimits == [q \in Query |-> NoLimit]
NoReply == <<1, 0>>

(* connectPort has just returned: what piperInit could send is under way.  *)
Init ==
  /\ now = 0
  /\ limit = NoLimits
  /\ valid = {}
  /\ asked \in {{<<q, 0>> : q \in 1..n} : n \in 0..(2 * NumMotors)}
  /\ rpc = "idle"
  /\ reply = NoReply
  /\ copy = NoLimits
  /\ calls = 0
  /\ wpc = "idle"
  /\ sending = 1
  /\ retrying = FALSE
  /\ lastSent = 0
  /\ deadline = 0
  /\ result = "none"
  /\ refused = FALSE
  /\ heard = NoLimits

-----------------------------------------------------------------------------
(* The read thread.                                                        *)

(* An answer is received, and its aggregate copied with getValue().  Those *)
(* that are lost, the receive buffer being full included, never are.       *)
CopyAggregate(q, a) ==
  /\ rpc = "idle"
  /\ asked' = asked \ {<<q, a>>}
  /\ reply' = <<q, a>>
  /\ copy' = [x \in Query |-> IF SameAggregate(x, q) THEN limit[x] ELSE NoLimit]
  /\ rpc' = "store"
  /\ UNCHANGED <<now, wpc, cacheVars, callVars, searchVars>>

StoreAggregateWhole ==
  /\ rpc = "store"
  /\ LET q == reply[1] IN
       /\ limit' = [x \in Query |->
                      IF x = q THEN reply[2] ELSE IF SameAggregate(x, q) THEN copy[x] ELSE limit[x]]
       /\ valid' = valid \cup {x \in Query : SameAggregate(x, q)}
       /\ heard' = [heard EXCEPT ![q] = reply[2]]
  /\ rpc' = "idle"
  /\ reply' = NoReply
  /\ copy' = NoLimits
  /\ UNCHANGED <<now, asked, wpc, callVars, searchVars>>

(* The copy is stored with the answered motor's limits in it, and only     *)
(* that motor's part marked as received.                                   *)
StoreAggregate ==
  /\ rpc = "store"
  /\ LET q == reply[1] IN
       /\ limit' = [x \in Query |->
                      IF x = q THEN reply[2] ELSE IF SameAggregate(x, q) THEN copy[x] ELSE limit[x]]
       /\ valid' = valid \cup {q}
       /\ heard' = [heard EXCEPT ![q] = reply[2]]
  /\ rpc' = "idle"
  /\ reply' = NoReply
  /\ copy' = NoLimits
  /\ UNCHANGED <<now, asked, wpc, callVars, searchVars>>

-----------------------------------------------------------------------------
(* waitForMotorLimits.                                                     *)

(* Bound: the clock runs until the deadline of the last wait.              *)
Wait ==
  /\ wpc = "idle"
  /\ calls < MaxCalls
  /\ now + Timeout <= MaxTime
  /\ calls' = calls + 1
  /\ deadline' = now + Timeout
  /\ result' = "none"
  /\ refused' = FALSE
  /\ wpc' = "resetAngle"
  /\ UNCHANGED <<now, asked, cacheVars, readerVars, searchVars>>

ClearAggregate(queries) ==
  /\ limit' = [q \in Query |-> IF q \in queries THEN NoLimit ELSE limit[q]]
  /\ heard' = [q \in Query |-> IF q \in queries THEN NoLimit ELSE heard[q]]
  /\ valid' = valid \ queries

ResetAngle ==
  /\ wpc = "resetAngle"
  /\ ClearAggregate(AngleQueries)
  /\ wpc' = "resetAcc"
  /\ UNCHANGED <<now, asked, readerVars, callVars, searchVars>>

ResetAccForgotten ==
  /\ wpc = "resetAcc"
  /\ heard' = [q \in Query |-> IF q \in AccQueries THEN NoLimit ELSE heard[q]]
  /\ lastSent' = now
  /\ sending' = 1
  /\ retrying' = FALSE
  /\ wpc' = "search"
  /\ UNCHANGED <<now, asked, limit, valid, readerVars, callVars>>

ResetAcc ==
  /\ wpc = "resetAcc"
  /\ ClearAggregate(AccQueries)
  /\ lastSent' = now
  /\ sending' = 1
  /\ retrying' = FALSE
  /\ wpc' = "search"
  /\ UNCHANGED <<now, asked, readerVars, callVars>>

(* searchAllMotorLimits sends one query after the other.  When it is done, *)
(* a repeated search notes the time.                                       *)
SearchEnds ==
  /\ wpc' = "angle"
  /\ lastSent' = IF retrying THEN now ELSE lastSent

SendQuery ==
  /\ wpc = "search"
  /\ asked' = asked \cup {<<sending, calls>>}
  /\ IF sending = 2 * NumMotors
     THEN SearchEnds /\ UNCHANGED sending
     ELSE sending' = sending + 1 /\ UNCHANGED <<wpc, lastSent>>
  /\ UNCHANGED <<now, cacheVars, readerVars, callVars, retrying>>

Return(r) ==
  /\ wpc' = "idle"
  /\ result' = r

SendQueryFailsAlways ==
  /\ wpc = "search"
  /\ Return("false")
  /\ refused' = ~retrying
  /\ UNCHANGED <<now, asked, cacheVars, readerVars, searchVars, calls, deadline>>

(* A query that cannot be sent ends the search, and the wait with it if it *)
(* was the first search; the failure of a repeated one is ignored.         *)
SendQueryFails ==
  /\ wpc = "search"
  /\ IF retrying
     THEN SearchEnds /\ UNCHANGED <<result, refused>>
     ELSE Return("false") /\ refused' = TRUE /\ UNCHANGED lastSent
  /\ UNCHANGED <<now, asked, cacheVars, readerVars, calls, deadline, sending, retrying>>

(* The loop's condition, one aggregate after the other.                    *)
CheckAngle ==
  /\ wpc = "angle"
  /\ wpc' = IF AngleQueries \subseteq valid THEN "acc" ELSE "expired"
  /\ UNCHANGED <<now, asked, cacheVars, readerVars, callVars, searchVars>>

CheckAcc ==
  /\ wpc = "acc"
  /\ IF AccQueries \subseteq valid
     THEN Return("true")
     ELSE wpc' = "expired" /\ UNCHANGED result
  /\ UNCHANGED <<now, asked, cacheVars, readerVars, searchVars, calls, deadline, refused>>

CheckDeadline ==
  /\ wpc = "expired"
  /\ IF now >= deadline
     THEN Return("false")
     ELSE wpc' = "retry" /\ UNCHANGED result
  /\ UNCHANGED <<now, asked, cacheVars, readerVars, searchVars, calls, deadline, refused>>

RetryExtends ==
  /\ wpc = "retry"
  /\ IF now - lastSent >= RetryInterval
     THEN wpc' = "search" /\ sending' = 1 /\ retrying' = TRUE /\ deadline' = now + Timeout
     ELSE wpc' = "angle" /\ UNCHANGED <<sending, retrying, deadline>>
  /\ UNCHANGED <<now, asked, cacheVars, readerVars, calls, result, refused, lastSent>>

(* After a sleep shorter than a tick.                                      *)
Retry ==
  /\ wpc = "retry"
  /\ IF now - lastSent >= RetryInterval
     THEN wpc' = "search" /\ sending' = 1 /\ retrying' = TRUE
     ELSE wpc' = "angle" /\ UNCHANGED <<sending, retrying>>
  /\ UNCHANGED <<now, asked, cacheVars, readerVars, callVars, lastSent>>

-----------------------------------------------------------------------------

Tick ==
  /\ now < MaxTime
  /\ now' = now + 1
  /\ UNCHANGED <<asked, wpc, cacheVars, readerVars, callVars, searchVars>>

WaitStep ==
  \/ ResetAngle \/ ResetAcc \/ SendQuery \/ SendQueryFails
  \/ CheckAngle \/ CheckAcc \/ CheckDeadline \/ Retry

Next ==
  \/ \E s \in asked : CopyAggregate(s[1], s[2])
  \/ StoreAggregate
  \/ Wait
  \/ WaitStep
  \/ Tick

(* The waiting thread is scheduled and time passes.  The arm need not      *)
(* answer, nor need the read thread run.                                   *)
Spec == Init /\ [][Next]_vars /\ WF_vars(WaitStep) /\ WF_vars(Tick)

-----------------------------------------------------------------------------

(* Types of every variable.                                                *)
TypeOK ==
  /\ now \in 0..MaxTime
  /\ limit \in [Query -> Ask \cup {NoLimit}]
  /\ valid \subseteq Query
  /\ asked \subseteq Query \X Ask
  /\ rpc \in {"idle", "store"}
  /\ reply \in Query \X Ask
  /\ copy \in [Query -> Ask \cup {NoLimit}]
  /\ calls \in Ask
  /\ wpc \in {"idle", "resetAngle", "resetAcc", "search", "angle", "acc", "expired", "retry"}
  /\ sending \in Query
  /\ retrying \in BOOLEAN
  /\ lastSent \in 0..MaxTime
  /\ deadline \in 0..MaxTime
  /\ result \in {"none", "true", "false"}
  /\ refused \in BOOLEAN
  /\ heard \in [Query -> Ask \cup {NoLimit}]

(* When a wait has succeeded, every limit in both aggregates was answered  *)
(* after the wait cleared it, whatever the read thread was storing at that *)
(* moment, and none has been lost to the storing of another.  What was     *)
(* heard may still answer an earlier query, as piperInit's: a reply does   *)
(* not say which one it is for (piper_interface_v2.cpp:907-910).           *)
SuccessIsComplete ==
  result = "true" => \A q \in Query : heard[q] # NoLimit /\ limit[q] = heard[q]

(* A wait fails only when its first search could not be sent or its        *)
(* timeout has passed (piper_interface_v2.h:97-98).                        *)
FailureHasReason == result = "false" => refused \/ now >= deadline

(* A wait returns, whatever the arm and the bus do.                        *)
WaitReturns == wpc = "resetAngle" ~> wpc = "idle"

=============================================================================
