--------------------------- MODULE TimedFreqState ---------------------------
(***************************************************************************)
(* The cache cell piper_cpp keeps for every message type: the latest value *)
(* and, for each PART of the message (a "caller" in the code), when it was *)
(* last stored, whether it was stored since the last reset and at what     *)
(* interval.  A cell is a record; every method of the class takes the      *)
(* cell's mutex for its whole body, so each is one operator here and one   *)
(* atomic step of the modules that use it.                                 *)
(*                                                                         *)
(* The value of a cell is a function from parts to what that part's frame  *)
(* carried.  hz is kept as the interval it is the inverse of, 0 standing   *)
(* for the rate 0.0.                                                       *)
(***************************************************************************)
EXTENDS Integers

CONSTANTS
  Part,           \* the parts (callers) of the message
  NoValue,        \* the value of a part in a default-constructed T{}
  HealthTimeout   \* health_timeout_ in clock ticks

(* kNoHealthTimeout is the largest duration there is, a number like any    *)
(* other: it is the case of a HealthTimeout no clock reading reaches.      *)
ASSUME CellAssumption ==
  /\ Part # {}
  /\ HealthTimeout \in Nat

CellType(Val) ==
  [ value       : [Part -> Val \cup {NoValue}],
    stamp       : Nat,
    interval    : [Part -> Nat],
    received    : [Part -> Nat],
    initialized : [Part -> BOOLEAN] ]

(* A cell as its constructor and setNumCallers leave it; the clock's epoch *)
(* is 0.                                                                   *)
EmptyCell ==
  [ value       |-> [p \in Part |-> NoValue],
    stamp       |-> 0,
    interval    |-> [p \in Part |-> 0],
    received    |-> [p \in Part |-> 0],
    initialized |-> [p \in Part |-> FALSE] ]

(* Faulty variants of the two updates: a rate computed across a reset, a   *)
(* reset that keeps the arrivals.                                          *)
SetCellRatesAll(c, v, stamp, p, now) ==
  [ value       |-> v,
    stamp       |-> stamp,
    interval    |-> [c.interval EXCEPT ![p] = now - c.received[p]],
    received    |-> [c.received EXCEPT ![p] = now],
    initialized |-> [c.initialized EXCEPT ![p] = TRUE] ]

ResetCellKeepsArrivals(c) ==
  [ EmptyCell EXCEPT !.received = c.received, !.initialized = c.initialized ]

(* set(): the rate is only computed for a part that was stored since the   *)
(* last reset; the stored time is the clock's, not the frame's.            *)
SetCell(c, v, stamp, p, now) ==
  [ value       |-> v,
    stamp       |-> stamp,
    interval    |-> [c.interval EXCEPT ![p] = IF c.initialized[p] THEN now - c.received[p] ELSE @],
    received    |-> [c.received EXCEPT ![p] = now],
    initialized |-> [c.initialized EXCEPT ![p] = TRUE] ]

(* reset(): last_received_ is the one member it leaves alone.              *)
ResetCell(c) == [ EmptyCell EXCEPT !.received = c.received ]

(* isValid(): every part was stored since the last reset.                  *)
IsValid(c) == \A p \in Part : c.initialized[p]

IsHealthyUnguarded(c, now) == \A p \in Part : now - c.received[p] <= HealthTimeout

(* isHealthy(): valid, and no part older than the timeout.                 *)
IsHealthy(c, now) ==
  /\ IsValid(c)
  /\ \A p \in Part : now - c.received[p] <= HealthTimeout

=============================================================================
