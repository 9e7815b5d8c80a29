----------------------------- MODULE LatestParts -----------------------------
(***************************************************************************)
(* What a multipart cache promises its readers: for every part, either     *)
(* nothing has been stored since the cache was last forgotten, or the part *)
(* is exactly what was made of its latest frame.  A store changes one part *)
(* and no other; forgetting empties all of them at once.                   *)
(***************************************************************************)
CONSTANTS Part, Val, NoValue

VARIABLE latest

Init == latest = [p \in Part |-> NoValue]

Store(p, v) == latest' = [latest EXCEPT ![p] = v]

Forget == latest' = [p \in Part |-> NoValue]

Next == Forget \/ \E p \in Part, v \in Val : Store(p, v)

Spec == Init /\ [][Next]_latest

=============================================================================
