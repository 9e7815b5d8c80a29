--------------------------- MODULE MCFeedbackCache ---------------------------
(***************************************************************************)
(* A cache of two parts: p1's frames are clamped by a limit; p2's are not, *)
(* as in a gripper mode nobody knows or in an object that was not asked to *)
(* clamp.                                                                  *)
(***************************************************************************)
EXTENDS FeedbackCache

CONSTANTS p1, p2, l1

MCPart     == {p1, p2}
MCLimitOf  == [p \in MCPart |-> IF p = p1 THEN {l1} ELSE {NoLimit}]
MCVal      == 1..2
MCDefault  == [l \in {l1} |-> [min |-> 1, max |-> 2]]
MCNewRange == { [min |-> 2, max |-> 2], [min |-> 2, max |-> 1] }

=============================================================================
