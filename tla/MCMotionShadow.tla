--------------------------- MODULE MCMotionShadow ---------------------------
(* Three callers' worth of requests: two different fields, a value only V3 *)
(* encodes, the mode V3 renumbers, a speed to clamp, and a whole message.  *)
EXTENDS MotionShadow

SetMoveMode(m) == [f \in {"move_mode"} |-> m]
SetSpeed(s) == [f \in {Speed} |-> s]
SetInstallation(p) == [f \in {"installation_pos"} |-> p]

MCRequest ==
  { SetMoveMode(MoveM), SetMoveMode(0), SetSpeed(120),
    SetInstallation(HorizontalInverted), DefaultCommand }

=============================================================================
