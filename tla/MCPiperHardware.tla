-------------------------- MODULE MCPiperHardware --------------------------
(* With the gripper and everything activation can do, with the gripper and *)
(* nothing of it, and without a gripper.                                   *)
EXTENDS PiperHardware

MCOptions ==
  { [gripper |-> TRUE,  goToZero |-> TRUE,  home |-> TRUE],
    [gripper |-> TRUE,  goToZero |-> FALSE, home |-> FALSE],
    [gripper |-> FALSE, goToZero |-> TRUE,  home |-> FALSE] }

MCHomed == { [gripper |-> TRUE, goToZero |-> FALSE, home |-> TRUE] }

=============================================================================
