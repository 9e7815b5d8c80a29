SPECIFICATION ToolSpec
CONSTANTS
  Tools = {"go_zero", "joint_ctrl", "end_pose", "joint_sine", "gripper_sweep",
           "enable", "disable", "reset", "set_role", "zero_gripper", "zero_joint",
           "read_firmware", "read_states", "read_raw"}
INVARIANTS
  GripperIsReleased
  LatestTargetIsWhole
  OneMoreTarget
  LeavesMotorsOn
PROPERTY
  EndsWhenAsked
