----------------------------- MODULE CommandTools -----------------------------
(***************************************************************************)
(* The command-line tools of piper_cpp/scripts: one process each, with an  *)
(* interface object, an arm that may be silent, and a user who may press   *)
(* Ctrl-C at any moment.  A tool is a sequence of operations, its program; *)
(* the loops inside an operation (waiting for the motors, streaming        *)
(* targets, releasing the gripper) are steps of their own, so that a       *)
(* signal, a time limit or the death of the socket can fall anywhere.      *)
(*                                                                         *)
(* Most tools ignore whether a frame could be sent, and so does the model: *)
(* every frame may go out or not.  What the arm says is up to the bus.     *)
(***************************************************************************)
EXTENDS Naturals, Sequences

CONSTANT Tools      \* the tools to be run

VARIABLES
  tool,      \* the tool that runs
  args,      \* its options
  status,    \* "running", "exited", or "killed" by a signal or an exception
  at,        \* its current operation
  sub,       \* where in a loop of that operation it is
  stop,      \* g_stop_requested
  port,      \* the socket: "closed", "open", or "dead" under the process
  expired,   \* the time the current operation may take is over
  enabled,   \* isEnabled(): low-speed feedback of every motor says so
  posed,     \* joint feedback has been received
  sent,      \* frames of the latest joint or pose target that went out
  short,     \* a frame of the latest target could not be sent
  gripper,   \* what the gripper was told last
  motor,     \* what the motors were told last
  tries,     \* frames sent to release the gripper
  late       \* history: targets begun after Ctrl-C, counted up to 2

loopVars == <<at, sub, expired>>
armVars  == <<sent, short, gripper, motor, tries, late>>
busVars  == <<port, enabled, posed>>
toolVars == <<tool, args, status, stop, loopVars, armVars, busVars>>

-----------------------------------------------------------------------------
(* The programs.  "await" polls isEnabled() and gives up on Ctrl-C;        *)
(* "await_enabled" polls it and does not.                                  *)

PiperGoZero ==
  <<"connect", "enable", "await", "mode", "go_zero", "release", "disconnect">>

PiperJointCtrlDemo ==
  <<"connect", "enable", "await", "mode", "targets", "disconnect">>

PiperEndPoseDemo ==
  <<"connect", "enable", "await", "mode", "targets", "disconnect">>

PiperJointSineDemo ==
  <<"connect", "enable", "await", "mode", "home", "sample", "targets", "disconnect">>

PiperGripperSweep ==
  <<"connect", "enable", "await_enabled", "zero_gripper", "mode", "sweep", "release",
    "disconnect">>

PiperEnable  == <<"connect", "enable", "await_enabled", "disconnect">>
PiperDisable == <<"connect", "disable", "await_disabled", "disconnect">>

PiperReset   == <<"confirm", "connect", "disable", "disconnect">>
PiperSetRole == <<"connect", "configure", "disconnect">>

ZeroGripper  == <<"connect", "zero_gripper", "disconnect">>

ZeroJointStaysFree == <<"connect", "disable", "confirm", "configure", "disconnect">>

ZeroJoint ==
  <<"connect", "disable", "confirm", "configure", "enable", "disconnect">>

ReadFirmware == <<"connect", "look", "disconnect">>
ReadStates   == <<"connect", "look", "disconnect">>
ReadRaw      == <<"open", "read", "disconnect">>

Program ==
  [go_zero |-> PiperGoZero, joint_ctrl |-> PiperJointCtrlDemo,
   end_pose |-> PiperEndPoseDemo, joint_sine |-> PiperJointSineDemo,
   gripper_sweep |-> PiperGripperSweep, enable |-> PiperEnable,
   disable |-> PiperDisable, reset |-> PiperReset, set_role |-> PiperSetRole,
   zero_gripper |-> ZeroGripper, zero_joint |-> ZeroJoint,
   read_firmware |-> ReadFirmware, read_states |-> ReadStates, read_raw |-> ReadRaw]

ASSUME ToolsAssumption == Tools \subseteq DOMAIN Program

Last == Len(Program[tool])
Op   == IF status = "running" THEN Program[tool][at] ELSE "none"

(* Tools that install a signal handler; Ctrl-C ends the others at once.    *)
Handled == {"go_zero", "joint_ctrl", "end_pose", "joint_sine", "gripper_sweep", "read_raw"}

(* Tools started without the read thread hear nothing.                     *)
Deaf == {"reset", "set_role"}

Streams == {"home", "targets", "go_zero", "sweep"}

(* Options: a duration, the gripper's set-zero step, a confirmation.       *)
Args == [timed : BOOLEAN, zero : BOOLEAN, force : BOOLEAN]

ToolInit ==
  /\ tool \in Tools
  /\ args \in Args
  /\ status = "running"
  /\ at = 1
  /\ sub = "check"
  /\ stop = FALSE
  /\ port = "closed"
  /\ expired = FALSE
  /\ enabled = FALSE
  /\ posed = FALSE
  /\ sent = 0
  /\ short = FALSE
  /\ gripper = "untouched"
  /\ motor = "untouched"
  /\ tries = 0
  /\ late = 0

GoTo(k) ==
  /\ at' = k
  /\ sub' = "check"
  /\ expired' = FALSE

(* A frame goes out only over a socket that is open.                       *)
Out == IF port = "open" THEN BOOLEAN ELSE {FALSE}

-----------------------------------------------------------------------------
(* Opening and closing.                                                    *)

Connected ==
  /\ Op = "connect"
  /\ port' = "open"
  /\ GoTo(at + 1)
  /\ UNCHANGED <<tool, args, status, stop, armVars, enabled, posed>>

(* connectPort returns false, and main returns 1; or judgeCanInfo throws,  *)
(* which nobody catches.                                                   *)
ConnectFails ==
  /\ Op = "connect"
  /\ status' \in {"exited", "killed"}
  /\ UNCHANGED <<tool, args, stop, loopVars, armVars, busVars>>

(* The raw readers construct a StdCanInterface, which may throw (caught) or*)
(* be left without a socket, which they do not test.                       *)
OpenRaw ==
  /\ Op = "open"
  /\ \/ port' \in {"open", "dead"} /\ GoTo(at + 1) /\ UNCHANGED status
     \/ status' = "exited" /\ UNCHANGED <<loopVars, port>>
  /\ UNCHANGED <<tool, args, stop, armVars, enabled, posed>>

Disconnect ==
  /\ Op = "disconnect"
  /\ port' = "closed"
  /\ status' = "exited"
  /\ enabled' = FALSE
  /\ posed' = FALSE
  /\ UNCHANGED <<tool, args, stop, loopVars, armVars>>

-----------------------------------------------------------------------------
(* Operations that send one command and go on whatever becomes of it.      *)

CommandMotors ==
  /\ Op \in {"enable", "disable"}
  /\ \E out \in Out :
       motor' = IF ~out THEN "unsent" ELSE IF Op = "enable" THEN "on" ELSE "off"
  /\ GoTo(at + 1)
  /\ UNCHANGED <<tool, args, status, stop, busVars, sent, short, gripper, tries, late>>

(* Motion mode, role, a joint's zero; reading and printing.                *)
CommandOther ==
  /\ Op \in {"mode", "configure", "look"}
  /\ GoTo(at + 1)
  /\ UNCHANGED <<tool, args, status, stop, armVars, busVars>>

(* A Disable frame, a pause, the one-shot zero, a pause; the sweep skips   *)
(* all this with --no-zero.                                                *)
ZeroTheGripper ==
  /\ Op = "zero_gripper"
  /\ \E out \in Out :
       gripper' = IF out /\ (tool = "zero_gripper" \/ args.zero) THEN "released" ELSE gripper
  /\ GoTo(at + 1)
  /\ UNCHANGED <<tool, args, status, stop, busVars, sent, short, motor, tries, late>>

(* The user confirms, or is not asked (--force), or Enter is awaited with  *)
(* the joint free.  A reset that is not confirmed ends.                    *)
Confirm ==
  /\ Op = "confirm"
  /\ \/ GoTo(at + 1) /\ UNCHANGED status
     \/ /\ tool = "reset" /\ ~args.force
        /\ status' = "exited"
        /\ UNCHANGED loopVars
  /\ UNCHANGED <<tool, args, stop, armVars, busVars>>

-----------------------------------------------------------------------------
(* Waiting for the motors.                                                 *)

Awaited ==
  /\ \/ Op \in {"await", "await_enabled"} /\ enabled
     \/ Op = "await_disabled" /\ ~enabled
  /\ GoTo(at + 1)
  /\ UNCHANGED <<tool, args, status, stop, armVars, busVars>>

AwaitStoppedNever == Op = "await" /\ ~enabled /\ stop /\ UNCHANGED toolVars

(* Ctrl-C while the motors are not enabled: disconnect and return.         *)
AwaitStopped ==
  /\ Op = "await"
  /\ ~enabled
  /\ stop
  /\ GoTo(Last)
  /\ UNCHANGED <<tool, args, status, stop, armVars, busVars>>

(* Nothing yet: sleep and look again.                                      *)
AwaitAgain ==
  /\ \/ Op = "await" /\ ~enabled /\ ~stop
     \/ Op = "await_enabled" /\ ~enabled
     \/ Op = "await_disabled" /\ enabled
     \/ Op = "sample" /\ ~posed /\ ~stop /\ ~expired
  /\ UNCHANGED toolVars

(* The start pose of the sine is taken from the first valid joint feedback.*)
SamplePose ==
  /\ Op = "sample"
  /\ posed
  /\ GoTo(at + 1)
  /\ UNCHANGED <<tool, args, status, stop, armVars, busVars>>

SampleGivesUp ==
  /\ Op = "sample"
  /\ ~posed
  /\ stop \/ expired
  /\ GoTo(Last)
  /\ UNCHANGED <<tool, args, status, stop, armVars, busVars>>

-----------------------------------------------------------------------------
(* Streaming.  A loop tests the stop flag and its time limit between       *)
(* targets; driving home tests the time first.                             *)

StreamStopsAnywhere ==
  /\ Op \in Streams \ {"home"}
  /\ stop
  /\ GoTo(at + 1)
  /\ UNCHANGED <<tool, args, status, stop, armVars, busVars>>

StreamStopsUnreleased ==
  /\ Op \in Streams \ {"home"}
  /\ sub = "check"
  /\ stop
  /\ GoTo(Last)
  /\ UNCHANGED <<tool, args, status, stop, armVars, busVars>>

StreamStops ==
  /\ Op \in Streams \ {"home"}
  /\ sub = "check"
  /\ stop
  /\ GoTo(at + 1)
  /\ UNCHANGED <<tool, args, status, stop, armVars, busVars>>

HomeStops ==
  /\ Op = "home"
  /\ sub = "check"
  /\ stop /\ ~expired
  /\ GoTo(Last)
  /\ UNCHANGED <<tool, args, status, stop, armVars, busVars>>

StreamTimesOut ==
  /\ Op \in Streams
  /\ sub = "check"
  /\ expired
  /\ Op = "home" \/ (args.timed /\ ~stop)
  /\ GoTo(at + 1)
  /\ UNCHANGED <<tool, args, status, stop, armVars, busVars>>

BeginTargetUnchecked ==
  /\ Op \in Streams
  /\ sub = "check"
  /\ ~(expired /\ (Op = "home" \/ args.timed))
  /\ IF Op = "sweep" THEN sub' = "grip" /\ UNCHANGED <<sent, short>>
     ELSE sub' = "send" /\ sent' = 0 /\ short' = FALSE
  /\ UNCHANGED <<tool, args, status, stop, at, expired, busVars, gripper, motor, tries, late>>

BeginTarget ==
  /\ Op \in Streams
  /\ sub = "check"
  /\ ~stop
  /\ ~(expired /\ (Op = "home" \/ args.timed))
  /\ IF Op = "sweep" THEN sub' = "grip" /\ UNCHANGED <<sent, short>>
     ELSE sub' = "send" /\ sent' = 0 /\ short' = FALSE
  /\ UNCHANGED <<tool, args, status, stop, at, expired, busVars, gripper, motor, tries, late>>

AfterTarget == IF Op = "go_zero" THEN "grip" ELSE "check"

CountLate == late' = IF stop /\ late < 2 THEN late + 1 ELSE late

(* controlJoints or controlEndPose: a frame of the target goes out ...     *)
SendFrame ==
  /\ sub = "send"
  /\ TRUE \in Out
  /\ sent' = sent + 1
  /\ sub' = IF sent + 1 = 3 THEN AfterTarget ELSE "send"
  /\ IF sent = 0 THEN CountLate ELSE UNCHANGED late
  /\ UNCHANGED <<tool, args, status, stop, at, expired, busVars, short, gripper, motor, tries>>

(* ... or does not, which ends the call; its result is not looked at.      *)
SendFrameFails ==
  /\ sub = "send"
  /\ short' = TRUE
  /\ sub' = AfterTarget
  /\ UNCHANGED <<tool, args, status, stop, at, expired, busVars, sent, gripper, motor, tries, late>>

(* controlGripper(..., Enable).  In the sweep it is the whole target.      *)
Grip ==
  /\ sub = "grip"
  /\ \E out \in Out : gripper' = IF out THEN "driven" ELSE gripper
  /\ sub' = "check"
  /\ IF Op = "sweep" THEN CountLate ELSE UNCHANGED late
  /\ UNCHANGED <<tool, args, status, stop, at, expired, busVars, sent, short, motor, tries>>

(* Five Disable frames, sent come what may, before disconnecting.          *)
Release ==
  /\ Op = "release"
  /\ \E out \in Out : gripper' = IF out THEN "released" ELSE gripper
  /\ tries' = tries + 1
  /\ IF tries' = 5 THEN GoTo(at + 1) ELSE UNCHANGED loopVars
  /\ UNCHANGED <<tool, args, status, stop, busVars, sent, short, motor, late>>

-----------------------------------------------------------------------------
(* The raw readers: readCanMessage() in a loop.  Its poll() is repeated    *)
(* when a signal interrupts it, so only a frame or the death of the socket *)
(* brings the loop back to its test.                                       *)

ReadAgain ==
  /\ Op = "read"
  /\ sub = "check"
  /\ IF stop THEN GoTo(at + 1) ELSE sub' = "poll" /\ UNCHANGED <<at, expired>>
  /\ UNCHANGED <<tool, args, status, stop, armVars, busVars>>

ReadFails ==
  /\ sub = "poll"
  /\ port = "dead"
  /\ sub' = "check"
  /\ UNCHANGED <<tool, args, status, stop, at, expired, armVars, busVars>>

FrameRead ==
  /\ sub = "poll"
  /\ port = "open"
  /\ sub' = "check"
  /\ UNCHANGED <<tool, args, status, stop, at, expired, armVars, busVars>>

-----------------------------------------------------------------------------
(* The surroundings.                                                       *)

(* SIGINT: the handler sets the flag; without one the process is gone.     *)
CtrlC ==
  /\ status = "running"
  /\ ~stop
  /\ IF tool \in Handled
     THEN stop' = TRUE /\ UNCHANGED status
     ELSE status' = "killed" /\ UNCHANGED stop
  /\ UNCHANGED <<tool, args, loopVars, armVars, busVars>>

Elapse ==
  /\ Op \in Streams \cup {"sample"}
  /\ ~expired
  /\ expired' = TRUE
  /\ UNCHANGED <<tool, args, status, stop, at, sub, armVars, busVars>>

PortDies ==
  /\ status = "running"
  /\ port = "open"
  /\ port' = "dead"
  /\ UNCHANGED <<tool, args, status, stop, loopVars, armVars, enabled, posed>>

Feedback ==
  /\ status = "running"
  /\ port = "open"
  /\ tool \notin Deaf \cup {"read_raw"}
  /\ \/ enabled' \in BOOLEAN /\ UNCHANGED posed
     \/ posed' = TRUE /\ UNCHANGED enabled
  /\ UNCHANGED <<tool, args, status, stop, loopVars, armVars, port>>

-----------------------------------------------------------------------------

(* The steps a running process takes by itself.                            *)
ToolStep ==
  \/ Connected \/ ConnectFails \/ OpenRaw \/ Disconnect
  \/ CommandMotors \/ CommandOther \/ ZeroTheGripper
  \/ Awaited \/ AwaitStopped \/ SamplePose \/ SampleGivesUp
  \/ StreamStops \/ HomeStops \/ StreamTimesOut
  \/ BeginTarget \/ SendFrame \/ SendFrameFails \/ Grip \/ Release
  \/ ReadAgain \/ ReadFails

Ended == status # "running"

ToolNext ==
  \/ ToolStep
  \/ Confirm \/ FrameRead \/ AwaitAgain
  \/ CtrlC \/ Elapse \/ PortDies \/ Feedback
  \/ Ended /\ UNCHANGED toolVars

(* The process is scheduled and time passes.  The user need not answer,    *)
(* the bus need not deliver.                                               *)
ToolSpec == ToolInit /\ [][ToolNext]_toolVars /\ WF_toolVars(ToolStep) /\ WF_toolVars(Elapse)

-----------------------------------------------------------------------------

(* Types of every variable.                                                *)
ToolTypeOK ==
  /\ tool \in Tools
  /\ args \in Args
  /\ status \in {"running", "exited", "killed"}
  /\ at \in 1..Last
  /\ sub \in {"check", "send", "grip", "poll"}
  /\ stop \in BOOLEAN
  /\ port \in {"closed", "open", "dead"}
  /\ expired \in BOOLEAN
  /\ enabled \in BOOLEAN
  /\ posed \in BOOLEAN
  /\ sent \in 0..3
  /\ short \in BOOLEAN
  /\ gripper \in {"untouched", "driven", "released"}
  /\ motor \in {"untouched", "unsent", "on", "off"}
  /\ tries \in 0..5
  /\ late \in 0..2

(* The gripper may latch a fault when its command stream is cut while it   *)
(* is driving (piper_gripper_sweep.cpp:11-13): however a tool that drove   *)
(* it comes to its end, Ctrl-C included, it has told the gripper to let    *)
(* go, or all five attempts to tell it failed.                             *)
GripperIsReleased == Ended /\ gripper = "driven" => tries = 5

(* Ctrl-C does not leave the arm with a part of a target                   *)
(* (piper_joint_ctrl_demo.cpp:21-22): when a tool has ended, the arm has   *)
(* all three frames of the latest target, or none of them, or one could    *)
(* not be sent.                                                            *)
LatestTargetIsWhole == Ended /\ sent \in {1, 2} => short

(* Once Ctrl-C was pressed, at most the target about to be sent is still   *)
(* sent, from whatever loop the tool is in and those it has yet to pass.   *)
OneMoreTarget == late <= 1

(* No tool leaves the motors switched off by its own command, other than   *)
(* those asked to do just that: the motion tools leave the arm holding, and*)
(* piper_set_zero re-enables the joint it freed, unless that frame cannot  *)
(* be sent or, without a handler, it is killed by Ctrl-C after freeing it, *)
(* as at its prompt: "the script re-enables before exiting"                *)
(* (piper_set_zero.cpp:13) holds for an exit of its own only.              *)
LeavesMotorsOn ==
  Ended /\ motor = "off" =>
    \/ tool \in {"disable", "reset"}
    \/ /\ tool = "zero_joint" /\ status = "killed"
       /\ Program[tool][at] \in {"confirm", "configure", "enable"}

(* The motion tools end after Ctrl-C or after the given duration, also on  *)
(* a silent bus and with a dead socket.  The gripper sweep does so once    *)
(* the motors are enabled; the raw readers not before the next frame.      *)
AskedToEnd ==
  \/ stop /\ tool \in {"go_zero", "joint_ctrl", "end_pose", "joint_sine"}
  \/ (stop \/ args.timed) /\ Op \in Streams

EndsWhenAsked == AskedToEnd ~> Ended

=============================================================================
