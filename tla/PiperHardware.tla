---------------------------- MODULE PiperHardware ----------------------------
(***************************************************************************)
(* The ros2_control hardware component: its lifecycle callbacks, and the   *)
(* read and write of the control loop, on top of a PiperInterface that is  *)
(* created when the component is configured and destroyed by an error or a *)
(* cleanup.  The resource manager (external) runs one callback, read or    *)
(* write at a time, calls on_error after any of them reports an error, and *)
(* calls read and write in turn while the component is configured.         *)
(*                                                                         *)
(* A joint target, six numbers in the code, is one position here; the      *)
(* three frames of controlJoints show in that a failing send may leave the *)
(* arm with a "torn" target.  Cached feedback has an age in clock ticks.   *)
(***************************************************************************)
EXTENDS Integers

CONSTANTS
  Position,         \* joint positions
  Zero,             \* all joints at zero
  Stroke,           \* gripper readings other than 0
  Invalid,          \* a command that is not finite or out of range
  Options,          \* configurations: [gripper, goToZero, home : BOOLEAN]
  HealthTimeout, EnableTimeout, ZeroDuration, FeedbackTimeout

Jaw == Stroke \cup {0}

ASSUME HardwareAssumption ==
  /\ Zero \in Position
  /\ Invalid \notin Position /\ Invalid \notin Jaw
  /\ Options \subseteq [gripper : BOOLEAN, goToZero : BOOLEAN, home : BOOLEAN]
  /\ {HealthTimeout, EnableTimeout, ZeroDuration, FeedbackTimeout} \subseteq Nat

VARIABLES
  opt,        \* the parameters of on_init
  state,      \* lifecycle state
  cb,         \* "none", or where in on_activate the component is
  waited,     \* time since the loop it is in began
  turn,       \* what the control loop calls next
  piper,      \* piper_: "null", "open" (no read thread), or "reading"
  active,     \* active_
  cmd,        \* command interfaces: joints and gripper
  source,     \* history: who each command is from: "seed", "controller" or,
              \*   from an earlier activation, "stale"
  js, gs,     \* cached joint and gripper feedback
  enabledFb,  \* cached low-speed feedback says every driver is enabled
  target,     \* the arm: the joint target it heard last
  jaw,        \*   what its gripper would report
  silent,     \*   it sends no feedback
  exported    \* history: the mode of the feedback the exported gripper state
              \*   was last taken from

armVars   == <<target, jaw, silent>>
cacheVars == <<js, gs, enabledFb>>
lifeVars  == <<state, cb, waited, active>>
vars == <<opt, turn, piper, cmd, source, exported, armVars, cacheVars, lifeVars>>

Ages == 0..(HealthTimeout + 1)
MaxWait ==
  LET limits == {EnableTimeout + 1, ZeroDuration, FeedbackTimeout + 1}
  IN  CHOOSE m \in limits : \A n \in limits : n <= m

NoJoints  == [valid |-> FALSE, age |-> 0]
NoGripper == [valid |-> FALSE, age |-> 0, mode |-> "width", jaw |-> 0]

IsHealthy(f) == f.valid /\ f.age <= HealthTimeout

Init ==
  /\ opt \in Options
  /\ state = "unconfigured"
  /\ cb = "none"
  /\ waited = 0
  /\ turn = "read"
  /\ piper = "null"
  /\ active = FALSE
  /\ cmd = [joints |-> Zero, gripper |-> 0]
  /\ source = [joints |-> "stale", gripper |-> "stale"]
  /\ js = NoJoints
  /\ gs = NoGripper
  /\ enabledFb = FALSE
  /\ target = "none"
  /\ jaw \in Jaw
  /\ silent = FALSE
  /\ exported = "none"

NoSession ==
  /\ piper' = "null"
  /\ js' = NoJoints
  /\ gs' = NoGripper
  /\ enabledFb' = FALSE

Stale == source' = [joints |-> "stale", gripper |-> "stale"]

OnErrorKeepsActive ==
  /\ state' = "unconfigured"
  /\ cb' = "none"
  /\ waited' = 0
  /\ turn' = "read"
  /\ UNCHANGED active
  /\ NoSession
  /\ Stale

(* on_error: no more targets, and the port is released.                    *)
OnError ==
  /\ state' = "unconfigured"
  /\ cb' = "none"
  /\ waited' = 0
  /\ turn' = "read"
  /\ active' = FALSE
  /\ NoSession
  /\ Stale

-----------------------------------------------------------------------------
(* on_configure: a new interface replaces what piper_ held.                *)

Configure ==
  /\ state = "unconfigured"
  /\ state' = "inactive"
  /\ piper' = "reading"
  /\ js' = NoJoints
  /\ gs' = NoGripper
  /\ enabledFb' = FALSE
  /\ UNCHANGED <<opt, turn, cmd, source, exported, armVars, cb, waited, active>>

(* connectPort() returns false.                                            *)
ConfigureFails ==
  /\ state = "unconfigured"
  /\ OnError
  /\ UNCHANGED <<opt, cmd, exported, armVars>>

(* connectPort() throws after marking itself connected: piper_ stays.      *)
ConfigureThrows ==
  /\ state = "unconfigured"
  /\ piper' = "open"
  /\ UNCHANGED <<opt, turn, cmd, source, exported, armVars, cacheVars, lifeVars>>

(* on_cleanup.                                                             *)
Cleanup ==
  /\ state = "inactive"
  /\ cb = "none"
  /\ state' = "unconfigured"
  /\ turn' = "read"
  /\ NoSession
  /\ UNCHANGED <<opt, cmd, source, exported, armVars, cb, waited, active>>

-----------------------------------------------------------------------------
(* on_activate.                                                            *)

Enter(step) ==
  /\ cb' = step
  /\ waited' = 0

(* The enable command is sent.                                             *)
Activate ==
  /\ state = "inactive"
  /\ cb = "none"
  /\ Enter("enable")
  /\ UNCHANGED <<opt, state, active, turn, piper, cmd, source, exported, armVars, cacheVars>>

(* Every driver is enabled and the motion mode is sent.                    *)
Enabled ==
  /\ cb = "enable"
  /\ enabledFb
  /\ Enter(IF opt.goToZero THEN "zero" ELSE "joints")
  /\ UNCHANGED <<opt, state, active, turn, piper, cmd, source, exported, armVars, cacheVars>>

(* A target is sent again and again for as long as ZeroDuration.           *)
DriveToZero ==
  /\ cb = "zero"
  /\ waited < ZeroDuration
  /\ target' = Zero
  /\ UNCHANGED <<opt, turn, piper, cmd, source, exported, jaw, silent,
                 cacheVars, lifeVars>>

ZeroDone ==
  /\ cb = "zero"
  /\ waited >= ZeroDuration
  /\ Enter("joints")
  /\ UNCHANGED <<opt, state, active, turn, piper, cmd, source, exported, armVars, cacheVars>>

(* What the arm may be left with by a controlJoints(p) that fails.         *)
PartlySent(p) == IF target = p THEN {target} ELSE {target, "torn"}

(* A command that cannot be sent fails the activation: the enable command, *)
(* the motion mode, a target or the gripper's zero.                        *)
ActivateFails ==
  /\ state = "inactive"
  /\ cb = "none"
  /\ OnError
  /\ UNCHANGED <<opt, cmd, exported, armVars>>

SendFails ==
  /\ \/ cb = "enable" /\ enabledFb /\ UNCHANGED target
     \/ cb = "zero" /\ waited < ZeroDuration /\ target' \in PartlySent(Zero)
     \/ cb = "gripper" /\ opt.home /\ IsHealthy(gs) /\ UNCHANGED target
  /\ OnError
  /\ UNCHANGED <<opt, cmd, exported, jaw, silent>>

(* A faulty variant that waits for the gripper for ever.                    *)
TimesOutWhenSilent ==
  /\ \/ cb = "enable"  /\ ~enabledFb     /\ waited > EnableTimeout
     \/ cb = "joints"  /\ ~IsHealthy(js) /\ waited > FeedbackTimeout
  /\ OnError
  /\ UNCHANGED <<opt, cmd, exported, armVars>>

(* So does a wait that takes too long.                                     *)
TimesOut ==
  /\ \/ cb = "enable"  /\ ~enabledFb     /\ waited > EnableTimeout
     \/ cb = "joints"  /\ ~IsHealthy(js) /\ waited > FeedbackTimeout
     \/ cb = "gripper" /\ ~IsHealthy(gs) /\ waited > FeedbackTimeout
  /\ OnError
  /\ UNCHANGED <<opt, cmd, exported, armVars>>

Activated ==
  /\ active' = TRUE
  /\ state' = "active"
  /\ Enter("none")

SeedNoCommand ==
  /\ cb = "joints"
  /\ IsHealthy(js)
  /\ IF opt.gripper
     THEN Enter("gripper") /\ UNCHANGED <<active, state>>
     ELSE Activated
  /\ UNCHANGED <<opt, turn, piper, cmd, source, exported, armVars, cacheVars>>

(* The pose the arm reports becomes the command.                           *)
SeedJoints ==
  /\ cb = "joints"
  /\ IsHealthy(js)
  /\ \E p \in Position : cmd' = [cmd EXCEPT !.joints = p]
  /\ source' = [source EXCEPT !.joints = "seed"]
  /\ IF opt.gripper
     THEN Enter("gripper") /\ UNCHANGED <<active, state>>
     ELSE Activated
  /\ UNCHANGED <<opt, turn, piper, exported, armVars, cacheVars>>

(* The last part of on_activate, with a snapshot of the gripper feedback.  *)
SeedGripper ==
  IF gs.mode # "width"
  THEN OnError /\ UNCHANGED <<cmd, exported>>
  ELSE /\ cmd' = [cmd EXCEPT !.gripper = gs.jaw]
       /\ source' = [source EXCEPT !.gripper = "seed"]
       /\ exported' = gs.mode
       /\ Activated
       /\ UNCHANGED <<turn, piper, cacheVars>>

GripperReady ==
  /\ cb = "gripper"
  /\ IsHealthy(gs)
  /\ ~opt.home
  /\ SeedGripper
  /\ UNCHANGED <<opt, armVars>>

(* The jaws' reading is latched as zero ...                                *)
HomeGripper ==
  /\ cb = "gripper"
  /\ IsHealthy(gs)
  /\ opt.home
  /\ jaw' = 0
  /\ Enter("refresh")
  /\ UNCHANGED <<opt, state, active, turn, piper, cmd, source, exported, target, silent,
                  cacheVars>>

(* ... and 50 ms later the cached reading is taken, whatever it is.        *)
RefreshGripper ==
  /\ cb = "refresh"
  /\ SeedGripper
  /\ UNCHANGED <<opt, armVars>>

(* on_deactivate: the motors are left enabled.                             *)
Deactivate ==
  /\ state = "active"
  /\ active' = FALSE
  /\ state' = "inactive"
  /\ Stale
  /\ UNCHANGED <<opt, turn, piper, cmd, exported, armVars, cacheVars, cb, waited>>

-----------------------------------------------------------------------------
(* The control loop.                                                       *)

Running == state \in {"inactive", "active"} /\ cb = "none"

WidthMode == gs.mode = "width"

(* Stale feedback and an unusable gripper mode are errors while active.    *)
ReadRefusesOnlyInvalid ==
  /\ active
  /\ \/ ~js.valid
     \/ opt.gripper /\ (~gs.valid \/ ~WidthMode)

ReadRefuses ==
  /\ active
  /\ \/ ~IsHealthy(js)
     \/ opt.gripper /\ (~IsHealthy(gs) \/ ~WidthMode)

ReadFails ==
  /\ Running /\ turn = "read"
  /\ ReadRefuses
  /\ OnError
  /\ UNCHANGED <<opt, cmd, exported, armVars>>

ReadOkAnyMode ==
  /\ Running /\ turn = "read"
  /\ ~ReadRefuses
  /\ turn' = "write"
  /\ exported' = IF opt.gripper /\ gs.valid THEN gs.mode ELSE exported
  /\ UNCHANGED <<opt, piper, cmd, source, armVars, cacheVars, lifeVars>>

(* The states are refreshed from what is valid; the gripper's only from a  *)
(* reading that is a width.                                                *)
ReadOk ==
  /\ Running /\ turn = "read"
  /\ ~ReadRefuses
  /\ turn' = "write"
  /\ exported' = IF opt.gripper /\ gs.valid /\ WidthMode THEN gs.mode ELSE exported
  /\ UNCHANGED <<opt, piper, cmd, source, armVars, cacheVars, lifeVars>>

BadCommand == cmd.joints = Invalid \/ (opt.gripper /\ cmd.gripper = Invalid)

WriteIdle ==
  /\ Running /\ turn = "write"
  /\ ~active
  /\ turn' = "read"
  /\ UNCHANGED <<opt, piper, cmd, source, exported, armVars, cacheVars, lifeVars>>

WriteRefusedLate ==
  /\ Running /\ turn = "write"
  /\ active
  /\ BadCommand
  /\ target' = IF cmd.joints # Invalid THEN cmd.joints ELSE target
  /\ OnError
  /\ UNCHANGED <<opt, cmd, exported, jaw, silent>>

(* The whole command set is validated before any of it is sent.            *)
WriteRefused ==
  /\ Running /\ turn = "write"
  /\ active
  /\ BadCommand
  /\ OnError
  /\ UNCHANGED <<opt, cmd, exported, armVars>>

WriteOk ==
  /\ Running /\ turn = "write"
  /\ active
  /\ ~BadCommand
  /\ turn' = "read"
  /\ target' = cmd.joints
  /\ jaw' = IF opt.gripper THEN cmd.gripper ELSE jaw
  /\ UNCHANGED <<opt, piper, cmd, source, exported, silent, cacheVars, lifeVars>>

(* controlJoints() fails at its first frame or later, or the gripper       *)
(* command fails after it.                                                 *)
WriteFails ==
  /\ Running /\ turn = "write"
  /\ active
  /\ ~BadCommand
  /\ \/ target' \in PartlySent(cmd.joints)
     \/ opt.gripper /\ target' = cmd.joints
  /\ OnError
  /\ UNCHANGED <<opt, cmd, exported, jaw, silent>>

(* Controllers write the command interfaces of an active component.        *)
Control ==
  /\ state = "active"
  /\ \E p \in Position \cup {Invalid} : cmd' = [cmd EXCEPT !.joints = p]
  /\ source' = [source EXCEPT !.joints = "controller"]
  /\ UNCHANGED <<opt, turn, piper, exported, armVars, cacheVars, lifeVars>>

ControlGripper ==
  /\ state = "active"
  /\ opt.gripper
  /\ \E w \in Jaw \cup {Invalid} : cmd' = [cmd EXCEPT !.gripper = w]
  /\ source' = [source EXCEPT !.gripper = "controller"]
  /\ UNCHANGED <<opt, turn, piper, exported, armVars, cacheVars, lifeVars>>

-----------------------------------------------------------------------------
(* The arm, its operator, and time.                                        *)

(* Feedback frames come in any order.  Motors may be enabled and disabled, *)
(* and the gripper's mode changed, by others on the bus.                   *)
Feedback ==
  /\ piper = "reading"
  /\ ~silent
  /\ \/ js' = [valid |-> TRUE, age |-> 0] /\ UNCHANGED <<gs, enabledFb>>
     \/ /\ opt.gripper
        /\ \E m \in {"width", "angle"} :
             gs' = [valid |-> TRUE, age |-> 0, mode |-> m, jaw |-> jaw]
        /\ UNCHANGED <<js, enabledFb>>
     \/ enabledFb' \in BOOLEAN /\ UNCHANGED <<js, gs>>
  /\ UNCHANGED <<opt, turn, piper, cmd, source, exported, armVars, lifeVars>>

SilenceChanges ==
  /\ silent' = ~silent
  /\ UNCHANGED <<opt, turn, piper, cmd, source, exported, target, jaw, cacheVars, lifeVars>>

Older(f) == IF f.valid /\ f.age <= HealthTimeout THEN [f EXCEPT !.age = @ + 1] ELSE f

(* Ages and waits are counted up to where they make no more difference.    *)
Tick ==
  /\ js' = Older(js)
  /\ gs' = Older(gs)
  /\ waited' = IF cb # "none" /\ waited < MaxWait THEN waited + 1 ELSE waited
  /\ UNCHANGED <<opt, turn, piper, cmd, source, exported, armVars, enabledFb, state, cb, active>>

-----------------------------------------------------------------------------

ActivateStep ==
  \/ Enabled \/ DriveToZero \/ ZeroDone \/ SendFails \/ TimesOut \/ SeedJoints
  \/ GripperReady \/ HomeGripper \/ RefreshGripper

Cycle == ReadFails \/ ReadOk \/ WriteIdle \/ WriteRefused \/ WriteOk \/ WriteFails

Next ==
  \/ Configure \/ ConfigureFails \/ ConfigureThrows \/ Cleanup
  \/ Activate \/ ActivateFails \/ ActivateStep \/ Deactivate
  \/ Cycle \/ Control \/ ControlGripper
  \/ Feedback \/ SilenceChanges
  \/ Tick

(* on_activate's thread and the control loop are scheduled, and time       *)
(* passes.                                                                 *)
Spec ==
  /\ Init /\ [][Next]_vars
  /\ WF_vars(ActivateStep) /\ WF_vars(Cycle) /\ WF_vars(Tick)

-----------------------------------------------------------------------------

(* Types of every variable.                                                *)
TypeOK ==
  /\ opt \in Options
  /\ state \in {"unconfigured", "inactive", "active"}
  /\ cb \in {"none", "enable", "zero", "joints", "gripper", "refresh"}
  /\ waited \in 0..MaxWait
  /\ turn \in {"read", "write"}
  /\ piper \in {"null", "open", "reading"}
  /\ active \in BOOLEAN
  /\ cmd \in [joints : Position \cup {Invalid}, gripper : Jaw \cup {Invalid}]
  /\ source \in [joints : {"stale", "seed", "controller"},
                 gripper : {"stale", "seed", "controller"}]
  /\ js \in [valid : BOOLEAN, age : Ages]
  /\ gs \in [valid : BOOLEAN, age : Ages, mode : {"width", "angle"}, jaw : Jaw]
  /\ enabledFb \in BOOLEAN
  /\ target \in Position \cup {"none", "torn"}
  /\ jaw \in Jaw
  /\ silent \in BOOLEAN
  /\ exported \in {"none", "width", "angle"}

(* Targets are streamed only while the component is active                 *)
(* (piper_cpp_ros/README.md:242); before that only activation itself, if   *)
(* configured to, drives the arm to zero.                                  *)
StreamsOnlyWhenActive ==
  [][target' # target => state = "active" \/ (cb = "zero" /\ opt.goToZero)]_vars

(* An active component has an interface that is reading and, for both      *)
(* commands, a value given since it was activated: nothing left over from  *)
(* an earlier activation is ever streamed.                                 *)
NoStaleCommand ==
  active => /\ piper = "reading"
            /\ source.joints # "stale"
            /\ opt.gripper => source.gripper # "stale"

(* Nothing is sent when any part of the command set is invalid             *)
(* (piper_cpp_ros/README.md:245-246).                                      *)
InvalidSendsNothing ==
  [][active /\ BadCommand => target' = target /\ jaw' = jaw]_vars

(* A gripper angle is never exported as a jaw opening, active or not       *)
(* (piper_cpp_ros/README.md:250-252).                                      *)
ExportsWidthOnly == exported # "angle"

(* When feedback stops for good, so does the component                     *)
(* (piper_cpp_ros/README.md:244).                                          *)
StaleFeedbackStops == (silent /\ active) ~> (~silent \/ ~active)

(* on_activate ends: each of its waits is bounded.                         *)
ActivationEnds == cb = "enable" ~> cb = "none"

(* piper_hardware_interface.cpp:337-338 re-reads the gripper "post-zero",  *)
(* for the command to be where the jaws are.  The reading may still be the *)
(* one from before.                                                        *)
SeedIsPostZero == active /\ source.gripper = "seed" => cmd.gripper = jaw

=============================================================================
