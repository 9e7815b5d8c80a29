------------------------- MODULE PiperHardwareProofs -------------------------
(***************************************************************************)
(* Theorems about PiperHardware, for any positions, strokes, options and   *)
(* timeouts.  The induction rests on how the lifecycle, active_ and piper_ *)
(* go together (Placed): the control loop streams by active_ alone, and    *)
(* every way into and out of the active state must have set it and the     *)
(* sources of the commands alike.                                          *)
(***************************************************************************)
EXTENDS PiperHardware, TLAPS

(* active_ is the active state; on_activate runs while inactive; nothing   *)
(* but an unconfigured component lacks an interface that is reading.       *)
Placed ==
  /\ active <=> state = "active"
  /\ cb # "none" => state = "inactive"
  /\ cb = "zero" => opt.goToZero
  /\ cb \in {"gripper", "refresh"} => source.joints # "stale"
  /\ state # "unconfigured" => piper = "reading"

IInv ==
  /\ TypeOK
  /\ Placed
  /\ NoStaleCommand
  /\ ExportsWidthOnly

-----------------------------------------------------------------------------

LEMMA MaxWaitIsNat == MaxWait \in Nat
  <1> DEFINE limits == {EnableTimeout + 1, ZeroDuration, FeedbackTimeout + 1}
  <1>1. /\ EnableTimeout + 1 \in Nat /\ ZeroDuration \in Nat /\ FeedbackTimeout + 1 \in Nat
    BY HardwareAssumption
  <1>2. \E m \in limits : \A n \in limits : n <= m
    BY <1>1
  <1>3. MaxWait \in limits
    BY <1>2 DEF MaxWait
  <1>4. QED
    BY <1>1, <1>3

LEMMA OptionType ==
  ASSUME TypeOK
  PROVE  opt.gripper \in BOOLEAN /\ opt.goToZero \in BOOLEAN /\ opt.home \in BOOLEAN
  BY HardwareAssumption DEF TypeOK

LEMMA NoFeedbackType ==
  /\ NoJoints \in [valid : BOOLEAN, age : Ages]
  /\ NoGripper \in [valid : BOOLEAN, age : Ages, mode : {"width", "angle"}, jaw : Jaw]
  BY HardwareAssumption DEF NoJoints, NoGripper, Ages, Jaw

(* A step that is no part of on_activate and moves nothing of the arm.     *)
LEMMA TypeKept ==
  ASSUME TypeOK, UNCHANGED <<opt, cmd, exported, target, jaw, silent, cb, waited>>,
         state' \in {"unconfigured", "inactive", "active"},
         turn' \in {"read", "write"},
         piper' \in {"null", "open", "reading"},
         active' \in BOOLEAN,
         source' \in [joints : {"stale", "seed", "controller"},
                      gripper : {"stale", "seed", "controller"}],
         js' \in [valid : BOOLEAN, age : Ages],
         gs' \in [valid : BOOLEAN, age : Ages, mode : {"width", "angle"}, jaw : Jaw],
         enabledFb' \in BOOLEAN
  PROVE  TypeOK'
  BY DEF TypeOK

LEMMA InitInv == Init => IInv
  <1> SUFFICES ASSUME Init PROVE IInv
    OBVIOUS
  <1> USE HardwareAssumption DEF Init
  <1>1. js \in [valid : BOOLEAN, age : Ages]
        /\ gs \in [valid : BOOLEAN, age : Ages, mode : {"width", "angle"}, jaw : Jaw]
    BY DEF NoJoints, NoGripper, Ages, Jaw
  <1>2. 0 \in 0..MaxWait
    BY MaxWaitIsNat
  <1>3. cmd \in [joints : Position \cup {Invalid}, gripper : Jaw \cup {Invalid}]
    BY DEF Jaw
  <1>4. TypeOK
    BY <1>1, <1>2, <1>3 DEF TypeOK
  <1>5. Placed /\ NoStaleCommand /\ ExportsWidthOnly
    BY DEF Placed, NoStaleCommand, ExportsWidthOnly
  <1>6. QED
    BY <1>4, <1>5 DEF IInv

(* Whatever fails, on_error leaves a component that is not active and has  *)
(* no interface.                                                           *)
LEMMA OnErrorInv ==
  ASSUME IInv, OnError, UNCHANGED <<opt, cmd, exported, jaw, silent>>,
         target' \in Position \cup {"none", "torn"}
  PROVE  IInv'
  <1> USE HardwareAssumption DEF IInv, OnError, NoSession, Stale
  <1>1. js' \in [valid : BOOLEAN, age : Ages]
        /\ gs' \in [valid : BOOLEAN, age : Ages, mode : {"width", "angle"}, jaw : Jaw]
    BY DEF NoJoints, NoGripper, Ages, Jaw
  <1>2. waited' \in 0..MaxWait
    BY MaxWaitIsNat
  <1>3. TypeOK'
    BY <1>1, <1>2 DEF TypeOK
  <1>4. (Placed /\ NoStaleCommand /\ ExportsWidthOnly)'
    BY DEF Placed, NoStaleCommand, ExportsWidthOnly
  <1>5. QED
    BY <1>3, <1>4

LEMMA ConfigureType ==
  ASSUME TypeOK, Configure \/ Cleanup
  PROVE  TypeOK'
  <1> USE DEF armVars
  <1>1. CASE Configure
    <2>1. /\ UNCHANGED <<opt, cmd, exported, target, jaw, silent, cb, waited>>
          /\ UNCHANGED <<turn, source, active>>
          /\ state' = "inactive" /\ piper' = "reading"
          /\ js' = NoJoints /\ gs' = NoGripper /\ enabledFb' = FALSE
      BY <1>1 DEF Configure
    <2>2. turn' \in {"read", "write"} /\ active' \in BOOLEAN
          /\ source' \in [joints : {"stale", "seed", "controller"},
                          gripper : {"stale", "seed", "controller"}]
      BY <2>1 DEF TypeOK
    <2>3. QED
      BY <2>1, <2>2, NoFeedbackType, TypeKept
  <1>2. CASE Cleanup
    <2>1. /\ UNCHANGED <<opt, cmd, exported, target, jaw, silent, cb, waited>>
          /\ UNCHANGED <<source, active>>
          /\ state' = "unconfigured" /\ turn' = "read" /\ piper' = "null"
          /\ js' = NoJoints /\ gs' = NoGripper /\ enabledFb' = FALSE
      BY <1>2 DEF Cleanup, NoSession
    <2>2. active' \in BOOLEAN
          /\ source' \in [joints : {"stale", "seed", "controller"},
                          gripper : {"stale", "seed", "controller"}]
      BY <2>1 DEF TypeOK
    <2>3. QED
      BY <2>1, <2>2, NoFeedbackType, TypeKept
  <1>3. QED
    BY <1>1, <1>2

(* on_configure and on_cleanup.                                            *)
LEMMA ConfigureInv ==
  ASSUME IInv, Configure \/ ConfigureFails \/ ConfigureThrows \/ Cleanup
  PROVE  IInv'
  <1> USE HardwareAssumption DEF IInv, armVars, cacheVars, lifeVars
  <1>1. CASE Configure
    <2>1. TypeOK'
      BY <1>1, ConfigureType
    <2>2. ~active /\ ~active'
      BY <1>1 DEF Configure, Placed
    <2>3. (Placed /\ NoStaleCommand /\ ExportsWidthOnly)'
      BY <1>1, <2>2 DEF Configure, Placed, NoStaleCommand, ExportsWidthOnly
    <2>4. QED
      BY <2>1, <2>3
  <1>2. CASE ConfigureFails
    BY <1>2, OnErrorInv DEF ConfigureFails, TypeOK
  <1>3. CASE ConfigureThrows
    BY <1>3 DEF ConfigureThrows, TypeOK, Placed, NoStaleCommand, ExportsWidthOnly
  <1>4. CASE Cleanup
    <2>1. TypeOK'
      BY <1>4, ConfigureType
    <2>2. ~active /\ ~active'
      BY <1>4 DEF Cleanup, Placed
    <2>3. (Placed /\ NoStaleCommand /\ ExportsWidthOnly)'
      BY <1>4, <2>2 DEF Cleanup, NoSession, Placed, NoStaleCommand, ExportsWidthOnly
    <2>4. QED
      BY <2>1, <2>3
  <1>5. QED
    BY <1>1, <1>2, <1>3, <1>4

(* The last part of on_activate: a reading that is a width becomes the     *)
(* command, any other is an error.                                         *)
LEMMA SeedGripperInv ==
  ASSUME IInv, cb \in {"gripper", "refresh"}, SeedGripper, UNCHANGED <<opt, armVars>>
  PROVE  IInv'
  <1> USE HardwareAssumption DEF IInv, armVars, cacheVars
  <1>1. CASE gs.mode # "width"
    BY <1>1, OnErrorInv DEF SeedGripper, TypeOK
  <1>2. CASE gs.mode = "width"
    <2>1. /\ cmd' = [cmd EXCEPT !.gripper = gs.jaw]
          /\ source' = [source EXCEPT !.gripper = "seed"]
          /\ exported' = "width" /\ active' = TRUE /\ state' = "active"
          /\ cb' = "none" /\ waited' = 0
          /\ UNCHANGED <<turn, piper, js, gs, enabledFb>>
      BY <1>2 DEF SeedGripper, Activated, Enter
    <2>2. waited' \in 0..MaxWait
      BY <2>1, MaxWaitIsNat
    <2>3. cmd' \in [joints : Position \cup {Invalid}, gripper : Jaw \cup {Invalid}]
      BY <2>1 DEF TypeOK
    <2>4. TypeOK'
      BY <2>1, <2>2, <2>3 DEF TypeOK
    <2>5. (Placed /\ NoStaleCommand /\ ExportsWidthOnly)'
      BY <2>1 DEF TypeOK, Placed, NoStaleCommand, ExportsWidthOnly
    <2>6. QED
      BY <2>4, <2>5
  <1>3. QED
    BY <1>1, <1>2

LEMMA DeactivateType ==
  ASSUME TypeOK, Deactivate
  PROVE  TypeOK'
  <1>1. /\ UNCHANGED <<opt, cmd, exported, target, jaw, silent, cb, waited>>
        /\ UNCHANGED <<turn, piper, js, gs, enabledFb>>
        /\ state' = "inactive" /\ active' = FALSE
        /\ source' = [joints |-> "stale", gripper |-> "stale"]
    BY DEF Deactivate, Stale, armVars, cacheVars
  <1>2. turn' \in {"read", "write"} /\ piper' \in {"null", "open", "reading"}
        /\ js' \in [valid : BOOLEAN, age : Ages]
        /\ gs' \in [valid : BOOLEAN, age : Ages, mode : {"width", "angle"}, jaw : Jaw]
        /\ enabledFb' \in BOOLEAN
    BY <1>1 DEF TypeOK
  <1>3. source' \in [joints : {"stale", "seed", "controller"},
                     gripper : {"stale", "seed", "controller"}]
    BY <1>1
  <1>4. QED
    BY <1>1, <1>2, <1>3, TypeKept

(* on_activate and on_deactivate.                                          *)
LEMMA ActivateInv ==
  ASSUME IInv, Activate \/ ActivateFails \/ ActivateStep \/ Deactivate
  PROVE  IInv'
  <1> USE HardwareAssumption, MaxWaitIsNat, OptionType
      DEF IInv, armVars, cacheVars, lifeVars
  <1>1. CASE Activate
    BY <1>1 DEF Activate, Enter, TypeOK, Placed, NoStaleCommand, ExportsWidthOnly
  <1>2. CASE ActivateFails
    BY <1>2, OnErrorInv DEF ActivateFails, TypeOK
  <1>3. CASE Enabled
    BY <1>3 DEF Enabled, Enter, TypeOK, Placed, NoStaleCommand, ExportsWidthOnly
  <1>4. CASE DriveToZero
    BY <1>4 DEF DriveToZero, TypeOK, Placed, NoStaleCommand, ExportsWidthOnly
  <1>5. CASE ZeroDone
    BY <1>5 DEF ZeroDone, Enter, TypeOK, Placed, NoStaleCommand, ExportsWidthOnly
  <1>6. CASE SendFails
    <2>1. target' \in Position \cup {"none", "torn"}
      BY <1>6 DEF SendFails, PartlySent, TypeOK
    <2>2. QED
      BY <1>6, <2>1, OnErrorInv DEF SendFails
  <1>7. CASE TimesOut
    BY <1>7, OnErrorInv DEF TimesOut, TypeOK
  <1>8. CASE SeedJoints
    <2>1. /\ cmd' \in [joints : Position \cup {Invalid}, gripper : Jaw \cup {Invalid}]
          /\ source' \in [joints : {"stale", "seed", "controller"},
                          gripper : {"stale", "seed", "controller"}]
          /\ source'.joints = "seed"
          /\ UNCHANGED <<opt, turn, piper, exported, target, jaw, silent, js, gs, enabledFb>>
      BY <1>8 DEF SeedJoints, TypeOK
    <2>2. cb = "joints" /\ state = "inactive" /\ piper = "reading"
      BY <1>8 DEF SeedJoints, Placed
    <2>3. CASE opt.gripper
      BY <1>8, <2>1, <2>2, <2>3
         DEF SeedJoints, Enter, TypeOK, Placed, NoStaleCommand, ExportsWidthOnly
    <2>4. CASE ~opt.gripper
      BY <1>8, <2>1, <2>2, <2>4
         DEF SeedJoints, Activated, Enter, TypeOK, Placed, NoStaleCommand, ExportsWidthOnly
    <2>5. QED
      BY <2>3, <2>4
  <1>9. CASE GripperReady
    BY <1>9, SeedGripperInv DEF GripperReady
  <1>10. CASE HomeGripper
    BY <1>10 DEF HomeGripper, Enter, Jaw, TypeOK, Placed, NoStaleCommand, ExportsWidthOnly
  <1>11. CASE RefreshGripper
    BY <1>11, SeedGripperInv DEF RefreshGripper
  <1>12. CASE Deactivate
    <2>1. TypeOK'
      BY <1>12, DeactivateType
    <2>2. cb = "none" /\ piper = "reading"
      BY <1>12 DEF Deactivate, Placed, TypeOK
    <2>3. (Placed /\ NoStaleCommand /\ ExportsWidthOnly)'
      BY <1>12, <2>2 DEF Deactivate, Placed, NoStaleCommand, ExportsWidthOnly
    <2>4. QED
      BY <2>1, <2>3
  <1>13. QED
    BY <1>1, <1>2, <1>3, <1>4, <1>5, <1>6, <1>7, <1>8, <1>9, <1>10, <1>11, <1>12
       DEF ActivateStep

(* The control loop and the controllers.                                   *)
LEMMA CycleInv ==
  ASSUME IInv, Cycle \/ Control \/ ControlGripper
  PROVE  IInv'
  <1> USE HardwareAssumption, OptionType DEF IInv, armVars, cacheVars, lifeVars
  <1>1. CASE ReadFails
    BY <1>1, OnErrorInv DEF ReadFails, TypeOK
  <1>2. CASE ReadOk
    BY <1>2 DEF ReadOk, WidthMode, TypeOK, Placed, NoStaleCommand, ExportsWidthOnly
  <1>3. CASE WriteIdle
    BY <1>3 DEF WriteIdle, TypeOK, Placed, NoStaleCommand, ExportsWidthOnly
  <1>4. CASE WriteRefused
    BY <1>4, OnErrorInv DEF WriteRefused, TypeOK
  <1>5. CASE WriteOk
    <2>1. cmd.joints \in Position
      BY <1>5 DEF WriteOk, BadCommand, TypeOK
    <2>2. opt.gripper => cmd.gripper \in Jaw
      BY <1>5 DEF WriteOk, BadCommand, TypeOK
    <2>3. QED
      BY <1>5, <2>1, <2>2 DEF WriteOk, TypeOK, Placed, NoStaleCommand, ExportsWidthOnly
  <1>6. CASE WriteFails
    <2>1. cmd.joints \in Position
      BY <1>6 DEF WriteFails, BadCommand, TypeOK
    <2>2. target' \in Position \cup {"none", "torn"}
      BY <1>6, <2>1 DEF WriteFails, PartlySent, TypeOK
    <2>3. QED
      BY <1>6, <2>2, OnErrorInv DEF WriteFails
  <1>7. CASE Control
    <2>1. PICK p \in Position \cup {Invalid} : cmd' = [cmd EXCEPT !.joints = p]
      BY <1>7 DEF Control
    <2>2. QED
      BY <1>7, <2>1 DEF Control, TypeOK, Placed, NoStaleCommand, ExportsWidthOnly
  <1>8. CASE ControlGripper
    <2>1. PICK w \in Jaw \cup {Invalid} : cmd' = [cmd EXCEPT !.gripper = w]
      BY <1>8 DEF ControlGripper
    <2>2. QED
      BY <1>8, <2>1 DEF ControlGripper, TypeOK, Placed, NoStaleCommand, ExportsWidthOnly
  <1>9. QED
    BY <1>1, <1>2, <1>3, <1>4, <1>5, <1>6, <1>7, <1>8 DEF Cycle

LEMMA FeedbackType ==
  ASSUME TypeOK, Feedback
  PROVE  TypeOK'
  <1>1. UNCHANGED <<opt, turn, piper, cmd, source, exported, target, jaw, silent,
                    state, cb, waited, active>>
    BY DEF Feedback, armVars, lifeVars
  <1>2. /\ js' \in [valid : BOOLEAN, age : Ages]
        /\ gs' \in [valid : BOOLEAN, age : Ages, mode : {"width", "angle"}, jaw : Jaw]
        /\ enabledFb' \in BOOLEAN
    <2>1. /\ js \in [valid : BOOLEAN, age : Ages]
          /\ gs \in [valid : BOOLEAN, age : Ages, mode : {"width", "angle"}, jaw : Jaw]
          /\ enabledFb \in BOOLEAN /\ jaw \in Jaw
      BY DEF TypeOK
    <2>2. 0 \in Ages
      BY HardwareAssumption DEF Ages
    <2>3. CASE js' = [valid |-> TRUE, age |-> 0] /\ UNCHANGED <<gs, enabledFb>>
      BY <2>1, <2>2, <2>3
    <2>4. CASE /\ \E m \in {"width", "angle"} :
                    gs' = [valid |-> TRUE, age |-> 0, mode |-> m, jaw |-> jaw]
               /\ UNCHANGED <<js, enabledFb>>
      BY <2>1, <2>2, <2>4
    <2>5. CASE enabledFb' \in BOOLEAN /\ UNCHANGED <<js, gs>>
      BY <2>1, <2>5
    <2>6. QED
      BY <2>3, <2>4, <2>5 DEF Feedback
  <1>3. turn' \in {"read", "write"} /\ piper' \in {"null", "open", "reading"}
        /\ state' \in {"unconfigured", "inactive", "active"} /\ active' \in BOOLEAN
        /\ source' \in [joints : {"stale", "seed", "controller"},
                        gripper : {"stale", "seed", "controller"}]
    BY <1>1 DEF TypeOK
  <1>4. QED
    BY <1>1, <1>2, <1>3, TypeKept

(* The arm and the clock touch the caches and the wait only.               *)
LEMMA SurroundingsInv ==
  ASSUME IInv, Feedback \/ SilenceChanges \/ Tick
  PROVE  IInv'
  <1> USE HardwareAssumption DEF IInv, armVars, cacheVars, lifeVars
  <1>1. CASE Feedback
    <2>1. UNCHANGED <<state, active, cb, opt, piper, source, exported>>
      BY <1>1 DEF Feedback
    <2>2. TypeOK'
      BY <1>1, FeedbackType
    <2>3. (Placed /\ NoStaleCommand /\ ExportsWidthOnly)'
      <3> HIDE DEF TypeOK
      <3>1. QED
        BY <2>1 DEF Placed, NoStaleCommand, ExportsWidthOnly
    <2>4. QED
      BY <2>2, <2>3
  <1>2. CASE SilenceChanges
    BY <1>2 DEF SilenceChanges, TypeOK, Placed, NoStaleCommand, ExportsWidthOnly
  <1>3. CASE Tick
    <2>1. /\ js' \in [valid : BOOLEAN, age : Ages]
          /\ gs' \in [valid : BOOLEAN, age : Ages, mode : {"width", "angle"}, jaw : Jaw]
      BY <1>3 DEF Tick, Older, TypeOK, Ages
    <2>2. waited' \in 0..MaxWait
      BY <1>3, MaxWaitIsNat DEF Tick, TypeOK
    <2>3. QED
      BY <1>3, <2>1, <2>2 DEF Tick, TypeOK, Placed, NoStaleCommand, ExportsWidthOnly
  <1>4. QED
    BY <1>1, <1>2, <1>3

LEMMA NextInv == IInv /\ [Next]_vars => IInv'
  <1> SUFFICES ASSUME IInv, [Next]_vars PROVE IInv'
    OBVIOUS
  <1>1. CASE UNCHANGED vars
    BY <1>1 DEF vars, armVars, cacheVars, lifeVars,
         IInv, TypeOK, Placed, NoStaleCommand, ExportsWidthOnly
  <1>2. QED
    BY <1>1, ConfigureInv, ActivateInv, CycleInv, SurroundingsInv DEF Next

(* The strengthened invariant holds in every behaviour.                    *)
LEMMA Invariance == Spec => []IInv
  BY InitInv, NextInv, PTL DEF Spec

-----------------------------------------------------------------------------

(* Every variable keeps its type.                                          *)
THEOREM TypeCorrect == Spec => []TypeOK
  <1>1. IInv => TypeOK
    BY DEF IInv
  <1>2. QED
    BY <1>1, Invariance, PTL

(* An active component streams nothing that was not given since it was     *)
(* activated, whatever failed before.                                      *)
THEOREM CommandsTheorem == Spec => []NoStaleCommand
  <1>1. IInv => NoStaleCommand
    BY DEF IInv
  <1>2. QED
    BY <1>1, Invariance, PTL

(* An angle is never exported as a jaw opening.                            *)
THEOREM WidthTheorem == Spec => []ExportsWidthOnly
  <1>1. IInv => ExportsWidthOnly
    BY DEF IInv
  <1>2. QED
    BY <1>1, Invariance, PTL

(* The steps that can change the arm's target, other than driving to zero, *)
(* are those of write() in the active state.                               *)
LEMMA TargetSteps ==
  ASSUME IInv, [Next]_vars
  PROVE  /\ target' # target => state = "active" \/ (cb = "zero" /\ opt.goToZero)
         /\ active /\ BadCommand => target' = target /\ jaw' = jaw
  <1> USE DEF IInv, armVars
  <1>1. CASE Configure \/ ConfigureFails \/ ConfigureThrows \/ Cleanup
    BY <1>1 DEF Configure, ConfigureFails, ConfigureThrows, Cleanup
  <1>2. CASE Activate \/ ActivateFails \/ Deactivate
    BY <1>2 DEF Activate, ActivateFails, Deactivate
  <1>3. CASE ActivateStep
    <2>1. cb \in {"enable", "zero", "joints", "gripper", "refresh"}
      BY <1>3 DEF ActivateStep, Enabled, DriveToZero, ZeroDone, SendFails, TimesOut,
           SeedJoints, GripperReady, HomeGripper, RefreshGripper
    <2>2. ~active /\ (cb = "zero" => opt.goToZero)
      BY <2>1 DEF Placed
    <2>3. cb # "zero" => target' = target
      BY <1>3 DEF ActivateStep, Enabled, DriveToZero, ZeroDone, SendFails, TimesOut,
           SeedJoints, GripperReady, HomeGripper, RefreshGripper
    <2>4. QED
      BY <2>2, <2>3
  <1>4. CASE Cycle
    BY <1>4 DEF Cycle, ReadFails, ReadOk, WriteIdle, WriteRefused, WriteOk, WriteFails, Placed
  <1>5. CASE Control \/ ControlGripper \/ Feedback \/ SilenceChanges \/ Tick
    BY <1>5 DEF Control, ControlGripper, Feedback, SilenceChanges, Tick
  <1>6. CASE UNCHANGED vars
    BY <1>6 DEF vars
  <1>7. QED
    BY <1>1, <1>2, <1>3, <1>4, <1>5, <1>6 DEF Next

(* Nothing but an active component's write(), and activation's drive to    *)
(* zero if asked for, gives the arm a target.                              *)
THEOREM StreamsTheorem == Spec => StreamsOnlyWhenActive
  <1>1. IInv /\ [Next]_vars =>
          [target' # target => state = "active" \/ (cb = "zero" /\ opt.goToZero)]_vars
    BY TargetSteps
  <1>2. QED
    BY <1>1, Invariance, PTL DEF Spec, StreamsOnlyWhenActive

(* With one command of the set invalid, neither joints nor gripper hear    *)
(* anything.                                                               *)
THEOREM InvalidTheorem == Spec => InvalidSendsNothing
  <1>1. IInv /\ [Next]_vars =>
          [active /\ BadCommand => target' = target /\ jaw' = jaw]_vars
    BY TargetSteps
  <1>2. QED
    BY <1>1, Invariance, PTL DEF Spec, InvalidSendsNothing

=============================================================================
