# A TLA+ model of piper_cpp

`piper_cpp` drives an AgileX PiPER arm over SocketCAN; `piper_cpp_ros` makes it a
`ros2_control` hardware component. This directory models the parts of both in which
threads, callbacks, frames and time can meet in an order nobody tested, checks them with
TLC on small instances, and proves the most important results with TLAPS for all of them.

`PROJECT.json` says, definition by definition, which lines of the source each module
stands for, and lists the runs, the mutants that show each property can fail, the
hazards and the theorems.

    tlc -config FeedbackCache.cfg MCFeedbackCache    # a run
    tlapm FeedbackCacheProofs.tla                    # the proofs of a module

## The system

| part | source | state | operations |
|---|---|---|---|
| Feedback cache | `interface/timed_freq_state.h` | value, timestamp, per-part rate, arrival time and flag, one mutex | `set`, `reset`, `getValue`, `isValid`, `isHealthy`, `snapshot` |
| CAN socket | `std_can_interface.h` | `sock_`, the eventfd, the kernel's queue | `init`, `close`, `readCanMessage`, `interruptRead`, `judgeCanInfo`, `sendCanMessage` |
| Session | `interface/piper_interface_v2.cpp` | `connected_`, `stop_read_`, `read_thread_` | `connectPort`, `readLoop`, `disconnectPort`, `resetStates` |
| Frame dispatch | same, `parseCANFrame` | some twenty caches, firmware bytes | one case per message type, then the health summary |
| 0x151 setters | same | `ctrl_151_tx_` under `ctrl_151_tx_mutex_` | `sendMotionCtrl2`, six setters, `getCommandedMotionCtrlState` |
| Multipart targets | same | `multipart_tx_mutex_` | `controlJoints`, `controlEndPose` |
| Motor limits | same | two aggregates of six parts | `searchAllMotorLimits`, `waitForMotorLimits` |
| Firmware version | same | `firmware_data_` | `sendFirmwareQuery`, `getFirmwareVersion` |
| Other commands | same | none | one message each: enable, gripper, MIT, master/slave, configuration |
| Protocols V2, V3 | `protocol/*` | none | `decodeMessage`, `encodeMessage`, `packJointMit` |
| Runtime limits | `piper_params.h` | a range for each joint, two for the gripper, one mutex; one manager for the process | setters, `resetDefaults`, getters; the clamps of received values use them |
| Interface activation | `can_utils.cpp` | the kernel's CAN interfaces | `activate`, renames, bitrates |
| Hardware component | `piper_hardware_interface.cpp` | `piper_`, `active_`, state and command buffers | lifecycle callbacks, `read`, `write` |
| Command-line tools | `scripts/*.cpp` | `g_stop_requested`, an interface each | connect, enable, wait, stream targets, release, disconnect; SIGINT |
| FK, printing, launch files, MoveIt configuration | various | none | - |

How they interact. The **read thread** runs `readLoop`: it blocks in `poll`, takes one
frame, decodes it and stores it in the caches. **Caller threads** read caches (one mutex
each), send commands (a `write` on the same socket; 0x151 and multipart targets under a
mutex of their own) and open and close sessions. `disconnectPort` sets a flag, writes an
eventfd, joins the read thread, closes the socket and resets the caches. The **hardware
component** is called by the resource manager of `ros2_control`, one callback at a time,
and sees the arm only through caches. A **command-line tool** is a process with an
interface of its own and, in most, a signal handler that sets a flag its loops test.

What is hard, and tested little: a cache is copied, changed and stored in two locked calls,
and may be reset in between; health and rates are computed from times a reset leaves in
place; a socket may die under the read thread; an interrupt must neither be lost nor
outlive its session; a command of several frames may be cut short or interleaved; a
message that always carries six fields is changed one field at a time by several threads;
answers do not say which query they answer; activation waits for feedback that may never
come; command buffers outlive the activation that filled them; a limit may be set while a
value is being clamped by it; a descriptor may be closed between its test and a write; a
Ctrl-C may fall anywhere in a tool, whose gripper must not be left driven.

What makes each part correct:

- *Cache*: a store changes one part; a healthy snapshot is whole and recent; no rate spans a reset.
- *Limits at run time*: a value is clamped by one range, whole, that was in force.
- *Session*: nothing of a session survives it; the socket has one user at a time for
  opening and closing; a disconnect returns; a dead socket is closed; a command goes
  astray only if a `close()` is running, in whole or part, while it is being sent.
- *0x151*: a setter is atomic as the arm sees it; the shadow is what the arm heard; a
  refused value bothers only who asked for it.
- *Multipart*: frames of two targets do not interleave; a torn target means a failed call.
- *Motor limits*: success means a complete and uncorrupted set; failure has a reason; a wait ends.
- *Protocol*: what is decoded is what was encoded; no byte that was not received counts; a
  MIT value arrives as itself or as the end of its range; a setting changes itself only.
- *Firmware*: with nothing older, lost or foreign in between, a reported tag is whole and
  of the answer to the query, and a query drops nothing of its own answer.
- *Activation*: each adapter gets its own place, whatever fails on the way and whatever an
  earlier call has left.
- *Tools*: they end when asked to, without a torn target or a driven gripper, and without
  free motors but where a tool without a handler is killed (`piper_set_zero`).
- *Hardware*: no command older than the activation is streamed; nothing is streamed
  outside it; all or none of a command set; stale or unusable feedback is an error.

## Modules

In the order they were built, the most important behaviour first.

1. `TimedFreqState`, `RuntimeLimits` + `FeedbackCache`, with the abstract `LatestParts`,
   `MCFeedbackCache` and `FeedbackCacheProofs`.
2. `CanSession`, `CanSessionProofs`.
3. `MotionCodec` + `MotionShadow`, the abstract `AtomicCommand`, `MCMotionShadow`.
4. `MultipartCommand`.
5. `MotorLimits`, `MotorLimitsProofs`.
6. `PiperHardware`, `MCPiperHardware`, `PiperHardwareProofs`.
7. `FrameCodec` (over `MotionCodec`) + `FrameExchange`, `MCFrameExchange`,
   `FrameExchangeProofs`.
8. `FirmwareQuery`, `MCFirmwareQuery`, `FirmwareQueryProofs`.
9. `CanActivate`, `CanActivateProofs`.
10. `CommandTools`.
11. `CommandProofs`: the theorems about the three modules whose commands take several steps,
    `MotionShadow`, `MultipartCommand` and `CommandTools`. What several of them
    would call by one name has a prefix in the second and third (`MultipartInit`, `ToolInit`).
12. The violation runs described below.

### FeedbackCache

`TimedFreqState` is the class: a record `cell` and one operator for each method, each a
single step because the mutex is held for all of it. `FeedbackCache` is one cell in
service: `Arrive` (the kernel queues a frame), `CopyValue` (the frame is received and
`getValue` called), `ClampValue` (the limit of the frame's value is read, by one locked
call, and the value clamped), `StoreValue` (`set` with the copy in which the frame's part
was replaced), `DropStray` (an answer that names no motor), `Reset` by another thread at
any moment, `Tick`. In the code the two
motor-limit aggregates are reset with the read thread running and the others with it
stopped; a reset at any moment covers both. `lastSet` and `prevSet` are history. Health is
the age of the *store*: what time a frame spent in the kernel's queue before it is not in it.

`RuntimeLimits` is `PiperParamManager`: the ranges, the setters that refuse a range the
wrong way round (`Settable`) and the clamp. It belongs to the process, so any thread may set
a limit (`ChangeLimit`) or all of them back (`ResetDefaults`) while a frame is parsed.
`inForce` is history: the ranges the frame's limit had since it was taken from the queue.
Only what is *received* is clamped, feedback and the commands of other controllers alike;
what this library sends is checked by no limit of this class.

`LatestParts` says what a reader may rely on: a part is absent or exactly what its latest
frame carried. The refinement mapping hides the value of parts that are not initialized:
after a reset between copy and store, `value_` again holds parts from before it, and only
`initialized_` keeps them from being seen.

### CanSession

One thread that connects and disconnects, the read thread, and a third that sends, at the
granularity of the calls that matter:
`Connect .. StartReader` is `connectPort` with `init`'s failures and `judgeCanInfo`'s
exception, `Disconnect .. MarkDisconnected` is `disconnectPort`, `Check .. ParseHealth` is
`readLoop`. Frames and caches hold the number of the session they come from. The bus may
deliver a frame or the interface go down at any moment while the socket is open. `sock`,
`fds` and `err` are the descriptor, the descriptors open in the process, and a pending
error. `InitAlreadyOpen` covers an interface whose constructor opened the socket or that
was given one.

`StdCanInterface::close()`, which the read thread calls on a dead socket and
`disconnectPort` on a live one, is two steps, as in the code: `CloseDescriptor` is
`::close(sock_)` and `ClearSocket` is `sock_ = -1`. Between them (`Closing`) `sock_` is set
and its descriptor gone.

`SendMessage`, `TestSocket`, `WriteFrame` are a command of the third thread: `connected_`
is tested, then `sock_`, then the descriptor is written to, with no lock. `number` is what
the descriptor number that `sock_` held last names by then: the socket, nothing, or a file
of the process that was given the number (`NumberReused`), at any time after
`CloseDescriptor`. A write can go astray, and `StraysOnlyAcrossClose` says when: only if a
close, by either thread, was running at some time between test and write of the same call,
be it that the test came between its two steps (`crossed` is that history). So a call that
begins after a close has returned is safe, also with the number given away, and so is every
call of a session that nobody closes. The class promises no more: a command that meets the
closing of a dead socket by the read thread, or `disconnectPort` in another thread, has
that window.

### MotionShadow

`Acquire`, `Send` or `SendFails`, and `Commit` are `sendMotionCtrl2`, a setter and
`sendMotionCtrl2Locked`; `wire` is the last 0x151 payload that went out. `MotionCodec` has
the encoders' refusals and V3's renumbering of `MoveM`. The setters refine
`AtomicCommand`, where a call changes the fields it names in one instant. Before
the first message the arm is taken to be in the default state; in reality its state is
unknown to the code.

### MultipartCommand

Both multipart commands, several callers, a port that is opened and closed by others. Each
frame is a step. `outcome` is history: the target of the last call that sent anything, or
"torn" when it stopped half-way.

### MotorLimits

Limits are represented by the *ask* they answer: 0 for the queries of `piperInit`, `c` for
those of the `c`-th wait. The read thread's copy and store, both resets, every
single query, the two conditions of the loop, the deadline and the retry are steps of
their own. An answer may come late, out of order, repeatedly or never. `heard` is history:
what was stored of each limit since it was last cleared.

### PiperHardware

The component with all its lifecycle callbacks, `read` and `write`. `state` is the
lifecycle as the resource manager keeps it (external): it runs one callback at a time,
calls `on_error` after an error, and alternates `read` and `write` while the component is
configured. `cb` is the loop of `on_activate` that is running: feedback, silence and time
go on meanwhile. Feedback has an age, saturating just above the timeout, which is
all `isHealthy` depends on. A joint target is one value; what its three frames add is the
value "torn" after a failed send (`PartlySent`), justified by `MultipartCommand`. `source`
and `exported` are history.

### FrameCodec and FrameExchange

`FrameCodec` has no state: it is the protocol. `CanIdToMsgType` is the table of the two
switches of `types/core.cpp`. A *layout* lists where the members of a message sit in the
payload, their size and sign; `Write` and `Read` are what the `..._to_bytes` and
`bytesTo...` helpers do with one. Three messages need more than a layout: 0x151
(`MotionCodec`), the gripper, whose mode V3 hides in the status byte or adds in an eighth,
and the MIT command, packed to the bit. The tables are written as functions on the identifiers of
each kind, joined (`Joined`); the range of a MIT member carries its largest code. MIT
quantities are in tenths of their units, and
the packing is exact where the code computes in doubles: at a value that lies on a code
boundary, the code's truncation may differ by one code from the model's.

`FrameExchange` sends: a call of the interface becomes a message and a frame, or is refused
(`Send`); the frame, its answer by the arm, or a frame of the arm's own making is decoded
by a receiver that is this library (`Receive`). What the arm does with a settings frame
(`Effects`) is external and follows the comments in `types/control.h`. The values a call may ask for are constants, any set of
values that the C++ parameter can hold (`ValuesAssumption`); a call is made of any of them.

### FirmwareQuery

`Request`, `Clear`, `Send` are `sendFirmwareQuery` in any number of threads, in the order
`Order`; `Read` is the read thread's append with its limit; `getFirmwareVersion` is an
operator on the buffer. Answers come in frames of any cut; frames are lost, come late, or
are another controller's query. The limit of the buffer is a constant, of which it is
assumed that the longest answer fits (`RoomAssumption`), as it does by far in the code.

Nothing ties an answer to a query, so the tag can be promised only where nothing else can
be taken for it. `clean` says where: no frame of an older answer was under way when the
buffer was emptied, none was lost and no foreign one was heard since. With a late answer of
an older version, or a frame of another controller in the middle of the tag, the code
reports the wrong tag or none, and `TagIsTheAnswer` does not speak of it. What it does
promise under `clean` takes many steps: the tag is the one of the version that answered first (`asked`),
never cut short, whoever queries after it, and is found once the answer has been read. The
last part is why emptying comes before sending: `asking` is the caller whose query has gone
out, and if that call emptied the buffer after it, the beginning of its own answer could be
dropped. Another caller's query does begin anew.

### CanActivate

One call of `activate` after the other, each call to the kernel a step that may fail.
An adapter is its place in the bus order; interfaces are addressed by *name*, as in the
code, so that a stale name acts on whoever has it now. A name is a prefix and a number.
Adapters may be plugged in and unplugged at any time, also between two steps of a call (in a
bounded model until the last call begins, which is left to itself to show what it puts right). The
`ports` of a call are any adapters that are there, listed just before, or the ports of the
call before it, whose names or adapters may be gone since; a call that threw may be repeated
with either. `Return` drops what a call keeps to itself.

Two histories say what the code cannot promise. `refused`: the kernel refused a rename at
whim, or since an adapter outside the list holds the final name; the code warns and goes on
with the name there is. `lost`: a name the call goes by may not be its adapter's, since an
adapter of the list was unplugged (another one may be plugged in under its name) or the
ports were out of date to begin with. From then on the call may stop, rename or configure
an adapter it was not meant for, and `ActsOnOwnAdapter`, `EveryAdapterInItsPlace` and the
last part of `TypeOK` say nothing of it. They do say that the next call with names that are
right puts everything in its place.

### CommandTools

Each tool is a sequence of operations (`PiperGoZero`, `PiperJointSineDemo`, ...), and one
action does one operation or one round of its loop. `args` are the options that change the
control flow, `stop` is `g_stop_requested`, `port` the socket as the process has it. `sub`
is the place in a streaming or reading loop, so that Ctrl-C, the end of the duration or the
death of the socket falls between any two frames. Frames may go out or not and most tools do
not look; what the arm reports is up to the bus. A target is its three frames (`sent`), the
gripper and the motors are what they were told last. `late` counts targets begun after
Ctrl-C. Tools without a handler (`Handled`) die of it at once, wherever they are: so
`LeavesMotorsOn` has to except `piper_set_zero` killed at its prompt, or between it and the
frame that enables the joint, although its header (`piper_set_zero.cpp:13`) says that "the
script re-enables before exiting".

## Runs

Every property has a mutant: a plausible bug in a mapped definition under which the run
finds the property violated.

| run | instance | shows |
|---|---|---|
| `feedback_cache` | 2 parts, 2 values, one clamped by a limit that is set, refused and reset; timeout 1 of 4 ticks, queue of 1 | `HealthyIsRecent`, `RateWithinSession`, `ClampedByARangeInForce`, `StoresOnePart` (refinement of `LatestParts`) |
| `can_session` | 2 caches and the health summary, queue of 2, 3 sessions, all argument combinations, a sender | `OnlyThisSession`, `NoSocketRace`, `ThreadSlotIsFree`, `NoDescriptorLeak`, `InterruptMeansStop`, `StraysOnlyAcrossClose`; liveness `DisconnectReturns`, `DeadSocketIsClosed` |
| `motion_shadow` | 2 threads, 5 requests (a field only V3 accepts, V3's renumbered mode, a clamped speed, a whole message), both protocols | `ShadowIsWhatTheArmHeard`, `RefusedForOwnRequestOnly`, `SettersAreAtomic` (refinement of `AtomicCommand`) |
| `multipart_command` | 2 threads, 2 kinds, 2 targets | `TargetIsWhole` |
| `motor_limits` | 2 motors, one wait of 2 ticks after `piperInit`, a retry after 1 | `SuccessIsComplete`, `FailureHasReason`; liveness `WaitReturns` |
| `hardware` | 2 positions, 2 gripper readings, 3 configurations | `NoStaleCommand`, `ExportsWidthOnly`, `StreamsOnlyWhenActive`, `InvalidSendsNothing`; liveness `StaleFeedbackStops`, `ActivationEnds` |
| `frame_exchange` | every command, each pair of members at the ends and carries of its range; every identifier at every length with 9 payloads; both protocols | `ReadsBack`, `OnlyReceivedBytes`, `MitReachesTheArm`, `EffectIsNamed` |
| `can_activate` | 3 adapters, present or not, under any of 3 names, up or down; 2 prefixes, 2 calls, 2 adapters plugged in or unplugged | `EveryAdapterInItsPlace`, `ActsOnOwnAdapter` |
| `firmware_query` | 2 threads, 2 versions, a limit of 14 bytes instead of 256, 4 frames under way; callers and versions are symmetric | the limit of the buffer (`TypeOK`), `TagIsTheAnswer` |
| `command_tools` | all fourteen tools with all options | `GripperIsReleased`, `LatestTargetIsWhole`, `OneMoreTarget`, `LeavesMotorsOn`; liveness `EndsWhenAsked` |

Why the bounds are enough. Two parts show a store disturbing another part, two values
an old one coming back, and four ticks a timeout before, across and after a
reset. Two ranges and one that is refused show a value clamped by an old, a new and a mixed
range, for one limit has no part in another. Three sessions show what the first leaves to a second that fails to start and to a
third. Two threads contend for every lock, which has no other state than its holder. Two
motors put two parts in each aggregate, so that a store can lose or revive another
motor's limits, and a wait of two ticks has room for a retry before its deadline. Feedback ages saturate, so the hardware run is
not bounded in time at all. A layout treats its members alike, so pairs of members show two
that overlap. Three adapters include every way to swap and rotate names, with one outside
the list; with two calls and two adapters that come or go before the second begins, an adapter
is exchanged for another one under its name within the first call, or between it and a second
that goes by the same ports, and what the first leaves is put right by the second. A firmware
answer is two to four frames, and a limit of 14 bytes is the length of the longest: frames of
other controllers cross it by two. `CommandTools` has no bounds but the cap of `late` at 2:
its run is all of it.

Two runs find something the documentation says and the code does not do:

- `is_connected`: `isConnected()` does not mean that the port is open and the read
  thread running (`piper_interface_v2.h:268`): not after the socket died, which is what
  the run shows. It does not after `judgeCanInfo` threw either (`JudgeThrows`); the run
  leaves that out, with `can_init` false, so that it finds the first.
- `gripper_zero`: the reading used to seed the gripper command after zeroing may be from
  before it (`piper_hardware_interface.cpp:337-338`).

More such differences are visible in how properties that hold had to be stated, without a
run of their own:

- `HealthyIsRecent` is about stores, so a frame that waited long in the kernel is old and
  healthy, where `piper_interface_v2.h:112-113` says "arrived within the last second".
- `TargetIsWhole` of `MultipartCommand` excepts a call that failed half-way, after which the
  arm has parts of two targets, not "its last target" (`piper_cpp_ros/README.md:244-247`).
- `SuccessIsComplete` lets a wait succeed on answers to earlier queries, as `piperInit`'s,
  where `piper_interface_v2.cpp:907` says "replies to these queries": an answer does not
  say which one it is for.
- `EndsWhenAsked` excepts `piper_gripper_sweep` before the motors are enabled: its loop
  (l. 73) does not test the flag its comment (l. 11) calls SIGINT-safe. It excepts the raw
  readers too, whose "Ctrl+C exits cleanly" (`std_can_interface_read_test.cpp:20`,
  `piper_parser_v2_read_test.cpp:20`) waits for the next frame, as `readCanMessage` repeats
  a `poll` that a signal interrupts (`std_can_interface.h:143-147`).
- `LeavesMotorsOn` excepts `piper_set_zero` when it is killed, as said above.
- `TagIsTheAnswer` excepts answers that come late, where `piper_interface_v2.cpp:939-940` says that a
  re-query "cannot keep reporting the old tag": an answer of before an update that is still under way is
  stored after the buffer was emptied, and reported.
- `piper_enable --disable` takes motors it has heard nothing of for disabled.

`CHECK_DEADLOCK FALSE` is in the configurations whose clock or number of calls is bounded
(`FeedbackCache`, `MotorLimits`, `CanActivate`): they stop when it runs out. In all others
no state is without a next; a tool that has ended stays ended.

Every type invariant is proved. A run checks it too where it says more than a type
(`FrameExchange`: eight bytes under a standard identifier; `CanActivate`: names; `FirmwareQuery`:
the limit of the buffer).

## Fairness

- `CanSession`: a call once begun runs on and the read thread is scheduled (weak fairness of
  each thread). `recvmsg` does not return `EAGAIN` or `EINTR` every single time for ever:
  strong fairness of `RecvError`, used by `DeadSocketIsClosed`. Nobody has to call
  anything and the bus owes nothing, so a disconnect returns on a silent bus too.
- `MotorLimits`: the waiting thread is scheduled and time passes. Neither the arm nor the
  read thread has to do anything.
- `CommandTools`: the process is scheduled and time passes (weak fairness of `ToolStep` and
  `Elapse`). The user need not confirm anything, and no frame need arrive: `Confirm`,
  `FrameRead` and `Feedback` have no fairness.
- `PiperHardware`: the thread in `on_activate` is scheduled, the control loop runs, time
  passes. The arm need not send feedback.

## Proofs

Each `...Proofs` module has an inductive invariant `IInv` (in `CommandProofs` also
`MultipartInv` and `ToolInv`), the lemmas `InitInv`, `NextInv` (one step per action) and
`Invariance` (`Spec => []IInv`), and theorems that follow from it. They hold for every value of the constants that satisfies the
module's named assumption: any number of parts, callers, caches, sessions, targets.

- **FeedbackCacheProofs.** The cell agrees with the history of stores: a part is
  initialized exactly if it was stored since the last reset, and then `last_received_` is
  the time of that store (`Recorded`). This is why a `last_received_` left over by
  `reset` cannot make a snapshot healthy or enter a rate. For the refinement, the
  read thread's copy agrees with the cell on every part that is initialized
  (`CopyIsCurrent`): a reset can only take parts away, and nobody else stores. For the
  clamping, the bounds of every limit are values and the range the frame's limit has is
  always one of those in force since the frame was taken (`CurrentIsInForce`).
- **CanSessionProofs.** `Placed` says where the two threads may be together: in particular
  that no read thread exists at the points that open, bind, close or reset. `SocketPlaced`
  says what the descriptor and the eventfd are at each point, `FramesAreCurrent` that
  queued and parsed frames are of this session. `number` is the socket exactly while `sock_`
  is set and no thread is between the two steps of `close()` (in `SocketPlaced`). So for a
  sender about to write (`SendersPlaced`): unless a close was running since its test, the
  number is still that of the socket, and the session the one it saw. The six safety
  properties follow.
  Two more results are stated here, of the marks that one thread leaves for another. The
  interrupt of a disconnect is not lost: while `join()` waits, the read thread is not in `poll()`
  or the eventfd is still readable (`InterruptIsNotLost`, the safety half of
  `DisconnectReturns`). And between two calls a port marked connected is open, and a read
  thread it has has not returned, unless that thread closed the socket itself
  (`MarkedUntilDead`): this is what is left of the promise the run `is_connected` refutes.
  `Attended` says what they need of `stop_` and the socket at each point of a call.
- **CommandProofs**, of `MotionShadow`. While the lock is held, its holder's copy is the
  shadow with the request laid over it, and between send and commit the wire holds that copy.
  `RoundTrip`: in both protocols what is encodable decodes to itself. `Refinement` maps `Send`
  to the atomic change and `Commit`, `SendFails` to the return.
  Of `MultipartCommand`: one caller at most is sending, its sent parts are its own, and as
  long as nothing has been sent the arm holds what `outcome` says.
  Of `CommandTools`: what has to be put right before a tool may end is known from the
  operation it is in. While the gripper is driven the tool is in the stream or in the release
  that follows it (`DrivenUntilReleased`); while zeroing has a joint switched off, the
  operation that switches it on is to come (`OffOnTheWay`); a target that was begun after
  Ctrl-C is the last of its loop (`NoneBegunLate`). `ProgramsAreOrderly` is all that is used
  of the fourteen programs: each ends with its one "disconnect", each stream that drives the
  gripper is followed by the release and that by the end, and what Ctrl-C may cut is in tools
  that handle it. `OffOnTheWay` also says where `piper_set_zero` may be killed with the joint free. The run is already exhaustive here; the proof says why it passes.
- **MotorLimitsProofs.** A part of an aggregate is marked exactly if an answer was stored
  since the clearing, and holds that answer (`Recorded`). The read thread's copy of the
  aggregate agrees with what was heard on every part still marked (`CopyIsCurrent`), which
  is why storing a copy from before the clearing revives nothing. `ResultIsOfTheLoop` ties
  the result to the two tests, made at different moments: what the first found complete
  stays so, for only the wait itself clears.
- **PiperHardwareProofs.** `Placed` ties `active_`, the lifecycle state, the place in
  `on_activate` and `piper_` together: `active_` is the active state after any error in any
  step, and the gripper's part of `on_activate` is reached only with the joints seeded. The control loop
  tests `active_` alone, so this is what keeps an old command from being streamed.
  `TargetSteps` lists, from `Placed`, the steps that may change the arm's target.
- **FirmwareQueryProofs.** Everything under way is a frame of one to eight bytes, however an
  answer was cut, so the buffer stays within `MaxBytes + 7` although its size is tested
  before the append (`BufferBound`). For `AnswerIsTheVersion`: as long as nothing foreign,
  lost or older has interfered (`clean`), what is stored is the beginning of the answer's bytes
  and what is under way begins with the rest of its frames, in order (`AnswerInv`); no marker
  comes before the tag's, so the tag that is found is whole and of the version that answered,
  and with nothing under way it is all there. The call whose query was sent has emptied the
  buffer before (`ClearsFirst`), so it does not do so again while its answer is coming in.
- **CanActivateProofs.** For any number of adapters, prefixes, calls and adapters that come
  and go. The invariant has two parts. `Sound` holds throughout: names tell adapters apart
  and whatever is up has a bitrate (`KernelInv`), and the call's list and counters are in step
  (`ListInv`). `Sure` holds until a name the call goes by is no longer its adapter's
  (`lost`), and again from the next call on. From parking to its final name, an adapter in the
  list is down, has the name the call remembers for it, and that name is its own final one or
  nobody's (`HereInv`, `ParkInv`, `PlaceInv`). So the second loop finds each final name free, unless the
  kernel refused a rename or an adapter outside the list has it, and what it has put in place
  stays there (`DoneInv`). A free name to park under, and one for an adapter that is plugged
  in, exist by counting: there are fewer adapters than numbers to try.
- **FrameExchangeProofs**, over any values of each member's width, where the run tries the ends
  of the ranges and the carries.
  - The codec. A member's highest byte, taken modulo 256, is the rest of the number up to its
    sign (`HighByte`), and each lower byte is the remainder of the next longer quotient
    (`LowByte`), so putting them together gives the number back (`FieldRoundTrip`); with
    members that do not overlap, each byte is one member's (`WrittenByte`, `LayoutRoundTrip`).
    `LayoutsWellFormed` shows that every layout in use is of that kind.
  - The three messages that are more than a layout: 0x151, by the round trip of `MotionCodec`;
    the gripper, where V3's packed status byte comes apart again (`GripperRoundTrip`); and the
    MIT command, whose quantities are clamped, become a code below 2^16, 2^12 or 2^8, and come
    out of the shared bytes as the codes that went in.
  - The exchange. Every call asks for values that fit its layout, so its payload is of eight
    bytes and its message reads back; its identifier is found again in the table. The
    invariant says where every frame comes from (`FrameOfCall`) and of every message heard
    which frame it is (`HeardFrame`). From it follow `TypeOK`, `ReadsBack`,
    `MitReachesTheArm` and `EffectIsNamed`; `OnlyReceivedBytes` because what a message takes
    ends within the length the decoder demands, so bytes behind it change nothing.

Assumed are the modules' named assumptions, which say what the constants are (disjoint
sentinels, natural bounds, ranges that are ranges). TLC evaluates each of them in a run.

Model-checked only: the liveness properties (`DisconnectReturns`, `DeadSocketIsClosed`,
`WaitReturns`, `StaleFeedbackStops`, `ActivationEnds`, `EndsWhenAsked`), for liveness under
fairness is out of the prover's reach, and the two violations. Every invariant and action
property that a run checks is also a theorem.

## Not modelled

- Forward kinematics and unit conversions: floating point. A conversion appears as what it
  does to validity and range only.
- NaN as a runtime limit: `setJointLimitRad` and `setGripperRangeM` let one pass
  (`piper_params.h:79`), and what is computed with it is not defined by the code.
- How `can_utils` runs `ip` and `ethtool` and cuts up their output; an adapter's serial number.
- Two threads in `connectPort` or `disconnectPort` at once: the class does not support it.
- The arm: it is whatever the bus says. Where a property speaks of it, the model keeps the
  last frames it heard.
- The tools' parsing of arguments and their output; a period of 0, by which the joint
  and pose demos and the sweep would divide.
- The printing of messages (`core.cpp`, the headers of `types/`), launch files, URDF and the
  MoveIt configuration: text, and the configuration of other programs.
- The tests and the SDK reference frames, which were read as statements of intent.
