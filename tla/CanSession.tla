----------------------------- MODULE CanSession -----------------------------
(***************************************************************************)
(* A session of PiperInterfaceV2 on its CAN socket: the thread that calls  *)
(* connectPort and disconnectPort, the read thread it starts and joins, a  *)
(* third thread that sends commands, and the StdCanInterface all of them   *)
(* use: a socket descriptor, the kernel's queue of received frames behind  *)
(* it, and the eventfd that interrupts a blocked read.  The sessions       *)
(* follow one another on one interface object.                             *)
(*                                                                         *)
(* Frames and cached data are represented by the number of the session     *)
(* whose socket received them, 0 for none: what they say is not at issue,  *)
(* only whether they outlive their session.                                *)
(***************************************************************************)
EXTENDS Integers, Sequences

CONSTANTS
  State,          \* the feedback caches, other than the health summary
  Health,         \* arm_health_, written after every decoded frame
  Ignored,        \* a short or undecodable frame
  JudgeOptions,   \* values callers pass as can_init
  StartOptions,   \* values callers pass as start_threads
  RxCapacity,     \* frames the kernel holds for the socket
  MaxSessions     \* bound on the number of sockets opened

ASSUME SessionAssumption ==
  /\ Health \notin State
  /\ Ignored \notin State
  /\ JudgeOptions \subseteq BOOLEAN
  /\ StartOptions \subseteq BOOLEAN
  /\ RxCapacity \in Nat
  /\ MaxSessions \in Nat \ {0}

VARIABLES
  connected,   \* connected_
  stop,        \* stop_read_
  sock,        \* sock_ holds a descriptor
  number,      \* what the descriptor number sock_ held last names now:
               \*   the "socket", nothing ("closed") or "other", a file
  fds,         \* CAN socket descriptors the process has open
  err,         \* an error is pending on the socket (interface down)
  wake,        \* the eventfd is readable
  rx,          \* frames queued on the socket
  session,     \* number of the latest socket opened
  joinable,    \* read_thread_ is joinable
  rpc,         \* read thread: where it is, "none" before it is started
  frame,       \* the frame it is parsing
  cache,       \* the session each cached state is from
  upc,         \* calling thread: "idle", or where in its call it is
  opts,        \* the arguments of its call of connectPort
  spc,         \* sending thread: "idle", "test" or "write"
  seen,        \* the session whose socket its latest call tested
  crossed,     \* close() ran at some time between that test and the write
  astray       \* its latest frame was written to something else

sockVars   == <<sock, number, fds, err, rx, session>>
readerVars == <<joinable, rpc, frame, cache>>
userVars   == <<upc, opts>>
senderVars == <<spc, seen, crossed, astray>>
vars == <<connected, stop, wake, sockVars, readerVars, userVars, senderVars>>

Caches  == State \cup {Health}
Frame   == [from : 1..MaxSessions, of : State \cup {Ignored}]
NoFrame == [from |-> 0, of |-> Ignored]
NoCall  == [judge |-> FALSE, start |-> FALSE]

Reading == rpc \in {"check", "poll", "recv", "clear", "parse", "health"}

(* One of the threads has closed the descriptor and not yet cleared sock_. *)
Closing == upc = "clear" \/ rpc = "clear"

(* The constructor has opened the socket (auto_init) or has not.           *)
Init ==
  /\ connected = FALSE
  /\ stop = FALSE
  /\ wake = FALSE
  /\ sock \in BOOLEAN
  /\ number = IF sock THEN "socket" ELSE "closed"
  /\ fds = IF sock THEN 1 ELSE 0
  /\ session = IF sock THEN 1 ELSE 0
  /\ err = FALSE
  /\ rx = <<>>
  /\ joinable = FALSE
  /\ rpc = "none"
  /\ frame = NoFrame
  /\ cache = [k \in Caches |-> 0]
  /\ upc = "idle"
  /\ opts = NoCall
  /\ spc = "idle"
  /\ seen = 0
  /\ crossed = FALSE
  /\ astray = FALSE

-----------------------------------------------------------------------------
(* connectPort.  On a connected interface it returns at once.              *)

Connect(judge, start) ==
  /\ upc = "idle"
  /\ ~connected
  /\ upc' = "init"
  /\ opts' = [judge |-> judge, start |-> start]
  /\ UNCHANGED <<connected, stop, wake, sockVars, readerVars, senderVars>>

(* A call that ends, by returning or by an exception.                      *)
Return ==
  /\ upc' = "idle"
  /\ opts' = NoCall

(* init() with the socket already open, as the constructor left it.        *)
InitAlreadyOpen ==
  /\ upc = "init"
  /\ sock
  /\ upc' = "mark"
  /\ UNCHANGED <<connected, stop, wake, sockVars, readerVars, opts, senderVars>>

InitNoSocket ==
  /\ upc = "init"
  /\ ~sock
  /\ Return
  /\ UNCHANGED <<connected, stop, wake, sockVars, readerVars, senderVars>>

InitSocket ==
  /\ upc = "init"
  /\ ~sock
  /\ fds' = fds + 1
  /\ upc' = "bind"
  /\ UNCHANGED <<connected, stop, wake, sock, number, err, rx, session, readerVars, opts,
                 senderVars>>

InitBindFailsLeaks ==
  /\ upc = "bind"
  /\ Return
  /\ UNCHANGED <<connected, stop, wake, sockVars, readerVars, senderVars>>

(* No such interface, or bind() fails: the new descriptor is closed.       *)
InitBindFails ==
  /\ upc = "bind"
  /\ fds' = fds - 1
  /\ Return
  /\ UNCHANGED <<connected, stop, wake, sock, number, err, rx, session, readerVars,
                 senderVars>>

InitBindKeepsWake ==
  /\ upc = "bind"
  /\ session < MaxSessions
  /\ sock' = TRUE
  /\ number' = "socket"
  /\ session' = session + 1
  /\ err' = FALSE
  /\ rx' = <<>>
  /\ upc' = "mark"
  /\ UNCHANGED <<connected, stop, wake, fds, readerVars, opts, senderVars>>

(* Bound: an interrupt left over from an earlier session is drained before *)
(* the descriptor becomes the socket.                                      *)
InitBind ==
  /\ upc = "bind"
  /\ session < MaxSessions
  /\ wake' = FALSE
  /\ sock' = TRUE
  /\ number' = "socket"
  /\ session' = session + 1
  /\ err' = FALSE
  /\ rx' = <<>>
  /\ upc' = "mark"
  /\ UNCHANGED <<connected, stop, fds, readerVars, opts, senderVars>>

MarkConnected ==
  /\ upc = "mark"
  /\ connected' = TRUE
  /\ upc' = "judge"
  /\ UNCHANGED <<stop, wake, sockVars, readerVars, opts, senderVars>>

(* judgeCanInfo() throws out of connectPort: interface gone, down or at    *)
(* another bitrate.  connected_ stays set and no read thread is started.   *)
JudgeThrows ==
  /\ upc = "judge"
  /\ opts.judge
  /\ Return
  /\ UNCHANGED <<connected, stop, wake, sockVars, readerVars, senderVars>>

(* The check passed or was not asked for; piperInit()'s queries are sent   *)
(* (their results are ignored), then the read thread is started if asked.  *)
QueryArm ==
  /\ upc = "judge"
  /\ IF opts.start THEN upc' = "spawn" /\ UNCHANGED opts ELSE Return
  /\ UNCHANGED <<connected, stop, wake, sockVars, readerVars, senderVars>>

StartReader ==
  /\ upc = "spawn"
  /\ stop' = FALSE
  /\ joinable' = TRUE
  /\ rpc' = "check"
  /\ Return
  /\ UNCHANGED <<connected, wake, sockVars, frame, cache, senderVars>>

-----------------------------------------------------------------------------
(* disconnectPort.  On an interface that is not connected it returns.      *)

Disconnect ==
  /\ upc = "idle"
  /\ connected
  /\ upc' = "stop"
  /\ UNCHANGED <<connected, stop, wake, sockVars, readerVars, opts, senderVars>>

StopReader ==
  /\ upc = "stop"
  /\ stop' = TRUE
  /\ upc' = "wake"
  /\ UNCHANGED <<connected, wake, sockVars, readerVars, opts, senderVars>>

InterruptReadNever ==
  /\ upc = "wake"
  /\ upc' = "join"
  /\ UNCHANGED <<connected, stop, wake, sockVars, readerVars, opts, senderVars>>

InterruptRead ==
  /\ upc = "wake"
  /\ wake' = TRUE
  /\ upc' = "join"
  /\ UNCHANGED <<connected, stop, sockVars, readerVars, opts, senderVars>>

JoinOnlyLiveReader ==
  /\ upc = "join"
  /\ ~Reading
  /\ upc' = "close"
  /\ UNCHANGED <<connected, stop, wake, sockVars, readerVars, opts, senderVars>>

JoinNever ==
  /\ upc = "join"
  /\ joinable' = FALSE
  /\ upc' = "close"
  /\ UNCHANGED <<connected, stop, wake, sockVars, rpc, frame, cache, opts, senderVars>>

(* join() blocks until the read thread has returned; without one to join   *)
(* it is skipped.                                                          *)
Join ==
  /\ upc = "join"
  /\ joinable => rpc = "exited"
  /\ joinable' = FALSE
  /\ rpc' = "none"
  /\ upc' = "close"
  /\ UNCHANGED <<connected, stop, wake, sockVars, frame, cache, opts, senderVars>>

(* StdCanInterface::close(), which both threads call, is two steps with    *)
(* nothing between them to keep others out.  The first is ::close(): the   *)
(* descriptor and the frames queued on it are gone, its number is free,    *)
(* and sock_ still holds it.  A store is a step here when others see it.   *)
CloseDescriptor ==
  /\ fds' = fds - 1
  /\ number' = "closed"
  /\ err' = FALSE
  /\ rx' = <<>>
  /\ crossed' = (crossed \/ spc = "write")
  /\ UNCHANGED <<sock, session, spc, seen, astray>>

ClearSocketNever == UNCHANGED <<sockVars, senderVars>>

(* The second: sock_ = -1.                                                 *)
ClearSocket ==
  /\ sock' = FALSE
  /\ UNCHANGED <<number, fds, err, rx, session, senderVars>>

(* close() finds the socket closed already, by the read thread.            *)
ClosePortAlready ==
  /\ upc = "close"
  /\ ~sock
  /\ upc' = "reset"
  /\ UNCHANGED <<connected, stop, wake, sockVars, readerVars, opts, senderVars>>

ClosePort ==
  /\ upc = "close"
  /\ sock
  /\ CloseDescriptor
  /\ upc' = "clear"
  /\ UNCHANGED <<connected, stop, wake, readerVars, opts>>

ClearPort ==
  /\ upc = "clear"
  /\ ClearSocket
  /\ upc' = "reset"
  /\ UNCHANGED <<connected, stop, wake, readerVars, opts>>

ResetStatesButHealth ==
  /\ upc = "reset"
  /\ cache' = [k \in Caches |-> IF k = Health THEN cache[k] ELSE 0]
  /\ upc' = "unmark"
  /\ UNCHANGED <<connected, stop, wake, sockVars, joinable, rpc, frame, opts,
                 senderVars>>

ResetStates ==
  /\ upc = "reset"
  /\ cache' = [k \in Caches |-> 0]
  /\ upc' = "unmark"
  /\ UNCHANGED <<connected, stop, wake, sockVars, joinable, rpc, frame, opts,
                 senderVars>>

MarkDisconnected ==
  /\ upc = "unmark"
  /\ connected' = FALSE
  /\ Return
  /\ UNCHANGED <<stop, wake, sockVars, readerVars, senderVars>>

-----------------------------------------------------------------------------
(* The read thread: readLoop calling readCanMessage.                       *)

Check ==
  /\ rpc = "check"
  /\ rpc' = IF stop \/ ~sock THEN "exited" ELSE "poll"
  /\ UNCHANGED <<connected, stop, wake, sockVars, joinable, frame, cache, userVars,
                 senderVars>>

(* poll() reports the eventfd, alone or beside the socket: the interrupt   *)
(* is consumed and nothing is received.                                    *)
PollWoken ==
  /\ rpc = "poll"
  /\ wake
  /\ wake' = FALSE
  /\ rpc' = "check"
  /\ UNCHANGED <<connected, stop, sockVars, joinable, frame, cache, userVars,
                 senderVars>>

PollReady ==
  /\ rpc = "poll"
  /\ ~wake
  /\ rx # <<>> \/ err
  /\ rpc' = "recv"
  /\ UNCHANGED <<connected, stop, wake, sockVars, joinable, frame, cache, userVars,
                 senderVars>>

(* recvmsg() fails with EAGAIN or EINTR.                                   *)
RecvAgain ==
  /\ rpc = "recv"
  /\ rpc' = "check"
  /\ UNCHANGED <<connected, stop, wake, sockVars, joinable, frame, cache, userVars,
                 senderVars>>

RecvErrorRetries ==
  /\ rpc = "recv"
  /\ err
  /\ rpc' = "check"
  /\ UNCHANGED <<connected, stop, wake, sockVars, joinable, frame, cache, userVars,
                 senderVars>>

(* recvmsg() fails for good: the read thread closes the socket.            *)
RecvError ==
  /\ rpc = "recv"
  /\ err
  /\ CloseDescriptor
  /\ rpc' = "clear"
  /\ UNCHANGED <<connected, stop, wake, joinable, frame, cache, userVars>>

ClearDead ==
  /\ rpc = "clear"
  /\ ClearSocket
  /\ rpc' = "check"
  /\ UNCHANGED <<connected, stop, wake, joinable, frame, cache, userVars>>

(* A frame is received; a short or undecodable one goes no further.        *)
RecvFrame ==
  /\ rpc = "recv"
  /\ ~err
  /\ rx # <<>>
  /\ rx' = Tail(rx)
  /\ IF Head(rx).of = Ignored
     THEN rpc' = "check" /\ UNCHANGED frame
     ELSE rpc' = "parse" /\ frame' = Head(rx)
  /\ UNCHANGED <<connected, stop, wake, sock, number, fds, err, session, joinable, cache, userVars,
                 senderVars>>

(* parseCANFrame updates the cache of the frame's type, then the health.   *)
ParseState ==
  /\ rpc = "parse"
  /\ cache' = [cache EXCEPT ![frame.of] = frame.from]
  /\ rpc' = "health"
  /\ UNCHANGED <<connected, stop, wake, sockVars, joinable, frame, userVars,
                 senderVars>>

ParseHealth ==
  /\ rpc = "health"
  /\ cache' = [cache EXCEPT ![Health] = frame.from]
  /\ frame' = NoFrame
  /\ rpc' = "check"
  /\ UNCHANGED <<connected, stop, wake, sockVars, joinable, userVars, senderVars>>

-----------------------------------------------------------------------------
(* A thread that sends: sendPiperMsg calling sendCanMessage.  Nothing      *)
(* keeps the socket open, or sock_ as it is, between its steps.            *)

SendMessage ==
  /\ spc = "idle"
  /\ connected
  /\ spc' = "test"
  /\ seen' = 0
  /\ crossed' = FALSE
  /\ astray' = FALSE
  /\ UNCHANGED <<connected, stop, wake, sockVars, readerVars, userVars>>

(* sock_ is found set also when its descriptor has just been closed.       *)
TestSocket ==
  /\ spc = "test"
  /\ IF sock THEN spc' = "write" /\ seen' = session /\ crossed' = Closing
             ELSE spc' = "idle" /\ UNCHANGED <<seen, crossed>>
  /\ UNCHANGED <<connected, stop, wake, sockVars, readerVars, userVars, astray>>

(* write() to what sock_ holds now, or, as the two reads of sock_ are not  *)
(* synchronised with anything, to the number it held when it was tested.   *)
(* Of a session that is over the number may have been given to any file,   *)
(* the next session's socket included.  Whether a frame that does go to    *)
(* the socket is sent makes no difference here.                            *)
WriteFrame ==
  /\ spc = "write"
  /\ spc' = "idle"
  /\ astray' \in IF number = "other" \/ session # seen THEN BOOLEAN ELSE {FALSE}
  /\ UNCHANGED <<connected, stop, wake, sockVars, readerVars, userVars, seen, crossed>>

(* The process opens another file, which is given the number: also the     *)
(* socket of the next session, while init() binds it.                      *)
NumberReused ==
  /\ number = "closed"
  /\ number' = "other"
  /\ UNCHANGED <<connected, stop, wake, sock, fds, err, rx, session, readerVars, userVars,
                 senderVars>>

-----------------------------------------------------------------------------
(* The bus.                                                                *)

FrameArrives(k) ==
  /\ number = "socket"
  /\ ~err
  /\ Len(rx) < RxCapacity
  /\ rx' = Append(rx, [from |-> session, of |-> k])
  /\ UNCHANGED <<connected, stop, wake, sock, number, fds, err, session, readerVars, userVars,
                 senderVars>>

InterfaceDown ==
  /\ number = "socket"
  /\ ~err
  /\ err' = TRUE
  /\ UNCHANGED <<connected, stop, wake, sock, number, fds, rx, session, readerVars, userVars,
                 senderVars>>

-----------------------------------------------------------------------------

(* The steps of a call that has begun.                                     *)
UserStep ==
  \/ InitAlreadyOpen \/ InitNoSocket \/ InitSocket \/ InitBindFails \/ InitBind
  \/ MarkConnected \/ JudgeThrows \/ QueryArm \/ StartReader
  \/ StopReader \/ InterruptRead \/ Join \/ ClosePortAlready \/ ClosePort \/ ClearPort
  \/ ResetStates \/ MarkDisconnected

ReaderStep ==
  \/ Check \/ PollWoken \/ PollReady \/ RecvAgain \/ RecvError \/ ClearDead
  \/ RecvFrame \/ ParseState \/ ParseHealth

Next ==
  \/ \E judge \in JudgeOptions, start \in StartOptions : Connect(judge, start)
  \/ Disconnect
  \/ UserStep
  \/ ReaderStep
  \/ \E k \in State \cup {Ignored} : FrameArrives(k)
  \/ InterfaceDown
  \/ SendMessage \/ TestSocket \/ WriteFrame
  \/ NumberReused

(* Both threads are scheduled; a call once begun runs on.  Receiving is    *)
(* not interrupted by a signal every time for ever.  Nobody has to call    *)
(* anything, and the bus owes nothing.                                     *)
Fairness ==
  /\ WF_vars(UserStep)
  /\ WF_vars(ReaderStep)
  /\ SF_vars(RecvError)

Spec == Init /\ [][Next]_vars /\ Fairness

-----------------------------------------------------------------------------

(* Types, and the program points of both threads.                          *)
TypeOK ==
  /\ connected \in BOOLEAN
  /\ stop \in BOOLEAN
  /\ wake \in BOOLEAN
  /\ sock \in BOOLEAN
  /\ number \in {"socket", "closed", "other"}
  /\ err \in BOOLEAN
  /\ fds \in 0..2
  /\ session \in 0..MaxSessions
  /\ rx \in Seq(Frame)
  /\ joinable \in BOOLEAN
  /\ rpc \in {"none", "check", "poll", "recv", "clear", "parse", "health",
             "exited"}
  /\ frame \in Frame \cup {NoFrame}
  /\ cache \in [Caches -> 0..MaxSessions]
  /\ upc \in {"idle", "init", "bind", "mark", "judge", "spawn",
              "stop", "wake", "join", "close", "clear", "reset", "unmark"}
  /\ opts \in [judge : BOOLEAN, start : BOOLEAN]
  /\ spc \in {"idle", "test", "write"}
  /\ seen \in 0..MaxSessions
  /\ crossed \in BOOLEAN
  /\ astray \in BOOLEAN

(* disconnectPort clears every cached state so that a later session cannot *)
(* read this one's feedback (piper_interface_v2.h:82-83): whatever is      *)
(* cached came over the socket of the session in progress, and an          *)
(* interface that is not connected has nothing cached.                     *)
OnlyThisSession ==
  \A k \in Caches : cache[k] # 0 => connected /\ cache[k] = session

(* sock_ is a plain int.  The calling thread opens and closes it only      *)
(* while no read thread runs, so the two never touch it at once.           *)
NoSocketRace ==
  upc \in {"init", "bind", "close", "clear"} => ~Reading

(* connectPort never assigns over a joinable read_thread_, which would     *)
(* terminate the process: a read thread that died by itself is still       *)
(* joined before the next one is started.                                  *)
ThreadSlotIsFree == upc = "spawn" => ~joinable

(* No descriptor is lost: the process has the one sock_ holds open, until  *)
(* close() has closed it, and besides it only the one a running init() is  *)
(* binding.                                                                *)
NoDescriptorLeak ==
  fds = (IF sock /\ ~Closing THEN 1 ELSE 0) + (IF upc = "bind" THEN 1 ELSE 0)

(* An interrupt left over from an earlier session does not cancel a read   *)
(* of this one: the reader is interrupted only when it is to stop.         *)
InterruptMeansStop == Reading /\ wake => stop

(* A command goes to no other file, and to no later session's socket, than *)
(* the one sendCanMessage found open, unless close() ran, if only in part, *)
(* between its test of sock_ and its write.  That is all the time senders  *)
(* are exposed for: a call that begins after a close() has returned finds  *)
(* sock_ cleared, by whichever thread, also when the number has been given *)
(* away since, and in a session that nobody closes no frame goes astray.   *)
StraysOnlyAcrossClose == astray => crossed

(* disconnectPort returns, also on a silent bus and whatever the reader is *)
(* doing when it is called (piper_interface_v2.h:83-84).                   *)
DisconnectReturns == upc = "stop" ~> upc = "idle"

(* The read thread does not spin on a dead socket: while one runs, a       *)
(* pending error leads to the socket being closed and to sock_ saying so,  *)
(* which is what the loop tests.                                           *)
DeadSocketIsClosed == (err /\ Reading) ~> ~sock

(* piper_interface_v2.h:268: isConnected() is "True if the CAN port is     *)
(* currently open and the read thread is running".                         *)
ConnectedMeansReading == upc = "idle" /\ connected => sock /\ Reading

=============================================================================
