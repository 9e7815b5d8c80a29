-------------------------- MODULE CanSessionProofs --------------------------
(***************************************************************************)
(* Theorems about CanSession, for any caches, options, queue length and    *)
(* number of sessions.  The induction rests on where the two threads may   *)
(* be together (Placed), on what the socket is at each point of a call     *)
(* (SocketPlaced), and on every frame being of the session in progress     *)
(* (FramesAreCurrent).                                                     *)
(***************************************************************************)
EXTENDS CanSession, TLAPS

(* connected_ tells which call the caller is in; a read thread exists only *)
(* while connected, and not at the points that open or close the port.     *)
Placed ==
  /\ upc \in {"init", "bind", "mark"} => ~connected
  /\ upc \notin {"idle", "init", "bind", "mark"} => connected
  /\ joinable <=> rpc # "none"
  /\ ~connected => rpc = "none"
  /\ upc \in {"judge", "spawn", "close", "clear", "reset", "unmark"} => rpc = "none"
  /\ upc \in {"wake", "join"} => stop

(* What the descriptor and the eventfd are before, in and after a session. *)
(* The number in sock_ names the socket, but for the time between closing  *)
(* the one and clearing the other.                                         *)
SocketPlaced ==
  /\ upc = "bind" => ~sock
  /\ upc \in {"reset", "unmark"} => ~sock
  /\ sock => session # 0
  /\ number = "socket" <=> sock /\ ~Closing
  /\ err => number = "socket"
  /\ ~connected /\ sock => ~wake
  /\ upc \in {"mark", "judge", "spawn"} => ~wake

(* Frames, queued or being parsed, came over the socket in use; nothing is *)
(* cached once resetStates has run.                                        *)
FramesAreCurrent ==
  /\ \A i \in 1..Len(rx) : rx[i].from = session
  /\ rpc \in {"parse", "health"} =>
       frame \in Frame /\ frame.from = session /\ frame.of \in State
  /\ upc = "unmark" => \A k \in Caches : cache[k] = 0

IInv ==
  /\ TypeOK
  /\ Placed
  /\ SocketPlaced
  /\ FramesAreCurrent
  /\ NoDescriptorLeak
  /\ OnlyThisSession
  /\ InterruptMeansStop

-----------------------------------------------------------------------------

LEMMA InitInv == Init => IInv
  <1> SUFFICES ASSUME Init PROVE IInv
    OBVIOUS
  <1> USE SessionAssumption DEF Init
  <1>1. TypeOK
    <2>1. <<>> \in Seq(Frame)
      OBVIOUS
    <2>2. NoCall \in [judge : BOOLEAN, start : BOOLEAN]
      BY DEF NoCall
    <2>3. fds \in 0..2 /\ session \in 0..MaxSessions
      OBVIOUS
    <2>4. cache \in [Caches -> 0..MaxSessions]
      OBVIOUS
    <2>5. number \in {"socket", "closed", "other"} /\ seen \in 0..MaxSessions
      OBVIOUS
    <2>6. QED
      BY <2>1, <2>2, <2>3, <2>4, <2>5 DEF TypeOK
  <1>2. Placed /\ SocketPlaced /\ FramesAreCurrent
    BY DEF Placed, SocketPlaced, Closing, FramesAreCurrent
  <1>3. NoDescriptorLeak /\ OnlyThisSession /\ InterruptMeansStop
    BY DEF NoDescriptorLeak, OnlyThisSession, InterruptMeansStop, Reading, Closing
  <1>4. QED
    BY <1>1, <1>2, <1>3 DEF IInv

LEMMA NoCallType == NoCall \in [judge : BOOLEAN, start : BOOLEAN]
  BY DEF NoCall

(* Closing the descriptor leaves its variables well-typed, whoever does it. *)
LEMMA CloseDescriptorType ==
  ASSUME TypeOK, NoDescriptorLeak, sock, ~Closing, CloseDescriptor
  PROVE  /\ sock' \in BOOLEAN /\ number' \in {"socket", "closed", "other"} /\ err' \in BOOLEAN
         /\ fds' \in 0..2 /\ session' \in 0..MaxSessions /\ rx' \in Seq(Frame)
         /\ spc' \in {"idle", "test", "write"} /\ seen' \in 0..MaxSessions
         /\ crossed' \in BOOLEAN /\ astray' \in BOOLEAN
  <1>1. fds \in 0..2 /\ fds # 0
    BY DEF TypeOK, NoDescriptorLeak
  <1>2. fds' \in 0..2
    BY <1>1 DEF CloseDescriptor
  <1>3. rx' \in Seq(Frame)
    BY DEF CloseDescriptor
  <1>4. crossed' \in BOOLEAN
    BY DEF CloseDescriptor
  <1>5. QED
    BY <1>2, <1>3, <1>4 DEF CloseDescriptor, TypeOK

LEMMA ClosePortType ==
  ASSUME TypeOK, NoDescriptorLeak, ~Closing, ClosePort
  PROVE  TypeOK'
  BY CloseDescriptorType DEF ClosePort, TypeOK, readerVars

LEMMA RecvErrorType ==
  ASSUME TypeOK, NoDescriptorLeak, sock, ~Closing, RecvError
  PROVE  TypeOK'
  BY CloseDescriptorType DEF RecvError, TypeOK, userVars

(* The woken reader and the calls that end a session keep every type.      *)
LEMMA EndingType ==
  ASSUME TypeOK,
         InterruptRead \/ Join \/ ClearPort \/ MarkDisconnected \/ PollWoken \/ ClearDead
  PROVE  TypeOK'
  <1> USE DEF TypeOK, sockVars, readerVars, userVars, senderVars
  <1>1. CASE InterruptRead
    <2>1. /\ wake' \in BOOLEAN /\ upc' = "join"
          /\ UNCHANGED <<connected, stop, sockVars, readerVars, opts, senderVars>>
      BY <1>1 DEF InterruptRead
    <2>2. QED
      BY <2>1
  <1>2. CASE Join
    <2>1. /\ joinable' \in BOOLEAN /\ rpc' = "none" /\ upc' = "close"
          /\ UNCHANGED <<connected, stop, wake, sockVars, frame, cache, opts, senderVars>>
      BY <1>2 DEF Join
    <2>2. QED
      BY <2>1
  <1>3. CASE MarkDisconnected
    <2>1. /\ connected' \in BOOLEAN /\ upc' = "idle"
          /\ opts' \in [judge : BOOLEAN, start : BOOLEAN]
          /\ UNCHANGED <<stop, wake, sockVars, readerVars, senderVars>>
      BY <1>3, NoCallType DEF MarkDisconnected, Return
    <2>2. QED
      BY <2>1
  <1>4. CASE PollWoken
    <2>1. /\ wake' \in BOOLEAN /\ rpc' = "check"
          /\ UNCHANGED <<connected, stop, sockVars, joinable, frame, cache, userVars,
                         senderVars>>
      BY <1>4 DEF PollWoken
    <2>2. QED
      BY <2>1
  <1>5. CASE ClearPort
    <2>1. /\ sock' \in BOOLEAN /\ upc' = "reset"
          /\ UNCHANGED <<connected, stop, wake, number, fds, err, rx, session, readerVars,
                         opts, senderVars>>
      BY <1>5 DEF ClearPort, ClearSocket
    <2>2. QED
      BY <2>1
  <1>6. CASE ClearDead
    <2>1. /\ sock' \in BOOLEAN /\ rpc' = "check"
          /\ UNCHANGED <<connected, stop, wake, number, fds, err, rx, session, joinable,
                         frame, cache, userVars, senderVars>>
      BY <1>6 DEF ClearDead, ClearSocket
    <2>2. QED
      BY <2>1
  <1>7. QED
    BY <1>1, <1>2, <1>3, <1>4, <1>5, <1>6

(* The steps of the calling thread.                                        *)
LEMMA UserInv ==
  ASSUME IInv,
         \/ \E judge \in JudgeOptions, start \in StartOptions : Connect(judge, start)
         \/ Disconnect
         \/ UserStep
  PROVE  IInv'
  <1> USE SessionAssumption DEF IInv, TypeOK, Placed, SocketPlaced, FramesAreCurrent,
        NoDescriptorLeak, OnlyThisSession, InterruptMeansStop, Reading, Closing,
        sockVars, readerVars, userVars, senderVars
  <1>1. CASE \E judge \in JudgeOptions, start \in StartOptions : Connect(judge, start)
    BY <1>1 DEF Connect
  <1>2. CASE Disconnect
    BY <1>2 DEF Disconnect
  <1>3. CASE InitAlreadyOpen
    BY <1>3 DEF InitAlreadyOpen
  <1>4. CASE InitNoSocket
    BY <1>4 DEF InitNoSocket, Return, NoCall
  <1>5. CASE InitSocket
    BY <1>5 DEF InitSocket
  <1>6. CASE InitBindFails
    BY <1>6 DEF InitBindFails, Return, NoCall
  <1>7. CASE InitBind
    <2>1. \A k \in Caches : cache[k] = 0
      BY <1>7 DEF InitBind
    <2>2. /\ session' \in 0..MaxSessions /\ rx' \in Seq(Frame) /\ Len(rx') = 0
          /\ session' # 0
      BY <1>7 DEF InitBind
    <2>3. rpc = "none" /\ ~connected /\ fds' = 1 /\ sock' = TRUE /\ upc' = "mark"
      BY <1>7 DEF InitBind
    <2>4. TypeOK'
      BY <1>7, <2>2, <2>3 DEF InitBind
    <2>5. Placed' /\ SocketPlaced' /\ InterruptMeansStop'
      BY <1>7, <2>2, <2>3 DEF InitBind
    <2>6. FramesAreCurrent' /\ NoDescriptorLeak' /\ OnlyThisSession'
      BY <1>7, <2>1, <2>2, <2>3 DEF InitBind
    <2>7. QED
      BY <2>4, <2>5, <2>6
  <1>8. CASE MarkConnected
    BY <1>8 DEF MarkConnected
  <1>9. CASE JudgeThrows
    BY <1>9 DEF JudgeThrows, Return, NoCall
  <1>10. CASE QueryArm
    <2>1. CASE opts.start
      BY <1>10, <2>1 DEF QueryArm
    <2>2. CASE ~opts.start
      <3>1. opts' \in [judge : BOOLEAN, start : BOOLEAN] /\ upc' = "idle"
        BY <1>10, <2>2, NoCallType DEF QueryArm, Return
      <3>2. QED
        BY <1>10, <2>2, <3>1 DEF QueryArm
    <2>3. QED
      BY <2>1, <2>2
  <1>11. CASE StartReader
    BY <1>11 DEF StartReader, Return, NoCall
  <1>12. CASE StopReader
    BY <1>12 DEF StopReader
  <1>13. CASE InterruptRead
    <2>1. /\ wake' \in BOOLEAN /\ upc' = "join" /\ upc = "wake"
          /\ UNCHANGED <<connected, stop, sockVars, readerVars, opts, senderVars>>
      BY <1>13 DEF InterruptRead
    <2>2. TypeOK'
      BY <1>13, EndingType
    <2>3. Placed' /\ SocketPlaced' /\ InterruptMeansStop'
      BY <2>1
    <2>4. FramesAreCurrent' /\ NoDescriptorLeak' /\ OnlyThisSession'
      BY <2>1
    <2>5. QED
      BY <2>2, <2>3, <2>4
  <1>14. CASE Join
    <2>1. /\ joinable' = FALSE /\ rpc' = "none" /\ upc' = "close" /\ upc = "join"
          /\ rpc # "clear"
          /\ UNCHANGED <<connected, stop, wake, sockVars, frame, cache, opts, senderVars>>
      BY <1>14 DEF Join
    <2>2. TypeOK'
      BY <1>14, EndingType
    <2>3. Placed' /\ SocketPlaced' /\ InterruptMeansStop'
      BY <2>1
    <2>4. FramesAreCurrent' /\ NoDescriptorLeak' /\ OnlyThisSession'
      BY <2>1
    <2>5. QED
      BY <2>2, <2>3, <2>4
  <1>15. CASE ClosePort
    <2>1. sock /\ ~Closing /\ rpc = "none" /\ upc = "close"
      BY <1>15 DEF ClosePort
    <2>2. /\ sock' = sock /\ number' = "closed" /\ rx' \in Seq(Frame) /\ Len(rx') = 0
          /\ session' = session /\ err' = FALSE /\ fds' = 0 /\ upc' = "clear"
          /\ UNCHANGED <<connected, stop, wake, readerVars, opts>>
      BY <1>15, <2>1 DEF ClosePort, CloseDescriptor
    <2>3. TypeOK'
      BY <1>15, <2>1, ClosePortType
    <2>4. QED
      BY <2>1, <2>2, <2>3
  <1>16. CASE ClosePortAlready
    BY <1>16 DEF ClosePortAlready
  <1>17. CASE ClearPort
    <2>1. /\ sock' = FALSE /\ upc' = "reset" /\ upc = "clear"
          /\ UNCHANGED <<connected, stop, wake, number, fds, err, rx, session, readerVars,
                         opts, senderVars>>
      BY <1>17 DEF ClearPort, ClearSocket
    <2>2. TypeOK'
      BY <1>17, EndingType
    <2>3. Placed' /\ SocketPlaced' /\ InterruptMeansStop'
      BY <2>1
    <2>4. FramesAreCurrent' /\ NoDescriptorLeak' /\ OnlyThisSession'
      BY <2>1
    <2>5. QED
      BY <2>2, <2>3, <2>4
  <1>18. CASE ResetStates
    BY <1>18 DEF ResetStates
  <1>19. CASE MarkDisconnected
    <2>1. /\ connected' = FALSE /\ upc' = "idle" /\ upc = "unmark"
          /\ opts' \in [judge : BOOLEAN, start : BOOLEAN]
          /\ UNCHANGED <<stop, wake, sockVars, readerVars, senderVars>>
      BY <1>19, NoCallType DEF MarkDisconnected, Return
    <2>2. TypeOK'
      BY <1>19, EndingType
    <2>3. Placed' /\ SocketPlaced' /\ InterruptMeansStop'
      BY <2>1
    <2>4. FramesAreCurrent' /\ NoDescriptorLeak' /\ OnlyThisSession'
      BY <2>1
    <2>5. QED
      BY <2>2, <2>3, <2>4
  <1>20. QED
    BY <1>1, <1>2, <1>3, <1>4, <1>5, <1>6, <1>7, <1>8, <1>9, <1>10, <1>11, <1>12,
       <1>13, <1>14, <1>15, <1>16, <1>17, <1>18, <1>19 DEF UserStep

(* The steps of the read thread.                                           *)
LEMMA ReaderInv ==
  ASSUME IInv, ReaderStep
  PROVE  IInv'
  <1> USE SessionAssumption DEF IInv, TypeOK, Placed, SocketPlaced, FramesAreCurrent,
        NoDescriptorLeak, OnlyThisSession, InterruptMeansStop, Reading, Closing,
        sockVars, readerVars, userVars, senderVars
  <1>1. CASE Check
    BY <1>1 DEF Check
  <1>2. CASE PollWoken
    <2>1. /\ ~wake' /\ rpc' = "check" /\ rpc = "poll"
          /\ UNCHANGED <<connected, stop, sockVars, joinable, frame, cache, userVars,
                         senderVars>>
      BY <1>2 DEF PollWoken
    <2>2. TypeOK'
      BY <1>2, EndingType
    <2>3. Placed' /\ SocketPlaced' /\ InterruptMeansStop'
      BY <2>1
    <2>4. FramesAreCurrent' /\ NoDescriptorLeak' /\ OnlyThisSession'
      BY <2>1
    <2>5. QED
      BY <2>2, <2>3, <2>4
  <1>3. CASE PollReady
    BY <1>3 DEF PollReady
  <1>4. CASE RecvAgain
    BY <1>4 DEF RecvAgain
  <1>5. CASE RecvError
    <2>1. sock /\ ~Closing /\ rpc = "recv" /\ upc # "bind"
      BY <1>5 DEF RecvError
    <2>2. /\ sock' = sock /\ number' = "closed" /\ rx' \in Seq(Frame) /\ Len(rx') = 0
          /\ session' = session /\ err' = FALSE /\ fds' = 0 /\ rpc' = "clear"
          /\ UNCHANGED <<connected, stop, wake, joinable, frame, cache, userVars>>
      BY <1>5, <2>1 DEF RecvError, CloseDescriptor
    <2>3. TypeOK'
      BY <1>5, <2>1, RecvErrorType
    <2>4. Placed' /\ SocketPlaced' /\ InterruptMeansStop'
      BY <2>1, <2>2
    <2>5. FramesAreCurrent' /\ NoDescriptorLeak' /\ OnlyThisSession'
      BY <2>1, <2>2
    <2>6. QED
      BY <2>3, <2>4, <2>5
  <1>6. CASE ClearDead
    <2>1. /\ sock' = FALSE /\ rpc' = "check" /\ rpc = "clear"
          /\ UNCHANGED <<connected, stop, wake, number, fds, err, rx, session, joinable,
                         frame, cache, userVars, senderVars>>
      BY <1>6 DEF ClearDead, ClearSocket
    <2>2. TypeOK'
      BY <1>6, EndingType
    <2>3. Placed' /\ SocketPlaced' /\ InterruptMeansStop'
      BY <2>1
    <2>4. FramesAreCurrent' /\ NoDescriptorLeak' /\ OnlyThisSession'
      BY <2>1
    <2>5. QED
      BY <2>2, <2>3, <2>4
  <1>7. CASE RecvFrame
    <2>1. /\ Head(rx) \in Frame /\ Head(rx) = rx[1] /\ Tail(rx) \in Seq(Frame)
          /\ \A i \in 1..Len(Tail(rx)) : Tail(rx)[i].from = session
      BY <1>7 DEF RecvFrame
    <2>2. Head(rx).from = session
      BY <1>7, <2>1 DEF RecvFrame
    <2>3. Head(rx).of # Ignored => Head(rx).of \in State
      BY <2>1 DEF Frame
    <2>4. QED
      BY <1>7, <2>1, <2>2, <2>3 DEF RecvFrame
  <1>8. CASE ParseState
    <2>1. frame.from \in 1..MaxSessions /\ frame.of \in Caches
      BY <1>8 DEF ParseState, Frame, Caches
    <2>2. QED
      BY <1>8, <2>1 DEF ParseState
  <1>9. CASE ParseHealth
    <2>1. frame.from \in 1..MaxSessions /\ Health \in Caches
      BY <1>9 DEF ParseHealth, Frame, Caches
    <2>2. QED
      BY <1>9, <2>1 DEF ParseHealth
  <1>10. QED
    BY <1>1, <1>2, <1>3, <1>4, <1>5, <1>6, <1>7, <1>8, <1>9 DEF ReaderStep

(* The steps of the bus.                                                   *)
LEMMA BusInv ==
  ASSUME IInv, InterfaceDown \/ \E k \in State \cup {Ignored} : FrameArrives(k)
  PROVE  IInv'
  <1> USE SessionAssumption DEF IInv, TypeOK, Placed, SocketPlaced, FramesAreCurrent,
        NoDescriptorLeak, OnlyThisSession, InterruptMeansStop, Reading, Closing,
        sockVars, readerVars, userVars, senderVars
  <1>1. CASE InterfaceDown
    BY <1>1 DEF InterfaceDown
  <1>2. ASSUME NEW k \in State \cup {Ignored}, FrameArrives(k) PROVE IInv'
    <2> DEFINE f == [from |-> session, of |-> k]
    <2>1. session \in 1..MaxSessions
      BY <1>2 DEF FrameArrives
    <2>2. f \in Frame /\ f.from = session
      BY <2>1 DEF Frame
    <2>3. rx' = Append(rx, f)
      BY <1>2 DEF FrameArrives
    <2> HIDE DEF f
    <2>4. rx' \in Seq(Frame) /\ \A i \in 1..Len(rx') : rx'[i].from = session
      BY <2>2, <2>3
    <2>5. QED
      BY <1>2, <2>4 DEF FrameArrives
  <1>3. QED
    BY <1>1, <1>2

(* The invariant says nothing of a sending thread but its types.           *)
LEMMA SenderFree ==
  ASSUME IInv,
         UNCHANGED <<connected, stop, wake, sock, fds, err, rx, session, readerVars, userVars>>,
         number' \in {"socket", "closed", "other"},
         number' # number => number = "closed" /\ number' = "other",
         spc' \in {"idle", "test", "write"}, seen' \in 0..MaxSessions,
         crossed' \in BOOLEAN, astray' \in BOOLEAN
  PROVE  IInv'
  <1> USE DEF readerVars, userVars
  <1>1. TypeOK'
    BY DEF IInv, TypeOK
  <1>2. SocketPlaced'
    BY DEF IInv, SocketPlaced, Closing
  <1>3. Placed' /\ FramesAreCurrent'
    BY DEF IInv, Placed, FramesAreCurrent
  <1>4. NoDescriptorLeak' /\ OnlyThisSession' /\ InterruptMeansStop'
    BY DEF IInv, NoDescriptorLeak, OnlyThisSession, InterruptMeansStop, Reading, Closing
  <1>5. QED
    BY <1>1, <1>2, <1>3, <1>4 DEF IInv

(* The steps of a thread that sends, and of the process around it.         *)
LEMMA SenderInv ==
  ASSUME IInv, SendMessage \/ TestSocket \/ WriteFrame \/ NumberReused
  PROVE  IInv'
  <1> USE DEF sockVars
  <1>1. /\ number \in {"socket", "closed", "other"} /\ spc \in {"idle", "test", "write"}
        /\ seen \in 0..MaxSessions /\ session \in 0..MaxSessions /\ astray \in BOOLEAN
        /\ crossed \in BOOLEAN
    BY SessionAssumption DEF IInv, TypeOK
  <1>2. CASE SendMessage
    <2>1. spc' = "test" /\ seen' = 0 /\ crossed' = FALSE /\ astray' = FALSE
      BY <1>2 DEF SendMessage
    <2>2. seen' \in 0..MaxSessions
      BY <2>1, SessionAssumption
    <2>3. QED
      BY <1>1, <1>2, <2>1, <2>2, SenderFree DEF SendMessage
  <1>3. CASE TestSocket
    <2>1. /\ spc' \in {"idle", "test", "write"} /\ seen' \in 0..MaxSessions
          /\ crossed' \in BOOLEAN /\ astray' \in BOOLEAN
      BY <1>1, <1>3 DEF TestSocket, Closing
    <2>2. QED
      BY <1>1, <1>3, <2>1, SenderFree DEF TestSocket
  <1>4. CASE WriteFrame
    <2>1. astray' \in BOOLEAN
      BY <1>4 DEF WriteFrame
    <2>2. QED
      BY <1>1, <1>4, <2>1, SenderFree DEF WriteFrame
  <1>5. CASE NumberReused
    BY <1>1, <1>5, SenderFree DEF NumberReused, senderVars
  <1>6. QED
    BY <1>2, <1>3, <1>4, <1>5

LEMMA NextInv == IInv /\ [Next]_vars => IInv'
  <1> SUFFICES ASSUME IInv, [Next]_vars PROVE IInv'
    OBVIOUS
  <1>1. CASE Next
    BY <1>1, UserInv, ReaderInv, BusInv, SenderInv DEF Next
  <1>2. CASE UNCHANGED vars
    BY <1>2 DEF vars, sockVars, readerVars, userVars, senderVars, IInv, TypeOK, Placed,
       SocketPlaced, FramesAreCurrent, NoDescriptorLeak, OnlyThisSession, InterruptMeansStop, Reading, Closing
  <1>3. QED
    BY <1>1, <1>2

(* The strengthened invariant holds in every behaviour.                    *)
LEMMA Invariance == Spec => []IInv
  BY InitInv, NextInv, PTL DEF Spec

-----------------------------------------------------------------------------

(* Every variable keeps its type.                                          *)
THEOREM TypeCorrect == Spec => []TypeOK
  <1>1. IInv => TypeOK
    BY DEF IInv
  <1>2. QED
    BY <1>1, Invariance, PTL

(* No session can read another one's feedback.                             *)
THEOREM SessionIsolation == Spec => []OnlyThisSession
  <1>1. IInv => OnlyThisSession
    BY DEF IInv
  <1>2. QED
    BY <1>1, Invariance, PTL

(* The unprotected sock_ is opened and closed by one thread at a time.     *)
THEOREM SocketOwnership == Spec => []NoSocketRace
  <1>1. IInv => NoSocketRace
    BY DEF IInv, Placed, NoSocketRace, Reading
  <1>2. QED
    BY <1>1, Invariance, PTL

(* No read thread is ever assigned over one that was not joined.           *)
THEOREM ThreadSlot == Spec => []ThreadSlotIsFree
  <1>1. IInv => ThreadSlotIsFree
    BY DEF IInv, Placed, ThreadSlotIsFree
  <1>2. QED
    BY <1>1, Invariance, PTL

(* Sessions, failed ones included, lose no descriptor.                     *)
THEOREM Descriptors == Spec => []NoDescriptorLeak
  <1>1. IInv => NoDescriptorLeak
    BY DEF IInv
  <1>2. QED
    BY <1>1, Invariance, PTL

(* A sender whose call no close() has crossed so far writes to the socket  *)
(* it tested.                                                              *)
SendersPlaced ==
  /\ spc \in {"test", "write"} => ~astray
  /\ spc = "write" /\ ~crossed => number = "socket" /\ seen = session
  /\ StraysOnlyAcrossClose

LEMMA SendersKept ==
  ASSUME IInv, SendersPlaced, [Next]_vars
  PROVE  SendersPlaced'
  <1> USE DEF SendersPlaced, StraysOnlyAcrossClose, senderVars
  <1>1. ASSUME UNCHANGED <<number, session, senderVars>> PROVE SendersPlaced'
    BY <1>1
  <1>2. CASE SendMessage
    BY <1>2 DEF SendMessage
  <1>3. CASE TestSocket
    <2>1. /\ spc = "test" /\ UNCHANGED <<number, session, astray>>
          /\ spc' = "write" => sock /\ seen' = session /\ crossed' = Closing
          /\ spc' \in {"write", "idle"}
      BY <1>3 DEF TestSocket, sockVars
    <2>2. spc' = "write" /\ ~crossed' => number = "socket"
      BY <2>1 DEF IInv, SocketPlaced
    <2>3. QED
      BY <2>1, <2>2
  <1>4. CASE WriteFrame
    BY <1>4 DEF WriteFrame, sockVars
  <1>5. CASE NumberReused
    BY <1>5 DEF NumberReused
  <1>6. ASSUME CloseDescriptor PROVE SendersPlaced'
    BY <1>6 DEF CloseDescriptor
  <1>7. CASE InitBind
    BY <1>7 DEF InitBind, IInv, SocketPlaced
  <1>8. CASE UNCHANGED vars
    BY <1>1, <1>8 DEF vars, sockVars
  <1>9. ASSUME NEW k \in State \cup {Ignored}, FrameArrives(k) PROVE SendersPlaced'
    BY <1>1, <1>9 DEF FrameArrives
  <1>10. QED
    BY <1>1, <1>2, <1>3, <1>4, <1>5, <1>6, <1>7, <1>8, <1>9
    DEF Next, Connect, Disconnect, UserStep, InitAlreadyOpen, InitNoSocket, InitSocket,
        InitBindFails, MarkConnected, JudgeThrows, QueryArm, StartReader, StopReader,
        InterruptRead, Join, ClosePortAlready, ClosePort, ClearPort, ClearSocket,
        ResetStates, MarkDisconnected, ReaderStep, Check, PollWoken, PollReady, RecvAgain,
        RecvError, ClearDead, RecvFrame, ParseState, ParseHealth, InterfaceDown, sockVars

(* A frame goes to a foreign descriptor only in a call that a close(), by  *)
(* either thread, was running in: between a test of sock_ that found it    *)
(* set, be it already closed, and the write.                               *)
THEOREM SendersTheorem == Spec => []StraysOnlyAcrossClose
  <1>1. Init => SendersPlaced
    BY DEF Init, SendersPlaced, StraysOnlyAcrossClose
  <1>2. SendersPlaced => StraysOnlyAcrossClose
    BY DEF SendersPlaced
  <1>3. QED
    BY <1>1, <1>2, SendersKept, Invariance, PTL DEF Spec

(* A reader is only ever interrupted to be stopped.                        *)
THEOREM Interrupts == Spec => []InterruptMeansStop
  <1>1. IInv => InterruptMeansStop
    BY DEF IInv
  <1>2. QED
    BY <1>1, Invariance, PTL

-----------------------------------------------------------------------------
(* What the marks mean that other threads read: connected_, which is no    *)
(* test of the socket, and stop_, which a blocked reader does not see.     *)

(* The interrupt that disconnectPort sends is not lost: while it waits for *)
(* the read thread, either that one is not blocked in poll() or what wakes *)
(* it is still there.  Every other place it can be in leads to the test of *)
(* stop_.                                                                  *)
InterruptIsNotLost == upc = "join" => stop /\ (rpc = "poll" => wake)

(* A port that is marked connected is open, and its read thread, if it has *)
(* one, has not returned, unless that thread has closed the socket itself. *)
(* So this is what isConnected() can be relied on for between two calls.   *)
MarkedUntilDead ==
  connected /\ upc = "idle" =>
    IF number = "socket" THEN rpc # "exited" ELSE rpc \in {"clear", "check", "exited"}

(* With it, what is known of stop_ and of the socket at each point.        *)
Attended ==
  /\ upc = "join" /\ rpc = "poll" => wake
  /\ upc \in {"idle", "stop"} /\ rpc # "none" => ~stop
  /\ rpc = "exited" => stop \/ ~sock
  /\ upc \in {"mark", "judge", "spawn"} => sock
  /\ connected /\ upc \in {"idle", "stop", "wake", "join"} =>
       sock \/ rpc \in {"check", "exited"}

LEMMA AttendedByUser ==
  ASSUME Placed, Attended,
         \/ \E judge \in JudgeOptions, start \in StartOptions : Connect(judge, start)
         \/ Disconnect
         \/ UserStep
  PROVE  Attended'
  <1> USE DEF Placed, Attended, sockVars, readerVars, Return
  <1>1. ASSUME NEW judge \in JudgeOptions, NEW start \in StartOptions, Connect(judge, start)
        PROVE  Attended'
    BY <1>1 DEF Connect
  <1>2. CASE Disconnect
    BY <1>2 DEF Disconnect
  <1>3. CASE InitAlreadyOpen
    BY <1>3 DEF InitAlreadyOpen
  <1>4. CASE InitNoSocket
    BY <1>4 DEF InitNoSocket
  <1>5. CASE InitSocket
    BY <1>5 DEF InitSocket
  <1>6. CASE InitBindFails
    BY <1>6 DEF InitBindFails
  <1>7. CASE InitBind
    BY <1>7 DEF InitBind
  <1>8. CASE MarkConnected
    BY <1>8 DEF MarkConnected
  <1>9. CASE JudgeThrows
    BY <1>9 DEF JudgeThrows
  <1>10. CASE QueryArm
    BY <1>10 DEF QueryArm
  <1>11. CASE StartReader
    BY <1>11 DEF StartReader
  <1>12. CASE StopReader
    BY <1>12 DEF StopReader
  <1>13. CASE InterruptRead
    BY <1>13 DEF InterruptRead
  <1>14. CASE Join
    BY <1>14 DEF Join
  <1>15. CASE ClosePort
    BY <1>15 DEF ClosePort, CloseDescriptor
  <1>16. CASE ResetStates
    BY <1>16 DEF ResetStates
  <1>17. CASE MarkDisconnected
    BY <1>17 DEF MarkDisconnected
  <1>18. CASE ClosePortAlready
    BY <1>18 DEF ClosePortAlready
  <1>19. CASE ClearPort
    BY <1>19 DEF ClearPort, ClearSocket
  <1>20. QED
    BY <1>1, <1>2, <1>3, <1>4, <1>5, <1>6, <1>7, <1>8, <1>9, <1>10, <1>11, <1>12,
       <1>13, <1>14, <1>15, <1>16, <1>17, <1>18, <1>19 DEF UserStep

LEMMA AttendedByReader ==
  ASSUME Placed, Attended, ReaderStep
  PROVE  Attended'
  <1> USE DEF Placed, Attended, sockVars, userVars
  <1>1. CASE Check
    BY <1>1 DEF Check
  <1>2. CASE PollWoken
    BY <1>2 DEF PollWoken
  <1>3. CASE PollReady
    BY <1>3 DEF PollReady
  <1>4. CASE RecvAgain
    BY <1>4 DEF RecvAgain
  <1>5. CASE RecvError
    BY <1>5 DEF RecvError, CloseDescriptor
  <1>6. CASE RecvFrame
    BY <1>6 DEF RecvFrame
  <1>7. CASE ParseState
    BY <1>7 DEF ParseState
  <1>8. CASE ParseHealth
    BY <1>8 DEF ParseHealth
  <1>9. CASE ClearDead
    BY <1>9 DEF ClearDead, ClearSocket
  <1>10. QED
    BY <1>1, <1>2, <1>3, <1>4, <1>5, <1>6, <1>7, <1>8, <1>9 DEF ReaderStep

LEMMA AttendedInvariance == Spec => []Attended
  <1>1. Init => Attended
    BY DEF Init, Attended
  <1>2. IInv /\ Attended /\ [Next]_vars => Attended'
    <2> SUFFICES ASSUME Placed, Attended, [Next]_vars PROVE Attended'
      BY DEF IInv
    <2>1. ASSUME UNCHANGED <<connected, stop, wake, sock, rpc, upc>>
          PROVE  Attended'
      BY <2>1 DEF Attended
    <2>2. ASSUME NEW k \in State \cup {Ignored}, FrameArrives(k) PROVE Attended'
      BY <2>1, <2>2 DEF FrameArrives, readerVars, userVars
    <2>3. CASE InterfaceDown \/ NumberReused
      BY <2>1, <2>3 DEF InterfaceDown, NumberReused, readerVars, userVars
    <2>4. CASE SendMessage \/ TestSocket \/ WriteFrame
      BY <2>1, <2>4 DEF SendMessage, TestSocket, WriteFrame, sockVars, readerVars, userVars
    <2>5. CASE UNCHANGED vars
      BY <2>1, <2>5 DEF vars, sockVars, readerVars, userVars
    <2>6. QED
      BY <2>2, <2>3, <2>4, <2>5, AttendedByUser, AttendedByReader DEF Next
  <1>3. QED
    BY <1>1, <1>2, Invariance, PTL DEF Spec

(* disconnectPort never joins a read thread that nothing will wake.        *)
THEOREM InterruptTheorem == Spec => []InterruptIsNotLost
  <1>1. IInv /\ Attended => InterruptIsNotLost
    BY DEF IInv, Placed, Attended, InterruptIsNotLost
  <1>2. QED
    BY <1>1, Invariance, AttendedInvariance, PTL

(* A connected port is open until its own read thread finds it dead.       *)
THEOREM ConnectedTheorem == Spec => []MarkedUntilDead
  <1>1. IInv /\ Attended => MarkedUntilDead
    BY DEF IInv, Placed, SocketPlaced, Closing, Attended, MarkedUntilDead
  <1>2. QED
    BY <1>1, Invariance, AttendedInvariance, PTL

=============================================================================
