-------------------------- MODULE PublishingProofs --------------------------
(***************************************************************************)
(* The two coroutines of a publish session keep to their agreements, for   *)
(* any number of connections, messages and small reads; then the Thread    *)
(* that one of them is, and that the session uses it as a Thread behaves.  *)
(***************************************************************************)
EXTENDS Publishing, Thread, TLAPS

Typed == TypeOK /\ seen \in [Conns -> Nat]

\* There is a receive thread exactly while Publishing runs.
ThreadOfSession(c) == pc[c] \in {"wait", "woken", "join"} <=> rpc[c] # "none"

\* A thread that has left took its handler off the buffer.
HandlerTakenOff(c) == rpc[c] \in {"none", "done"} => ~merge_read[c]

\* Until do_publish gives up, only an error makes the thread leave.
LeavesForError(c) ==
  pc[c] \in {"wait", "woken"} =>
    IF rpc[c] = "done" THEN recv_error[c] # "none" ELSE loop[c]

\* What do_publish knows: in Wait of no error, after it of one or of a whole time waited.
Informed(c) ==
  /\ pc[c] = "wait" => recv_error[c] = "none"
  /\ pc[c] \in {"woken", "join"} /\ recv_error[c] = "none" => waited[c] = "timeout"

SessionInv(c) ==
  ThreadOfSession(c) /\ HandlerTakenOff(c) /\ LeavesForError(c) /\ Informed(c)

IInv == Typed /\ \A c \in Conns : SessionInv(c)
-----------------------------------------------------------------------------
\* Before anybody publishes.
LEMMA InitIInv == Init => IInv
BY PublishingAssumption
   DEF Init, IInv, Typed, TypeOK, ConnPc, RecvPc, SessionInv, ThreadOfSession,
       HandlerTakenOff, LeavesForError, Informed

\* The state of connection c, as a step of another leaves it.
Untouched(c) ==
  /\ pc'[c] = pc[c] /\ rpc'[c] = rpc[c] /\ loop'[c] = loop[c]
  /\ recv_error'[c] = recv_error[c] /\ merge_read'[c] = merge_read[c]
  /\ waited'[c] = waited[c]

LEMMA UntouchedInv ==
  ASSUME NEW c \in Conns, SessionInv(c), Untouched(c) PROVE SessionInv(c)'
BY DEF Untouched, SessionInv, ThreadOfSession, HandlerTakenOff, LeavesForError, Informed

\* The steps of the connection's coroutine.
LEMMA ConnectionIInv ==
  ASSUME IInv, NEW c \in Conns, Connection(c) PROVE IInv'
<1> USE PublishingAssumption DEF IInv, Typed
<1>1. CASE Publish(c)
  <2>1. Typed'
    BY <1>1 DEF Publish, TypeOK, ConnPc, RecvPc
  <2>2. SessionInv(c)'
    BY <1>1 DEF Publish, TypeOK, SessionInv, ThreadOfSession, HandlerTakenOff,
                LeavesForError, Informed
  <2>3. \A d \in Conns \ {c} : Untouched(d)
    BY <1>1 DEF Publish, TypeOK, Untouched
  <2> QED BY <2>1, <2>2, <2>3, UntouchedInv
<1>2. CASE Timeout(c)
  <2>1. Typed'
    BY <1>2 DEF Timeout, recvVars, TypeOK, ConnPc
  <2>2. SessionInv(c)'
    BY <1>2 DEF Timeout, recvVars, TypeOK, SessionInv, ThreadOfSession, HandlerTakenOff,
                LeavesForError, Informed
  <2>3. \A d \in Conns \ {c} : Untouched(d)
    BY <1>2 DEF Timeout, recvVars, TypeOK, Untouched
  <2> QED BY <2>1, <2>2, <2>3, UntouchedInv
<1>3. CASE CheckPublish(c)
  <2>1. Typed'
    <3>1. interrupted' \in [Conns -> BOOLEAN]
      <4>1. (rpc[c] # "done") \in BOOLEAN
        OBVIOUS
      <4>2. interrupted' = interrupted \/ interrupted' = [interrupted EXCEPT ![c] = rpc[c] # "done"]
        BY <1>3 DEF CheckPublish, StopRecv
      <4> QED BY <4>1, <4>2, Zenon DEF TypeOK
    <3>2. /\ pc' \in [Conns -> ConnPc] /\ loop' \in [Conns -> BOOLEAN]
          /\ waited' \in [Conns -> {"no", "signal", "timeout"}]
      BY <1>3 DEF CheckPublish, StopRecv, TypeOK, ConnPc
    <3>3. seen' = seen \/ seen' = [seen EXCEPT ![c] = nb_msgs[c]]
      BY <1>3 DEF CheckPublish
    <3>4. seen' \in [Conns -> Nat] /\ \A d \in Conns : seen'[d] \in 0 .. nb_msgs[d]
      BY <3>3 DEF TypeOK
    <3>5. UNCHANGED <<recvVars, peer>>
      BY <1>3 DEF CheckPublish
    <3> QED BY <3>1, <3>2, <3>4, <3>5 DEF TypeOK, recvVars
  <2>2. SessionInv(c)'
    BY <1>3 DEF CheckPublish, StopRecv, WaitBlocks, recvVars, TypeOK, SessionInv,
                ThreadOfSession, HandlerTakenOff, LeavesForError, Informed
  <2>3. \A d \in Conns \ {c} : Untouched(d)
    BY <1>3 DEF CheckPublish, StopRecv, recvVars, TypeOK, Untouched
  <2> QED BY <2>1, <2>2, <2>3, UntouchedInv
<1>4. CASE Join(c)
  <2>1. Typed'
    BY <1>4 DEF Join, ServiceCycle, TypeOK, ConnPc, RecvPc
  <2>2. SessionInv(c)'
    BY <1>4 DEF Join, ServiceCycle, TypeOK, SessionInv, ThreadOfSession, HandlerTakenOff,
                LeavesForError, Informed
  <2>3. \A d \in Conns \ {c} : Untouched(d)
    BY <1>4 DEF Join, TypeOK, Untouched
  <2> QED BY <2>1, <2>2, <2>3, UntouchedInv
<1>5. CASE EndOfStream(c)
  <2>1. Typed'
    BY <1>5 DEF EndOfStream, ServiceCycle, recvVars, TypeOK, ConnPc
  <2>2. SessionInv(c)'
    BY <1>5 DEF EndOfStream, ServiceCycle, recvVars, TypeOK, SessionInv, ThreadOfSession,
                HandlerTakenOff, LeavesForError, Informed
  <2>3. \A d \in Conns \ {c} : Untouched(d)
    BY <1>5 DEF EndOfStream, recvVars, TypeOK, Untouched
  <2> QED BY <2>1, <2>2, <2>3, UntouchedInv
<1> QED BY <1>1, <1>2, <1>3, <1>4, <1>5 DEF Connection

(***************************************************************************)
(* What a step of the receive thread may do to the session: go on inside   *)
(* its loop, leave because it was stopped, or leave with an error, which   *)
(* wakes do_publish.                                                       *)
(***************************************************************************)
GoesOn(c) ==
  /\ rpc[c] = "start" => loop[c]
  /\ \E r \in {"recv", "merge", "respond"} : rpc' = [rpc EXCEPT ![c] = r]
  /\ merge_read' \in [Conns -> BOOLEAN]
  /\ \A d \in Conns \ {c} : merge_read'[d] = merge_read[d]
  /\ UNCHANGED <<pc, waited, loop, recv_error>>

IsStopped(c) ==
  /\ ~loop[c] /\ RecvExit(c)
  /\ UNCHANGED <<loop, recv_error>>

IsBroken(c) ==
  /\ rpc[c] # "start"
  /\ \E e \in {"graceful", "other"} : recv_error' = [recv_error EXCEPT ![c] = e]
  /\ loop' = [loop EXCEPT ![c] = FALSE]
  /\ RecvExit(c)

LEMMA ReceiveSteps ==
  ASSUME IInv, NEW c \in Conns, Receive(c)
  PROVE  /\ rpc[c] \notin {"none", "done"}
         /\ GoesOn(c) \/ IsStopped(c) \/ IsBroken(c)
<1> USE DEF IInv, Typed, TypeOK
<1>1. ASSUME RecvAgain(c), UNCHANGED <<loop, recv_error>> PROVE GoesOn(c) \/ IsStopped(c)
  BY <1>1 DEF RecvAgain, GoesOn, IsStopped
<1>2. ASSUME Handle(c), rpc[c] # "start" PROVE GoesOn(c) \/ IsStopped(c)
  BY <1>1, <1>2 DEF Handle, GoesOn
<1>3. CASE RecvStart(c) \/ RespondDone(c)
  BY <1>1, <1>3 DEF RecvStart, RespondDone
<1>4. CASE RecvHandle(c)
  BY <1>2, <1>4 DEF RecvHandle
<1>5. CASE RecvPart(c)
  BY <1>5 DEF RecvPart, GoesOn, connVars
<1>6. CASE MergeDone(c)
  BY <1>2, <1>6 DEF MergeDone, GoesOn, connVars
<1>7. CASE RecvFail(c) \/ RecvBad(c)
  BY <1>7 DEF RecvFail, RecvBad, RecvError, IsBroken
<1> QED BY <1>3, <1>4, <1>5, <1>6, <1>7 DEF Receive

\* Counters and flags keep their types in the receive thread's steps.
LEMMA ReceiveTyped ==
  ASSUME IInv, NEW c \in Conns, Receive(c) PROVE Typed'
<1> USE PublishingAssumption DEF IInv, Typed, TypeOK
<1>1. /\ pc' \in [Conns -> ConnPc] /\ rpc' \in [Conns -> RecvPc]
      /\ loop' \in [Conns -> BOOLEAN] /\ merge_read' \in [Conns -> BOOLEAN]
      /\ recv_error' \in [Conns -> {"none", "graceful", "other"}]
      /\ waited' \in [Conns -> {"no", "signal", "timeout"}]
  <2>1. CASE GoesOn(c)
    <3>1. rpc' \in [Conns -> RecvPc]
      BY <2>1 DEF GoesOn, RecvPc
    <3>2. loop' = loop /\ merge_read' \in [Conns -> BOOLEAN]
      BY <2>1, Zenon DEF GoesOn
    <3>3. UNCHANGED <<pc, waited, recv_error>>
      BY <2>1 DEF GoesOn
    <3> QED BY <3>1, <3>2, <3>3
  <2>2. ASSUME RecvExit(c)
        PROVE  /\ pc' \in [Conns -> ConnPc] /\ rpc' \in [Conns -> RecvPc]
               /\ merge_read' \in [Conns -> BOOLEAN]
               /\ waited' \in [Conns -> {"no", "signal", "timeout"}]
    BY <2>2 DEF RecvExit, SignalError, ConnPc, RecvPc
  <2>3. CASE IsStopped(c)
    BY <2>2, <2>3 DEF IsStopped
  <2>4. CASE IsBroken(c)
    BY <2>2, <2>4 DEF IsBroken
  <2> QED BY <2>1, <2>3, <2>4, ReceiveSteps
<1>2. /\ interrupted' = interrupted \/ interrupted' = [interrupted EXCEPT ![c] = FALSE]
      /\ parts' = parts \/ (parts[c] < MaxParts /\ parts' = [parts EXCEPT ![c] = @ + 1])
      /\ nb_msgs' = nb_msgs \/ (nb_msgs[c] < MaxMsgs /\ nb_msgs' = [nb_msgs EXCEPT ![c] = @ + 1])
      /\ UNCHANGED <<seen, peer>>
  <2> USE DEF connVars, Handle
  <2>1. CASE RecvStart(c)
    BY <2>1 DEF RecvStart
  <2>2. CASE RecvHandle(c)
    BY <2>2 DEF RecvHandle
  <2>3. CASE RecvPart(c)
    BY <2>3 DEF RecvPart
  <2>4. CASE MergeDone(c)
    BY <2>4 DEF MergeDone
  <2>5. CASE RespondDone(c)
    BY <2>5 DEF RespondDone
  <2>6. CASE RecvFail(c) \/ RecvBad(c)
    BY <2>6 DEF RecvFail, RecvBad, RecvError
  <2> QED BY <2>1, <2>2, <2>3, <2>4, <2>5, <2>6 DEF Receive
<1>3. interrupted' \in [Conns -> BOOLEAN] /\ parts' \in [Conns -> 0 .. MaxParts]
  <2>1. interrupted' \in [Conns -> BOOLEAN]
    BY <1>2, Zenon
  <2>2. parts' \in [Conns -> 0 .. MaxParts]
    BY <1>2
  <2> QED BY <2>1, <2>2
<1>4. nb_msgs' \in [Conns -> 0 .. MaxMsgs] /\ \A d \in Conns : seen'[d] \in 0 .. nb_msgs'[d]
  BY <1>2
<1> QED BY <1>1, <1>2, <1>3, <1>4

\* The steps of the receive thread.
LEMMA ReceiveIInv ==
  ASSUME IInv, NEW c \in Conns, Receive(c) PROVE IInv'
<1> USE DEF IInv, Typed
<1>1. rpc[c] \notin {"none", "done"}
  BY ReceiveSteps
<1>2. SessionInv(c)'
  <2>1. CASE GoesOn(c)
    BY <1>1, <2>1 DEF GoesOn, TypeOK, SessionInv, ThreadOfSession, HandlerTakenOff,
                      LeavesForError, Informed
  <2>2. CASE IsStopped(c)
    BY <1>1, <2>2 DEF IsStopped, RecvExit, SignalError, TypeOK, SessionInv, ThreadOfSession,
                      HandlerTakenOff, LeavesForError, Informed
  <2>3. CASE IsBroken(c)
    BY <1>1, <2>3 DEF IsBroken, RecvExit, SignalError, TypeOK, SessionInv, ThreadOfSession,
                      HandlerTakenOff, LeavesForError, Informed
  <2> QED BY <2>1, <2>2, <2>3, ReceiveSteps
<1>3. \A d \in Conns \ {c} : Untouched(d)
  BY ReceiveSteps DEF GoesOn, IsStopped, IsBroken, RecvExit, SignalError, TypeOK, Untouched
<1> QED BY <1>2, <1>3, ReceiveTyped, UntouchedInv

\* Every step keeps the invariant.
LEMMA NextIInv == IInv /\ [Next]_vars => IInv'
<1> SUFFICES ASSUME IInv, [Next]_vars PROVE IInv'
  OBVIOUS
<1>1. ASSUME NEW c \in Conns, PeerStops(c) PROVE IInv'
  <2>1. Typed'
    BY <1>1 DEF PeerStops, connVars, recvVars, IInv, Typed, TypeOK
  <2>2. \A d \in Conns : Untouched(d)
    BY <1>1 DEF PeerStops, connVars, recvVars, Untouched
  <2> QED BY <2>1, <2>2, UntouchedInv DEF IInv
<1>2. CASE UNCHANGED vars
  <2>1. Typed'
    BY <1>2 DEF vars, connVars, recvVars, IInv, Typed, TypeOK
  <2>2. \A d \in Conns : Untouched(d)
    BY <1>2 DEF vars, connVars, recvVars, Untouched
  <2> QED BY <2>1, <2>2, UntouchedInv DEF IInv
<1> QED BY <1>1, <1>2, ConnectionIInv, ReceiveIInv DEF Next

LEMMA PublishInvariant == Spec => []IInv
BY InitIInv, NextIInv, PTL DEF Spec

\* The counters and flags of Publishing have their types: no session counts
\* past its messages, and do_publish never remembers more than were counted.
THEOREM PublishTypeOK == Spec => []TypeOK
<1>1. IInv => TypeOK
  BY DEF IInv, Typed
<1> QED BY <1>1, PublishInvariant, PTL

\* However the two coroutines interleave, PublishRecvThread::Wait does not
\* sleep on an error that OnRecvError has recorded.
THEOREM PublishNoLostError == Spec => []NoLostError
<1>1. IInv => NoLostError
  BY DEF IInv, SessionInv, Informed, NoLostError
<1> QED BY <1>1, PublishInvariant, PTL

\* do_publish leaves for a receive error or after a whole publish timeout,
\* never because OnThreadStop signalled.
THEOREM PublishGivenUpForCause == Spec => []GivenUpForCause
<1>1. IInv => GivenUpForCause
  BY DEF IInv, SessionInv, Informed, GivenUpForCause
<1> QED BY <1>1, PublishInvariant, PTL

\* Outside Publishing there is no receive thread and the buffer has no merged
\* read handler, so the handler that was destroyed is never called.
THEOREM PublishHandlerOutlivesUse == Spec => []HandlerOutlivesUse
<1>1. IInv => HandlerOutlivesUse
  BY DEF IInv, SessionInv, ThreadOfSession, HandlerTakenOff, HandlerOutlivesUse
<1> QED BY <1>1, PublishInvariant, PTL

(***************************************************************************)
(* The session and the promise of a Thread: what the state of the session  *)
(* says of its receive thread, as Coroutine sees it.                       *)
(***************************************************************************)
RecvPlaces == [c \in Conns |-> RecvPlace(c)]
RecvOwners == [c \in Conns |-> IF pc[c] = "join" THEN "stopping" ELSE "free"]

\* Where the receive thread of c is and what its owner does, after a step.
LEMMA SeenByCoroutine ==
  ASSUME NEW c \in Conns,
         \A d \in Conns \ {c} : rpc'[d] = rpc[d] /\ (pc'[d] = "join" <=> pc[d] = "join")
  PROVE  /\ RecvPlaces' = [RecvPlaces EXCEPT ![c] = RecvPlace(c)']
         /\ RecvOwners' = [RecvOwners EXCEPT
                             ![c] = IF pc'[c] = "join" THEN "stopping" ELSE "free"]
BY DEF RecvPlaces, RecvOwners, RecvPlace

\* A step after which the thread is where it was changes nothing for Coroutine.
LEMMA SeenTheSame ==
  ASSUME NEW c \in Conns, loop' = loop,
         \A d \in Conns \ {c} : rpc'[d] = rpc[d] /\ (pc'[d] = "join" <=> pc[d] = "join"),
         RecvPlace(c)' = RecvPlace(c), pc'[c] = "join" <=> pc[c] = "join"
  PROVE  [Receiver!Next]_(Receiver!vars)
<1>1. RecvPlaces' = RecvPlaces /\ RecvOwners' = RecvOwners
  BY SeenByCoroutine DEF RecvPlaces, RecvOwners
<1> QED BY <1>1 DEF Receiver!vars, RecvPlaces, RecvOwners

\* Publishing starts the thread, gives up, or has joined it.
LEMMA ConnectionPromise ==
  ASSUME IInv, NEW c \in Conns, Connection(c) PROVE [Receiver!Next]_(Receiver!vars)
<1> USE DEF IInv, Typed, TypeOK
<1>1. CASE Publish(c)
  <2>1. rpc[c] = "none"
    BY <1>1 DEF Publish, SessionInv, ThreadOfSession
  <2>2. RecvPlace(c) = "none" /\ RecvPlace(c)' = "created" /\ pc'[c] # "join"
    BY <1>1, <2>1 DEF Publish, RecvPlace
  <2>3. \A d \in Conns \ {c} : rpc'[d] = rpc[d] /\ (pc'[d] = "join" <=> pc[d] = "join")
    BY <1>1 DEF Publish
  <2>4. /\ RecvPlaces' = [RecvPlaces EXCEPT ![c] = "created"]
        /\ RecvOwners' = RecvOwners /\ RecvOwners[c] = "free"
    BY <1>1, <2>2, <2>3, SeenByCoroutine DEF Publish, RecvOwners
  <2>5. Receiver!Start(c)
    BY <1>1, <2>2, <2>4 DEF Publish, Receiver!Start, RecvPlaces, RecvOwners
  <2> QED BY <2>5 DEF Receiver!Next
<1>2. CASE Timeout(c) \/ EndOfStream(c)
  <2>1. UNCHANGED <<rpc, loop>>
    BY <1>2 DEF Timeout, EndOfStream, recvVars
  <2>2. \A d \in Conns : pc'[d] = "join" <=> pc[d] = "join"
    BY <1>2 DEF Timeout, EndOfStream, ServiceCycle
  <2> QED BY <2>1, <2>2, SeenTheSame DEF RecvPlace
<1>3. CASE CheckPublish(c)
  <2>1. CASE StopRecv(c)
    <3>1. rpc' = rpc /\ rpc[c] # "none" /\ pc[c] = "woken" /\ pc'[c] = "join"
      BY <1>3, <2>1 DEF CheckPublish, StopRecv, recvVars, SessionInv, ThreadOfSession
    <3>2. RecvPlaces' = RecvPlaces
      BY <3>1 DEF RecvPlaces, RecvPlace
    <3>3. \A d \in Conns \ {c} : rpc'[d] = rpc[d] /\ (pc'[d] = "join" <=> pc[d] = "join")
      BY <2>1, <3>1 DEF StopRecv
    <3>4. RecvOwners' = [RecvOwners EXCEPT ![c] = "stopping"] /\ RecvOwners[c] = "free"
      BY <3>1, <3>3, SeenByCoroutine DEF RecvOwners
    <3>5. RecvPlaces[c] # "none"
      BY <3>1 DEF RecvPlaces, RecvPlace
    <3>6. loop' = [loop EXCEPT ![c] = FALSE]
      BY <2>1 DEF StopRecv
    <3>7. Receiver!Stop(c)
      BY <3>2, <3>4, <3>5, <3>6 DEF Receiver!Stop, RecvPlaces, RecvOwners
    <3> QED BY <3>7 DEF Receiver!Next
  <2>2. CASE ~StopRecv(c)
    <3>1. UNCHANGED <<rpc, loop>>
      BY <1>3, <2>2 DEF CheckPublish, recvVars
    <3>2. \A d \in Conns : pc'[d] = "join" <=> pc[d] = "join"
      BY <1>3, <2>2 DEF CheckPublish
    <3> QED BY <3>1, <3>2, SeenTheSame DEF RecvPlace
  <2> QED BY <2>1, <2>2
<1>4. CASE Join(c)
  <2>1. /\ RecvPlace(c) = "done" /\ RecvPlace(c)' = "none"
        /\ pc[c] = "join" /\ pc'[c] # "join" /\ loop' = loop
    BY <1>4 DEF Join, ServiceCycle, RecvPlace
  <2>2. \A d \in Conns \ {c} : rpc'[d] = rpc[d] /\ (pc'[d] = "join" <=> pc[d] = "join")
    BY <1>4 DEF Join
  <2>3. /\ RecvPlaces' = [RecvPlaces EXCEPT ![c] = "none"]
        /\ RecvOwners' = [RecvOwners EXCEPT ![c] = "free"]
    BY <2>1, <2>2, SeenByCoroutine
  <2>4. Receiver!Stopped(c)
    BY <2>1, <2>3 DEF Receiver!Stopped, RecvPlaces, RecvOwners
  <2> QED BY <2>4 DEF Receiver!Next
<1> QED BY <1>1, <1>2, <1>3, <1>4 DEF Connection

\* The thread begins, goes on, or leaves because it was stopped or by itself.
LEMMA ReceivePromise ==
  ASSUME IInv, NEW c \in Conns, Receive(c) PROVE [Receiver!Next]_(Receiver!vars)
<1> USE DEF IInv, Typed, TypeOK
<1>1. /\ rpc[c] \notin {"none", "done"}
      /\ \A d \in Conns \ {c} : rpc'[d] = rpc[d] /\ (pc'[d] = "join" <=> pc[d] = "join")
      /\ pc'[c] = "join" <=> pc[c] = "join"
  BY ReceiveSteps DEF GoesOn, IsStopped, IsBroken, RecvExit, SignalError
<1>2. /\ RecvPlaces' = [RecvPlaces EXCEPT ![c] = RecvPlace(c)']
      /\ RecvOwners' = RecvOwners
  <2>1. /\ RecvPlaces' = [RecvPlaces EXCEPT ![c] = RecvPlace(c)']
        /\ RecvOwners' = [RecvOwners EXCEPT
                            ![c] = IF pc'[c] = "join" THEN "stopping" ELSE "free"]
    <3>1. \A d \in Conns \ {c} : rpc'[d] = rpc[d] /\ (pc'[d] = "join" <=> pc[d] = "join")
      BY <1>1
    <3> QED BY <3>1, SeenByCoroutine
  <2>2. (IF pc'[c] = "join" THEN "stopping" ELSE "free") = RecvOwners[c]
    BY <1>1 DEF RecvOwners
  <2>3. [RecvOwners EXCEPT ![c] = RecvOwners[c]] = RecvOwners
    BY DEF RecvOwners
  <2> QED BY <2>1, <2>2, <2>3
<1>3. CASE GoesOn(c)
  <2>1. RecvPlace(c)' = "running" /\ loop' = loop
    BY <1>3 DEF GoesOn, RecvPlace
  <2>2. CASE rpc[c] = "start"
    <3>1. loop[c] /\ RecvPlace(c) = "created"
      BY <1>3, <2>2 DEF GoesOn, RecvPlace
    <3>2. Receiver!Begin(c)
      BY <1>2, <2>1, <3>1 DEF Receiver!Begin, RecvPlaces, RecvOwners
    <3> QED BY <3>2 DEF Receiver!Next
  <2>3. CASE rpc[c] # "start"
    <3>1. RecvPlace(c) = "running"
      BY <1>1, <2>3 DEF RecvPlace
    <3> QED BY <1>1, <2>1, <3>1, SeenTheSame
  <2> QED BY <2>2, <2>3
<1>4. CASE IsStopped(c)
  <2>1. RecvPlace(c)' = "done" /\ loop' = loop /\ ~loop[c]
    BY <1>4 DEF IsStopped, RecvExit, RecvPlace
  <2>2. CASE rpc[c] = "start"
    <3>1. RecvPlace(c) = "created"
      BY <2>2 DEF RecvPlace
    <3>2. Receiver!Begin(c)
      BY <1>2, <2>1, <3>1 DEF Receiver!Begin, RecvPlaces, RecvOwners
    <3> QED BY <3>2 DEF Receiver!Next
  <2>3. CASE rpc[c] # "start"
    <3>1. RecvPlace(c) = "running"
      BY <1>1, <2>3 DEF RecvPlace
    <3>2. loop' = [loop EXCEPT ![c] = FALSE]
      BY <2>1
    <3>3. Receiver!Leave(c)
      BY <1>2, <2>1, <3>1, <3>2 DEF Receiver!Leave, RecvPlaces, RecvOwners
    <3> QED BY <3>3 DEF Receiver!Next
  <2> QED BY <2>2, <2>3
<1>5. CASE IsBroken(c)
  <2>1. /\ RecvPlace(c)' = "done" /\ RecvPlace(c) = "running"
        /\ loop' = [loop EXCEPT ![c] = FALSE]
    BY <1>1, <1>5 DEF IsBroken, RecvExit, RecvPlace
  <2>2. Receiver!Leave(c)
    BY <1>2, <2>1 DEF Receiver!Leave, RecvPlaces, RecvOwners
  <2> QED BY <2>2 DEF Receiver!Next
<1> QED BY <1>3, <1>4, <1>5, ReceiveSteps

(***************************************************************************)
(* Publishing uses its receive thread as a Thread behaves: all it takes of *)
(* Thread::Start, Dispatch, StopLoop and Stop is what Coroutine allows.    *)
(***************************************************************************)
THEOREM PublishReceiverIsThread == Spec => ReceiverIsThread
<1>1. Init => Receiver!Init
  <2> SUFFICES ASSUME Init PROVE Receiver!Init
    OBVIOUS
  <2>1. RecvPlaces = [c \in Conns |-> "none"] /\ RecvOwners = [c \in Conns |-> "free"]
    BY DEF Init, RecvPlaces, RecvOwners, RecvPlace
  <2> QED BY <2>1 DEF Init, Receiver!Init, RecvPlaces, RecvOwners
<1>2. IInv /\ [Next]_vars => [Receiver!Next]_(Receiver!vars)
  <2> SUFFICES ASSUME IInv, [Next]_vars PROVE [Receiver!Next]_(Receiver!vars)
    OBVIOUS
  <2>1. CASE UNCHANGED <<pc, rpc, loop>>
    BY <2>1 DEF Receiver!vars, RecvPlace
  <2>2. ASSUME NEW c \in Conns, PeerStops(c) PROVE UNCHANGED <<pc, rpc, loop>>
    BY <2>2 DEF PeerStops, connVars, recvVars
  <2>3. CASE UNCHANGED vars
    BY <2>1, <2>3 DEF vars, connVars, recvVars
  <2> QED BY <2>1, <2>2, <2>3, ConnectionPromise, ReceivePromise DEF Next
<1> QED BY <1>1, <1>2, InitIInv, NextIInv, PTL DEF Spec, ReceiverIsThread, Receiver!Safety
-----------------------------------------------------------------------------
(***************************************************************************)
(* Thread: for any number of objects, each started any number of times.    *)
(***************************************************************************)

\* st_ is null or the newest coroutine, which is the only one that may be alive.
Current(t) ==
  /\ st_[t] \in {0, starts[t]}
  /\ st_[t] # 0 => co[t][st_[t]] # "none"
  /\ \A k \in Runs : Alive(t, k) => k = st_[t]

\* Start's flags hold while there is a coroutine, and Stop's while it is being stopped.
Flags(t) ==
  /\ st_[t] # 0 => ~disposed_[t]
  /\ owner[t] = "stopping" => st_[t] # 0 /\ ~loop_[t]

\* A coroutine that has left its loop said so.
SaysDone(t) == st_[t] # 0 /\ co[t][st_[t]] = "done" => really_terminated_[t]

ThreadInv == ThreadTypeOK /\ \A t \in Threads : Current(t) /\ Flags(t) /\ SaysDone(t)

\* A new object has no coroutine.
LEMMA InitThreadInv == ThreadInit => ThreadInv
BY ThreadAssumption
   DEF ThreadInit, ThreadInv, ThreadTypeOK, Current, Flags, SaysDone, Alive, CoPlace, Runs

\* The state of object u, as a step of another leaves it.
SameThread(u) ==
  /\ st_'[u] = st_[u] /\ loop_'[u] = loop_[u] /\ disposed_'[u] = disposed_[u]
  /\ really_terminated_'[u] = really_terminated_[u] /\ starts'[u] = starts[u]
  /\ co'[u] = co[u] /\ owner'[u] = owner[u]

LEMMA SameThreadInv ==
  ASSUME NEW u \in Threads, Current(u), Flags(u), SaysDone(u), SameThread(u)
  PROVE  Current(u)' /\ Flags(u)' /\ SaysDone(u)'
BY DEF SameThread, Current, Flags, SaysDone, Alive

\* The steps of the owner.
LEMMA OwnerThreadInv ==
  ASSUME ThreadInv, NEW t \in Threads, Start(t) \/ Stop(t) \/ Dispose(t)
  PROVE  ThreadInv'
<1> USE ThreadAssumption DEF ThreadInv
<1>1. CASE Start(t)
  <2>1. starts[t] + 1 \in Runs /\ starts[t] \in Nat
    BY <1>1 DEF Start, ThreadTypeOK, Runs
  <2>2. ThreadTypeOK'
    BY <1>1, <2>1 DEF Start, MoveTo, ThreadTypeOK, CoPlace, Runs
  <2>3. /\ st_'[t] = starts[t] + 1 /\ starts'[t] = starts[t] + 1
        /\ co'[t] = [co[t] EXCEPT ![starts[t] + 1] = "created"]
        /\ disposed_'[t] = FALSE /\ owner'[t] = "free" /\ st_[t] = 0
    BY <1>1 DEF Start, MoveTo, ThreadTypeOK
  <2>4. Current(t)' /\ Flags(t)' /\ SaysDone(t)'
    BY <2>1, <2>3 DEF ThreadTypeOK, Current, Flags, SaysDone, Alive, Runs
  <2>5. \A u \in Threads \ {t} : SameThread(u)
    BY <1>1 DEF Start, MoveTo, ThreadTypeOK, SameThread
  <2> QED BY <2>2, <2>4, <2>5, SameThreadInv
<1>2. CASE Stop(t)
  <2>1. ~disposed_[t] /\ st_[t] # 0
    BY <1>2 DEF Stop, Flags
  <2>2. ThreadTypeOK'
    BY <1>2, <2>1 DEF Stop, ThreadTypeOK
  <2>3. Current(t)' /\ Flags(t)' /\ SaysDone(t)'
    BY <1>2, <2>1 DEF Stop, ThreadTypeOK, Current, Flags, SaysDone, Alive
  <2>4. \A u \in Threads \ {t} : SameThread(u)
    BY <1>2, <2>1 DEF Stop, ThreadTypeOK, SameThread
  <2> QED BY <2>2, <2>3, <2>4, SameThreadInv
<1>3. CASE Dispose(t)
  <2>1. ThreadTypeOK'
    BY <1>3 DEF Dispose, Release, ThreadTypeOK
  <2>2. Current(t)' /\ Flags(t)' /\ SaysDone(t)'
    BY <1>3 DEF Dispose, Release, ThreadTypeOK, Current, Flags, SaysDone, Alive
  <2>3. \A u \in Threads \ {t} : SameThread(u)
    BY <1>3 DEF Dispose, Release, ThreadTypeOK, SameThread
  <2> QED BY <2>1, <2>2, <2>3, SameThreadInv
<1> QED BY <1>1, <1>2, <1>3

\* The steps of the coroutine.
LEMMA CoroutineThreadInv ==
  ASSUME ThreadInv, NEW t \in Threads, NEW k \in Runs,
         Dispatch(t, k) \/ StopLoop(t, k) \/ CycleEnds(t, k)
  PROVE  ThreadInv' /\ k = st_[t]
<1> USE ThreadAssumption DEF ThreadInv
<1>1. k = st_[t] /\ k # 0
  BY DEF Dispatch, StopLoop, CycleEnds, Current, Alive, Runs
<1>2. CASE Dispatch(t, k)
  <2>1. (~loop_[t]) \in BOOLEAN
    OBVIOUS
  <2>2. really_terminated_' = [really_terminated_ EXCEPT ![t] = ~loop_[t]]
    BY <1>2 DEF Dispatch
  <2>3. really_terminated_' \in [Threads -> BOOLEAN]
    BY <2>1, <2>2, Zenon DEF ThreadTypeOK
  <2>4. /\ co' = [co EXCEPT ![t][k] = IF loop_[t] THEN "cycle" ELSE "done"]
        /\ UNCHANGED <<st_, loop_, can_run_, disposed_, starts, owner>>
    BY <1>2 DEF Dispatch, MoveTo
  <2>5. co' \in [Threads -> [Runs -> CoPlace]]
    BY <2>4 DEF ThreadTypeOK, CoPlace
  <2>6. ThreadTypeOK'
    BY <2>3, <2>4, <2>5 DEF ThreadTypeOK
  <2>7. really_terminated_'[t] <=> ~loop_[t]
    BY <2>2 DEF ThreadTypeOK
  <2>8. Current(t)' /\ Flags(t)' /\ SaysDone(t)'
    BY <1>1, <2>4, <2>7 DEF ThreadTypeOK, Current, Flags, SaysDone, Alive
  <2>9. \A u \in Threads \ {t} : SameThread(u)
    BY <2>2, <2>4 DEF ThreadTypeOK, SameThread
  <2> QED BY <1>1, <2>6, <2>8, <2>9, SameThreadInv
<1>3. CASE StopLoop(t, k)
  <2>1. ThreadTypeOK'
    BY <1>3 DEF StopLoop, ThreadTypeOK
  <2>2. Current(t)' /\ Flags(t)' /\ SaysDone(t)'
    BY <1>3 DEF StopLoop, ThreadTypeOK, Current, Flags, SaysDone, Alive
  <2>3. \A u \in Threads \ {t} : SameThread(u)
    BY <1>3 DEF StopLoop, ThreadTypeOK, SameThread
  <2> QED BY <1>1, <2>1, <2>2, <2>3, SameThreadInv
<1>4. CASE CycleEnds(t, k)
  <2>1. ThreadTypeOK'
    BY <1>4 DEF CycleEnds, MoveTo, ThreadTypeOK, CoPlace
  <2>2. Current(t)' /\ Flags(t)' /\ SaysDone(t)'
    BY <1>1, <1>4 DEF CycleEnds, MoveTo, ThreadTypeOK, Current, Flags, SaysDone, Alive
  <2>3. \A u \in Threads \ {t} : SameThread(u)
    BY <1>4 DEF CycleEnds, MoveTo, ThreadTypeOK, SameThread
  <2> QED BY <1>1, <2>1, <2>2, <2>3, SameThreadInv
<1> QED BY <1>2, <1>3, <1>4

\* Every step keeps the invariant.
LEMMA NextThreadInv == ThreadInv /\ [ThreadNext]_threadVars => ThreadInv'
<1> SUFFICES ASSUME ThreadInv, [ThreadNext]_threadVars PROVE ThreadInv'
  OBVIOUS
<1>1. CASE UNCHANGED threadVars
  BY <1>1 DEF threadVars, ThreadInv, ThreadTypeOK, Current, Flags, SaysDone, Alive
<1> QED BY <1>1, OwnerThreadInv, CoroutineThreadInv DEF ThreadNext

LEMMA ThreadInvariant == ThreadSpec => []ThreadInv
BY InitThreadInv, NextThreadInv, PTL DEF ThreadSpec

\* However often an object is started and stopped, at most one coroutine
\* serves its handler, and none once Thread::Stop has returned.
THEOREM ThreadOnlyCurrentAlive == ThreadSpec => [](ThreadTypeOK /\ OnlyCurrentAlive)
<1>1. ThreadInv => ThreadTypeOK /\ OnlyCurrentAlive
  BY DEF ThreadInv, Current, OnlyCurrentAlive
<1> QED BY <1>1, ThreadInvariant, PTL

\* After the join in Thread::Dispose, really_terminated_ is set: the loop
\* that waits for it is never entered.
THEOREM ThreadDisposeReturns == ThreadSpec => []DisposeReturns
<1>1. ThreadInv => DisposeReturns
  BY DEF ThreadInv, Flags, SaysDone, DisposeReturns
<1> QED BY <1>1, ThreadInvariant, PTL

\* The places of all objects, as Coroutine sees them.
Places == [t \in Threads |-> Place(t)]

\* A step of object t moves its own place only.
LEMMA PlaceMoves ==
  ASSUME NEW t \in Threads, \A u \in Threads \ {t} : SameThread(u)
  PROVE  Places' = [Places EXCEPT ![t] = Place(t)']
<1>1. \A u \in Threads \ {t} : Place(u)' = Place(u)
  BY DEF SameThread, Place
<1> QED BY <1>1 DEF Places

\* What each operation of an owner is to a Coroutine.
LEMMA OwnerPromise ==
  ASSUME ThreadInv, NEW t \in Threads, Start(t) \/ Stop(t) \/ Dispose(t)
  PROVE  [Promise!Next]_(Promise!vars)
<1> USE ThreadAssumption DEF ThreadInv
<1>1. CASE Start(t)
  <2>1. starts[t] + 1 \in Runs /\ starts[t] \in Nat
    BY <1>1 DEF Start, ThreadTypeOK, Runs
  <2>2. Place(t) = "none" /\ Place(t)' = "created"
    <3>1. st_'[t] = starts[t] + 1 /\ co'[t][starts[t] + 1] = "created" /\ st_[t] = 0
      BY <1>1, <2>1 DEF Start, MoveTo, ThreadTypeOK
    <3> QED BY <2>1, <3>1 DEF Place
  <2>3. \A u \in Threads \ {t} : SameThread(u)
    BY <1>1 DEF Start, MoveTo, ThreadTypeOK, SameThread
  <2>4. Places' = [Places EXCEPT ![t] = "created"]
    BY <2>2, <2>3, PlaceMoves
  <2>5. Promise!Start(t)
    BY <1>1, <2>2, <2>4 DEF Start, Promise!Start, Places
  <2> QED BY <2>5 DEF Promise!Next
<1>2. CASE Stop(t)
  <2>1. ~disposed_[t] /\ st_[t] # 0 /\ Place(t) # "none"
    BY <1>2 DEF Stop, Flags, Current, Place
  <2>2. UNCHANGED <<st_, co>>
    BY <1>2, <2>1 DEF Stop
  <2>3. Places' = Places
    BY <2>2 DEF Places, Place
  <2>4. Promise!Stop(t)
    BY <1>2, <2>1, <2>3 DEF Stop, Promise!Stop, Places
  <2> QED BY <2>4 DEF Promise!Next
<1>3. CASE Dispose(t)
  <2>1. Place(t) = "done" /\ Place(t)' = "none"
    BY <1>3 DEF Dispose, Release, Flags, ThreadTypeOK, Place
  <2>2. \A u \in Threads \ {t} : SameThread(u)
    BY <1>3 DEF Dispose, Release, ThreadTypeOK, SameThread
  <2>3. Places' = [Places EXCEPT ![t] = "none"]
    BY <2>1, <2>2, PlaceMoves
  <2>4. Promise!Stopped(t)
    BY <1>3, <2>1, <2>3 DEF Dispose, Promise!Stopped, Places
  <2> QED BY <2>4 DEF Promise!Next
<1> QED BY <1>1, <1>2, <1>3

\* What each step of the coroutine is.
LEMMA CoroutinePromise ==
  ASSUME ThreadInv, NEW t \in Threads, NEW k \in Runs,
         Dispatch(t, k) \/ StopLoop(t, k) \/ CycleEnds(t, k)
  PROVE  [Promise!Next]_(Promise!vars)
<1> USE DEF ThreadInv
<1>1. k = st_[t] /\ k # 0 /\ st_[t] \in Runs
  BY CoroutineThreadInv DEF Runs
<1>2. CASE Dispatch(t, k)
  <2>1. Place(t) = "created" /\ Place(t)' = IF loop_[t] THEN "running" ELSE "done"
    BY <1>1, <1>2 DEF Dispatch, MoveTo, ThreadTypeOK, Place
  <2>2. \A u \in Threads \ {t} : SameThread(u)
    BY <1>2 DEF Dispatch, MoveTo, ThreadTypeOK, SameThread
  <2>3. Places' = [Places EXCEPT ![t] = IF loop_[t] THEN "running" ELSE "done"]
    BY <2>1, <2>2, PlaceMoves
  <2>4. Promise!Begin(t)
    BY <1>2, <2>1, <2>3 DEF Dispatch, Promise!Begin, Places
  <2> QED BY <2>4 DEF Promise!Next
<1>3. CASE StopLoop(t, k)
  <2>1. Place(t) = "running" /\ Places' = Places
    BY <1>1, <1>3 DEF StopLoop, Place, Places
  <2>2. Promise!StopLoop(t)
    BY <1>3, <2>1 DEF StopLoop, Promise!StopLoop, Places
  <2> QED BY <2>2 DEF Promise!Next
<1>4. CASE CycleEnds(t, k)
  <2>1. Place(t) = "running" /\ Place(t)' = "done"
    BY <1>1, <1>4 DEF CycleEnds, MoveTo, ThreadTypeOK, Place
  <2>2. \A u \in Threads \ {t} : SameThread(u)
    BY <1>4 DEF CycleEnds, MoveTo, ThreadTypeOK, SameThread
  <2>3. Places' = [Places EXCEPT ![t] = "done"]
    BY <2>1, <2>2, PlaceMoves
  <2>4. loop_' = [loop_ EXCEPT ![t] = FALSE]
    BY <1>4 DEF CycleEnds, ThreadTypeOK
  <2>5. Promise!Leave(t)
    BY <1>4, <2>1, <2>3, <2>4 DEF CycleEnds, Promise!Leave, Places
  <2> QED BY <2>5 DEF Promise!Next
<1> QED BY <1>2, <1>3, <1>4

(***************************************************************************)
(* A Thread implements Coroutine: a stop before the first schedule, a      *)
(* StopLoop of the coroutine's own and a restart are all as promised.      *)
(***************************************************************************)
THEOREM ThreadKeepsPromise == ThreadSpec => KeepsPromise
<1>1. ThreadInit => Promise!Init
  <2> SUFFICES ASSUME ThreadInit PROVE Promise!Init
    OBVIOUS
  <2>1. Places = [t \in Threads |-> "none"]
    BY DEF ThreadInit, Places, Place
  <2> QED BY <2>1 DEF ThreadInit, Promise!Init, Places
<1>2. ThreadInv /\ [ThreadNext]_threadVars => [Promise!Next]_(Promise!vars)
  <2> SUFFICES ASSUME ThreadInv, [ThreadNext]_threadVars PROVE [Promise!Next]_(Promise!vars)
    OBVIOUS
  <2>1. CASE UNCHANGED threadVars
    BY <2>1 DEF threadVars, Promise!vars, Place
  <2> QED BY <2>1, OwnerPromise, CoroutinePromise DEF ThreadNext
<1> QED BY <1>1, <1>2, ThreadInvariant, InitThreadInv, NextThreadInv, PTL
        DEF ThreadSpec, KeepsPromise, Promise!Safety
=============================================================================
