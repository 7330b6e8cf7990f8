----------------------------- MODULE Publishing -----------------------------
(***************************************************************************)
(* Publishers of one stream: for each connection, RTMPConnection::         *)
(* Publishing and do_publish on the connection's coroutine, and its        *)
(* PublishRecvThread on a second one, which receives the messages and      *)
(* hands them to the Source.                                               *)
(*                                                                         *)
(* As in Playing, an action is what a coroutine runs between two blocking  *)
(* calls.  What the client says before it publishes (StreamServiceCycle up *)
(* to Publishing) is one step of its connection; expired_ is never set.    *)
(***************************************************************************)
EXTENDS Integers

CONSTANTS Conns,      \* the connections that publish
          MaxMsgs,    \* messages received in one session
          MaxParts    \* small reads that do not complete a message, per session

ASSUME PublishingAssumption == MaxMsgs \in Nat /\ MaxParts \in Nat

VARIABLES
  pc,             \* where the connection's coroutine is
  rpc,            \* where its receive coroutine is
  loop,           \* Thread::loop_
  interrupted,    \* st_thread_interrupt called and not yet delivered
  recv_error,     \* recv_error_code_: "none", "graceful" or "other"
  nb_msgs,        \* PublishRecvThread::nb_msgs_
  seen,           \* nb_msgs of do_publish
  merge_read,     \* merge_read_ of the receive buffer, with recv_thread as its handler
  peer,           \* the publisher's end of the socket: "open", "silent" or "closed"
  parts,          \* small reads so far in this session
  waited          \* how the last Wait ended: "no", "signal" or "timeout"

connVars == <<pc, seen, waited>>
recvVars == <<rpc, recv_error, nb_msgs, merge_read, parts>>
vars == <<connVars, recvVars, loop, interrupted, peer>>

(***************************************************************************)
(* pc:  serve    in StreamServiceCycle, reading the socket itself          *)
(*      spin     in the loop of ServiceCycle at the end of the stream: each *)
(*               st_read returns 0 at once, and nothing in the loop yields  *)
(*      ended    ServiceCycle has returned                                  *)
(*      wait     in st_cond_timedwait                                      *)
(*      woken    signalled or timed out, runnable                          *)
(*      join     in Thread::Stop, joining the receive thread               *)
(* rpc: none     there is no receive thread                                *)
(*      start    created, not yet scheduled                                *)
(*      recv     in RecvMessage, reading the socket, with no timeout       *)
(*      merge    in RecvMessage, in the st_usleep of OnRead                *)
(*      respond  in FMLEUnPublish, sending                                 *)
(*      done     Dispatch has returned                                     *)
(***************************************************************************)
ConnPc == {"serve", "spin", "ended", "wait", "woken", "join"}
RecvPc == {"none", "start", "recv", "merge", "respond", "done"}

Init ==
  /\ pc = [c \in Conns |-> "serve"] /\ rpc = [c \in Conns |-> "none"]
  /\ loop = [c \in Conns |-> FALSE] /\ interrupted = [c \in Conns |-> FALSE]
  /\ recv_error = [c \in Conns |-> "none"]
  /\ nb_msgs = [c \in Conns |-> 0] /\ seen = [c \in Conns |-> 0]
  /\ merge_read = [c \in Conns |-> FALSE]
  /\ peer = [c \in Conns |-> "open"]
  /\ parts = [c \in Conns |-> 0]
  /\ waited = [c \in Conns |-> "no"]
-----------------------------------------------------------------------------
(***************************************************************************)
(* The connection's coroutine.                                             *)
(***************************************************************************)

\* disposed_: only the destructor calls Connection::Dispose, and nobody deletes a connection.
Disposed == FALSE

(***************************************************************************)
(* StreamServiceCycle called by the loop of ServiceCycle: it reads the     *)
(* socket, and at the end of the stream fails and is called again.         *)
(***************************************************************************)
ServiceCycle(c) ==
  IF peer[c] # "closed" THEN "serve" ELSE IF Disposed THEN "ended" ELSE "spin"

\* The end of the stream reaches a connection that is not publishing.
EndOfStream(c) ==
  /\ pc[c] = "serve" /\ peer[c] = "closed"
  /\ pc' = [pc EXCEPT ![c] = ServiceCycle(c)]
  /\ UNCHANGED <<seen, waited, recvVars, loop, interrupted, peer>>

\* Source::CanPublish: can_publish_ is set by the constructor and never cleared.
CanPublish == TRUE

(***************************************************************************)
(* A client that asks to publish: acquire_publish, a new PublishRecvThread *)
(* and the start of do_publish, up to its first Wait.                      *)
(***************************************************************************)
Publish(c) ==
  /\ pc[c] = "serve" /\ peer[c] = "open"
  /\ CanPublish
  /\ pc' = [pc EXCEPT ![c] = "wait"]
  /\ seen' = [seen EXCEPT ![c] = 0]
  /\ waited' = [waited EXCEPT ![c] = "no"]
  /\ rpc' = [rpc EXCEPT ![c] = "start"]
  /\ loop' = [loop EXCEPT ![c] = TRUE]
  /\ recv_error' = [recv_error EXCEPT ![c] = "none"]
  /\ nb_msgs' = [nb_msgs EXCEPT ![c] = 0]
  /\ parts' = [parts EXCEPT ![c] = 0]
  /\ interrupted' = [interrupted EXCEPT ![c] = FALSE]
  /\ UNCHANGED <<merge_read, peer>>

\* The time of PublishRecvThread::Wait is up.
Timeout(c) ==
  /\ pc[c] = "wait"
  /\ pc' = [pc EXCEPT ![c] = "woken"]
  /\ waited' = [waited EXCEPT ![c] = "timeout"]
  /\ UNCHANGED <<seen, recvVars, loop, interrupted, peer>>

\* Mutant: a publisher is kept as long as it has sent anything at all.
GivesUpOnce(c) == recv_error[c] = "other" \/ nb_msgs[c] = 0

\* The tests of do_publish after Wait.
GivesUp(c) == recv_error[c] = "other" \/ nb_msgs[c] <= seen[c]

\* Leave do_publish; Publishing stops the thread: clear loop_, interrupt, join.
StopRecv(c) ==
  /\ loop' = [loop EXCEPT ![c] = FALSE]
  /\ interrupted' = [interrupted EXCEPT ![c] = rpc[c] # "done"]
  /\ pc' = [pc EXCEPT ![c] = "join"]

\* Mutant: Wait blocks without a look at recv_error_code_.
WaitsBlindly(c) == TRUE

\* Wait blocks unless an error is already there.
WaitBlocks(c) == recv_error[c] = "none"

(***************************************************************************)
(* Wait has returned: give up, or remember the count and Wait again.  A    *)
(* graceful error makes Wait return at once and the next test gives up.    *)
(***************************************************************************)
CheckPublish(c) ==
  /\ pc[c] = "woken"
  /\ \/ /\ GivesUp(c)
        /\ StopRecv(c)
        /\ UNCHANGED <<seen, waited>>
     \/ /\ ~GivesUp(c)
        /\ seen' = [seen EXCEPT ![c] = nb_msgs[c]]
        /\ waited' = [waited EXCEPT ![c] = "no"]
        /\ pc' = [pc EXCEPT ![c] = IF WaitBlocks(c) THEN "wait" ELSE "woken"]
        /\ UNCHANGED <<loop, interrupted>>
  /\ UNCHANGED <<recvVars, peer>>

\* Mutant: Stop does not wait for the thread.
JoinAtOnce(c) ==
  /\ pc[c] = "join"
  /\ pc' = [pc EXCEPT ![c] = ServiceCycle(c)]
  /\ rpc' = [rpc EXCEPT ![c] = "none"]
  /\ UNCHANGED <<seen, waited, recv_error, nb_msgs, merge_read, parts, loop, interrupted, peer>>

\* st_thread_join returns; Publishing returns to the loop of ServiceCycle.
Join(c) ==
  /\ pc[c] = "join" /\ rpc[c] = "done"
  /\ pc' = [pc EXCEPT ![c] = ServiceCycle(c)]
  /\ rpc' = [rpc EXCEPT ![c] = "none"]
  /\ UNCHANGED <<seen, waited, recv_error, nb_msgs, merge_read, parts, loop, interrupted, peer>>
-----------------------------------------------------------------------------
(***************************************************************************)
(* The receive thread.                                                     *)
(***************************************************************************)

\* st_cond_signal(error_): at OnRecvError and at OnThreadStop.
SignalError(c) ==
  IF pc[c] = "wait"
  THEN /\ pc' = [pc EXCEPT ![c] = "woken"]
       /\ waited' = [waited EXCEPT ![c] = "signal"]
  ELSE UNCHANGED <<pc, waited>>

\* Mutant: the handler stays on the buffer after the thread has left.
RecvExitKeepsHandler(c) ==
  /\ rpc' = [rpc EXCEPT ![c] = "done"]
  /\ merge_read' = merge_read
  /\ SignalError(c)

\* Leave Dispatch: OnThreadStop takes the merged-read handler off the buffer.
RecvExit(c) ==
  /\ rpc' = [rpc EXCEPT ![c] = "done"]
  /\ merge_read' = [merge_read EXCEPT ![c] = FALSE]
  /\ SignalError(c)

\* The head of the loop of Cycle.
RecvAgain(c) ==
  IF loop[c]
  THEN /\ rpc' = [rpc EXCEPT ![c] = "recv"]
       /\ merge_read' = [merge_read EXCEPT ![c] = TRUE]
       /\ UNCHANGED <<pc, waited>>
  ELSE RecvExit(c)

\* Dispatch begins: OnThreadStart, then the loop if it may still run.
RecvStart(c) ==
  /\ rpc[c] = "start"
  /\ RecvAgain(c)
  /\ UNCHANGED <<seen, recv_error, nb_msgs, parts, loop, interrupted, peer>>

(***************************************************************************)
(* A whole message: Handle counts it.  Media goes to the Source; a command *)
(* may be an unpublish, which is answered (RTMPServer::DecodeMessage       *)
(* returns no value, so any command may be taken for a failure).  Cycle    *)
(* ignores what Handle returns, ERROR_CONTROL_REPUBLISH included.          *)
(***************************************************************************)
Handle(c) ==
  /\ nb_msgs[c] < MaxMsgs
  /\ nb_msgs' = [nb_msgs EXCEPT ![c] = @ + 1]
  /\ \/ RecvAgain(c)
     \/ /\ rpc' = [rpc EXCEPT ![c] = "respond"]
        /\ UNCHANGED <<pc, waited, merge_read>>
  /\ UNCHANGED <<seen, recv_error, parts, loop, peer>>

\* A read that completes a message.
RecvHandle(c) ==
  /\ rpc[c] = "recv" /\ ~interrupted[c] /\ peer[c] = "open"
  /\ Handle(c)
  /\ UNCHANGED interrupted

\* Mutant: error_ is signalled for every small read.
RecvPartSignals(c) ==
  /\ rpc[c] = "recv" /\ ~interrupted[c] /\ peer[c] = "open" /\ parts[c] < MaxParts
  /\ parts' = [parts EXCEPT ![c] = @ + 1]
  /\ rpc' = [rpc EXCEPT ![c] = "merge"]
  /\ SignalError(c)
  /\ UNCHANGED <<seen, recv_error, nb_msgs, merge_read, loop, interrupted, peer>>

\* A read of fewer than RTMP_MR_SMALL_BYTES: OnRead sleeps.
RecvPart(c) ==
  /\ rpc[c] = "recv" /\ ~interrupted[c] /\ peer[c] = "open" /\ parts[c] < MaxParts
  /\ parts' = [parts EXCEPT ![c] = @ + 1]
  /\ rpc' = [rpc EXCEPT ![c] = "merge"]
  /\ UNCHANGED <<connVars, recv_error, nb_msgs, merge_read, loop, interrupted, peer>>

(***************************************************************************)
(* The sleep of OnRead ends, in time or interrupted, and nobody looks at   *)
(* the difference: Grow reads on if the message needs more, else Handle.   *)
(***************************************************************************)
MergeDone(c) ==
  /\ rpc[c] = "merge"
  /\ interrupted' = [interrupted EXCEPT ![c] = FALSE]
  /\ \/ /\ rpc' = [rpc EXCEPT ![c] = "recv"]
        /\ UNCHANGED <<connVars, recv_error, nb_msgs, merge_read, parts, loop, peer>>
     \/ Handle(c)

\* FMLEUnPublish ends, its answers sent or not.
RespondDone(c) ==
  /\ rpc[c] = "respond"
  /\ interrupted' = [interrupted EXCEPT ![c] = FALSE]
  /\ RecvAgain(c)
  /\ UNCHANGED <<seen, recv_error, nb_msgs, parts, loop, peer>>

\* Cycle when RecvMessage fails with e: StopLoop, OnRecvError, leave.
RecvError(c, e) ==
  /\ interrupted' = [interrupted EXCEPT ![c] = FALSE]
  /\ loop' = [loop EXCEPT ![c] = FALSE]
  /\ recv_error' = [recv_error EXCEPT ![c] = e]
  /\ RecvExit(c)
  /\ UNCHANGED <<seen, nb_msgs, parts, peer>>

(***************************************************************************)
(* The end of the stream, or an interrupted read.  Inside a message header *)
(* RecvInterlacedMessage assigns the outcome of a comparison to ret, and   *)
(* the code of a graceful close is lost.                                   *)
(***************************************************************************)
RecvFail(c) ==
  /\ rpc[c] = "recv" /\ (interrupted[c] \/ peer[c] = "closed")
  /\ \E e \in {"graceful", "other"} : RecvError(c, e)

\* A malformed chunk.
RecvBad(c) ==
  /\ rpc[c] = "recv" /\ ~interrupted[c] /\ peer[c] = "open"
  /\ RecvError(c, "other")

\* The publisher stops sending, or closes.
PeerStops(c) ==
  /\ peer[c] # "closed"
  /\ \E p \in {"silent", "closed"} : p # peer[c] /\ peer' = [peer EXCEPT ![c] = p]
  /\ UNCHANGED <<connVars, recvVars, loop, interrupted>>
-----------------------------------------------------------------------------
\* One coroutine has the processor until it blocks; one that spins keeps it.
Starved == \E c \in Conns : pc[c] = "spin"

Connection(c) ==
  \/ Publish(c) \/ Timeout(c) \/ CheckPublish(c) \/ Join(c) \/ EndOfStream(c)

Receive(c) ==
  \/ RecvStart(c) \/ RecvHandle(c) \/ RecvPart(c) \/ MergeDone(c) \/ RespondDone(c)
  \/ RecvFail(c) \/ RecvBad(c)

Next ==
  \/ ~Starved /\ \E c \in Conns : Connection(c) \/ Receive(c)
  \/ \E c \in Conns : PeerStops(c)

(***************************************************************************)
(* Until a coroutine spins, runnable coroutines run, sleeps and timed      *)
(* waits end, sends end (they have a timeout), and a read of a closed or   *)
(* interrupted socket returns.  Nothing makes the publisher send.          *)
(***************************************************************************)
Fairness ==
  \A c \in Conns :
    /\ WF_vars(~Starved /\ Timeout(c)) /\ WF_vars(~Starved /\ CheckPublish(c))
    /\ WF_vars(~Starved /\ Join(c)) /\ WF_vars(~Starved /\ EndOfStream(c))
    /\ WF_vars(~Starved /\ RecvStart(c)) /\ WF_vars(~Starved /\ MergeDone(c))
    /\ WF_vars(~Starved /\ RespondDone(c)) /\ WF_vars(~Starved /\ RecvFail(c))

Spec == Init /\ [][Next]_vars /\ Fairness
-----------------------------------------------------------------------------
TypeOK ==
  /\ pc \in [Conns -> ConnPc] /\ rpc \in [Conns -> RecvPc]
  /\ loop \in [Conns -> BOOLEAN] /\ interrupted \in [Conns -> BOOLEAN]
  /\ merge_read \in [Conns -> BOOLEAN]
  /\ recv_error \in [Conns -> {"none", "graceful", "other"}]
  /\ nb_msgs \in [Conns -> 0 .. MaxMsgs]
  /\ \A c \in Conns : seen[c] \in 0 .. nb_msgs[c]
  /\ parts \in [Conns -> 0 .. MaxParts]
  /\ peer \in [Conns -> {"open", "silent", "closed"}]
  /\ waited \in [Conns -> {"no", "signal", "timeout"}]

(***************************************************************************)
(* No receive error is slept through: a connection in Wait has none, so it *)
(* learns of an error at once and not when its time is up.                 *)
(***************************************************************************)
NoLostError == \A c \in Conns : pc[c] = "wait" => recv_error[c] = "none"

(***************************************************************************)
(* A session is given up only for a receive error or after a Wait that ran *)
(* its whole time without a message: a working publisher is not cut off by *)
(* a stray signal.                                                         *)
(***************************************************************************)
GivenUpForCause ==
  \A c \in Conns :
    pc[c] = "join" /\ recv_error[c] = "none" => waited[c] = "timeout"

(***************************************************************************)
(* The connection reads its socket itself only when no receive thread is   *)
(* left and the receive buffer no longer calls the PublishRecvThread that  *)
(* Publishing has destroyed.                                               *)
(***************************************************************************)
HandlerOutlivesUse ==
  \A c \in Conns :
    pc[c] \in {"serve", "spin", "ended"} => rpc[c] = "none" /\ ~merge_read[c]

(***************************************************************************)
(* What a session knows of its receive thread is what a Thread promises:   *)
(* the thread that Publishing starts and stops is a Coroutine, whatever    *)
(* errors, small reads and answers it meets.                               *)
(***************************************************************************)
RecvPlace(c) ==
  CASE rpc[c] \in {"none", "done"} -> rpc[c]
    [] rpc[c] = "start" -> "created"
    [] OTHER -> "running"

Receiver ==
  INSTANCE Coroutine WITH
    Threads <- Conns,
    place   <- [c \in Conns |-> RecvPlace(c)],
    owner   <- [c \in Conns |-> IF pc[c] = "join" THEN "stopping" ELSE "free"]

ReceiverIsThread == Receiver!Safety

(***************************************************************************)
(* A publisher that closes its connection ends its session, wherever the   *)
(* two coroutines are, unless another connection has starved them.         *)
(***************************************************************************)
CloseEndsPublish ==
  \A c \in Conns : (peer[c] = "closed") ~> (Starved \/ pc[c] \in {"serve", "ended"})

(***************************************************************************)
(* connection.cpp:54 reports "client %s disconnect peer" once DoCycle has  *)
(* returned for a client that closed: its connection ends.                 *)
(***************************************************************************)
ClosedConnectionEnds ==
  \A c \in Conns : (peer[c] = "closed") ~> (pc[c] = "ended")

(***************************************************************************)
(* rtmp_connection.cpp:503 gives a publisher up with "publish timeout      *)
(* %dms": one that falls silent is dropped, although it stays connected.   *)
(***************************************************************************)
SilentPublisherDropped ==
  \A c \in Conns : (peer[c] = "silent") ~> (pc[c] \in {"serve", "spin", "ended"})
=============================================================================
