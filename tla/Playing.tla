------------------------------ MODULE Playing -------------------------------
(***************************************************************************)
(* One play session: RTMPConnection::Playing and DoPlaying on the          *)
(* connection's coroutine, its QueueRecvThread on a second one, and the    *)
(* publisher's coroutine that dispatches messages into the Consumer.       *)
(*                                                                         *)
(* State Threads schedules coroutines cooperatively: an action is what a   *)
(* coroutine runs between two calls that block (st_cond_wait, st_usleep,   *)
(* a socket read or write, st_thread_join).                                *)
(***************************************************************************)
EXTENDS MessageQueue

CONSTANTS MinMsgs,     \* RTMP_MR_MIN_MSGS
          MwSleep,     \* mw_sleep_, the duration Wait asks for
          MaxBatch,    \* RTMP_MR_MSGS
          Atc,         \* Source::atc_
          Classes,     \* the classes of message that reach the consumer
          MaxTs,       \* largest publisher timestamp
          MaxEnqueue,  \* messages the publisher dispatches
          MaxRecv      \* messages the player sends

\* on_audio_impl drops every AAC header and on_video_impl a header it cannot demux.
Relayed == (AudioClasses \cup VideoClasses) \ {"aacSH", "avcBadSH"}

ASSUME PlayingAssumption ==
  /\ MinMsgs \in Nat /\ MwSleep \in Nat /\ MaxBatch \in Nat \ {0}
  /\ Atc \in BOOLEAN
  /\ Classes \subseteq Relayed
  /\ MaxTs \in Nat /\ MaxEnqueue \in Nat /\ MaxRecv \in Nat

VARIABLES
  queue,          \* Consumer::queue_
  jitter,         \* Consumer::jitter_
  mw_waiting,     \* Consumer::mw_waiting_
  pc,             \* where the connection's coroutine is
  rpc,            \* where the receive coroutine is
  loop,           \* Thread::loop_ of the receive thread
  interrupted,    \* st_thread_interrupt called and not yet delivered
  recv_queue,     \* number of messages in QueueRecvThread::queue_
  recv_error,     \* recv_error_code_ # ERROR_SUCCESS
  auto_response,  \* SetAutoResponse and SetRecvTimeout, switched together
  peer,           \* the player's end of the socket: "open" or "closed"
  dispatched,     \* messages dispatched so far; the next one's id is one more
  received,       \* messages the player has sent
  sent            \* ids of the messages handed to SendAndFreeMessages

consumerVars == <<queue, jitter, mw_waiting>>
recvVars     == <<rpc, loop, interrupted, recv_queue, recv_error, auto_response>>
envVars      == <<peer, dispatched, received>>
vars         == <<consumerVars, recvVars, envVars, pc, sent>>

(***************************************************************************)
(* pc:  loop    at the head of the loop of DoPlaying                       *)
(*      wait    blocked in st_cond_wait, not signalled                     *)
(*      woken   signalled in st_cond_wait, runnable                        *)
(*      sleep   in st_usleep for want of a message                         *)
(*      send    in SendAndFreeMessages                                     *)
(*      join    in RTMPRecvThread::Stop, joining the receive thread        *)
(*      done    Playing has returned                                       *)
(* rpc: start   created, not yet scheduled                                 *)
(*      sleep   in st_usleep because its queue is not empty                *)
(*      recv    in RecvMessage                                             *)
(*      done    Dispatch has returned                                      *)
(***************************************************************************)
PlayPc == {"loop", "wait", "woken", "sleep", "send", "join", "done"}
RecvPc == {"start", "sleep", "recv", "done"}

Init ==
  /\ queue = EmptyQueue /\ jitter = NoJitter /\ mw_waiting = FALSE
  /\ pc = "loop" /\ rpc = "start" /\ loop = TRUE /\ interrupted = FALSE
  /\ recv_queue = 0 /\ recv_error = FALSE /\ auto_response = FALSE
  /\ peer = "open" /\ dispatched = 0 /\ received = 0
  /\ sent = <<>>

\* The test Consumer::Wait makes before it blocks.
Ready(q) == Size(q) > MinMsgs /\ Duration(q) > MwSleep

\* Mutant: a waiting consumer is signalled for media only when the window is empty.
EnqueueSignalsLate(q) == Size(q) - MinMsgs > 1 /\ Duration(q) > MwSleep

(***************************************************************************)
(* The test Consumer::Enqueue makes to signal a waiting consumer: the      *)
(* difference is converted to bool, so any size but MinMsgs matches.       *)
(***************************************************************************)
EnqueueSignals(q) ==
  \/ Atc /\ Duration(q) < 0
  \/ Size(q) - MinMsgs # 0 /\ Duration(q) > MwSleep

\* Consumer::WakeUp: signal the condition if the flag says someone waits.
WakeUp ==
  /\ mw_waiting' = FALSE
  /\ pc' = IF mw_waiting /\ pc = "wait" THEN "woken" ELSE pc

(***************************************************************************)
(* Source dispatches a message to this consumer: Consumer::Enqueue.        *)
(***************************************************************************)
SourceEnqueue(cls, ts) ==
  LET j == JitterCorrect(jitter, ts)
      m == [type |-> IF cls \in AudioClasses THEN "audio" ELSE "video",
            cls  |-> cls,
            id   |-> dispatched + 1,
            ts   |-> IF Atc THEN ts ELSE j.correct]
      q == Enqueue(queue, m)
  IN  /\ dispatched < MaxEnqueue
      /\ dispatched' = dispatched + 1
      /\ queue' = q
      /\ jitter' = IF Atc THEN jitter ELSE j
      /\ IF mw_waiting /\ EnqueueSignals(q) THEN WakeUp ELSE UNCHANGED <<mw_waiting, pc>>
      /\ UNCHANGED <<recvVars, peer, received, sent>>
-----------------------------------------------------------------------------
(***************************************************************************)
(* DoPlaying.                                                              *)
(***************************************************************************)

\* Consumer::DumpPackets, and what DoPlaying does with the number it gives.
DumpAndSend ==
  IF queue.msgs = <<>>
  THEN pc' = "sleep" /\ UNCHANGED <<queue, sent>>
  ELSE /\ pc' = "send"
       /\ queue' = DumpPackets(queue, MaxBatch)
       /\ sent' = sent \o [i \in 1 .. DumpCount(queue, MaxBatch) |-> queue.msgs[i].id]

\* Mutant: Stop leaves loop_ as it is.
StopRecvKeepsLoop ==
  /\ interrupted' = (rpc # "done")
  /\ pc' = "join"
  /\ UNCHANGED loop

\* recv_thread.Stop(): clear loop_, interrupt the thread, join it.
StopRecv ==
  /\ loop' = FALSE
  /\ interrupted' = (rpc # "done")
  /\ pc' = "join"

(***************************************************************************)
(* One pass of the loop, up to the next blocking call: pump the received   *)
(* messages, leave on a receive error, else Wait and dump.                 *)
(***************************************************************************)
PlayLoop ==
  /\ pc = "loop" \/ pc = "sleep"
  /\ recv_queue' = 0
  /\ \/ /\ recv_error
        /\ StopRecv
        /\ UNCHANGED <<queue, mw_waiting, sent>>
     \/ /\ ~recv_error /\ Ready(queue)
        /\ DumpAndSend
        /\ UNCHANGED <<mw_waiting, loop, interrupted>>
     \/ /\ ~recv_error /\ ~Ready(queue)
        /\ mw_waiting' = TRUE
        /\ pc' = "wait"
        /\ UNCHANGED <<queue, sent, loop, interrupted>>
  /\ UNCHANGED <<jitter, rpc, recv_error, auto_response, envVars>>

\* st_cond_wait returns.
Resume ==
  /\ pc = "woken"
  /\ DumpAndSend
  /\ UNCHANGED <<jitter, mw_waiting, recvVars, envVars>>

\* SendAndFreeMessages returns, with or without an error; so does DoPlaying.
SendDone ==
  /\ pc = "send"
  /\ StopRecv
  /\ UNCHANGED <<consumerVars, rpc, recv_queue, recv_error, auto_response, envVars, sent>>

\* st_thread_join returns when the receive thread has exited.
Join ==
  /\ pc = "join" /\ rpc = "done"
  /\ pc' = "done"
  /\ UNCHANGED <<consumerVars, recvVars, envVars, sent>>
-----------------------------------------------------------------------------
(***************************************************************************)
(* The receive thread: Thread::Dispatch around RTMPRecvThread::Cycle.      *)
(***************************************************************************)

\* Leave Dispatch: OnThreadStop.
RecvExit == rpc' = "done" /\ auto_response' = FALSE

\* The head of the loop of Cycle: CanLoop, then CanHandler.
RecvCheck ==
  \/ ~loop /\ RecvExit
  \/ loop /\ recv_queue > 0 /\ rpc' = "sleep" /\ auto_response' = TRUE
  \/ loop /\ recv_queue = 0 /\ rpc' = "recv" /\ auto_response' = TRUE

\* Dispatch begins: OnThreadStart, then the loop if it may still run.
RecvStart ==
  /\ rpc = "start"
  /\ RecvCheck
  /\ UNCHANGED <<consumerVars, loop, interrupted, recv_queue, recv_error, envVars, pc, sent>>

\* st_usleep ends, in time or interrupted.
RecvAwake ==
  /\ rpc = "sleep"
  /\ interrupted' = FALSE
  /\ RecvCheck
  /\ UNCHANGED <<consumerVars, loop, recv_queue, recv_error, envVars, pc, sent>>

\* RecvMessage gives a message: QueueRecvThread::Handle, and Cycle finds the queue filled.
RecvHandle ==
  /\ rpc = "recv" /\ ~interrupted /\ peer = "open" /\ received < MaxRecv
  /\ received' = received + 1
  /\ recv_queue' = recv_queue + 1
  /\ rpc' = "sleep"
  /\ WakeUp
  /\ UNCHANGED <<queue, jitter, loop, interrupted, recv_error, auto_response,
                 peer, dispatched, sent>>

\* Mutant: the error is recorded and the player coroutine is not woken.
RecvErrorSilent ==
  /\ interrupted' = FALSE
  /\ loop' = FALSE
  /\ recv_error' = TRUE
  /\ RecvExit
  /\ UNCHANGED <<queue, jitter, mw_waiting, pc, recv_queue, envVars, sent>>

\* What Cycle does when RecvMessage fails: StopLoop, OnRecvError, leave.
RecvError ==
  /\ interrupted' = FALSE
  /\ loop' = FALSE
  /\ recv_error' = TRUE
  /\ RecvExit
  /\ WakeUp
  /\ UNCHANGED <<queue, jitter, recv_queue, envVars, sent>>

\* RecvMessage fails at the end of the stream, or interrupted.
RecvFail == rpc = "recv" /\ (interrupted \/ peer = "closed") /\ RecvError

\* RecvMessage fails on what the player sent.
RecvBad == rpc = "recv" /\ ~interrupted /\ peer = "open" /\ RecvError

PeerClose ==
  /\ peer = "open" /\ peer' = "closed"
  /\ UNCHANGED <<consumerVars, recvVars, dispatched, received, pc, sent>>
-----------------------------------------------------------------------------
Play == PlayLoop \/ Resume \/ SendDone \/ Join
Recv == RecvStart \/ RecvAwake \/ RecvHandle \/ RecvFail \/ RecvBad

SourceNext == \E cls \in Classes, ts \in 0 .. MaxTs : SourceEnqueue(cls, ts)

Next == SourceNext \/ Play \/ Recv \/ PeerClose

(***************************************************************************)
(* A coroutine that can run does run: State Threads resumes every runnable *)
(* coroutine in turn, every sleep ends, and a read of a closed or          *)
(* interrupted socket returns.  That is so while no other connection of    *)
(* the process spins in ServiceCycle, which module Publishing models.      *)
(* Nothing makes the publisher dispatch or the player send or leave.       *)
(***************************************************************************)
Fairness ==
  /\ WF_vars(Play)
  /\ WF_vars(RecvStart) /\ WF_vars(RecvAwake) /\ WF_vars(RecvFail)

Spec == Init /\ [][Next]_vars /\ Fairness
-----------------------------------------------------------------------------
TypeOK ==
  /\ \A i \in 1 .. Len(queue.msgs) :
       queue.msgs[i] \in [type : MediaTypes, cls : AudioClasses \cup VideoClasses,
                          id : 1 .. MaxEnqueue, ts : Int]
  /\ queue.av_start \in Int /\ queue.av_end \in Int
  /\ jitter \in [last : Nat, correct : Int]
  /\ mw_waiting \in BOOLEAN /\ loop \in BOOLEAN /\ interrupted \in BOOLEAN
  /\ recv_queue \in Nat /\ recv_error \in BOOLEAN /\ auto_response \in BOOLEAN
  /\ pc \in PlayPc /\ rpc \in RecvPc
  /\ peer \in {"open", "closed"} /\ dispatched \in 0 .. MaxEnqueue
  /\ received \in 0 .. MaxRecv

(***************************************************************************)
(* No wake-up is lost: a player coroutine blocked in Consumer::Wait with   *)
(* no signal on its way has nothing to do - no message from the player, no *)
(* receive error, and not the messages Wait asked for.                     *)
(***************************************************************************)
NoLostWakeup ==
  pc = "wait" => mw_waiting /\ recv_queue = 0 /\ ~recv_error /\ ~Ready(queue)

(***************************************************************************)
(* mw_waiting_ is set exactly while the coroutine is blocked unsignalled,  *)
(* so no signal is spent on a consumer that sleeps or sends.               *)
(***************************************************************************)
FlagMatchesWaiter == mw_waiting <=> pc = "wait"

(***************************************************************************)
(* The connection's coroutine reads the socket again only after its        *)
(* receive thread has left: one reader per socket, with auto response off  *)
(* and the never-ending receive timeout taken back.                        *)
(***************************************************************************)
OneReader == pc = "done" => rpc = "done" /\ ~auto_response

\* The queue holds the newest messages in dispatch order, none of them sent.
DeliveryOrder ==
  LET ids == sent \o [i \in 1 .. Len(queue.msgs) |-> queue.msgs[i].id]
  IN  \A i, k \in 1 .. Len(ids) : i < k => ids[i] < ids[k]

(***************************************************************************)
(* A message added leaves at most QueueSize of media in the consumer, also *)
(* in one whose session is over.                                           *)
(***************************************************************************)
WindowBounded ==
  [][dispatched' # dispatched => Duration(queue') <= QueueSize]_vars

(***************************************************************************)
(* The session uses its receive thread as a Thread lets it: the thread of  *)
(* Playing, from Start to the end of Stop, is a Coroutine.                 *)
(***************************************************************************)
RecvPlace ==
  CASE pc = "done" -> "none"
    [] pc # "done" /\ rpc = "start" -> "created"
    [] pc # "done" /\ rpc \in {"sleep", "recv"} -> "running"
    [] OTHER -> "done"

Receiver ==
  INSTANCE Coroutine WITH
    Threads <- {"recv"},
    place   <- [t \in {"recv"} |-> RecvPlace],
    loop    <- [t \in {"recv"} |-> loop],
    owner   <- [t \in {"recv"} |-> IF pc = "join" THEN "stopping" ELSE "free"]

ReceiverIsThread == Receiver!Safety

(***************************************************************************)
(* A player that closes its connection ends the session: the receive error *)
(* reaches DoPlaying wherever it is, and Stop returns.                     *)
(***************************************************************************)
CloseEndsSession == (peer = "closed") ~> (pc = "done")

(***************************************************************************)
(* When the publisher pauses, a batch large and long enough for Wait is    *)
(* not stranded: DoPlaying takes it, unless the session ends first.        *)
(***************************************************************************)
ReadyBatchTaken ==
  (dispatched = MaxEnqueue /\ Ready(queue)) ~> (~Ready(queue) \/ pc \in {"join", "done"})
=============================================================================
