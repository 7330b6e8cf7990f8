--------------------------- MODULE PlayingProofs ----------------------------
(***************************************************************************)
(* A play session never sleeps through work and hands its socket back      *)
(* clean, for every window, batch size, clock and number of messages.      *)
(***************************************************************************)
EXTENDS Playing, SequenceTheorems, TLAPS

Msg == [type : MediaTypes, cls : AudioClasses \cup VideoClasses, id : Nat, ts : Int]

QueueOK(q) == q \in [msgs : Seq(Msg), av_start : Int, av_end : Int]

ClockOK == jitter \in [last : Int, correct : Int]

\* The receive thread takes auto response back when it leaves.
ThreadClean == rpc = "done" => ~auto_response

IInv ==
  /\ QueueOK(queue)
  /\ ClockOK
  /\ dispatched \in Nat
  /\ mw_waiting \in BOOLEAN
  /\ FlagMatchesWaiter
  /\ NoLostWakeup
  /\ OneReader
  /\ ThreadClean

\* Correcting a clock gives a clock.
LEMMA JitterType ==
  ASSUME NEW j \in [last : Int, correct : Int], NEW ts \in Int
  PROVE  JitterCorrect(j, ts) \in [last : Int, correct : Int]
BY WindowAssumption DEF JitterCorrect

\* Shrinking a window leaves a window.
LEMMA ShrinkType == ASSUME NEW q, QueueOK(q) PROVE QueueOK(Shrink(q))
<1> DEFINE Stamp(i) == [q.msgs[i] EXCEPT !.ts = q.av_end]
           Keep(hit) == IF hit = {} THEN <<>> ELSE <<Stamp(CHOOSE i \in hit : TRUE)>>
<1>1. ASSUME NEW i \in 1 .. Len(q.msgs) PROVE Stamp(i) \in Msg
  <2>1. q.msgs[i] \in Msg /\ q.av_end \in Int
    BY DEF QueueOK
  <2> QED BY <2>1 DEF Msg
<1>2. ASSUME NEW hit \in SUBSET (1 .. Len(q.msgs)) PROVE Keep(hit) \in Seq(Msg)
  <2>1. CASE hit = {}
    BY <2>1
  <2>2. CASE hit # {}
    <3>1. (CHOOSE i \in hit : TRUE) \in 1 .. Len(q.msgs)
      BY <2>2
    <3>2. Stamp(CHOOSE i \in hit : TRUE) \in Msg
      BY <3>1, <1>1
    <3> HIDE DEF Stamp
    <3> QED BY <3>2, <2>2
  <2> QED BY <2>1, <2>2
<1>3. LastOf(q.msgs, AudioSh) \in SUBSET (1 .. Len(q.msgs))
  BY DEF LastOf
<1>4. LastOf(q.msgs, VideoSh) \in SUBSET (1 .. Len(q.msgs))
  BY DEF LastOf
<1>5. Shrink(q) = [msgs     |-> Keep(LastOf(q.msgs, AudioSh)) \o Keep(LastOf(q.msgs, VideoSh)),
                   av_start |-> q.av_end,
                   av_end   |-> q.av_end]
  BY DEF Shrink
<1>6. Keep(LastOf(q.msgs, AudioSh)) \in Seq(Msg) /\ Keep(LastOf(q.msgs, VideoSh)) \in Seq(Msg)
  BY <1>2, <1>3, <1>4
<1> HIDE DEF Keep, Stamp
<1>7. q.av_end \in Int
  BY DEF QueueOK
<1> QED BY <1>5, <1>6, <1>7 DEF QueueOK

\* Adding a message to a window gives a window.
LEMMA EnqueueType == ASSUME NEW q, QueueOK(q), NEW m \in Msg PROVE QueueOK(Enqueue(q, m))
<1>1. QueueOK(Added(q, m))
  <2>1. m.ts \in Int /\ Append(q.msgs, m) \in Seq(Msg)
    BY DEF QueueOK, Msg
  <2> QED BY <2>1 DEF QueueOK, Added
<1> QED BY <1>1, ShrinkType DEF Enqueue

\* Taking a batch leaves a window.
LEMMA DumpType == ASSUME NEW q, QueueOK(q), NEW max \in Nat \ {0}
                  PROVE  QueueOK(DumpPackets(q, max))
<1> DEFINE n == DumpCount(q, max)
<1>1. n \in 0 .. Len(q.msgs)
  BY DEF QueueOK, DumpCount, Size
<1>2. CASE n = 0
  BY <1>2 DEF DumpPackets
<1>3. CASE n # 0
  <2>1. n \in 1 .. Len(q.msgs)
    BY <1>1, <1>3
  <2>2. q.msgs[n].ts \in Int
    <3>1. q.msgs[n] \in Msg
      BY <2>1 DEF QueueOK
    <3> QED BY <3>1 DEF Msg
  <2>3. SubSeq(q.msgs, n + 1, Len(q.msgs)) \in Seq(Msg)
    BY <2>1 DEF QueueOK
  <2>4. DumpPackets(q, max) = [q EXCEPT !.msgs     = SubSeq(q.msgs, n + 1, Len(q.msgs)),
                                        !.av_start = q.msgs[n].ts]
    BY <1>3 DEF DumpPackets
  <2> HIDE DEF n
  <2> QED BY <2>2, <2>3, <2>4 DEF QueueOK
<1> QED BY <1>2, <1>3

\* A consumer that Enqueue does not signal has not got what Wait asked for.
LEMMA UnsignalledNotReady ==
  ASSUME NEW q, QueueOK(q), ~EnqueueSignals(q) PROVE ~Ready(q)
<1>1. Size(q) \in Nat /\ Duration(q) \in Int
  BY DEF QueueOK, Size, Duration
<1> QED BY <1>1, PlayingAssumption DEF EnqueueSignals, Ready

\* The session begins with an empty window and nobody waiting.
LEMMA InitIInv == Init => IInv
<1> SUFFICES ASSUME Init PROVE IInv
  OBVIOUS
<1>1. QueueOK(queue)
  <2>1. <<>> \in Seq(Msg)
    OBVIOUS
  <2> QED BY <2>1 DEF Init, QueueOK, EmptyQueue
<1>2. ClockOK /\ dispatched \in Nat
  BY DEF Init, ClockOK, NoJitter
<1> QED BY <1>1, <1>2 DEF Init, IInv, FlagMatchesWaiter, NoLostWakeup, OneReader, ThreadClean

\* Dispatching a message either wakes the consumer or leaves it rightly asleep.
LEMMA SourceEnqueueIInv ==
  ASSUME IInv, NEW cls \in Classes, NEW ts \in 0 .. MaxTs, SourceEnqueue(cls, ts)
  PROVE  IInv'
<1> USE PlayingAssumption
<1> DEFINE j == JitterCorrect(jitter, ts)
           m == [type |-> IF cls \in AudioClasses THEN "audio" ELSE "video",
                 cls  |-> cls,
                 id   |-> dispatched + 1,
                 ts   |-> IF Atc THEN ts ELSE j.correct]
           q == Enqueue(queue, m)
<1>1. j \in [last : Int, correct : Int]
  BY JitterType DEF IInv, ClockOK
<1> HIDE DEF j
<1>2. m \in Msg
  BY <1>1 DEF Msg, IInv, Relayed, MediaTypes
<1> HIDE DEF m
<1>3. QueueOK(q)
  BY <1>2, EnqueueType DEF IInv
<1>4. /\ dispatched' = dispatched + 1
      /\ queue' = q
      /\ jitter' = IF Atc THEN jitter ELSE j
      /\ IF mw_waiting /\ EnqueueSignals(q) THEN WakeUp ELSE UNCHANGED <<mw_waiting, pc>>
      /\ UNCHANGED <<recvVars, peer, received, sent>>
  BY DEF SourceEnqueue, q, m, j
<1> HIDE DEF q
<1>5. QueueOK(queue') /\ ClockOK' /\ dispatched' \in Nat
  BY <1>1, <1>3, <1>4 DEF IInv, ClockOK
<1>6. OneReader' /\ ThreadClean'
  BY <1>4 DEF IInv, OneReader, ThreadClean, WakeUp, recvVars
<1>7. CASE mw_waiting /\ EnqueueSignals(q)
  <2>1. mw_waiting' = FALSE /\ pc' = "woken"
    BY <1>4, <1>7 DEF WakeUp, IInv, FlagMatchesWaiter
  <2> QED BY <2>1, <1>5, <1>6 DEF IInv, FlagMatchesWaiter, NoLostWakeup
<1>8. CASE ~(mw_waiting /\ EnqueueSignals(q))
  <2>1. UNCHANGED <<mw_waiting, pc, recv_queue, recv_error>>
    BY <1>4, <1>8 DEF recvVars
  <2>2. mw_waiting => ~Ready(q)
    BY <1>3, <1>8, UnsignalledNotReady
  <2>3. NoLostWakeup'
    BY <2>1, <2>2, <1>4 DEF IInv, NoLostWakeup
  <2> QED BY <2>1, <2>3, <1>5, <1>6 DEF IInv, FlagMatchesWaiter
<1> QED BY <1>7, <1>8

\* The steps of the connection's coroutine.
LEMMA PlayIInv == ASSUME IInv, Play PROVE IInv'
<1> USE PlayingAssumption
<1>0. QueueOK(DumpPackets(queue, MaxBatch))
  BY DumpType DEF IInv
<1>1. CASE PlayLoop
  <2>1. /\ recv_queue' = 0
        /\ UNCHANGED <<jitter, rpc, recv_error, auto_response, envVars>>
        /\ pc = "loop" \/ pc = "sleep"
    BY <1>1 DEF PlayLoop
  <2>2. CASE recv_error /\ StopRecv /\ UNCHANGED <<queue, mw_waiting, sent>>
    BY <2>1, <2>2 DEF IInv, StopRecv, ClockOK, FlagMatchesWaiter, NoLostWakeup, OneReader,
                      ThreadClean, envVars
  <2>3. CASE /\ ~recv_error /\ Ready(queue)
             /\ DumpAndSend
             /\ UNCHANGED <<mw_waiting, loop, interrupted>>
    <3>1. pc' \in {"sleep", "send"} /\ QueueOK(queue')
      BY <2>3, <1>0 DEF DumpAndSend, IInv
    <3> QED BY <2>1, <2>3, <3>1 DEF IInv, ClockOK, FlagMatchesWaiter, NoLostWakeup, OneReader,
                                    ThreadClean, envVars
  <2>4. CASE /\ ~recv_error /\ ~Ready(queue)
             /\ mw_waiting' = TRUE
             /\ pc' = "wait"
             /\ UNCHANGED <<queue, sent, loop, interrupted>>
    BY <2>1, <2>4 DEF IInv, ClockOK, FlagMatchesWaiter, NoLostWakeup, OneReader,
                      ThreadClean, envVars
  <2> QED BY <1>1, <2>2, <2>3, <2>4 DEF PlayLoop
<1>2. CASE Resume
  <2>1. pc' \in {"sleep", "send"} /\ QueueOK(queue')
    BY <1>2, <1>0 DEF Resume, DumpAndSend, IInv
  <2>2. pc = "woken" /\ UNCHANGED <<jitter, mw_waiting, recvVars, envVars>>
    BY <1>2 DEF Resume
  <2> QED BY <2>1, <2>2 DEF IInv, ClockOK, FlagMatchesWaiter, NoLostWakeup, OneReader,
                            ThreadClean, recvVars, envVars
<1>3. CASE SendDone
  BY <1>3 DEF SendDone, StopRecv, IInv, ClockOK, FlagMatchesWaiter, NoLostWakeup, OneReader,
              ThreadClean, consumerVars, envVars
<1>4. CASE Join
  BY <1>4 DEF Join, IInv, ClockOK, FlagMatchesWaiter, NoLostWakeup, OneReader,
              ThreadClean, consumerVars, recvVars, envVars
<1> QED BY <1>1, <1>2, <1>3, <1>4 DEF Play

\* The steps of the receive thread.
LEMMA RecvIInv == ASSUME IInv, Recv PROVE IInv'
<1>1. CASE RecvStart
  BY <1>1 DEF RecvStart, RecvCheck, RecvExit, IInv, ClockOK, FlagMatchesWaiter, NoLostWakeup,
              OneReader, ThreadClean, consumerVars, envVars
<1>2. CASE RecvAwake
  BY <1>2 DEF RecvAwake, RecvCheck, RecvExit, IInv, ClockOK, FlagMatchesWaiter, NoLostWakeup,
              OneReader, ThreadClean, consumerVars, envVars
<1>3. ASSUME RecvHandle PROVE IInv'
  <2>1. mw_waiting' = FALSE /\ pc' # "wait" /\ (pc' = "done" => pc = "done")
    BY <1>3 DEF RecvHandle, WakeUp, IInv, FlagMatchesWaiter
  <2>2. rpc = "recv" /\ rpc' = "sleep"
        /\ UNCHANGED <<queue, jitter, auto_response, dispatched>>
    BY <1>3 DEF RecvHandle
  <2> QED BY <2>1, <2>2 DEF IInv, ClockOK, FlagMatchesWaiter, NoLostWakeup, OneReader,
                            ThreadClean
<1>4. ASSUME rpc = "recv", RecvError PROVE IInv'
  <2>1. mw_waiting' = FALSE /\ pc' # "wait" /\ (pc' = "done" => pc = "done")
    BY <1>4 DEF RecvError, WakeUp, IInv, FlagMatchesWaiter
  <2>2. rpc' = "done" /\ ~auto_response' /\ UNCHANGED <<queue, jitter, dispatched>>
    BY <1>4 DEF RecvError, RecvExit, envVars
  <2> QED BY <2>1, <2>2, <1>4 DEF IInv, ClockOK, FlagMatchesWaiter, NoLostWakeup, OneReader,
                                  ThreadClean
<1> QED BY <1>1, <1>2, <1>3, <1>4 DEF Recv, RecvFail, RecvBad

\* Every step keeps the invariant.
LEMMA NextIInv == IInv /\ [Next]_vars => IInv'
<1> SUFFICES ASSUME IInv, [Next]_vars PROVE IInv'
  OBVIOUS
<1>1. CASE SourceNext
  BY <1>1, SourceEnqueueIInv DEF SourceNext
<1>2. CASE PeerClose
  BY <1>2 DEF PeerClose, IInv, ClockOK, FlagMatchesWaiter, NoLostWakeup, OneReader,
              ThreadClean, consumerVars, recvVars
<1>3. CASE UNCHANGED vars
  BY <1>3 DEF vars, IInv, ClockOK, FlagMatchesWaiter, NoLostWakeup, OneReader,
              ThreadClean, consumerVars, recvVars, envVars
<1> QED BY <1>1, <1>2, <1>3, PlayIInv, RecvIInv DEF Next

\* No wake-up of Consumer::Wait is lost, and mw_waiting_ is set exactly while
\* the coroutine waits unsignalled, whatever the thresholds are.
THEOREM PlayNoLostWakeup == Spec => [](NoLostWakeup /\ FlagMatchesWaiter)
<1>1. IInv => NoLostWakeup /\ FlagMatchesWaiter
  BY DEF IInv
<1> QED BY <1>1, InitIInv, NextIInv, PTL DEF Spec

\* When Playing returns its receive thread is gone and auto response is off.
THEOREM PlayOneReader == Spec => []OneReader
<1>1. IInv => OneReader
  BY DEF IInv
<1> QED BY <1>1, InitIInv, NextIInv, PTL DEF Spec
-----------------------------------------------------------------------------
(***************************************************************************)
(* Order.  What was sent and what waits are numbered upwards, the one      *)
(* below the other, by messages dispatched before d; no AAC header waits,  *)
(* so that Shrink, which puts the AAC header it keeps before the other     *)
(* one, keeps a single message.                                            *)
(***************************************************************************)
Waiting(q, d) ==
  /\ \A i, k \in 1 .. Len(q.msgs) : i < k => q.msgs[i].id < q.msgs[k].id
  /\ \A k \in 1 .. Len(q.msgs) : q.msgs[k].id \in 1 .. d /\ q.msgs[k].cls \in Classes

Sent(s, d) ==
  /\ s \in Seq(Nat)
  /\ \A i, k \in 1 .. Len(s) : i < k => s[i] < s[k]
  /\ \A i \in 1 .. Len(s) : s[i] <= d

Before(s, q) == \A i \in 1 .. Len(s), k \in 1 .. Len(q.msgs) : s[i] < q.msgs[k].id

Ordered(q, s, d) == Waiting(q, d) /\ Sent(s, d) /\ Before(s, q)

LEMMA AddedOrdered ==
  ASSUME NEW q, QueueOK(q), NEW s, NEW d \in Nat, Ordered(q, s, d),
         NEW m \in Msg, m.id = d + 1, m.cls \in Classes
  PROVE  Ordered(Added(q, m), s, d + 1)
<1> DEFINE r == Added(q, m)
           n == Len(q.msgs)
<1>1. /\ n \in Nat /\ Len(r.msgs) = n + 1 /\ r.msgs[n + 1] = m
      /\ \A i \in 1 .. n : r.msgs[i] = q.msgs[i]
  <2>1. q.msgs \in Seq(Msg)
    BY DEF QueueOK
  <2>2. r.msgs = Append(q.msgs, m)
    BY DEF QueueOK, Added
  <2> HIDE DEF r
  <2> QED BY <2>1, <2>2, AppendProperties, LenProperties
<1> HIDE DEF r, n
<1>2. \A i \in 1 .. n : q.msgs[i].id \in 1 .. d /\ q.msgs[i].cls \in Classes
  BY DEF Ordered, Waiting, n
<1>3. \A i, k \in 1 .. n : i < k => q.msgs[i].id < q.msgs[k].id
  BY DEF Ordered, Waiting, n
<1>4. Waiting(r, d + 1)
  <2>1. ASSUME NEW k \in 1 .. n + 1 PROVE r.msgs[k].id \in 1 .. d + 1 /\ r.msgs[k].cls \in Classes
    <3>1. CASE k = n + 1
      BY <1>1, <3>1
    <3>2. CASE k # n + 1
      <4>1. k \in 1 .. n
        BY <1>1, <3>2
      <4> QED BY <1>1, <1>2, <4>1
    <3> QED BY <3>1, <3>2
  <2>2. ASSUME NEW i \in 1 .. n + 1, NEW k \in 1 .. n + 1, i < k
        PROVE  r.msgs[i].id < r.msgs[k].id
    <3>0. i \in 1 .. n
      BY <1>1, <2>2
    <3>1. CASE k = n + 1
      BY <1>1, <1>2, <3>0, <3>1
    <3>2. CASE k # n + 1
      <4>1. k \in 1 .. n
        BY <1>1, <3>2
      <4> QED BY <1>1, <1>3, <2>2, <3>0, <4>1
    <3> QED BY <3>1, <3>2
  <2> QED BY <1>1, <2>1, <2>2 DEF Waiting
<1>5. Sent(s, d + 1)
  <2>1. \A i \in 1 .. Len(s) : s[i] \in Nat /\ s[i] <= d
    BY ElementOfSeq DEF Ordered, Sent
  <2> QED BY <2>1 DEF Ordered, Sent
<1>6. Before(s, r)
  <2> SUFFICES ASSUME NEW i \in 1 .. Len(s), NEW k \in 1 .. n + 1 PROVE s[i] < r.msgs[k].id
    BY <1>1 DEF Before
  <2>1. s[i] \in Nat /\ s[i] <= d
    BY ElementOfSeq DEF Ordered, Sent
  <2>2. CASE k = n + 1
    BY <1>1, <2>1, <2>2
  <2>3. CASE k # n + 1
    <3>1. k \in 1 .. n
      BY <1>1, <2>3
    <3> QED BY <1>1, <3>1 DEF Ordered, Before, n
  <2> QED BY <2>2, <2>3
<1> QED BY <1>4, <1>5, <1>6 DEF Ordered, r

LEMMA ShrinkOrdered ==
  ASSUME NEW q, QueueOK(q), NEW s, NEW d \in Nat, Ordered(q, s, d)
  PROVE  Ordered(Shrink(q), s, d)
<1> DEFINE Stamp(i) == [q.msgs[i] EXCEPT !.ts = q.av_end]
           Keep(hit) == IF hit = {} THEN <<>> ELSE <<Stamp(CHOOSE i \in hit : TRUE)>>
           v == LastOf(q.msgs, VideoSh)
<1>1. LastOf(q.msgs, AudioSh) = {}
  <2>1. \A i \in 1 .. Len(q.msgs) : ~AudioSh(q.msgs[i])
    BY PlayingAssumption DEF Ordered, Waiting, AudioSh, IsAudioSeqenceHeader, Relayed
  <2> QED BY <2>1 DEF LastOf
<1>2. Shrink(q).msgs = Keep({}) \o Keep(v)
  BY <1>1 DEF Shrink
<1>3. CASE v = {}
  <2>1. Shrink(q).msgs = <<>>
    BY <1>2, <1>3
  <2> QED BY <2>1 DEF Ordered, Waiting, Before
<1>4. CASE v # {}
  <2>1. PICK c \in v : c = CHOOSE i \in v : TRUE
    BY <1>4
  <2>2. c \in 1 .. Len(q.msgs) /\ q.msgs[c] \in Msg
    BY DEF LastOf, QueueOK
  <2>3. Stamp(c).id = q.msgs[c].id /\ Stamp(c).cls = q.msgs[c].cls
    BY <2>2 DEF Msg
  <2>4. Keep({}) = <<>> /\ Keep(v) = <<Stamp(c)>>
    BY <1>4, <2>1
  <2> HIDE DEF Keep, Stamp, v
  <2>5. Len(Shrink(q).msgs) = 1 /\ Shrink(q).msgs[1] = Stamp(c)
    BY <1>2, <2>4
  <2> QED BY <2>2, <2>3, <2>5 DEF Ordered, Waiting, Before
<1> QED BY <1>3, <1>4

LEMMA DumpOrdered ==
  ASSUME NEW q, QueueOK(q), NEW s, NEW d \in Nat, Ordered(q, s, d), NEW max \in Nat \ {0}
  PROVE  Ordered(DumpPackets(q, max),
                 s \o [i \in 1 .. DumpCount(q, max) |-> q.msgs[i].id], d)
<1> DEFINE n == DumpCount(q, max)
           l == Len(q.msgs)
           f == [i \in 1 .. n |-> q.msgs[i].id]
           t == s \o f
           r == DumpPackets(q, max)
<1>1. l \in Nat /\ n \in 0 .. l
  BY LenProperties DEF QueueOK, DumpCount, Size
<1>2. Len(r.msgs) = l - n /\ \A i \in 1 .. l - n : r.msgs[i] = q.msgs[n + i]
  <2>1. CASE n = 0
    BY <1>1, <2>1 DEF DumpPackets
  <2>2. CASE n # 0
    <3>1. r.msgs = SubSeq(q.msgs, n + 1, l)
      BY <2>2 DEF DumpPackets, QueueOK
    <3>2. q.msgs \in Seq(Msg) /\ n + 1 \in 1 .. l + 1
      BY <1>1 DEF QueueOK
    <3> HIDE DEF n, r
    <3> QED BY <1>1, <3>1, <3>2, SubSeqProperties
  <2> QED BY <2>1, <2>2
<1>3. f \in Seq(Nat) /\ Len(f) = n /\ \A i \in 1 .. n : f[i] = q.msgs[i].id
  <2> HIDE DEF n
  <2>1. \A i \in 1 .. n : q.msgs[i].id \in Nat
    BY <1>1 DEF Ordered, Waiting
  <2>2. n \in Nat
    BY <1>1
  <2> QED BY <2>1, <2>2, IsASeq
<1> HIDE DEF n, f, r
<1>4. /\ s \in Seq(Nat) /\ Len(s) \in Nat /\ t \in Seq(Nat) /\ Len(t) = Len(s) + n
      /\ \A i \in 1 .. Len(s) : t[i] = s[i]
      /\ \A i \in 1 .. n : t[Len(s) + i] = q.msgs[i].id
  <2>1. s \in Seq(Nat) /\ Len(s) \in Nat
    BY LenProperties DEF Ordered, Sent
  <2>2. t \in Seq(Nat) /\ Len(t) = Len(s) + n
    BY <1>3, <2>1, ConcatProperties
  <2>3. \A i \in 1 .. Len(s) : t[i] = s[i]
    BY <1>1, <1>3, <2>1, ConcatProperties
  <2>4. \A i \in 1 .. n : t[Len(s) + i] = q.msgs[i].id
    <3> SUFFICES ASSUME NEW i \in 1 .. n PROVE t[Len(s) + i] = f[i]
      BY <1>3
    <3> QED BY <1>1, <1>3, <2>1, ConcatProperties
  <2> QED BY <2>1, <2>2, <2>3, <2>4
<1> HIDE DEF t
<1>5. /\ \A i \in 1 .. l : q.msgs[i].id \in 1 .. d
      /\ \A i, k \in 1 .. l : i < k => q.msgs[i].id < q.msgs[k].id
  BY DEF Ordered, Waiting
<1>6. \A i \in 1 .. Len(s) : s[i] \in Nat /\ s[i] <= d
  BY <1>4, ElementOfSeq DEF Ordered, Sent
<1>7. Waiting(r, d)
  <2>1. \A i \in 1 .. l - n : n + i \in 1 .. l
    BY <1>1
  <2>2. ASSUME NEW k \in 1 .. l - n PROVE r.msgs[k].id \in 1 .. d /\ r.msgs[k].cls \in Classes
    BY <1>2, <2>1 DEF Ordered, Waiting
  <2>3. ASSUME NEW i \in 1 .. l - n, NEW k \in 1 .. l - n, i < k
        PROVE  r.msgs[i].id < r.msgs[k].id
    <3>1. n + i < n + k
      BY <1>1, <2>3
    <3> QED BY <1>2, <1>5, <2>1, <3>1
  <2> QED BY <1>2, <2>2, <2>3 DEF Waiting
<1>8. Sent(t, d)
  <2>1. ASSUME NEW i \in 1 .. Len(t) PROVE t[i] <= d
    <3>1. CASE i <= Len(s)
      BY <1>4, <1>6, <3>1
    <3>2. CASE i > Len(s)
      <4>1. PICK j \in 1 .. n : i = Len(s) + j
        <5>1. i - Len(s) \in 1 .. n /\ i = Len(s) + (i - Len(s))
          BY <1>1, <1>4, <3>2
        <5> QED BY <5>1
      <4>2. j \in 1 .. l
        BY <1>1
      <4>3. t[i] = q.msgs[j].id
        BY <1>4, <4>1
      <4>4. q.msgs[j].id <= d
        BY <1>5, <4>2
      <4> QED BY <4>3, <4>4
    <3> QED BY <1>4, <3>1, <3>2
  <2>2. ASSUME NEW i \in 1 .. Len(t), NEW k \in 1 .. Len(t), i < k PROVE t[i] < t[k]
    <3>1. CASE k <= Len(s)
      BY <1>4, <2>2, <3>1 DEF Ordered, Sent
    <3>2. CASE k > Len(s)
      <4>1. PICK j \in 1 .. n : k = Len(s) + j
        <5>1. k - Len(s) \in 1 .. n /\ k = Len(s) + (k - Len(s))
          BY <1>1, <1>4, <3>2
        <5> QED BY <5>1
      <4>2. j \in 1 .. l /\ t[k] = q.msgs[j].id
        BY <1>1, <1>4, <4>1
      <4>3. CASE i <= Len(s)
        <5>1. i \in 1 .. Len(s) /\ t[i] = s[i]
          BY <1>4, <4>3
        <5> QED BY <4>2, <5>1 DEF Ordered, Before
      <4>4. CASE i > Len(s)
        <5>1. i - Len(s) \in 1 .. n /\ i = Len(s) + (i - Len(s))
          BY <1>1, <1>4, <4>4
        <5>2. PICK g \in 1 .. n : i = Len(s) + g
          BY <5>1
        <5>3. g \in 1 .. l /\ g < j /\ t[i] = q.msgs[g].id
          BY <1>1, <1>4, <2>2, <4>1, <5>2
        <5> QED BY <1>5, <4>2, <5>3
      <4> QED BY <1>4, <4>3, <4>4
    <3> QED BY <1>4, <3>1, <3>2
  <2> QED BY <1>4, <2>1, <2>2 DEF Sent
<1>9. Before(t, r)
  <2> SUFFICES ASSUME NEW i \in 1 .. Len(t), NEW k \in 1 .. l - n PROVE t[i] < q.msgs[n + k].id
    BY <1>2 DEF Before
  <2>1. n + k \in 1 .. l
    BY <1>1
  <2>2. CASE i <= Len(s)
    <3>1. i \in 1 .. Len(s) /\ t[i] = s[i]
      BY <1>4, <2>2
    <3> QED BY <2>1, <3>1 DEF Ordered, Before
  <2>3. CASE i > Len(s)
    <3>1. i - Len(s) \in 1 .. n /\ i = Len(s) + (i - Len(s))
      BY <1>1, <1>4, <2>3
    <3>2. PICK g \in 1 .. n : i = Len(s) + g
      BY <3>1
    <3>3. g \in 1 .. l /\ g < n + k /\ t[i] = q.msgs[g].id
      BY <1>1, <1>4, <3>2
    <3> QED BY <1>5, <2>1, <3>3
  <2> QED BY <1>4, <2>2, <2>3
<1> QED BY <1>7, <1>8, <1>9 DEF Ordered, n, f, t, r

\* The variables IInv says nothing of.
Flags ==
  /\ loop \in BOOLEAN /\ interrupted \in BOOLEAN
  /\ recv_error \in BOOLEAN /\ auto_response \in BOOLEAN

Places ==
  /\ jitter.last \in Nat /\ recv_queue \in Nat
  /\ pc \in PlayPc /\ rpc \in RecvPc
  /\ peer \in {"open", "closed"} /\ received \in 0 .. MaxRecv
  /\ dispatched \in 0 .. MaxEnqueue

JInv == IInv /\ Flags /\ Places /\ Ordered(queue, sent, dispatched)

LEMMA InitJInv == Init => JInv
<1> SUFFICES ASSUME Init PROVE JInv
  OBVIOUS
<1>1. IInv
  BY InitIInv
<1>2. Flags
  BY Zenon DEF Init, Flags
<1>3. Places
  BY PlayingAssumption DEF Init, Places, NoJitter, PlayPc, RecvPc
<1>4. Ordered(queue, sent, dispatched)
  <2>1. queue.msgs = <<>> /\ sent = <<>>
    BY DEF Init, EmptyQueue
  <2>2. Len(queue.msgs) = 0 /\ Len(sent) = 0 /\ sent \in Seq(Nat)
    BY <2>1
  <2> QED BY <2>2 DEF Ordered, Waiting, Sent, Before
<1> QED BY <1>1, <1>2, <1>3, <1>4 DEF JInv

LEMMA SourceEnqueueJInv ==
  ASSUME JInv, NEW cls \in Classes, NEW ts \in 0 .. MaxTs, SourceEnqueue(cls, ts)
  PROVE  JInv'
<1> DEFINE j == JitterCorrect(jitter, ts)
           m == [type |-> IF cls \in AudioClasses THEN "audio" ELSE "video",
                 cls  |-> cls,
                 id   |-> dispatched + 1,
                 ts   |-> IF Atc THEN ts ELSE j.correct]
           q == Enqueue(queue, m)
<1>0. IInv /\ Flags /\ Places /\ Ordered(queue, sent, dispatched) /\ QueueOK(queue) /\ dispatched \in Nat
  BY DEF JInv, IInv
<1>1. j \in [last : Int, correct : Int] /\ j.last = ts
  <2>1. j \in [last : Int, correct : Int]
    BY <1>0, PlayingAssumption, JitterType DEF IInv, ClockOK
  <2>2. j.last = ts
    BY DEF JitterCorrect
  <2> QED BY <2>1, <2>2
<1>2. IInv'
  BY <1>0, SourceEnqueueIInv
<1>3. /\ dispatched < MaxEnqueue /\ dispatched' = dispatched + 1 /\ queue' = q
      /\ jitter' = IF Atc THEN jitter ELSE j
      /\ UNCHANGED <<recvVars, peer, received, sent>>
      /\ pc' = pc \/ pc' = "woken"
  BY DEF SourceEnqueue, WakeUp
<1> HIDE DEF j
<1>4. m \in Msg /\ m.id = dispatched + 1 /\ m.cls \in Classes
  BY <1>0, <1>1, PlayingAssumption DEF Msg, Relayed, MediaTypes
<1> HIDE DEF m
<1>5. Ordered(Added(queue, m), sent, dispatched + 1) /\ QueueOK(Added(queue, m))
  <2>1. QueueOK(Added(queue, m))
    <3>1. m.ts \in Int /\ Append(queue.msgs, m) \in Seq(Msg)
      BY <1>0, <1>4 DEF QueueOK, Msg
    <3> QED BY <1>0, <3>1 DEF QueueOK, Added
  <2> QED BY <1>0, <1>4, <2>1, AddedOrdered
<1>6. Ordered(q, sent, dispatched + 1)
  BY <1>0, <1>5, ShrinkOrdered DEF Enqueue
<1>7. Flags'
  BY <1>0, <1>3 DEF Flags, recvVars
<1>8. Places'
  BY <1>0, <1>1, <1>3, PlayingAssumption DEF Places, recvVars, PlayPc
<1>9. Ordered(queue', sent', dispatched')
  <2>1. queue' = q /\ sent' = sent /\ dispatched' = dispatched + 1
    BY <1>3
  <2> HIDE DEF q
  <2> QED BY <1>6, <2>1
<1> QED BY <1>2, <1>7, <1>8, <1>9 DEF JInv

\* What DoPlaying takes from the window goes out in its order.
LEMMA DumpAndSendOrdered ==
  ASSUME JInv, DumpAndSend, UNCHANGED dispatched
  PROVE  Ordered(queue', sent', dispatched')
<1>1. CASE queue.msgs = <<>>
  BY <1>1 DEF DumpAndSend, JInv
<1>2. CASE queue.msgs # <<>>
  <2>1. /\ queue' = DumpPackets(queue, MaxBatch)
        /\ sent' = sent \o [i \in 1 .. DumpCount(queue, MaxBatch) |-> queue.msgs[i].id]
    BY <1>2 DEF DumpAndSend
  <2>2. Ordered(DumpPackets(queue, MaxBatch),
                sent \o [i \in 1 .. DumpCount(queue, MaxBatch) |-> queue.msgs[i].id], dispatched)
    BY PlayingAssumption, DumpOrdered DEF JInv, IInv
  <2> QED BY <2>1, <2>2
<1> QED BY <1>1, <1>2

LEMMA PlayJInv == ASSUME JInv, Play PROVE JInv'
<1>0. IInv /\ Flags /\ Places /\ Ordered(queue, sent, dispatched)
  BY DEF JInv
<1>1. IInv'
  BY <1>0, PlayIInv
<1>2. Flags'
  <2>1. recv_error' = recv_error /\ auto_response' = auto_response
    BY DEF Play, PlayLoop, Resume, SendDone, Join, recvVars
  <2>2. /\ loop' = loop \/ loop' = FALSE
        /\ interrupted' = interrupted \/ interrupted' = (rpc # "done")
    BY DEF Play, PlayLoop, Resume, SendDone, Join, recvVars, StopRecv
  <2> QED BY <1>0, <2>1, <2>2, Zenon DEF Flags
<1>3. Places'
  BY <1>0 DEF Places, Play, PlayLoop, Resume, SendDone, Join, StopRecv, DumpAndSend, recvVars,
              envVars, consumerVars, PlayPc
<1>4. Ordered(queue, sent, dispatched)'
  <2>1. CASE DumpAndSend
    <3>1. dispatched' = dispatched
      BY DEF Play, PlayLoop, Resume, SendDone, Join, envVars
    <3> QED BY <2>1, <3>1, DumpAndSendOrdered
  <2>2. CASE UNCHANGED <<queue, sent, dispatched>>
    BY <1>0, <2>2
  <2> QED BY <2>1, <2>2 DEF Play, PlayLoop, Resume, SendDone, Join, envVars, consumerVars
<1> QED BY <1>1, <1>2, <1>3, <1>4 DEF JInv

LEMMA RecvJInv == ASSUME JInv, Recv PROVE JInv'
<1>0. IInv /\ Flags /\ Places /\ Ordered(queue, sent, dispatched)
  BY DEF JInv
<1>1. IInv'
  BY <1>0, RecvIInv
<1>2. Flags'
  BY <1>0 DEF Flags, Recv, RecvStart, RecvAwake, RecvHandle, RecvFail, RecvBad, RecvError,
              RecvCheck, RecvExit
<1>3. Places'
  BY <1>0, PlayingAssumption
     DEF Places, Recv, RecvStart, RecvAwake, RecvHandle, RecvFail, RecvBad, RecvError,
         RecvCheck, RecvExit, WakeUp, PlayPc, RecvPc, consumerVars, envVars
<1>4. UNCHANGED <<queue, sent, dispatched>>
  BY DEF Recv, RecvStart, RecvAwake, RecvHandle, RecvFail, RecvBad, RecvError,
         consumerVars, envVars
<1> QED BY <1>0, <1>1, <1>2, <1>3, <1>4 DEF JInv

LEMMA NextJInv == JInv /\ [Next]_vars => JInv'
<1> SUFFICES ASSUME JInv, [Next]_vars PROVE JInv'
  OBVIOUS
<1>0. IInv /\ Flags /\ Places /\ Ordered(queue, sent, dispatched)
  BY DEF JInv
<1>1. CASE SourceNext
  BY <1>1, SourceEnqueueJInv DEF SourceNext
<1>2. CASE PeerClose \/ UNCHANGED vars
  <2>1. IInv'
    BY <1>0, <1>2, NextIInv DEF Next
  <2>2. /\ UNCHANGED <<queue, sent, dispatched, jitter, mw_waiting, pc, received>> /\ UNCHANGED recvVars
        /\ peer' \in {peer, "closed"}
    BY <1>2 DEF PeerClose, vars, consumerVars, envVars
  <2>3. Flags' /\ Places'
    BY <1>0, <2>2 DEF Flags, Places, recvVars
  <2> QED BY <1>0, <2>1, <2>2, <2>3 DEF JInv
<1> QED BY <1>1, <1>2, PlayJInv, RecvJInv DEF Next

(***************************************************************************)
(* TypeOK: for every window, batch size and number of messages.            *)
(***************************************************************************)
THEOREM PlayTypeOK == Spec => []TypeOK
<1>1. JInv => TypeOK
  <2> SUFFICES ASSUME JInv PROVE TypeOK
    OBVIOUS
  <2>1. ASSUME NEW i \in 1 .. Len(queue.msgs)
        PROVE  queue.msgs[i] \in [type : MediaTypes, cls : AudioClasses \cup VideoClasses,
                                  id : 1 .. MaxEnqueue, ts : Int]
    <3> DEFINE x == queue.msgs[i]
    <3>1. x \in Msg
      BY DEF JInv, IInv, QueueOK
    <3>2. x.id \in 1 .. MaxEnqueue
      <4>1. x.id \in 1 .. dispatched /\ dispatched \in 0 .. MaxEnqueue
        BY DEF JInv, Ordered, Waiting, Places
      <4> QED BY <4>1, PlayingAssumption
    <3> HIDE DEF x
    <3>3. x \in [type : MediaTypes, cls : AudioClasses \cup VideoClasses,
                 id : 1 .. MaxEnqueue, ts : Int]
      BY <3>1, <3>2 DEF Msg
    <3> QED BY <3>3 DEF x
  <2>2. queue.av_start \in Int /\ queue.av_end \in Int
    BY DEF JInv, IInv, QueueOK
  <2>3. jitter \in [last : Nat, correct : Int]
    BY DEF JInv, IInv, ClockOK, Places
  <2>4. /\ mw_waiting \in BOOLEAN /\ loop \in BOOLEAN /\ interrupted \in BOOLEAN
        /\ recv_error \in BOOLEAN /\ auto_response \in BOOLEAN
    BY Zenon DEF JInv, IInv, Flags
  <2> QED BY <2>1, <2>2, <2>3, <2>4 DEF JInv, Places, TypeOK
<1> QED BY <1>1, InitJInv, NextJInv, PTL DEF Spec

(***************************************************************************)
(* DeliveryOrder: messages reach SendAndFreeMessages in dispatch order and *)
(* once, and those that wait come after them, also when the window was     *)
(* shrunk in between.                                                      *)
(***************************************************************************)
THEOREM PlayDeliveryOrder == Spec => []DeliveryOrder
<1>1. JInv => DeliveryOrder
  <2> SUFFICES ASSUME JInv PROVE DeliveryOrder
    OBVIOUS
  <2> DEFINE n == Len(queue.msgs)
             f == [i \in 1 .. n |-> queue.msgs[i].id]
             t == sent \o f
  <2>1. n \in Nat /\ sent \in Seq(Nat) /\ Len(sent) \in Nat
    BY LenProperties DEF JInv, IInv, QueueOK, Ordered, Sent
  <2>2. f \in Seq(Nat) /\ Len(f) = n /\ \A i \in 1 .. n : f[i] = queue.msgs[i].id
    <3> HIDE DEF n
    <3>1. \A i \in 1 .. n : queue.msgs[i].id \in Nat
      BY DEF JInv, Ordered, Waiting, n
    <3> QED BY <2>1, <3>1, IsASeq
  <2> HIDE DEF f
  <2>3. /\ Len(t) = Len(sent) + n
        /\ \A i \in 1 .. Len(sent) : t[i] = sent[i]
        /\ \A i \in 1 .. n : t[Len(sent) + i] = f[i]
    <3> HIDE DEF n
    <3>1. Len(t) = Len(sent) + n
      BY <2>1, <2>2, ConcatProperties
    <3>2. \A i \in 1 .. Len(sent) : t[i] = sent[i]
      BY <2>1, <2>2, ConcatProperties
    <3>3. ASSUME NEW i \in 1 .. n PROVE t[Len(sent) + i] = f[i]
      BY <2>1, <2>2, ConcatProperties
    <3> QED BY <3>1, <3>2, <3>3
  <2> HIDE DEF t
  <2>4. ASSUME NEW i \in 1 .. Len(t), NEW k \in 1 .. Len(t), i < k PROVE t[i] < t[k]
    <3>1. CASE k <= Len(sent)
      BY <2>1, <2>3, <2>4, <3>1 DEF JInv, Ordered, Sent
    <3>2. CASE k > Len(sent)
      <4>1. k - Len(sent) \in 1 .. n /\ k = Len(sent) + (k - Len(sent))
        BY <2>1, <2>3, <3>2
      <4>2. PICK j \in 1 .. n : k = Len(sent) + j
        BY <4>1
      <4>3. t[k] = queue.msgs[j].id
        BY <2>2, <2>3, <4>2
      <4>4. CASE i <= Len(sent)
        <5>1. i \in 1 .. Len(sent) /\ t[i] = sent[i]
          BY <2>1, <2>3, <4>4
        <5> QED BY <4>3, <5>1 DEF JInv, Ordered, Before
      <4>5. CASE i > Len(sent)
        <5>1. i - Len(sent) \in 1 .. n /\ i = Len(sent) + (i - Len(sent))
          BY <2>1, <2>3, <4>5
        <5>2. PICK g \in 1 .. n : i = Len(sent) + g
          BY <5>1
        <5>3. g < j /\ t[i] = queue.msgs[g].id
          BY <2>1, <2>2, <2>3, <2>4, <4>2, <5>2
        <5> QED BY <4>3, <5>3 DEF JInv, Ordered, Waiting
      <4> QED BY <2>1, <4>4, <4>5
    <3> QED BY <2>1, <3>1, <3>2
  <2> QED BY <2>4 DEF DeliveryOrder, t, f
<1> QED BY <1>1, InitJInv, NextJInv, PTL DEF Spec

(***************************************************************************)
(* WindowBounded: Consumer::Enqueue never leaves more than queue_size_ms_  *)
(* of media behind, whatever timestamps the publisher sends.               *)
(***************************************************************************)
THEOREM PlayWindowBounded == Spec => WindowBounded
<1>1. ASSUME NEW q, QueueOK(q), NEW m \in Msg PROVE Duration(Enqueue(q, m)) <= QueueSize
  <2>1. Added(q, m).av_end \in Int /\ Added(q, m).av_start \in Int
    BY <1>1 DEF Added, QueueOK, Msg
  <2>2. CASE Overflows(q, m)
    <3>1. Duration(Enqueue(q, m)) = Added(q, m).av_end - Added(q, m).av_end
      BY <2>2 DEF Enqueue, Shrink, Duration
    <3> QED BY <2>1, <3>1, WindowAssumption
  <2>3. CASE ~Overflows(q, m)
    BY <2>1, <2>3, WindowAssumption DEF Enqueue, Overflows, Duration
  <2> QED BY <2>2, <2>3
<1>2. IInv /\ [Next]_vars => [dispatched' # dispatched => Duration(queue') <= QueueSize]_vars
  <2> SUFFICES ASSUME IInv, Next, dispatched' # dispatched PROVE Duration(queue') <= QueueSize
    OBVIOUS
  <2>1. PICK cls \in Classes, ts \in 0 .. MaxTs : SourceEnqueue(cls, ts)
    BY DEF Next, SourceNext, Play, PlayLoop, Resume, SendDone, Join, Recv, RecvStart, RecvAwake,
           RecvHandle, RecvFail, RecvBad, RecvError, PeerClose, envVars
  <2> DEFINE j == JitterCorrect(jitter, ts)
             m == [type |-> IF cls \in AudioClasses THEN "audio" ELSE "video",
                   cls  |-> cls,
                   id   |-> dispatched + 1,
                   ts   |-> IF Atc THEN ts ELSE j.correct]
  <2>2. j \in [last : Int, correct : Int]
    <3>1. jitter \in [last : Int, correct : Int] /\ ts \in Int
      BY PlayingAssumption DEF IInv, ClockOK
    <3> QED BY <3>1, JitterType
  <2>3. queue' = Enqueue(queue, m)
    BY <2>1 DEF SourceEnqueue
  <2> HIDE DEF j
  <2>4. m \in Msg
    BY <2>2, PlayingAssumption DEF Msg, IInv, Relayed, MediaTypes
  <2> HIDE DEF m
  <2> QED BY <1>1, <2>3, <2>4 DEF IInv
<1> QED BY <1>2, InitIInv, NextIInv, PTL DEF Spec, WindowBounded

(***************************************************************************)
(* The session and the promise of a Thread, as Coroutine sees the thread.  *)
(***************************************************************************)
RecvOwner == IF pc = "join" THEN "stopping" ELSE "free"

\* Each kind of step Coroutine allows, in terms of the session.
LEMMA CoroutineSteps ==
  /\ (RecvPlace' = RecvPlace /\ loop' = loop /\ RecvOwner' = RecvOwner)
       => [Receiver!Next]_(Receiver!vars)
  /\ (/\ RecvPlace = "created" /\ RecvPlace' = (IF loop THEN "running" ELSE "done")
      /\ loop' = loop /\ RecvOwner' = RecvOwner)
       => [Receiver!Next]_(Receiver!vars)
  /\ (/\ RecvPlace = "running" /\ RecvPlace' = "done"
      /\ loop' = FALSE /\ RecvOwner' = RecvOwner)
       => [Receiver!Next]_(Receiver!vars)
  /\ (/\ RecvPlace # "none" /\ RecvPlace' = RecvPlace
      /\ loop' = FALSE /\ RecvOwner = "free" /\ RecvOwner' = "stopping")
       => [Receiver!Next]_(Receiver!vars)
  /\ (/\ RecvPlace = "done" /\ RecvPlace' = "none"
      /\ loop' = loop /\ RecvOwner = "stopping" /\ RecvOwner' = "free")
       => [Receiver!Next]_(Receiver!vars)
<1>1. ASSUME RecvPlace' = RecvPlace, loop' = loop, RecvOwner' = RecvOwner
      PROVE  [Receiver!Next]_(Receiver!vars)
  BY <1>1 DEF Receiver!vars, RecvOwner
<1>2. ASSUME RecvPlace = "created", RecvPlace' = (IF loop THEN "running" ELSE "done"),
             loop' = loop, RecvOwner' = RecvOwner
      PROVE  Receiver!Begin("recv")
  BY <1>2 DEF Receiver!Begin, RecvOwner
<1>3. ASSUME RecvPlace = "running", RecvPlace' = "done", loop' = FALSE, RecvOwner' = RecvOwner
      PROVE  Receiver!Leave("recv")
  BY <1>3 DEF Receiver!Leave, RecvOwner
<1>4. ASSUME RecvPlace # "none", RecvPlace' = RecvPlace, loop' = FALSE,
             RecvOwner = "free", RecvOwner' = "stopping"
      PROVE  Receiver!Stop("recv")
  BY <1>4 DEF Receiver!Stop, RecvOwner
<1>5. ASSUME RecvPlace = "done", RecvPlace' = "none", loop' = loop,
             RecvOwner = "stopping", RecvOwner' = "free"
      PROVE  Receiver!Stopped("recv")
  BY <1>5 DEF Receiver!Stopped, RecvOwner
<1> QED BY <1>1, <1>2, <1>3, <1>4, <1>5 DEF Receiver!Next

\* The steps of Playing: it stops the thread, or has joined it, or leaves it alone.
LEMMA PlayPromise ==
  ASSUME JInv, Play PROVE [Receiver!Next]_(Receiver!vars)
<1>1. CASE StopRecv
  <2>1. rpc' = rpc /\ pc \in {"loop", "sleep", "send"} /\ pc' = "join" /\ loop' = FALSE
    BY <1>1 DEF Play, PlayLoop, Resume, SendDone, Join, StopRecv, DumpAndSend, recvVars
  <2>2. RecvPlace # "none" /\ RecvPlace' = RecvPlace
    BY <2>1 DEF RecvPlace
  <2> QED BY <2>1, <2>2, CoroutineSteps DEF RecvOwner
<1>2. CASE Join
  <2>1. RecvPlace = "done" /\ RecvPlace' = "none" /\ loop' = loop
    BY <1>2 DEF Join, RecvPlace, recvVars
  <2> QED BY <1>2, <2>1, CoroutineSteps DEF Join, RecvOwner
<1>3. CASE ~StopRecv /\ ~Join
  <2>1. /\ pc \in {"loop", "sleep", "woken"} /\ pc' \in {"wait", "sleep", "send"}
        /\ rpc' = rpc /\ loop' = loop
    BY <1>3 DEF Play, PlayLoop, Resume, SendDone, DumpAndSend, recvVars
  <2>2. RecvPlace' = RecvPlace /\ RecvOwner' = RecvOwner
    BY <2>1 DEF RecvPlace, RecvOwner
  <2> QED BY <2>1, <2>2, CoroutineSteps
<1> QED BY <1>1, <1>2, <1>3

\* A wake-up does not change what Playing wants of the thread.
LEMMA WakesOnly ==
  ASSUME WakeUp \/ pc' = pc
  PROVE  RecvOwner' = RecvOwner /\ (pc' = "done" <=> pc = "done")
BY DEF WakeUp, RecvOwner

\* The steps of the thread: it begins, goes on, or leaves.
LEMMA RecvPromise ==
  ASSUME JInv, Recv PROVE [Receiver!Next]_(Receiver!vars)
<1>0. loop \in BOOLEAN /\ (pc = "done" => rpc = "done")
  BY DEF JInv, Flags, IInv, OneReader
<1>1. CASE RecvStart \/ RecvAwake
  <2>1. pc' = pc /\ loop' = loop /\ pc # "done" /\ RecvOwner' = RecvOwner
    BY <1>0, <1>1 DEF RecvStart, RecvAwake, RecvOwner
  <2>2. (rpc' = "done" /\ ~loop) \/ (rpc' \in {"sleep", "recv"} /\ loop)
    BY <1>1 DEF RecvStart, RecvAwake, RecvCheck, RecvExit
  <2>3. RecvPlace' = IF loop THEN "running" ELSE "done"
    BY <2>1, <2>2 DEF RecvPlace
  <2>4. RecvPlace = IF rpc = "start" THEN "created" ELSE "running"
    BY <1>1, <2>1 DEF RecvStart, RecvAwake, RecvPlace
  <2>5. CASE RecvPlace = "created"
    BY <2>1, <2>3, <2>5, CoroutineSteps
  <2>6. CASE RecvPlace = "running" /\ loop
    BY <2>1, <2>3, <2>6, CoroutineSteps
  <2>7. CASE RecvPlace = "running" /\ ~loop
    <3>1. loop' = FALSE /\ RecvPlace' = "done"
      BY <1>0, <2>1, <2>3, <2>7
    <3> QED BY <2>1, <2>7, <3>1, CoroutineSteps
  <2> QED BY <2>4, <2>5, <2>6, <2>7
<1>2. CASE RecvHandle
  <2>1. RecvOwner' = RecvOwner /\ (pc' = "done" <=> pc = "done")
    BY <1>2, WakesOnly DEF RecvHandle
  <2>2. RecvPlace' = RecvPlace /\ loop' = loop
    BY <1>0, <1>2, <2>1 DEF RecvHandle, RecvPlace
  <2> QED BY <2>1, <2>2, CoroutineSteps
<1>3. CASE RecvFail \/ RecvBad
  <2>1. RecvOwner' = RecvOwner /\ (pc' = "done" <=> pc = "done")
    BY <1>3, WakesOnly DEF RecvFail, RecvBad, RecvError
  <2>2. RecvPlace = "running" /\ RecvPlace' = "done" /\ loop' = FALSE
    BY <1>0, <1>3, <2>1 DEF RecvFail, RecvBad, RecvError, RecvExit, RecvPlace
  <2> QED BY <2>1, <2>2, CoroutineSteps
<1> QED BY <1>1, <1>2, <1>3 DEF Recv

(***************************************************************************)
(* Playing uses its receive thread as a Thread behaves, from Start until   *)
(* Stop has returned, whatever the player, the publisher and errors do.    *)
(***************************************************************************)
THEOREM PlayReceiverIsThread == Spec => ReceiverIsThread
<1>1. Init => Receiver!Init
  <2> SUFFICES ASSUME Init PROVE Receiver!Init
    OBVIOUS
  <2>1. RecvPlace = "created" /\ loop = TRUE /\ pc # "join"
    BY DEF Init, RecvPlace
  <2> QED BY <2>1 DEF Receiver!Init
<1>2. JInv /\ [Next]_vars => [Receiver!Next]_(Receiver!vars)
  <2> SUFFICES ASSUME JInv, [Next]_vars PROVE [Receiver!Next]_(Receiver!vars)
    OBVIOUS
  <2>1. CASE SourceNext \/ PeerClose \/ UNCHANGED vars
    <3>1. rpc' = rpc /\ loop' = loop /\ (WakeUp \/ pc' = pc)
      BY <2>1 DEF SourceNext, SourceEnqueue, PeerClose, vars, recvVars
    <3>2. RecvPlace' = RecvPlace /\ RecvOwner' = RecvOwner
      BY <3>1, WakesOnly DEF RecvPlace
    <3> QED BY <3>1, <3>2, CoroutineSteps
  <2> QED BY <2>1, PlayPromise, RecvPromise DEF Next
<1> QED BY <1>1, <1>2, InitJInv, NextJInv, PTL DEF Spec, ReceiverIsThread, Receiver!Safety
=============================================================================
