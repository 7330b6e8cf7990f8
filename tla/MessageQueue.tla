---------------------------- MODULE MessageQueue ----------------------------
(***************************************************************************)
(* What a consumer keeps of a stream: the timestamp corrector of           *)
(* rtmp_jitter.cpp and the message window of rtmp_message.cpp.             *)
(*                                                                         *)
(* A jitter is [last, correct] (last_pkt_time_, last_pkt_correct_time_).   *)
(* A queue is [msgs, av_start, av_end]; Duration is av_end - av_start and  *)
(* both times are -1 until they are set.                                   *)
(***************************************************************************)
EXTENDS Media, Sequences

CONSTANTS MaxJitter,    \* MAX_JITTER_MS
          FrameTime,    \* DEFAULT_FRAME_TIME_MS
          QueueSize     \* queue_size_ms_

ASSUME WindowAssumption ==
  /\ MaxJitter \in Nat
  /\ FrameTime \in 0 .. MaxJitter
  /\ QueueSize \in Nat

NoJitter == [last |-> 0, correct |-> -1]

(***************************************************************************)
(* Jitter::Correct under JitterAlgorithm::FULL, the only algorithm a       *)
(* Source uses, for an audio or video message of timestamp ts; the         *)
(* corrected timestamp is the new j.correct.                               *)
(***************************************************************************)
JitterCorrect(j, ts) ==
  LET delta == IF ts - j.last < -MaxJitter \/ ts - j.last > MaxJitter
               THEN FrameTime
               ELSE ts - j.last
      to    == j.correct + delta
  IN  [last |-> ts, correct |-> IF to < 0 THEN 0 ELSE to]
-----------------------------------------------------------------------------
EmptyQueue == [msgs |-> <<>>, av_start |-> -1, av_end |-> -1]

Duration(q) == q.av_end - q.av_start
Size(q)     == Len(q.msgs)

\* The last position of a sequence that satisfies a test, as a set of at most one.
LastOf(s, Test(_)) ==
  {i \in 1 .. Len(s) : Test(s[i]) /\ \A k \in i + 1 .. Len(s) : ~Test(s[k])}

(***************************************************************************)
(* MessageQueue::Shrink.  It means to keep the last sequence header of     *)
(* each track; the second test asks IsAudio again, so what it keeps beside *)
(* an AAC header is an audio message that reads like an AVC header.        *)
(***************************************************************************)
AudioSh(m) == IsAudio(m) /\ IsAudioSeqenceHeader(m)
VideoSh(m) == IsAudio(m) /\ ~AudioSh(m) /\ IsVideoSeqenceHeader(m)

\* Positions whose message Shrink frees: superseded headers and everything else.
ShrinkFrees(s) == (1 .. Len(s)) \ (LastOf(s, AudioSh) \cup LastOf(s, VideoSh))

Shrink(q) ==
  LET Stamp(i) == [q.msgs[i] EXCEPT !.ts = q.av_end]
      Keep(hit) == IF hit = {} THEN <<>> ELSE <<Stamp(CHOOSE i \in hit : TRUE)>>
  IN  [msgs     |-> Keep(LastOf(q.msgs, AudioSh)) \o Keep(LastOf(q.msgs, VideoSh)),
       av_start |-> q.av_end,
       av_end   |-> q.av_end]

(***************************************************************************)
(* MessageQueue::Enqueue.  One Shrink empties the window, so the loop of   *)
(* the code runs at most once.                                             *)
(***************************************************************************)
Added(q, m) ==
  [q EXCEPT !.msgs = Append(@, m), !.av_end = IF IsAV(m) THEN m.ts ELSE @]

\* Mutant: the window is not checked when a message is added.
NeverOverflows(q, m) == FALSE

Overflows(q, m) == Duration(Added(q, m)) > QueueSize

Enqueue(q, m) == IF Overflows(q, m) THEN Shrink(Added(q, m)) ELSE Added(q, m)

DumpCount(q, max) == IF Size(q) < max THEN Size(q) ELSE max

\* MessageQueue::DumpPackets of a non-empty queue.
Dumped(q, max) == SubSeq(q.msgs, 1, DumpCount(q, max))

\* Mutant: the messages handed out stay in the queue.
DumpKeeps(q, max) ==
  LET n == DumpCount(q, max)
  IN  IF n = 0 THEN q ELSE [q EXCEPT !.av_start = q.msgs[n].ts]

DumpPackets(q, max) ==
  LET n == DumpCount(q, max)
  IN  IF n = 0 THEN q
      ELSE [q EXCEPT !.msgs     = SubSeq(@, n + 1, Len(@)),
                     !.av_start = q.msgs[n].ts]
=============================================================================
