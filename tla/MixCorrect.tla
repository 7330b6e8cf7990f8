----------------------------- MODULE MixCorrect -----------------------------
(***************************************************************************)
(* Source::OnAudio and Source::OnVideo up to the message they hand to      *)
(* on_audio_impl or on_video_impl: push the message, then pop at most one. *)
(* acquire_publish turns nobody away, so several publishers may share the  *)
(* buffer of one Source.                                                   *)
(***************************************************************************)
EXTENDS MixQueue

CONSTANTS Publishers,     \* connections that publish the stream
          MaxTs,          \* largest timestamp a publisher sends
          MaxPush,        \* messages pushed in a behaviour
          TrackMonotone   \* TRUE: each publisher's tracks never go back in time

ASSUME MixAssumption ==
  MaxTs \in Nat /\ MaxPush \in Nat /\ TrackMonotone \in BOOLEAN

VARIABLES queue,          \* Source::mix_queue_
          lastIn,         \* largest timestamp pushed so far, per track
          lastSeq         \* arrival number of the last message out, per track

mixVars == <<queue, lastIn, lastSeq>>

MixMessage == [from : Publishers, type : MediaTypes, ts : 0 .. MaxTs]
MixEntry   == [seq : 1 .. MaxPush, msg : MixMessage]

\* The audio or the video of one publisher.
Tracks   == Publishers \X MediaTypes
Track(m) == <<m.from, m.type>>

OfType(q, t) == {e \in q.msgs : e.msg.type = t}

MixInit ==
  /\ queue = EmptyMix
  /\ lastIn = [t \in Tracks |-> 0]
  /\ lastSeq = [t \in Tracks |-> 0]

(***************************************************************************)
(* One call of OnAudio or OnVideo.  Nothing in it yields, so it is atomic. *)
(***************************************************************************)
MixOnMessage(m) ==
  LET pushed == MixPush(queue, m)
      e      == MixBegin(pushed)
  IN  /\ queue.arrivals < MaxPush
      /\ TrackMonotone => m.ts >= lastIn[Track(m)]
      /\ lastIn' = [lastIn EXCEPT ![Track(m)] = IF m.ts > @ THEN m.ts ELSE @]
      /\ \/ /\ ~MixOk(pushed)
            /\ queue' = pushed
            /\ UNCHANGED lastSeq
         \/ /\ MixOk(pushed)
            /\ queue' = MixPop(pushed)
            /\ lastSeq' = [lastSeq EXCEPT ![Track(e.msg)] = e.seq]

MixNext == \E m \in MixMessage : MixOnMessage(m)

MixSpec == MixInit /\ [][MixNext]_mixVars
-----------------------------------------------------------------------------
MixTypeOK ==
  /\ queue \in [msgs : SUBSET MixEntry, nb_videos : Nat, nb_audios : Nat,
                arrivals : 0 .. MaxPush]
  /\ lastIn \in [Tracks -> 0 .. MaxTs]
  /\ lastSeq \in [Tracks -> 0 .. MaxPush]

(***************************************************************************)
(* nb_videos_ and nb_audios_ count exactly the queued messages of each     *)
(* track, although Push tests IsVideo and Pop tests IsAudio; so neither    *)
(* uint32_t counter ever wraps below zero.                                 *)
(***************************************************************************)
CountersExact ==
  /\ queue.nb_videos = Cardinality(OfType(queue, "video"))
  /\ queue.nb_audios = Cardinality(OfType(queue, "audio"))

(***************************************************************************)
(* Between two calls the reorder buffer holds fewer than                   *)
(* MIX_CORRECT_PURE_AV messages of both tracks together, although Push and *)
(* Pop decide by counters they keep themselves: the delay that mix_correct *)
(* adds to a stream is bounded.                                            *)
(***************************************************************************)
BacklogBounded == Cardinality(queue.msgs) < Pure

\* Every entry arrived, and no two arrived together.
Arrived ==
  /\ \A e \in queue.msgs : e.seq <= queue.arrivals
  /\ \A d, e \in queue.msgs : d.seq = e.seq => d = e
  /\ \A t \in Tracks : lastSeq[t] <= queue.arrivals

\* What TrackMonotone makes of the entries of one track.
TrackSorted ==
  TrackMonotone =>
    /\ \A e \in queue.msgs : e.msg.ts <= lastIn[Track(e.msg)]
    /\ \A d, e \in queue.msgs :
         Track(d.msg) = Track(e.msg) /\ d.seq < e.seq => d.msg.ts <= e.msg.ts

(***************************************************************************)
(* Publishers whose tracks are each in timestamp order get each track      *)
(* relayed in the order it was sent, although nothing arbitrates between   *)
(* publishers of one stream and their messages mix: no message still       *)
(* queued arrived before a message of its track that has left.             *)
(***************************************************************************)
TrackOrder ==
  TrackMonotone => \A e \in queue.msgs : e.seq > lastSeq[Track(e.msg)]
=============================================================================
