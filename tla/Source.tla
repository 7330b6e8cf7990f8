------------------------------- MODULE Source -------------------------------
(***************************************************************************)
(* protocol/rtmp_source.cpp: one Source relays a published stream to its   *)
(* consumers.  OnAudio and OnVideo pass each message through mix_queue_    *)
(* and hand what comes out to on_audio_impl or on_video_impl, which keep   *)
(* the sequence header caches, dispatch to every consumer and feed the GOP *)
(* cache; CreateConsumer primes a new consumer from the caches.  None of   *)
(* them yields, so each call is one action.                                *)
(*                                                                         *)
(* A SharedPtrMessage is a record naming its payload by id; shared_count   *)
(* is the counter in that payload, and -1 once the payload is freed:       *)
(* destroying a handle takes one from it whether or not it was the last.   *)
(*                                                                         *)
(* GetATC is false and no AMF0 data message survives decoding, so atc_     *)
(* stays false and cache_metadata_ stays null.                             *)
(***************************************************************************)
EXTENDS MixQueue, MessageQueue, GopCache

CONSTANTS Inputs,        \* the <<class, body, timestamp>> messages a publisher sends
          MaxMsgs,       \* messages published
          MaxConsumers,  \* consumers created
          MaxBatch       \* RTMP_MR_MSGS

ASSUME SourceAssumption ==
  /\ MaxMsgs \in Nat /\ MaxConsumers \in Nat
  /\ MaxBatch \in Nat \ {0}
  /\ \A p \in Inputs : p[1] \in AudioClasses \cup VideoClasses /\ p[3] \in Nat

Null == [type |-> "none"]

VARIABLES
  mix,             \* mix_queue_
  cache_sh_video,  \* cache_sh_video_ or Null
  cache_sh_audio,  \* cache_sh_audio_ or Null
  gop,             \* gop_cache_
  consumers,       \* consumers_: a sequence of [queue, jitter, inflight, header]
  shared_count     \* per payload id: shared_count, or -1 once freed

vars == <<mix, cache_sh_video, cache_sh_audio, gop, consumers, shared_count>>

Published == Len(shared_count)

(***************************************************************************)
(* A consumer: its window, its clock, the messages a play session has      *)
(* taken and not yet freed, and - a history of the model - the body of the *)
(* last video sequence header it was given.                                *)
(***************************************************************************)
NewConsumer == [queue |-> EmptyQueue, jitter |-> NoJitter, inflight |-> <<>>, header |-> "none"]

\* Consumer::Enqueue of a copy of m.
Given(c, m) ==
  LET j == JitterCorrect(c.jitter, m.ts)
  IN  [c EXCEPT !.queue  = Enqueue(@, [m EXCEPT !.ts = j.correct]),
                !.jitter = j,
                !.header = IF IsVideo(m) /\ IsVideoSeqenceHeader(m) THEN m.body ELSE @]

\* The handles to payload id that Consumer::Enqueue destroys.
GivenFrees(c, m, id) ==
  LET n == [m EXCEPT !.ts = JitterCorrect(c.jitter, m.ts).correct]
      s == Added(c.queue, n).msgs
  IN  IF Overflows(c.queue, n) THEN Cardinality({i \in ShrinkFrees(s) : s[i].id = id}) ELSE 0
-----------------------------------------------------------------------------
(***************************************************************************)
(* What a call did to the handles: one copy per holder that took one, one  *)
(* destruction per handle freed.                                           *)
(***************************************************************************)
Occurs(s, id) == Cardinality({i \in 1 .. Len(s) : s[i].id = id})

Held(m, id) == IF m # Null /\ m.id = id THEN 1 ELSE 0

\* f[1] + ... + f[n].
Sum(f, n) ==
  LET sum[i \in 0 .. n] == IF i = 0 THEN 0 ELSE sum[i - 1] + f[i]
  IN  sum[n]

\* Handles to id that dispatching m to every consumer makes and destroys.
DispatchDelta(m, id) ==
  Sum([c \in 1 .. Len(consumers) |-> Held(m, id) - GivenFrees(consumers[c], m, id)],
      Len(consumers))

GopDelta(m, id) ==
  (IF GopCopies(gop, m) THEN Held(m, id) ELSE 0) - Occurs(GopFrees(gop, m), id)

\* Mutant: the old header is not freed when a new one is cached.
CacheDeltaLeak(old, m, id) == Held(m, id)

\* rs_freep(cache); cache = m->Copy().
CacheDelta(old, m, id) == Held(m, id) - Held(old, id)
-----------------------------------------------------------------------------
SamePayload(a, b) == a.cls = b.cls /\ a.body = b.body

\* Mutant: every repeated header counts as the one in the cache.
DropAnyHeader(m) == IsVideoSeqenceHeader(m) /\ cache_sh_video # Null

\* drop_for_reduce of on_video_impl.
DropForReduce(m) ==
  /\ IsVideoSeqenceHeader(m)
  /\ cache_sh_video # Null
  /\ SamePayload(cache_sh_video, m)

(***************************************************************************)
(* on_video_impl(m).  base is shared_count when it is called.              *)
(***************************************************************************)
OnVideoImpl(m, base) ==
  LET sh       == IsVideoSeqenceHeader(m)
      failed   == sh /\ ~DemuxVideoOk(m)
      dispatch == ~failed /\ ~DropForReduce(m)
  IN  /\ cache_sh_video' = IF sh THEN m ELSE cache_sh_video
      /\ consumers' = IF dispatch
                      THEN [c \in 1 .. Len(consumers) |-> Given(consumers[c], m)]
                      ELSE consumers
      /\ gop' = IF sh THEN gop ELSE GopCacheMsg(gop, m)
      /\ shared_count' =
           [id \in 1 .. Published + 1 |->
              base[id]
                + (IF sh THEN CacheDelta(cache_sh_video, m, id) ELSE GopDelta(m, id))
                + (IF dispatch THEN DispatchDelta(m, id) ELSE 0)]
      /\ UNCHANGED cache_sh_audio

(***************************************************************************)
(* on_audio_impl(m).  DemuxAudio fails for every sequence header, so a     *)
(* header is dropped and the first frame after it takes its place in       *)
(* cache_sh_audio_.                                                        *)
(***************************************************************************)
OnAudioImpl(m, base) ==
  LET failed == IsAudioSeqenceHeader(m) /\ ~DemuxAudioOk(m)
      cached == ~failed /\ (IsAudioSeqenceHeader(m) \/ cache_sh_audio = Null)
  IN  /\ cache_sh_audio' = IF cached THEN m ELSE cache_sh_audio
      /\ consumers' = IF failed THEN consumers
                      ELSE [c \in 1 .. Len(consumers) |-> Given(consumers[c], m)]
      /\ gop' = IF failed \/ IsAudioSeqenceHeader(m) THEN gop ELSE GopCacheMsg(gop, m)
      /\ shared_count' =
           [id \in 1 .. Published + 1 |->
              base[id]
                + (IF cached THEN CacheDelta(cache_sh_audio, m, id) ELSE 0)
                + (IF failed THEN 0 ELSE DispatchDelta(m, id))
                + (IF failed \/ IsAudioSeqenceHeader(m) THEN 0 ELSE GopDelta(m, id))]
      /\ UNCHANGED cache_sh_video

(***************************************************************************)
(* OnAudio or OnVideo: create the shared message, push a copy, pop at most *)
(* one, relay it, free it, and destroy the local handle.                   *)
(***************************************************************************)
OnMessage(p) ==
  LET n      == Published + 1
      m      == [type |-> IF p[1] \in AudioClasses THEN "audio" ELSE "video",
                 cls  |-> p[1], body |-> p[2], ts |-> p[3], id |-> n]
      pushed == MixPush(mix, m)
      e      == MixBegin(pushed).msg
      \* Create counts 0, Copy adds one, the end of the call takes one.
      new    == Append(shared_count, 0 + 1 - 1)
      popped == [id \in 1 .. n |-> new[id] - Held(e, id)]
  IN  /\ n <= MaxMsgs
      /\ \/ /\ ~MixOk(pushed)
            /\ mix' = pushed
            /\ shared_count' = new
            /\ UNCHANGED <<cache_sh_video, cache_sh_audio, gop, consumers>>
         \/ /\ MixOk(pushed) /\ IsAudio(e)
            /\ mix' = MixPop(pushed)
            /\ OnAudioImpl(e, popped)
         \/ /\ MixOk(pushed) /\ ~IsAudio(e)
            /\ mix' = MixPop(pushed)
            /\ OnVideoImpl(e, popped)
-----------------------------------------------------------------------------
\* What CreateConsumer enqueues: the two cached headers and the GOP.
Primer ==
  (IF cache_sh_audio = Null THEN <<>> ELSE <<cache_sh_audio>>)
    \o (IF cache_sh_video = Null THEN <<>> ELSE <<cache_sh_video>>)
    \o gop.msgs

\* A new consumer after the first i messages of the primer.
PrimedTo[i \in 0 .. Len(Primer)] ==
  IF i = 0 THEN NewConsumer ELSE Given(PrimedTo[i - 1], Primer[i])

\* Handles to id made and destroyed while priming.
PrimedDelta(id) ==
  Sum([i \in 1 .. Len(Primer) |->
         Held(Primer[i], id) - GivenFrees(PrimedTo[i - 1], Primer[i], id)],
      Len(Primer))

CreateConsumer ==
  /\ Len(consumers) < MaxConsumers
  /\ consumers' = Append(consumers, PrimedTo[Len(Primer)])
  /\ shared_count' = [id \in 1 .. Published |-> shared_count[id] + PrimedDelta(id)]
  /\ UNCHANGED <<mix, cache_sh_video, cache_sh_audio, gop>>

\* A play session takes a batch, as in DoPlaying.
Dump(c) ==
  /\ consumers[c].inflight = <<>> /\ consumers[c].queue.msgs # <<>>
  /\ consumers' = [consumers EXCEPT ![c].inflight = Dumped(consumers[c].queue, MaxBatch),
                                    ![c].queue    = DumpPackets(@, MaxBatch)]
  /\ UNCHANGED <<mix, cache_sh_video, cache_sh_audio, gop, shared_count>>

\* SendAndFreeMessages frees the batch.
Sent(c) ==
  /\ consumers[c].inflight # <<>>
  /\ consumers' = [consumers EXCEPT ![c].inflight = <<>>]
  /\ shared_count' = [id \in 1 .. Published |->
                        shared_count[id] - Occurs(consumers[c].inflight, id)]
  /\ UNCHANGED <<mix, cache_sh_video, cache_sh_audio, gop>>
-----------------------------------------------------------------------------
Init ==
  /\ mix = EmptyMix
  /\ cache_sh_video = Null /\ cache_sh_audio = Null
  /\ gop = EmptyGop
  /\ consumers = <<>>
  /\ shared_count = <<>>

Publish == \E p \in Inputs : OnMessage(p)

Next ==
  \/ Publish
  \/ CreateConsumer
  \/ \E c \in 1 .. Len(consumers) : Dump(c) \/ Sent(c)

Spec == Init /\ [][Next]_vars
-----------------------------------------------------------------------------
\* Handles to payload id that a consumer holds: in its window and in its batch.
Owned(c, id) == Occurs(c.queue.msgs, id) + Occurs(c.inflight, id)

\* Live handles to payload id: reorder buffer, caches, GOP, every window, every batch.
Holders(id) ==
  Cardinality({e \in mix.msgs : e.msg.id = id})
    + Held(cache_sh_video, id) + Held(cache_sh_audio, id)
    + Occurs(gop.msgs, id)
    + Sum([c \in 1 .. Len(consumers) |-> Owned(consumers[c], id)], Len(consumers))

(***************************************************************************)
(* The reference count of every payload is the number of handles to it     *)
(* that the relay still holds, less one: no payload is freed while the     *)
(* reorder buffer, a cache, the GOP, a window or a batch in flight points  *)
(* to it, and one that nobody holds has been freed, once.                  *)
(***************************************************************************)
RefCountsExact == \A id \in 1 .. Published : shared_count[id] + 1 = Holders(id)

(***************************************************************************)
(* The two counters of the GOP cache describe its content whatever mixture *)
(* of frames has passed: PureAudio and the pure-audio guess rest on them.  *)
(***************************************************************************)
GopCountersExact ==
  LET videos == {i \in 1 .. Len(gop.msgs) : IsVideo(gop.msgs[i])}
  IN  /\ gop.cached_video_count = Cardinality(videos)
      /\ gop.audio_after =
           Cardinality({i \in 1 .. Len(gop.msgs) : \A v \in videos : v < i})
      /\ gop.audio_after <= PureAudioGuess

(***************************************************************************)
(* While the cached video sequence header is a usable one, every consumer, *)
(* whenever it joined, was last given exactly that header: dropping        *)
(* repeated headers never leaves a consumer with an old one.               *)
(***************************************************************************)
ConsumersHaveHeader ==
  cache_sh_video # Null /\ DemuxVideoOk(cache_sh_video) =>
    \A c \in 1 .. Len(consumers) : consumers[c].header = cache_sh_video.body
=============================================================================
